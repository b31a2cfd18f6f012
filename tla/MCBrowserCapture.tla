-------------------------- MODULE MCBrowserCapture --------------------------
EXTENDS BrowserCapture, TLC

\* A plain response, one of unknown length, and one longer than it declares.
ResponsesDef == {"plain", "chunked", "liar"}
DeclaredDef == "plain" :> 1 @@ "chunked" :> 0 @@ "liar" :> 1
ActualDef == "plain" :> 1 @@ "chunked" :> 2 @@ "liar" :> 2
=============================================================================
