---------------------------- MODULE MCBrowserPool ----------------------------
(* BrowserPool for TLC: the .cfg files choose the lanes, fetches and limits. *)
EXTENDS BrowserPool, TLC

(* Fetches, runtime objects and proxied lanes are interchangeable: for the
   safety runs. *)
Interchangeable ==
  Permutations(Fetchers) \cup Permutations(Runtimes) \cup Permutations(Keys \ Direct)
=============================================================================
