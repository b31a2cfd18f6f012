-------------------------- MODULE MCFetchEscalation --------------------------
(* FetchEscalation on small instances: every mode, one direct connection or two
   proxies, and a host row that up to two earlier fetches have left. *)
EXTENDS FetchEscalation

R(mode, prefer, forced, chrome, hard_, handoff, proxies) ==
  [mode |-> mode, prefer |-> prefer, forced |-> forced, chrome |-> chrome, hard |-> hard_,
   handoff |-> handoff, cookies |-> handoff, proxies |-> proxies]

Direct == <<"direct">>
Two    == <<"p1", "p2">>

MCRequests ==
  {R("auto", FALSE, "none", TRUE, FALSE, FALSE, Two),
   R("auto", FALSE, "none", TRUE, FALSE, TRUE, Direct),
   R("auto", TRUE, "none", FALSE, FALSE, FALSE, Direct),
   R("auto", FALSE, "real_chrome", TRUE, TRUE, FALSE, Direct),
   R("browser_only", FALSE, "none", TRUE, FALSE, TRUE, Direct),
   R("http_then_browser", TRUE, "none", TRUE, FALSE, FALSE, Direct),
   R("http_only", FALSE, "none", TRUE, FALSE, FALSE, Direct),
   R("http_only", FALSE, "none", TRUE, TRUE, FALSE, Direct)}

MCRows ==
  {NoBlocks,
   HardBlock(NoBlocks, "http", "challenge"),
   HardBlock(UsableFetch(NoBlocks, "real_chrome"), "patchright", "vendor"),
   UsableFetch(HardBlock(NoBlocks, "http", "denied"), "real_chrome")}

MCOverheard == {<<"http", "good">>, <<"real_chrome", "vendor">>, <<"patchright", "challenge">>}

OneRequest == {R("browser_only", FALSE, "none", FALSE, FALSE, FALSE, Direct)}
CleanRow == {NoBlocks}
=============================================================================
