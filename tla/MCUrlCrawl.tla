----------------------------- MODULE MCUrlCrawl -----------------------------
(* UrlCrawl on small instances: two product URLs, one of which also occurs with
   a query key that canonical_public_record_url removes. *)
EXTENDS UrlCrawl

MCCanonical(u) == IF u = "a?sku" THEN "a" ELSE u

R(u, c) == [url |-> u, content |-> c]

MCYields == {<<>>, <<R("a", 1)>>, <<R("a", 2), R("b", 1)>>, <<R("a?sku", 1)>>, <<R("b", 1), R("b", 2)>>}
=============================================================================
