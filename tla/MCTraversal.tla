----------------------------- MODULE MCTraversal -----------------------------
(* A listing of a few cards, which are interchangeable; a second page of one card;
   a page of another origin. *)
EXTENDS Traversal, TLC

CONSTANT NextCards

MCOn == [u \in Pages |-> CASE u = "home" -> Cards \ NextCards
                           [] u = "next" -> NextCards
                           [] OTHER      -> {}]

MCOrigin == [u \in Pages |-> IF u = "away" THEN "other" ELSE "shop"]

Interchangeable == Permutations(Cards \ NextCards)
=============================================================================
