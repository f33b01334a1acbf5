-------------------------- MODULE MCDocumentIndexing --------------------------
(* Small instances of DocumentIndexing for TLC. *)
EXTENDS DocumentIndexing, TLC

CONSTANTS d1, d2, l1, m1, m2, p1, p2

TwoProviders == <<p1, p2>>
Reversed == {<<p2, p1>>}

Documents == Permutations(Document)

=============================================================================
