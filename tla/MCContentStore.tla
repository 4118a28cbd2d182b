--------------------------- MODULE MCContentStore ---------------------------
(* TLC instance of ContentStore: one blob of one byte, the others of two,  *)
(* and a quota that admits only some of the combinations.                  *)
EXTENDS ContentStore, TLC

CONSTANT d1

MCSize == [d \in Digests |-> IF d = d1 THEN 1 ELSE 2]
MCSymmetry == Permutations(Clients) \cup Permutations(Digests \ {d1})
=============================================================================
