-------------------------- MODULE MCVerifiedImages --------------------------
(* TLC instance of VerifiedImages: one or two graph blobs and three        *)
(* records, all of size one under a quota that admits everything.          *)
EXTENDS VerifiedImages, TLC

MCSize == [d \in Digests |-> 1]
MCSymmetry == Permutations(Records) \cup Permutations(Graph)
=============================================================================
