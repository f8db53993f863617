------------------------- MODULE MC_DocumentStore -------------------------
(* Instance of DocumentStore for TLC.                                      *)
EXTENDS DocumentStore, TLC

CONSTANTS r1, r2, r3, c1, c2

Symmetry == Permutations(Requests) \cup Permutations(Contents)
=============================================================================
