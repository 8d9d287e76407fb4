------------------------------ MODULE MCRegistry ------------------------------
(* Registry with two administrators, for TLC.                               *)
EXTENDS Registry, TLC

CONSTANTS a1, a2, doc1, doc2

Symmetry == Permutations({a1, a2})
=============================================================================
