--------------------------- MODULE MCKeyRotation ---------------------------
(* Model checking of KeyRotation: two processes, two rotations, one crash. *)
EXTENDS KeyRotation, TLC

CONSTANTS p1, p2

Symmetry == Permutations(Process)
=============================================================================
