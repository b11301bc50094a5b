--------------------------- MODULE MCEngineCaches ---------------------------
(* Model checking of EngineCaches.                                         *)
EXTENDS EngineCaches, TLC

CONSTANTS e1, e2, c1, c2, w

Symmetry == Permutations(Exec) \cup Permutations(Conn)
=============================================================================
