--------------------------- MODULE MCLoadExecutor ---------------------------
(* Model checking of LoadExecutor.                                         *)
EXTENDS LoadExecutor

CONSTANTS s1, s2
=============================================================================
