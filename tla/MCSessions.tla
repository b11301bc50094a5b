----------------------------- MODULE MCSessions -----------------------------
(* TLC's instance of Sessions.  Its run checks liveness, which symmetry    *)
(* would make unsound: none is declared.                                   *)
EXTENDS Sessions
=============================================================================
