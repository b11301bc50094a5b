--------------------------- MODULE MCLoadReports ---------------------------
(* TLC's instance of LoadReports: interchangeable profiles, runs, threads. *)
EXTENDS LoadReports, TLC

Symmetry == Permutations(Profile) \cup Permutations(Opener) \cup Permutations(Run)
=============================================================================
