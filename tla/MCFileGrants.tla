---------------------------- MODULE MCFileGrants ----------------------------
(* TLC's instance of FileGrants: interchangeable profiles and threads.     *)
EXTENDS FileGrants, TLC

Symmetry == Permutations(Profile) \cup Permutations(Chooser) \cup Permutations(Ingester)
=============================================================================
