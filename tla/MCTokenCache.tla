---------------------------- MODULE MCTokenCache ----------------------------
(* TLC's instance of TokenCache: every key belongs to the one workspace.   *)
EXTENDS TokenCache, TLC

OneWorkspace == [k \in Key |-> CHOOSE p \in Partition : TRUE]
=============================================================================
