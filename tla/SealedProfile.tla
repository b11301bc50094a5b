--------------------------- MODULE SealedProfile ---------------------------
(***************************************************************************)
(* What a profile promises of its data key, without processes, fences,     *)
(* headers, files or crashes.  All rows are sealed with one key.  A        *)
(* rotation replaces it and seals every row again in one step, and the key *)
(* it replaces is then among those something remains of.  What remains of  *)
(* replaced keys is only ever removed: nothing of a key that was cleaned   *)
(* up comes back.                                                          *)
(***************************************************************************)
EXTENDS Integers

VARIABLES
  key,       \* the data key; later keys have greater numbers
  rows,      \* the keys the rows are sealed with
  remains    \* the replaced keys that something is left of

vars == <<key, rows, remains>>

Init == key = 0 /\ rows = {0} /\ remains = {}

Rotate ==
  /\ key' > key
  /\ rows' = {key'}
  /\ remains' = remains \cup {key}

Erase ==
  /\ remains' \subseteq remains
  /\ UNCHANGED <<key, rows>>

Next == Rotate \/ Erase

Spec == Init /\ [][Next]_vars
=============================================================================
