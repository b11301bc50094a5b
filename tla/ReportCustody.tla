--------------------------- MODULE ReportCustody ---------------------------
(***************************************************************************)
(* What becomes of the report of a load run, without locks, keys, flushes, *)
(* workers or threads.  A run belongs to the profile it started under,     *)
(* once and for all.  Its report is stored there, or is answered as lost,  *)
(* or waits; a report that waits is stored later, and lost only with its   *)
(* workspace.  Nothing is stored in a workspace that was deleted, and what *)
(* was stored stays until then.                                            *)
(***************************************************************************)
CONSTANTS Profile, Run

VARIABLES
    home,     \* home[r]: the profile of r, as a set of at most one
    ws,       \* the profiles whose workspace exists
    stored,   \* stored[p]: the reports kept in p
    waiting,  \* the reports kept back until their profile is open again
    lost      \* the reports that were answered as not kept

vars == <<home, ws, stored, waiting, lost>>

Init ==
    /\ home = [r \in Run |-> {}]
    /\ ws = Profile
    /\ stored = [p \in Profile |-> {}]
    /\ waiting = {} /\ lost = {}

Start(r, p) ==
    /\ home[r] = {}
    /\ home' = [home EXCEPT ![r] = {p}]
    /\ UNCHANGED <<ws, stored, waiting, lost>>

\* The report has not gone anywhere yet.
Fresh(r) == home[r] # {} /\ r \notin waiting \cup lost /\ \A p \in Profile : r \notin stored[p]

Wait(r) ==
    /\ Fresh(r)
    /\ waiting' = waiting \cup {r}
    /\ UNCHANGED <<home, ws, stored, lost>>

Store(r, p) ==
    /\ Fresh(r) \/ r \in waiting
    /\ home[r] = {p} /\ p \in ws
    /\ stored' = [stored EXCEPT ![p] = @ \cup {r}]
    /\ waiting' = waiting \ {r}
    /\ UNCHANGED <<home, ws, lost>>

Lose(r) ==
    /\ Fresh(r) \/ (r \in waiting /\ home[r] \cap ws = {})
    /\ lost' = lost \cup {r}
    /\ waiting' = waiting \ {r}
    /\ UNCHANGED <<home, ws, stored>>

Delete(p) ==
    /\ p \in ws
    /\ ws' = ws \ {p}
    /\ stored' = [stored EXCEPT ![p] = {}]
    /\ lost' = lost \cup stored[p]
    /\ UNCHANGED <<home, waiting>>

Next ==
    \/ \E r \in Run : Wait(r) \/ Lose(r) \/ \E p \in Profile : Start(r, p) \/ Store(r, p)
    \/ \E p \in Profile : Delete(p)

Spec == Init /\ [][Next]_vars
=============================================================================
