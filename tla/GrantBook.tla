----------------------------- MODULE GrantBook -----------------------------
(***************************************************************************)
(* The life of a file grant, without profiles, threads, dialogs or         *)
(* generations.  A number is granted once.  A grant can be presented until *)
(* it is taken, withdrawn or evicted; taken for a write it is used up, or  *)
(* given back if the write fails; taken for a private key it is used up or *)
(* lost.  A revocation withdraws everything at once, and what is taken at  *)
(* that moment is barred: it can finish a write, but neither come back nor *)
(* bring a key in.  A grant that is used or gone stays so.                 *)
(***************************************************************************)
EXTENDS Naturals

CONSTANT Serial     \* the numbers grants are known by

VARIABLES
    usable,             \* the grants that can be presented
    writing, claiming,  \* those taken for a write, and for a private key
    barred,             \* those taken before the last revocation
    used, gone

vars == <<usable, writing, claiming, barred, used, gone>>

known == usable \cup writing \cup claiming \cup used \cup gone

Init ==
    /\ usable = {} /\ writing = {} /\ claiming = {} /\ barred = {}
    /\ used = {} /\ gone = {}

\* One more grant can be presented, or the oldest makes room.
Enters(s) ==
    \/ usable' = usable \cup {s} /\ UNCHANGED gone
    \/ \E d \in usable \cup {s} :
        /\ \A x \in usable \cup {s} : d <= x
        /\ usable' = (usable \cup {s}) \ {d}
        /\ gone' = gone \cup {d}

Grant(s) == s \notin known /\ Enters(s) /\ UNCHANGED <<writing, claiming, barred, used>>

\* A choice that a revocation overtook is never granted.
Refuse(s) == s \notin known /\ gone' = gone \cup {s} /\ UNCHANGED <<usable, writing, claiming, barred, used>>

Withdraw(s) ==
    /\ s \in usable
    /\ usable' = usable \ {s} /\ gone' = gone \cup {s}
    /\ UNCHANGED <<writing, claiming, barred, used>>

Revoke ==
    /\ usable' = {} /\ gone' = gone \cup usable
    /\ barred' = writing \cup claiming
    /\ UNCHANGED <<writing, claiming, used>>

Take(s) ==
    /\ s \in usable
    /\ usable' = usable \ {s}
    /\ \/ writing' = writing \cup {s} /\ UNCHANGED claiming
       \/ claiming' = claiming \cup {s} /\ UNCHANGED writing
    /\ UNCHANGED <<barred, used, gone>>

\* s is no longer taken.
Released(s) == writing' = writing \ {s} /\ claiming' = claiming \ {s} /\ barred' = barred \ {s}

Use(s) ==
    /\ s \in writing \/ (s \in claiming /\ s \notin barred)
    /\ Released(s)
    /\ used' = used \cup {s}
    /\ UNCHANGED <<usable, gone>>

GiveBack(s) ==
    /\ s \in writing /\ s \notin barred
    /\ Released(s) /\ Enters(s)
    /\ UNCHANGED used

Lose(s) ==
    /\ s \in claiming \/ s \in barred
    /\ Released(s)
    /\ gone' = gone \cup {s}
    /\ UNCHANGED <<usable, used>>

Next ==
    \/ Revoke
    \/ \E s \in Serial :
        \/ Grant(s) \/ Refuse(s) \/ Withdraw(s) \/ Take(s)
        \/ Use(s) \/ GiveBack(s) \/ Lose(s)

Spec == Init /\ [][Next]_vars
=============================================================================
