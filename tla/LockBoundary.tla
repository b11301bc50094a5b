---------------------------- MODULE LockBoundary ----------------------------
(***************************************************************************)
(* What the desktop lock boundary promises to its users, without threads,  *)
(* locks, keys or profiles.  The boundary has a generation and is open or  *)
(* closed.  Work obtains a pass while it is open, and is inside while it   *)
(* enqueues a payload for the webview.  The boundary moves only while      *)
(* nobody is inside, and a pass of an earlier generation admits nobody.    *)
(***************************************************************************)
EXTENDS Naturals

CONSTANT Work

VARIABLES
    open,      \* payloads may be delivered
    gen,       \* the generation, moved by every lock and every publication
    pass,      \* pass[w]: the generation w was admitted in, as a set of at most one
    inside     \* the work that is delivering

vars == <<open, gen, pass, inside>>

Init ==
    /\ open = FALSE
    /\ gen = 0
    /\ pass = [w \in Work |-> {}]
    /\ inside = {}

\* A lock, a publication, a credential rotation or an enrollment.
Move ==
    /\ inside = {}
    /\ open' = FALSE
    /\ gen' = gen + 1
    /\ UNCHANGED <<pass, inside>>

\* An unlock or the end of a publication opens; a failed unlock closes.
Settle ==
    /\ inside = {}
    /\ open' \in BOOLEAN
    /\ UNCHANGED <<gen, pass, inside>>

Admit(w) ==
    /\ open
    /\ pass[w] = {}
    /\ pass' = [pass EXCEPT ![w] = {gen}]
    /\ UNCHANGED <<open, gen, inside>>

Enter(w) ==
    /\ open
    /\ pass[w] = {gen}
    /\ inside' = inside \cup {w}
    /\ UNCHANGED <<open, gen, pass>>

Leave(w) ==
    /\ inside' = inside \ {w}
    /\ UNCHANGED <<open, gen, pass>>

\* The work ends, with the reply it was delivering if any.
Retire(w) ==
    /\ inside' = inside \ {w}
    /\ pass' = [pass EXCEPT ![w] = {}]
    /\ UNCHANGED <<open, gen>>

Next ==
    \/ Move \/ Settle
    \/ \E w \in Work : Admit(w) \/ Enter(w) \/ Leave(w) \/ Retire(w)

Spec == Init /\ [][Next]_vars
=============================================================================
