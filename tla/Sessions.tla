------------------------------ MODULE Sessions ------------------------------
(***************************************************************************)
(* Interactive sessions on the desktop: cmd_sessions.rs, with the session  *)
(* registry and PendingEntry of state.rs and the SessionHandle of          *)
(* anvil-engine/src/sessions.rs.                                           *)
(*                                                                         *)
(* An attempt is one session_open: the command, the slot it registers      *)
(* under a renderer's execution id, the engine task behind its handle, and *)
(* the watcher that retires it.  Execution ids are the renderer's and are  *)
(* used again; an attempt id is fresh, so it is the attempt itself.        *)
(* Controls are session_send and session_cancel commands.                  *)
(*                                                                         *)
(* The boundary is the one of DesktopState, whose proofs justify taking    *)
(* deliver_payload as one step: fence, stop the work, open again.  A lock  *)
(* followed by an unlock and the opening of another profile look the same  *)
(* from here: the epoch has moved.  The slot's async mutex is held over    *)
(* several steps only by a send; everyone else takes it for one step.      *)
(***************************************************************************)
EXTENDS Naturals

CONSTANTS
    Attempt,
    Id,           \* execution ids
    Send, Cancel, \* session_send and session_cancel commands in flight
    None,
    Capacity,     \* COMMAND_QUEUE
    MaxEpoch      \* bound: boundary moves

Control == Send \cup Cancel

ASSUME NoneAssumption == None \notin Attempt \cup Control /\ Send \cap Cancel = {}
ASSUME CapacityAssumption == Capacity \in Nat \ {0}
ASSUME BoundAssumption == MaxEpoch \in Nat

VARIABLES
    epoch, gate,
    stopping,     \* a boundary move has still to stop the registered work
    sessions,     \* the attempt whose slot is registered under each id
    running,      \* the attempt whose PendingEntry is registered under each id
    pc, id, fence,
    token,        \* the slots whose cancellation token is canceled
    inSlot,       \* the slots that hold their session handle
    engine,       \* the engine task behind the handle
    engineCancel, \* the sessions told to stop through their handle
    queue,        \* commands in the bounded queue of a session
    mutex,        \* the send that holds the slot's mutex
    aborting,     \* slots some spawned abort is still waiting for
    cPc, cWant, cSlot,
    told,         \* the attempts whose end was reported to the window
    replaced      \* history: attempts whose id was registered again

bound == <<epoch, gate, stopping>>
registry == <<sessions, running>>
opening == <<pc, id, fence>>
task == <<inSlot, engine, engineCancel>>
control == <<cPc, cWant, cSlot>>
report == <<told, replaced>>
vars == <<bound, registry, opening, token, task, queue, mutex, aborting, control, report>>

Pc == {"idle", "admitted", "dialog", "opening", "opened", "published",
       "live", "taken", "ending", "fenced", "done"}
ControlPc == {"idle", "admitted", "waiting", "holding"}

\* Types of the registries, attempts and controls.
TypeOK ==
    /\ epoch \in Nat /\ gate \in BOOLEAN /\ stopping \in BOOLEAN
    /\ sessions \in [Id -> Attempt \cup {None}]
    /\ running \in [Id -> Attempt \cup {None}]
    /\ pc \in [Attempt -> Pc]
    /\ id \in [Attempt -> Id]
    /\ fence \in [Attempt -> Nat]
    /\ token \in SUBSET Attempt
    /\ inSlot \in SUBSET Attempt /\ engineCancel \in SUBSET Attempt
    /\ engine \in [Attempt -> {"none", "running", "ended"}]
    /\ queue \in [Attempt -> 0..Capacity]
    /\ mutex \in [Attempt -> Control \cup {None}]
    /\ aborting \in SUBSET Attempt
    /\ cPc \in [Control -> ControlPc]
    /\ cWant \in [Control -> Attempt \cup {None}] /\ cSlot \in [Control -> Attempt \cup {None}]
    /\ told \in SUBSET Attempt /\ replaced \in SUBSET Attempt

Init ==
    /\ epoch = 0 /\ gate = TRUE /\ stopping = FALSE
    /\ sessions = [i \in Id |-> None] /\ running = [i \in Id |-> None]
    /\ pc = [a \in Attempt |-> "idle"]
    /\ id \in [Attempt -> Id]
    /\ fence = [a \in Attempt |-> 0]
    /\ token = {}
    /\ inSlot = {} /\ engineCancel = {} /\ engine = [a \in Attempt |-> "none"]
    /\ queue = [a \in Attempt |-> 0]
    /\ mutex = [a \in Attempt |-> None]
    /\ aborting = {}
    /\ cPc = [c \in Control |-> "idle"]
    /\ cWant = [c \in Control |-> None] /\ cSlot = [c \in Control |-> None]
    /\ told = {} /\ replaced = {}

----------------------------------------------------------------------------
(* The boundary (state.rs).                                                *)

\* lock_under_transition, set_app_since: exclusive access to the gate.
Fence ==
    /\ ~stopping /\ epoch < MaxEpoch
    /\ epoch' = epoch + 1 /\ gate' = FALSE /\ stopping' = TRUE
    /\ UNCHANGED <<registry, opening, token, task, queue, mutex, aborting, control, report>>

Registered == {a \in Attempt : \E i \in Id : a \in {sessions[i], running[i]}}
Slots == {a \in Attempt : \E i \in Id : a = sessions[i]}

\* stop_work drains both registries, cancels what they held, and spawns an
\* abort for every slot.
StopWork ==
    /\ stopping
    /\ stopping' = FALSE
    /\ token' = token \cup Registered
    /\ aborting' = aborting \cup Slots
    /\ sessions' = [i \in Id |-> None] /\ running' = [i \in Id |-> None]
    /\ UNCHANGED <<epoch, gate, opening, task, queue, mutex, control, report>>

\* unlock_since, or the end of a publication.
Unlock ==
    /\ ~stopping /\ ~gate
    /\ gate' = TRUE
    /\ UNCHANGED <<epoch, stopping, registry, opening, token, task, queue, mutex, aborting, control, report>>

\* deliver_payload admits the fence of a.
Valid(a) == gate /\ fence[a] = epoch

----------------------------------------------------------------------------
(* session_open.                                                           *)

Goto(a, p) == pc' = [pc EXCEPT ![a] = p]

\* dispatch_payload_command: admit_payload.
Admit(a) ==
    /\ pc[a] = "idle"
    /\ gate
    /\ fence' = [fence EXCEPT ![a] = epoch]
    /\ Goto(a, "admitted")
    /\ UNCHANGED <<bound, registry, id, token, task, queue, mutex, aborting, control, report>>

\* register_session: a slot and a PendingEntry that share one token, unless
\* the id has one of the two already.  Then the context is built and the
\* session opened, both raced against the token; a draft asks the user in
\* between.
RegisterSession(a) ==
    /\ pc[a] = "admitted"
    /\ Valid(a) /\ sessions[id[a]] = None /\ running[id[a]] = None
    /\ sessions' = [sessions EXCEPT ![id[a]] = a]
    /\ running' = [running EXCEPT ![id[a]] = a]
    /\ \E p \in {"dialog", "opening"} : Goto(a, p)
    /\ replaced' = replaced \cup {b \in Attempt \ {a} : id[b] = id[a] /\ pc[b] \notin {"idle", "admitted"}}
    /\ UNCHANGED <<bound, id, fence, token, task, queue, mutex, aborting, control, told>>

\* The command returns an error, which tells the window.
RegistrationRefused(a) ==
    /\ pc[a] = "admitted"
    /\ ~(Valid(a) /\ sessions[id[a]] = None /\ running[id[a]] = None)
    /\ Goto(a, "done") /\ told' = told \cup {a}
    /\ UNCHANGED <<bound, registry, id, fence, token, task, queue, mutex, aborting, control, replaced>>

\* The user confirms the draft, and the token is looked at again.
Confirm(a) ==
    /\ pc[a] = "dialog" /\ a \notin token
    /\ Goto(a, "opening")
    /\ UNCHANGED <<bound, registry, id, fence, token, task, queue, mutex, aborting, control, report>>

\* Mutant: the finalizer removes whatever is registered under the id.
RemoveSlot_ById(a) == sessions' = [sessions EXCEPT ![id[a]] = None]

\* remove_slot: only this exact slot.
RemoveSlot(a) == sessions' = [i \in Id |-> IF sessions[i] = a THEN None ELSE sessions[i]]

\* PendingEntry::drop: only its own token.
DropEntry(a) == running' = [i \in Id |-> IF running[i] = a THEN None ELSE running[i]]

\* Mutant: SessionRegistration is not dropped.
AbandonOpen_KeepsSlot(a) ==
    /\ pc[a] \in {"dialog", "opening"}
    /\ Goto(a, "done") /\ told' = told \cup {a}
    /\ DropEntry(a)
    /\ UNCHANGED <<bound, sessions, id, fence, token, task, queue, mutex, aborting, control, replaced>>

\* A failure, a refusal by the user or a cancel ends the open before its
\* handle exists: the entry and the registration are dropped, and the error
\* is returned.
AbandonOpen(a) ==
    /\ pc[a] \in {"dialog", "opening"}
    /\ Goto(a, "done") /\ told' = told \cup {a}
    /\ RemoveSlot(a) /\ DropEntry(a)
    /\ UNCHANGED <<bound, id, fence, token, task, queue, mutex, aborting, control, replaced>>

\* PendingEntry::open: open_session returns a handle (a failed preparation
\* returns one whose task has ended), and the entry is retired.
OpenCompletes(a) ==
    /\ pc[a] = "opening"
    /\ \E t \in {"running", "ended"} : engine' = [engine EXCEPT ![a] = t]
    /\ DropEntry(a)
    /\ Goto(a, "opened")
    /\ UNCHANGED <<bound, sessions, id, fence, token, inSlot, engineCancel, queue, mutex, aborting, control, report>>

\* publish_handle, under the slot's mutex: a refused fence keeps the handle
\* for the watcher only, and cancels the slot.
PublishHandle(a) ==
    /\ pc[a] = "opened" /\ mutex[a] = None
    /\ inSlot' = inSlot \cup {a}
    /\ token' = IF Valid(a) THEN token ELSE token \cup {a}
    /\ Goto(a, "published")
    /\ UNCHANGED <<bound, registry, id, fence, engine, engineCancel, queue, mutex, aborting, control, report>>

\* publish_handle, after the mutex: OpenSession::abort if the slot was
\* canceled meanwhile; then the watcher starts.
StartWatcher(a) ==
    /\ pc[a] = "published"
    /\ \/ a \notin token /\ UNCHANGED engineCancel
       \/ a \in token /\ mutex[a] = None /\ engineCancel' = engineCancel \cup {a}
    /\ Goto(a, "live")
    /\ UNCHANGED <<bound, registry, id, fence, token, inSlot, engine, queue, mutex, aborting, control, report>>

----------------------------------------------------------------------------
(* The engine task (external: the protocol adapters and the peer).         *)

Consume(a) ==
    /\ engine[a] = "running" /\ queue[a] > 0
    /\ queue' = [queue EXCEPT ![a] = @ - 1]
    /\ UNCHANGED <<bound, registry, opening, token, task, mutex, aborting, control, report>>

\* The peer or the script ends the session, or a canceled task ends, at the
\* latest when its grace is over.
EngineEnds(a) ==
    /\ engine[a] = "running"
    /\ engine' = [engine EXCEPT ![a] = "ended"]
    /\ UNCHANGED <<bound, registry, opening, token, inSlot, engineCancel, queue, mutex, aborting, control, report>>

----------------------------------------------------------------------------
(* The watcher.                                                            *)

\* The task is finished: the handle is taken out of the slot ...
TakeHandle(a) ==
    /\ pc[a] = "live" /\ engine[a] = "ended" /\ mutex[a] = None
    /\ inSlot' = inSlot \ {a}
    /\ Goto(a, "taken")
    /\ UNCHANGED <<bound, registry, id, fence, token, engine, engineCancel, queue, mutex, aborting, control, report>>

\* ... the slot is retired, the record stored and the handle dropped
\* (finish_session).
RetireSlot(a) ==
    /\ pc[a] = "taken"
    /\ RemoveSlot(a)
    /\ Goto(a, "ending")
    /\ engine' = [engine EXCEPT ![a] = "none"] /\ engineCancel' = engineCancel \ {a}
    /\ queue' = [queue EXCEPT ![a] = 0]
    /\ UNCHANGED <<bound, running, id, fence, token, inSlot, mutex, aborting, control, report>>

\* emit_ended's deliver: silent once the id is registered again.
Deliver(a) == told' = IF sessions[id[a]] \in {None, a} THEN told \cup {a} ELSE told

\* Mutant: no scalar fallback, a refused fence ends the report.
EmitEnded_NoFallback(a) ==
    /\ pc[a] = "ending"
    /\ \/ Valid(a) /\ Deliver(a)
       \/ ~Valid(a) /\ UNCHANGED told
    /\ Goto(a, "done")
    /\ UNCHANGED <<bound, registry, id, fence, token, task, queue, mutex, aborting, control, replaced>>

\* emit_ended: the view is delivered under the fence.
EmitEnded(a) ==
    /\ pc[a] = "ending"
    /\ \/ Valid(a) /\ Deliver(a) /\ Goto(a, "done")
       \/ ~Valid(a) /\ UNCHANGED told /\ Goto(a, "fenced")
    /\ UNCHANGED <<bound, registry, id, fence, token, task, queue, mutex, aborting, control, replaced>>

\* The fence was refused: the scalar LOCKED, delivered without it.
EmitLocked(a) ==
    /\ pc[a] = "fenced"
    /\ Deliver(a)
    /\ Goto(a, "done")
    /\ UNCHANGED <<bound, registry, id, fence, token, task, queue, mutex, aborting, control, replaced>>

----------------------------------------------------------------------------
(* Controls.                                                               *)

\* OpenSession::abort, spawned: once the slot's mutex is free, the session
\* in the slot, if any, is canceled.
Abort(a) ==
    /\ a \in aborting /\ mutex[a] = None
    /\ aborting' = aborting \ {a}
    /\ engineCancel' = IF a \in inSlot THEN engineCancel \cup {a} ELSE engineCancel
    /\ UNCHANGED <<bound, registry, opening, token, inSlot, engine, queue, mutex, control, report>>

\* cancel_execution: cancel_pending, while the attempt is opening.
CancelPending(i) ==
    /\ running[i] # None
    /\ token' = token \cup {running[i]}
    /\ UNCHANGED <<bound, registry, opening, task, queue, mutex, aborting, control, report>>

\* Mutant: the execution id alone names the session.
Resolves_ByIdOnly(want) == sessions[id[want]]

\* admit_control: the slot under the id, if it is the expected attempt's.
Resolves(want) == IF sessions[id[want]] = want THEN want ELSE None

AdmitControl(c) ==
    /\ cPc[c] = "idle"
    /\ gate
    /\ \E want \in Attempt :
          /\ pc[want] # "idle"
          /\ Resolves(want) # None /\ fence[Resolves(want)] = epoch
          /\ cWant' = [cWant EXCEPT ![c] = want]
          /\ cSlot' = [cSlot EXCEPT ![c] = Resolves(want)]
    /\ cPc' = [cPc EXCEPT ![c] = "admitted"]
    /\ UNCHANGED <<bound, registry, opening, token, task, queue, mutex, aborting, report>>

\* The fence of the control is that of its slot (same_owner).
CheckSlot(c) == Valid(cSlot[c]) /\ sessions[id[cSlot[c]]] = cSlot[c]

ControlEnds(c) ==
    /\ cPc' = [cPc EXCEPT ![c] = "idle"]
    /\ cWant' = [cWant EXCEPT ![c] = None] /\ cSlot' = [cSlot EXCEPT ![c] = None]
    /\ mutex' = [a \in Attempt |-> IF mutex[a] = c THEN None ELSE mutex[a]]

\* session_cancel: the token is signaled under the gate before the abort
\* waits for the slot.
SessionCancel(c) ==
    /\ cPc[c] = "admitted"
    /\ \/ CheckSlot(c) /\ token' = token \cup {cSlot[c]} /\ aborting' = aborting \cup {cSlot[c]}
       \/ ~CheckSlot(c) /\ UNCHANGED <<token, aborting>>
    /\ ControlEnds(c)
    /\ UNCHANGED <<bound, registry, opening, task, queue, report>>

\* session_send, up to the slot's mutex.
SendBegins(c) ==
    /\ cPc[c] = "admitted"
    /\ CheckSlot(c)
    /\ cPc' = [cPc EXCEPT ![c] = "waiting"]
    /\ UNCHANGED <<bound, registry, opening, token, task, queue, mutex, aborting, cWant, cSlot, report>>

\* The slot was retired or the fence refused; or the workspace was edited since
\* the context was built, and the stale context cancels the slot.
SendRefused(c) ==
    /\ cPc[c] \in {"admitted", "holding"}
    /\ \/ ~CheckSlot(c) /\ UNCHANGED token
       \/ pc[cSlot[c]] # "dialog" /\ token' = token \cup {cSlot[c]}
    /\ ControlEnds(c)
    /\ UNCHANGED <<bound, registry, opening, task, queue, aborting, report>>

SendLocks(c) ==
    /\ cPc[c] = "waiting" /\ mutex[cSlot[c]] = None
    /\ cSlot[c] \in inSlot
    /\ mutex' = [mutex EXCEPT ![cSlot[c]] = c]
    /\ cPc' = [cPc EXCEPT ![c] = "holding"]
    /\ UNCHANGED <<bound, registry, opening, token, task, queue, aborting, cWant, cSlot, report>>

\* The slot holds no handle: not yet, or no longer.
SendFindsNone(c) ==
    /\ cPc[c] = "waiting" /\ mutex[cSlot[c]] = None
    /\ cSlot[c] \notin inSlot
    /\ ControlEnds(c)
    /\ UNCHANGED <<bound, registry, opening, token, task, queue, aborting, report>>

\* A poll that finds room enqueues the command under the gate.
SendPolls(c) ==
    /\ cPc[c] = "holding"
    /\ CheckSlot(c)
    /\ engine[cSlot[c]] = "running" /\ queue[cSlot[c]] < Capacity
    /\ queue' = [queue EXCEPT ![cSlot[c]] = @ + 1]
    /\ ControlEnds(c)
    /\ UNCHANGED <<bound, registry, opening, token, task, aborting, report>>

\* The receiver is gone, or the protocol cannot express the command.
SendFails(c) ==
    /\ cPc[c] = "holding"
    /\ ControlEnds(c)
    /\ UNCHANGED <<bound, registry, opening, token, task, queue, aborting, report>>

\* Mutant: only the wait for the mutex is raced against the token.
SendCanceled_SlotWaitOnly(c) ==
    /\ cPc[c] = "waiting" /\ cSlot[c] \in token
    /\ ControlEnds(c)
    /\ UNCHANGED <<bound, registry, opening, token, task, queue, aborting, report>>

\* until_canceled: the token interrupts both waits.
SendCanceled(c) ==
    /\ cPc[c] \in {"waiting", "holding"} /\ cSlot[c] \in token
    /\ ControlEnds(c)
    /\ UNCHANGED <<bound, registry, opening, token, task, queue, aborting, report>>

----------------------------------------------------------------------------
OpenSteps(a) ==
    \/ RegisterSession(a) \/ RegistrationRefused(a)
    \/ PublishHandle(a) \/ StartWatcher(a)
    \/ TakeHandle(a) \/ RetireSlot(a) \/ EmitEnded(a) \/ EmitLocked(a)

Next ==
    \/ Fence \/ StopWork \/ Unlock
    \/ \E a \in Attempt :
          \/ Admit(a) \/ OpenSteps(a)
          \/ Confirm(a) \/ AbandonOpen(a) \/ OpenCompletes(a)
          \/ Consume(a) \/ EngineEnds(a)
          \/ Abort(a)
    \/ \E i \in Id : CancelPending(i)
    \/ \E c \in Control : AdmitControl(c)
    \/ \E c \in Cancel : SessionCancel(c)
    \/ \E c \in Send :
          \/ SendBegins(c) \/ SendRefused(c)
          \/ SendLocks(c) \/ SendFindsNone(c) \/ SendPolls(c) \/ SendFails(c) \/ SendCanceled(c)

(***************************************************************************)
(* Fairness: the runtime polls every task that is ready.  tokio's mutex is *)
(* first come, first served, so a waiter that finds it free again and      *)
(* again gets it.  Nothing is assumed of the peer, of the queue's consumer *)
(* or of the user, and a blocked send is only woken by room in the queue,  *)
(* by the end of the task or by its token.  A canceled open stops, and a   *)
(* canceled engine task ends within its grace (SessionHandle::cancel).     *)
(***************************************************************************)
Fairness ==
    /\ WF_vars(StopWork)
    /\ \A a \in Attempt :
          /\ SF_vars(OpenSteps(a)) /\ SF_vars(Abort(a))
          /\ WF_vars(AbandonOpen(a) /\ pc[a] = "opening" /\ a \in token)
          /\ WF_vars(EngineEnds(a) /\ a \in engineCancel)
    /\ \A c \in Send :
          /\ WF_vars(SendCanceled(c))
          /\ WF_vars(SendFails(c) /\ engine[cSlot[c]] = "ended")

Spec == Init /\ [][Next]_vars
FairSpec == Spec /\ Fairness

----------------------------------------------------------------------------
(* What the slots promise.                                                 *)

\* No session runs where nobody can stop it: one whose handle was not told to
\* stop is registered under its id for a cancel or a lock to find, or the lock
\* or cancel that took it out has an abort under way that will find the
\* handle, or its own open has still to publish the handle and looks at the
\* token, or the fence, when it does (register_session, publish_handle,
\* stop_work).
SessionReachable ==
    \A a \in Attempt : engine[a] = "running" /\ a \notin engineCancel =>
        \/ sessions[id[a]] = a
        \/ a \in aborting /\ a \in inSlot
        \/ pc[a] = "opened" /\ ~Valid(a)
        \/ pc[a] = "published" /\ a \in token

\* Whatever a send or a cancel does, it does to the attempt its console was
\* showing, while that attempt's slot is registered and its fence valid, also
\* when the execution id was registered again between the click, the
\* admission, the wait for the slot and the wait for the queue.
ControlOwned ==
    \A c \in Control, a \in Attempt :
        cPc'[c] # cPc[c] /\ (queue'[a] # queue[a] \/ (a \in aborting' /\ a \notin aborting)) =>
            a = cWant[c] /\ Valid(a) /\ sessions[id[a]] = a
ControlsOwn == [][ControlOwned]_vars

\* An attempt that has ended is over, however a lock, a cancel, a send and a
\* reuse of its id met it: neither registry names it, so that its id can be
\* opened again and no cancel or lock finds a dead slot; no engine task, queued
\* command or held slot is left behind; and the window knows, unless its
\* console has moved on to a later attempt under the id (SessionRegistration,
\* remove_slot, finish_session, emit_ended).
EndedIsOver ==
    \A a \in Attempt : pc[a] = "done" =>
        /\ a \notin Registered
        /\ engine[a] = "none" /\ queue[a] = 0
        /\ a \notin inSlot /\ mutex[a] = None
        /\ a \in told \cup replaced

\* A session that a lock overtook, or that somebody canceled, ends and is
\* reported, although its peer is silent and a send may be waiting on its
\* full queue with the slot's mutex held; unless the user still looks at the
\* native dialog of its draft.
StopEnds ==
    \A a \in Attempt :
        (pc[a] # "idle" /\ (a \in aborting \/ fence[a] < epoch)) ~> pc[a] \in {"done", "dialog"}
=============================================================================
