------------------------------- MODULE Imports -------------------------------
(***************************************************************************)
(* Bundle imports, backup restores and previews on the desktop:            *)
(* import_preview, import_apply, import_cancel and import_work in          *)
(* commands.rs; PendingEntry and ImportGate in state.rs.                   *)
(*                                                                         *)
(* An attempt is a command task and a blocking worker.  The worker reads   *)
(* the file and derives its key, which cannot be interrupted, and then     *)
(* asks whether it may write.  A cancel, or a lock, abandons the worker;   *)
(* the gate settles which of the two came first.  An attempt may carry an  *)
(* id for import_cancel; the ids are the caller's and can be used again.   *)
(* An instance is one opened Arc<App>, numbered in opening order.          *)
(***************************************************************************)
EXTENDS Naturals, FiniteSets

CONSTANTS
    Attempt,
    Id, NoId,     \* attempt ids, and none
    NoAttempt,
    MaxMoves      \* bound: locks and publications

ASSUME ImportAssumption == NoAttempt \notin Attempt /\ NoId \notin Id /\ MaxMoves \in Nat

VARIABLES
    epoch, gate,
    cur,          \* the published instance
    unlocked,     \* the instances whose store holds its key
    mover,        \* what is left of a boundary move
    imports,      \* DesktopState::imports: the token registered under each id
    permit,       \* the attempt whose worker holds import_worker
    pc, id, apply, seen, inst,
    outcome,      \* what the command returned
    worker, result,
    importGate,   \* ImportGate of an apply
    cancelled,    \* canceled tokens
    wrote,        \* the attempts whose writes committed
    overtaken     \* the attempts a lock or switch met before they asked to write

session == <<epoch, gate, cur, unlocked, mover>>
command == <<pc, id, apply, seen, inst, outcome>>
vars == <<session, imports, permit, command, worker, result, importGate, cancelled, wrote, overtaken>>

Pc == {"idle", "claimed", "registered", "reading", "working", "waiting", "done"}
Outcome == {"none", "ok", "canceled", "locked", "failed", "busy"}

----------------------------------------------------------------------------
(* Boundary moves (state.rs): fence, drop the key, stop the work.          *)

Fence ==
    /\ mover = "idle" /\ epoch < MaxMoves
    /\ epoch' = epoch + 1 /\ gate' = FALSE
    /\ \/ mover' = "lock" /\ UNCHANGED <<cur, unlocked>>
       \/ mover' = "publish" /\ cur' = cur + 1 /\ unlocked' = unlocked \cup {cur + 1}
    /\ overtaken' = overtaken \cup {a \in Attempt : pc[a] = "reading" \/ worker[a] = "deriving"}
    /\ UNCHANGED <<imports, permit, command, worker, result, importGate, cancelled, wrote>>

DropKey ==
    /\ mover \in {"lock", "publish"}
    /\ unlocked' = IF mover = "lock" THEN unlocked \ {cur} ELSE {cur}
    /\ mover' = IF mover = "lock" THEN "stopLock" ELSE "stopPublish"
    /\ UNCHANGED <<epoch, gate, cur, imports, permit, command, worker, result, importGate, cancelled, wrote, overtaken>>

\* stop_work drains the registry and cancels what it held.
StopWork ==
    /\ mover \in {"stopLock", "stopPublish"}
    /\ cancelled' = cancelled \cup {a \in Attempt : \E i \in Id : imports[i] = a}
    /\ imports' = [i \in Id |-> NoAttempt]
    /\ gate' = (mover = "stopPublish")
    /\ mover' = "idle"
    /\ UNCHANGED <<epoch, cur, unlocked, permit, command, worker, result, importGate, wrote, overtaken>>

Unlock ==
    /\ mover = "idle" /\ cur # 0
    /\ unlocked' = unlocked \cup {cur} /\ gate' = TRUE
    /\ UNCHANGED <<epoch, cur, mover, imports, permit, command, worker, result, importGate, cancelled, wrote, overtaken>>

----------------------------------------------------------------------------
(* The command.                                                            *)

DropEntry_ById(a) == imports' = [i \in Id |-> IF i = id[a] THEN NoAttempt ELSE imports[i]]

\* PendingEntry::drop: only its own registration is removed.
DropEntry(a) == imports' = [i \in Id |-> IF imports[i] = a THEN NoAttempt ELSE imports[i]]

Returns(a, what) ==
    /\ pc' = [pc EXCEPT ![a] = "done"]
    /\ outcome' = [outcome EXCEPT ![a] = what]
    /\ DropEntry(a)
    /\ UNCHANGED <<id, apply, seen, inst, overtaken>>

\* A command claims the one worker, or is refused.
ClaimImportWorker(a) ==
    /\ pc[a] = "idle"
    /\ \/ /\ permit = NoAttempt
          /\ permit' = a
          /\ pc' = [pc EXCEPT ![a] = "claimed"]
          /\ \E i \in Id \cup {NoId}, b \in BOOLEAN :
                id' = [id EXCEPT ![a] = i] /\ apply' = [apply EXCEPT ![a] = b]
          /\ UNCHANGED <<imports, seen, inst, outcome>>
       \/ permit # NoAttempt /\ Returns(a, "busy") /\ UNCHANGED permit
    /\ UNCHANGED <<session, worker, result, importGate, cancelled, wrote, overtaken>>

\* register_import: an id that is still registered is refused.
RegisterImport(a) ==
    /\ pc[a] = "claimed"
    /\ \/ /\ id[a] = NoId
          /\ pc' = [pc EXCEPT ![a] = "registered"]
          /\ UNCHANGED <<imports, permit, id, apply, seen, inst, outcome>>
       \/ /\ id[a] # NoId /\ imports[id[a]] = NoAttempt
          /\ imports' = [imports EXCEPT ![id[a]] = a]
          /\ pc' = [pc EXCEPT ![a] = "registered"]
          /\ UNCHANGED <<permit, id, apply, seen, inst, outcome>>
       \/ /\ id[a] # NoId /\ imports[id[a]] # NoAttempt
          /\ Returns(a, "failed") /\ permit' = NoAttempt
    /\ UNCHANGED <<session, worker, result, importGate, cancelled, wrote, overtaken>>

\* The epoch is taken before the profile is read.
ReadEpoch(a) ==
    /\ pc[a] = "registered"
    /\ seen' = [seen EXCEPT ![a] = epoch]
    /\ pc' = [pc EXCEPT ![a] = "reading"]
    /\ UNCHANGED <<session, imports, permit, id, apply, inst, outcome, worker, result, importGate, cancelled, wrote, overtaken>>

AppOpen == gate /\ cur \in unlocked

\* DesktopState::app(), and the worker is started; an unknown conflict policy
\* is refused in between.
ReadApp(a) ==
    /\ pc[a] = "reading"
    /\ \/ /\ AppOpen
          /\ inst' = [inst EXCEPT ![a] = cur]
          /\ pc' = [pc EXCEPT ![a] = "working"]
          /\ worker' = [worker EXCEPT ![a] = "deriving"]
          /\ UNCHANGED <<imports, permit, id, apply, seen, outcome>>
       \/ /\ Returns(a, IF AppOpen THEN "failed" ELSE "locked")
          /\ permit' = NoAttempt
          /\ UNCHANGED worker
    /\ UNCHANGED <<session, result, importGate, cancelled, wrote, overtaken>>

\* import_result_error.
Error(a, what) == IF what = "canceled" /\ epoch # seen[a] THEN "locked" ELSE what

WorkDone_NotAwaited(a) ==
    /\ pc[a] = "working" /\ worker[a] = "ended"
    /\ Returns(a, IF result[a] # "ok" THEN Error(a, result[a])
                  ELSE IF ~apply[a] /\ epoch # seen[a] THEN "locked" ELSE "ok")
    /\ UNCHANGED <<session, permit, worker, result, importGate, cancelled, wrote, overtaken>>

\* The worker's result, which a preview returns only at the epoch it began in.
WorkDone(a) ==
    /\ pc[a] \in {"working", "waiting"} /\ worker[a] = "ended"
    /\ Returns(a, IF result[a] # "ok" THEN Error(a, result[a])
                  ELSE IF ~apply[a] /\ epoch # seen[a] THEN "locked" ELSE "ok")
    /\ UNCHANGED <<session, permit, worker, result, importGate, cancelled, wrote, overtaken>>

Canceled_FreesWorker(a) ==
    /\ pc[a] = "working" /\ a \in cancelled
    /\ importGate[a] # "WRITING"
    /\ importGate' = [importGate EXCEPT ![a] = IF apply[a] THEN "ABANDONED" ELSE @]
    /\ Returns(a, Error(a, "canceled"))
    /\ permit' = NoAttempt
    /\ UNCHANGED <<session, worker, result, cancelled, wrote, overtaken>>

\* The token is canceled: the worker is abandoned, unless its writes have
\* begun, which are waited for.
Canceled(a) ==
    /\ pc[a] = "working" /\ a \in cancelled
    /\ \/ /\ importGate[a] # "WRITING"
          /\ importGate' = [importGate EXCEPT ![a] = IF apply[a] THEN "ABANDONED" ELSE @]
          /\ Returns(a, Error(a, "canceled"))
       \/ /\ importGate[a] = "WRITING"
          /\ pc' = [pc EXCEPT ![a] = "waiting"]
          /\ UNCHANGED <<imports, id, apply, seen, inst, outcome, importGate>>
    /\ UNCHANGED <<session, permit, worker, result, cancelled, wrote, overtaken>>

\* import_cancel, through cancel_pending: the entry stays.
ImportCancel(i) ==
    /\ imports[i] # NoAttempt
    /\ cancelled' = cancelled \cup {imports[i]}
    /\ UNCHANGED <<session, imports, permit, command, worker, result, importGate, wrote, overtaken>>

----------------------------------------------------------------------------
(* The worker.                                                             *)

\* The closure returns and the permit is dropped, abandoned or not.
Ends(a, what) ==
    /\ worker' = [worker EXCEPT ![a] = "ended"]
    /\ result' = [result EXCEPT ![a] = what]
    /\ permit' = NoAttempt

\* What e() makes of a store's error: LOCKED for a store without its key,
\* which also a store that locked itself is, at any epoch.
StoreError == {"failed", "locked"}

Derived_AnyEpoch(a) ==
    /\ worker[a] = "deriving"
    /\ \/ Ends(a, "failed")
       \/ ~apply[a] /\ Ends(a, "locked")
       \/ ~apply[a] /\ inst[a] \in unlocked /\ Ends(a, "ok")
       \/ apply[a] /\ worker' = [worker EXCEPT ![a] = "asking"] /\ UNCHANGED <<result, permit>>
    /\ UNCHANGED <<session, imports, command, importGate, cancelled, wrote, overtaken>>

\* The file is read, its key derived and its contents checked: this may fail,
\* and a preview reads the store.  An apply then compares the epoch.
Derived(a) ==
    /\ worker[a] = "deriving"
    /\ \/ Ends(a, "failed")
       \/ ~apply[a] /\ Ends(a, "locked")
       \/ ~apply[a] /\ inst[a] \in unlocked /\ Ends(a, "ok")
       \/ apply[a] /\ epoch # seen[a] /\ Ends(a, "canceled")
       \/ /\ apply[a] /\ epoch = seen[a]
          /\ worker' = [worker EXCEPT ![a] = "asking"]
          /\ UNCHANGED <<result, permit>>
    /\ UNCHANGED <<session, imports, command, importGate, cancelled, wrote, overtaken>>

BeginWrites_Unclaimed(a) ==
    /\ worker[a] = "asking"
    /\ worker' = [worker EXCEPT ![a] = "writing"]
    /\ UNCHANGED <<session, imports, permit, command, result, importGate, cancelled, wrote, overtaken>>

\* ImportGate::begin_writes.
BeginWrites(a) ==
    /\ worker[a] = "asking"
    /\ \/ /\ importGate[a] = "OPEN"
          /\ importGate' = [importGate EXCEPT ![a] = "WRITING"]
          /\ worker' = [worker EXCEPT ![a] = "writing"]
          /\ UNCHANGED <<permit, result>>
       \/ importGate[a] # "OPEN" /\ Ends(a, "canceled") /\ UNCHANGED importGate
    /\ UNCHANGED <<session, imports, command, cancelled, wrote, overtaken>>

\* The transaction of a restore or a bundle import: it commits whole, which
\* reads the key once more, or rolls back.
Write(a) ==
    /\ worker[a] = "writing"
    /\ \/ /\ inst[a] \in unlocked /\ wrote' = wrote \cup {a}
          /\ \/ Ends(a, "ok")
             \/ worker' = [worker EXCEPT ![a] = "attaching"] /\ UNCHANGED <<result, permit>>
       \/ UNCHANGED wrote /\ \E what \in StoreError : Ends(a, what)
    /\ UNCHANGED <<session, imports, command, importGate, cancelled, overtaken>>

\* The attachments of a bundle are stored after the commit, which stands
\* whatever becomes of them: an import that has written may end with LOCKED.
Attach(a) ==
    /\ worker[a] = "attaching"
    /\ \/ inst[a] \in unlocked /\ Ends(a, "ok")
       \/ \E what \in StoreError : Ends(a, what)
    /\ UNCHANGED <<session, imports, command, importGate, cancelled, wrote, overtaken>>

----------------------------------------------------------------------------
Init ==
    /\ epoch = 0 /\ gate = FALSE /\ cur = 0 /\ unlocked = {} /\ mover = "idle"
    /\ imports = [i \in Id |-> NoAttempt] /\ permit = NoAttempt
    /\ pc = [a \in Attempt |-> "idle"] /\ id = [a \in Attempt |-> NoId]
    /\ apply = [a \in Attempt |-> FALSE] /\ seen = [a \in Attempt |-> 0] /\ inst = [a \in Attempt |-> 0]
    /\ outcome = [a \in Attempt |-> "none"]
    /\ worker = [a \in Attempt |-> "none"] /\ result = [a \in Attempt |-> "none"]
    /\ importGate = [a \in Attempt |-> "OPEN"]
    /\ cancelled = {} /\ wrote = {} /\ overtaken = {}

MoverSteps == DropKey \/ StopWork
CommandSteps(a) == RegisterImport(a) \/ ReadEpoch(a) \/ ReadApp(a) \/ WorkDone(a) \/ Canceled(a)
WorkerSteps(a) == Derived(a) \/ BeginWrites(a) \/ Write(a) \/ Attach(a)

Next ==
    \/ Fence \/ MoverSteps \/ Unlock
    \/ \E i \in Id : ImportCancel(i)
    \/ \E a \in Attempt : ClaimImportWorker(a) \/ CommandSteps(a) \/ WorkerSteps(a)

Spec == Init /\ [][Next]_vars

\* Threads and tasks keep running; a derivation is bounded by its header.
FairSpec ==
    /\ Spec
    /\ WF_vars(MoverSteps)
    /\ \A a \in Attempt : WF_vars(CommandSteps(a)) /\ WF_vars(WorkerSteps(a))

----------------------------------------------------------------------------
Working(a) == worker[a] \in {"deriving", "asking", "writing", "attaching"}

\* Types; a worker runs for a profile that app() handed out.
TypeOK ==
    /\ epoch \in Nat /\ gate \in BOOLEAN
    /\ cur \in Nat /\ unlocked \subseteq 1 .. cur
    /\ mover \in {"idle", "lock", "publish", "stopLock", "stopPublish"}
    /\ imports \in [Id -> Attempt \cup {NoAttempt}] /\ permit \in Attempt \cup {NoAttempt}
    /\ pc \in [Attempt -> Pc] /\ id \in [Attempt -> Id \cup {NoId}] /\ apply \in [Attempt -> BOOLEAN]
    /\ seen \in [Attempt -> Nat] /\ inst \in [Attempt -> 0 .. cur] /\ outcome \in [Attempt -> Outcome]
    /\ worker \in [Attempt -> {"none", "deriving", "asking", "writing", "attaching", "ended"}]
    /\ result \in [Attempt -> {"none", "ok", "canceled", "locked", "failed"}]
    /\ importGate \in [Attempt -> {"OPEN", "WRITING", "ABANDONED"}]
    /\ cancelled \subseteq Attempt /\ wrote \subseteq Attempt /\ overtaken \subseteq Attempt
    /\ \A a \in Attempt : Working(a) => inst[a] # 0

\* However the cancel, the lock and the worker are ordered (ImportGate,
\* writes_may_begin): an import a lock or a switch met before its contents
\* were checked never writes; one reported CANCELED has written nothing and
\* never will; and one reported LOCKED has neither, unless its own worker met
\* the locked store after the commit, storing the attachments.
CanceledWritesNothing ==
    /\ overtaken \cap wrote = {}
    /\ \A a \in Attempt :
        outcome[a] \in {"canceled", "locked"} =>
            /\ worker[a] \notin {"writing", "attaching"}
            /\ a \in wrote => outcome[a] = "locked" /\ result[a] = "locked"

\* Import workers never pile up: also an abandoned one keeps the permit, so
\* at most one runs and it holds the permit.
OneWorker == \A a \in Attempt : Working(a) => permit = a

\* An attempt with an id is cancelable from its first moment to its last: its
\* own registration is there until it returns or has been canceled, also when
\* a later attempt uses the id of one that a lock drained.
Cancelable ==
    \A a \in Attempt :
        pc[a] \in {"registered", "reading", "working", "waiting"} /\ id[a] # NoId =>
            imports[id[a]] = a \/ a \in cancelled

\* A cancel or a lock ends an import: the command returns although its worker
\* cannot be interrupted.
CancelEnds == \A a \in Attempt : (a \in cancelled) ~> (pc[a] = "done")
=============================================================================
