---------------------------- MODULE DesktopState ----------------------------
(***************************************************************************)
(* The lock boundary of the desktop backend: DesktopState in               *)
(* apps/desktop/src-tauri/src/state.rs, with the commands that drive it.   *)
(*                                                                         *)
(* Threads Op run the operations that move the boundary: lock (by the      *)
(* user, by the watcher, after a failed integrity check), unlock, profile  *)
(* publication, credential rotation and policy enrollment.  They are       *)
(* serialized by the transition mutex and take exclusive access to the     *)
(* payload gate.  Threads Work are the admitted executions: each captures  *)
(* a PayloadFence and delivers under shared access to the gate.            *)
(*                                                                         *)
(* A step of a thread is what it does between two points where another     *)
(* thread can interfere: acquiring the transition mutex, acquiring the     *)
(* gate, dropping the key, clearing the engine caches (which waits for a   *)
(* callback that owns one), and stopping the registered work.              *)
(* FileGrants::revoke_all, which the fencing steps call under the gate, is *)
(* the subject of module FileGrants.                                       *)
(***************************************************************************)
EXTENDS Naturals, FiniteSets

CONSTANTS
    App,          \* opened profiles: one Arc<App> each
    Op,           \* threads running boundary operations
    Work,         \* threads running admitted payload work
    NoApp, NoOp, NoWork,
    MaxEpoch      \* bound: only openers start once the epoch has reached it, none beyond

ASSUME NoneAssumption == NoApp \notin App /\ NoOp \notin Op /\ NoWork \notin Work
ASSUME BoundAssumption == MaxEpoch \in Nat

VARIABLES
    epoch,        \* lock_epoch
    gate,         \* the flag payload_gate protects: delivery is open
    transition,   \* the thread holding the transition mutex, or NoOp
    app,          \* the published profile, or NoApp
    keyChange,    \* key_change
    key,          \* key[a]: the store of a holds its data key
    cacheOwner,   \* cacheOwner[a]: the work inside an engine cache of a
    running,      \* the registry of running attempts
    opPc, opKind, opSeen, opApp, opOld,
    wPc, wApp, wEpoch, cancelled,
    overtaken,    \* history: openers a boundary move has landed on
    faulted       \* history: a store has dropped its key by itself

boundary == <<epoch, gate, transition, app, keyChange, key>>
opVars == <<opPc, opKind, opSeen, opApp, opOld>>
workVars == <<cacheOwner, running, wPc, wApp, wEpoch, cancelled>>
vars == <<boundary, opVars, workVars, overtaken, faulted>>

LockKind == {"lock", "ifCurrent", "integrity"}
OpKind == LockKind \cup {"unlock", "open", "rotate", "enroll"}
OpPc == {"idle", "derive", "wait", "gate", "store", "caches", "stop", "publish", "held", "drop"}
WorkPc == {"idle", "admitted", "registered", "running", "callback", "delivering", "leaving", "replying", "answering"}

\* Inside deliver_payload, with shared access to the gate.
Delivering == {"delivering", "answering"}

\* Types of the boundary, of the operations and of the works.
TypeOK ==
    /\ epoch \in Nat
    /\ gate \in BOOLEAN
    /\ transition \in Op \cup {NoOp}
    /\ app \in App \cup {NoApp}
    /\ keyChange \in BOOLEAN
    /\ key \in [App -> BOOLEAN]
    /\ cacheOwner \in [App -> Work \cup {NoWork}]
    /\ running \in SUBSET Work
    /\ opPc \in [Op -> OpPc]
    /\ opKind \in [Op -> OpKind]
    /\ opSeen \in [Op -> Nat]
    /\ opApp \in [Op -> App \cup {NoApp}]
    /\ opOld \in [Op -> App \cup {NoApp}]
    /\ wPc \in [Work -> WorkPc]
    /\ wApp \in [Work -> App \cup {NoApp}]
    /\ wEpoch \in [Work -> Nat]
    /\ cancelled \in [Work -> BOOLEAN]
    /\ overtaken \in SUBSET Op
    /\ faulted \in BOOLEAN

Init ==
    /\ epoch = 0
    /\ gate = FALSE
    /\ transition = NoOp
    /\ app = NoApp
    /\ keyChange = FALSE
    /\ key = [a \in App |-> FALSE]
    /\ cacheOwner = [a \in App |-> NoWork]
    /\ running = {}
    /\ opPc = [o \in Op |-> "idle"]
    /\ opKind = [o \in Op |-> "lock"]
    /\ opSeen = [o \in Op |-> 0]
    /\ opApp = [o \in Op |-> NoApp]
    /\ opOld = [o \in Op |-> NoApp]
    /\ wPc = [w \in Work |-> "idle"]
    /\ wApp = [w \in Work |-> NoApp]
    /\ wEpoch = [w \in Work |-> 0]
    /\ cancelled = [w \in Work |-> FALSE]
    /\ overtaken = {}
    /\ faulted = FALSE

(***************************************************************************)
(* The gate and the app guard.  parking_lot sets the writer bit before it  *)
(* waits for the readers to leave, so a waiting writer keeps new readers   *)
(* out.  The app write guard is held from the fence to the end of the      *)
(* cleanup of a lock or of a publication.                                  *)
(***************************************************************************)
\* Mutant: the gate is kept through the cleanup.
WriterWaits_GateKept == \E o \in Op : opPc[o] \in {"gate", "publish", "store", "caches", "stop"}
WriterWaits == \E o \in Op : opPc[o] \in {"gate", "publish"}
NoReaders == \A w \in Work : wPc[w] \notin Delivering
AppGuardHeld == \E o \in Op : opPc[o] \in {"store", "caches", "stop"} /\ opKind[o] # "rotate"

IsLocked(a) == ~key[a]

\* A fresh Arc<App>: nothing else refers to it.
Unreferenced(a) ==
    /\ a # app
    /\ ~key[a]
    /\ \A o \in Op : opApp[o] # a /\ opOld[o] # a
    /\ \A w \in Work : wApp[w] # a

\* The openers, whose epoch was captured before this boundary move.
Openers(o) == {p \in Op \ {o} : /\ opPc[p] \in {"derive", "wait", "gate"}
                                /\ opKind[p] \in {"unlock", "open", "rotate", "enroll"}}

\* The return of an operation: its locals are dropped with the transition guard.
Return(o) ==
    /\ opPc' = [opPc EXCEPT ![o] = "idle"]
    /\ opKind' = [opKind EXCEPT ![o] = "lock"]
    /\ opSeen' = [opSeen EXCEPT ![o] = 0]
    /\ opApp' = [opApp EXCEPT ![o] = NoApp]
    /\ opOld' = [opOld EXCEPT ![o] = NoApp]
    /\ overtaken' = overtaken \ {o}

Goto(o, pc) == opPc' = [opPc EXCEPT ![o] = pc]

----------------------------------------------------------------------------
(* The operations of the boundary, up to the transition mutex.             *)

\* app_lock: DesktopState::lock.
BeginLock(o) ==
    /\ opPc[o] = "idle"
    /\ epoch < MaxEpoch
    /\ Goto(o, "wait")
    /\ opKind' = [opKind EXCEPT ![o] = "lock"]
    /\ UNCHANGED <<boundary, opSeen, opApp, opOld, workVars, overtaken, faulted>>

\* The watcher, when the profile idles, the machine slept, or its settings
\* could not be read: lock_if_current with the profile it looked at.
BeginLockIfCurrent(o) ==
    /\ opPc[o] = "idle"
    /\ epoch < MaxEpoch
    /\ ~AppGuardHeld
    /\ app # NoApp
    /\ Goto(o, "wait")
    /\ opKind' = [opKind EXCEPT ![o] = "ifCurrent"]
    /\ opApp' = [opApp EXCEPT ![o] = app]
    /\ UNCHANGED <<boundary, opSeen, opOld, workVars, overtaken, faulted>>

\* The watcher found the published store locked, or check_context_authority
\* failed in some work and found its own profile's store locked.
BeginLockIntegrity(o) ==
    /\ opPc[o] = "idle"
    /\ epoch < MaxEpoch
    /\ \E a \in App :
          /\ \/ a = app /\ ~AppGuardHeld
             \/ \E w \in Work : wPc[w] = "running" /\ wApp[w] = a
          /\ IsLocked(a)
          /\ opApp' = [opApp EXCEPT ![o] = a]
    /\ Goto(o, "wait")
    /\ opKind' = [opKind EXCEPT ![o] = "integrity"]
    /\ UNCHANGED <<boundary, opSeen, opOld, workVars, overtaken, faulted>>

\* profile_unlock and profile_create capture the epoch before they derive a key.
BeginUnlock(o) ==
    /\ opPc[o] = "idle"
    /\ epoch <= MaxEpoch
    /\ Goto(o, "derive")
    /\ opKind' = [opKind EXCEPT ![o] = "unlock"]
    /\ opSeen' = [opSeen EXCEPT ![o] = epoch]
    /\ UNCHANGED <<boundary, opApp, opOld, workVars, overtaken, faulted>>

\* The key derived is that of the open profile: unlock it where it is.
ChooseUnlock(o) ==
    /\ opPc[o] = "derive"
    /\ ~AppGuardHeld
    /\ app # NoApp
    /\ opApp' = [opApp EXCEPT ![o] = app]
    /\ Goto(o, "wait")
    /\ UNCHANGED <<boundary, opKind, opSeen, opOld, workVars, overtaken, faulted>>

\* Another profile, a rotated one or a new one: App::open returns it unlocked.
ChooseOpen(o) ==
    /\ opPc[o] = "derive"
    /\ \E a \in App :
          /\ Unreferenced(a)
          /\ opApp' = [opApp EXCEPT ![o] = a]
          /\ key' = [key EXCEPT ![a] = TRUE]
    /\ opKind' = [opKind EXCEPT ![o] = "open"]
    /\ Goto(o, "wait")
    /\ UNCHANGED <<epoch, gate, transition, app, keyChange, opSeen, opOld, workVars, overtaken, faulted>>

\* A wrong passphrase, an unenrolled policy, or a store that does not open.
DeriveFails(o) ==
    /\ opPc[o] = "derive"
    /\ Return(o)
    /\ UNCHANGED <<boundary, workVars, faulted>>

\* change_passphrase, convert_to_passphrase: the epoch the native
\* confirmations are bound to.
BeginRotate(o) ==
    /\ opPc[o] = "idle"
    /\ epoch < MaxEpoch
    /\ Goto(o, "wait")
    /\ opKind' = [opKind EXCEPT ![o] = "rotate"]
    /\ opSeen' = [opSeen EXCEPT ![o] = epoch]
    /\ UNCHANGED <<boundary, opApp, opOld, workVars, overtaken, faulted>>

\* profile_enroll_unlinked, refused while a profile is open.
BeginEnroll(o) ==
    /\ opPc[o] = "idle"
    /\ epoch < MaxEpoch
    /\ ~(gate /\ app # NoApp /\ key[app])
    /\ Goto(o, "wait")
    /\ opKind' = [opKind EXCEPT ![o] = "enroll"]
    /\ opSeen' = [opSeen EXCEPT ![o] = epoch]
    /\ UNCHANGED <<boundary, opApp, opOld, workVars, overtaken, faulted>>

\* The user does not confirm the native dialog.
NotConfirmed(o) ==
    /\ opPc[o] = "wait"
    /\ opKind[o] \in {"rotate", "enroll"}
    /\ Return(o)
    /\ UNCHANGED <<boundary, workVars, faulted>>

----------------------------------------------------------------------------
(* Under the transition mutex.                                             *)

\* Mutant: a publication does not look at key_change.
PassesTransition_OpenDuringRotation(o) ==
    CASE opKind[o] = "ifCurrent" -> app = opApp[o] /\ gate
      [] opKind[o] = "integrity" -> IsLocked(opApp[o]) /\ app = opApp[o] /\ gate
      [] OTHER -> TRUE

\* What is tested right after the mutex is taken: is_current and the gate for
\* the conditional locks, key_change for a publication.
PassesTransition(o) ==
    CASE opKind[o] = "ifCurrent" -> app = opApp[o] /\ gate
      [] opKind[o] = "integrity" -> IsLocked(opApp[o]) /\ app = opApp[o] /\ gate
      [] opKind[o] = "open" -> ~keyChange
      [] OTHER -> TRUE

Acquire(o) ==
    /\ opPc[o] = "wait"
    /\ transition = NoOp
    /\ PassesTransition(o)
    /\ transition' = o
    /\ Goto(o, "gate")
    /\ UNCHANGED <<epoch, gate, app, keyChange, key, opKind, opSeen, opApp, opOld, workVars, overtaken, faulted>>

\* The early return: a refused publication locks the profile it opened.
Refuse(o) ==
    /\ opPc[o] = "wait"
    /\ transition = NoOp
    /\ ~PassesTransition(o)
    /\ key' = IF opKind[o] = "open" THEN [key EXCEPT ![opApp[o]] = FALSE] ELSE key
    /\ Return(o)
    /\ UNCHANGED <<epoch, gate, transition, app, keyChange, workVars, faulted>>

\* Mutant: a lock that does not wait for the readers.
FenceLock_IgnoresReaders(o) ==
    /\ opPc[o] = "gate"
    /\ opKind[o] \in LockKind
    /\ epoch' = epoch + 1
    /\ gate' = FALSE
    /\ opOld' = [opOld EXCEPT ![o] = app]
    /\ Goto(o, "store")
    /\ overtaken' = overtaken \cup Openers(o)
    /\ UNCHANGED <<transition, app, keyChange, key, opKind, opSeen, opApp, workVars, faulted>>

\* lock_under_transition, under exclusive access to the gate.
FenceLock(o) ==
    /\ opPc[o] = "gate" /\ NoReaders
    /\ opKind[o] \in LockKind
    /\ epoch' = epoch + 1
    /\ gate' = FALSE
    /\ opOld' = [opOld EXCEPT ![o] = app]
    /\ Goto(o, "store")
    /\ overtaken' = overtaken \cup Openers(o)
    /\ UNCHANGED <<transition, app, keyChange, key, opKind, opSeen, opApp, workVars, faulted>>

\* set_app_since: publish unless the epoch moved since it was captured.
FenceOpen(o) ==
    /\ opPc[o] = "gate" /\ NoReaders
    /\ opKind[o] = "open"
    /\ epoch = opSeen[o]
    /\ epoch' = epoch + 1
    /\ gate' = FALSE
    /\ opOld' = [opOld EXCEPT ![o] = app]
    /\ app' = opApp[o]
    /\ Goto(o, "store")
    /\ overtaken' = overtaken \cup Openers(o)
    /\ UNCHANGED <<transition, keyChange, key, opKind, opSeen, opApp, workVars, faulted>>

\* Mutant: the refused profile keeps its key.
OpenOvertaken_KeepsKey(o) ==
    /\ opPc[o] = "gate" /\ NoReaders
    /\ opKind[o] = "open"
    /\ epoch # opSeen[o]
    /\ transition' = NoOp
    /\ Return(o)
    /\ UNCHANGED <<epoch, gate, app, keyChange, key, workVars, faulted>>

\* set_app_since, the compare_exchange that failed.
OpenOvertaken(o) ==
    /\ opPc[o] = "gate" /\ NoReaders
    /\ opKind[o] = "open"
    /\ epoch # opSeen[o]
    /\ key' = [key EXCEPT ![opApp[o]] = FALSE]
    /\ transition' = NoOp
    /\ Return(o)
    /\ UNCHANGED <<epoch, gate, app, keyChange, workVars, faulted>>

\* What Store::unlock_if leaves of the key: a checked key is kept; a key that
\* is not this profile's changes nothing; any other failure locks the store,
\* also one that was open.
UnlockOutcome == BOOLEAN

\* Mutant: the epoch is not compared.
FenceUnlock_AnyEpoch(o) ==
    /\ opPc[o] = "gate" /\ NoReaders
    /\ opKind[o] = "unlock"
    /\ IF keyChange \/ app = NoApp \/ app # opApp[o]
       THEN UNCHANGED <<gate, key, faulted>>
       ELSE \E k \in UnlockOutcome :
              /\ key' = [key EXCEPT ![app] = k]
              /\ gate' = k
              /\ faulted' = (faulted \/ (key[app] /\ ~k))
    /\ transition' = NoOp
    /\ Return(o)
    /\ UNCHANGED <<epoch, app, keyChange, workVars>>

\* unlock_since: the gate follows the store, whatever the outcome.
FenceUnlock(o) ==
    /\ opPc[o] = "gate" /\ NoReaders
    /\ opKind[o] = "unlock"
    /\ IF keyChange \/ epoch # opSeen[o] \/ app = NoApp \/ app # opApp[o]
       THEN UNCHANGED <<gate, key, faulted>>
       ELSE \E k \in UnlockOutcome :
              /\ key' = [key EXCEPT ![app] = k]
              /\ gate' = k
              /\ faulted' = (faulted \/ (key[app] /\ ~k))
    /\ transition' = NoOp
    /\ Return(o)
    /\ UNCHANGED <<epoch, app, keyChange, workVars>>

\* begin_key_change: the old key stays with the rotating worker.
FenceRotate(o) ==
    /\ opPc[o] = "gate" /\ NoReaders
    /\ opKind[o] = "rotate"
    /\ gate /\ epoch = opSeen[o] /\ ~keyChange
    /\ app # NoApp /\ key[app]
    /\ keyChange' = TRUE
    /\ gate' = FALSE
    /\ epoch' = epoch + 1
    /\ opApp' = [opApp EXCEPT ![o] = app]
    /\ Goto(o, "stop")
    /\ overtaken' = overtaken \cup Openers(o)
    /\ UNCHANGED <<transition, app, key, opKind, opSeen, opOld, workVars, faulted>>

\* begin_policy_enrollment: only while delivery is closed.
FenceEnroll(o) ==
    /\ opPc[o] = "gate" /\ NoReaders
    /\ opKind[o] = "enroll"
    /\ ~gate /\ epoch = opSeen[o] /\ ~keyChange
    /\ keyChange' = TRUE
    /\ epoch' = epoch + 1
    /\ transition' = NoOp
    /\ Goto(o, "held")
    /\ overtaken' = overtaken \cup Openers(o)
    /\ UNCHANGED <<gate, app, key, opKind, opSeen, opApp, opOld, workVars, faulted>>

ChangeRefused(o) ==
    /\ opPc[o] = "gate" /\ NoReaders
    /\ \/ /\ opKind[o] = "rotate"
          /\ ~(gate /\ epoch = opSeen[o] /\ ~keyChange /\ app # NoApp /\ key[app])
       \/ /\ opKind[o] = "enroll"
          /\ ~(~gate /\ epoch = opSeen[o] /\ ~keyChange)
    /\ transition' = NoOp
    /\ Return(o)
    /\ UNCHANGED <<epoch, gate, app, keyChange, key, workVars, faulted>>

\* App::lock, first half: Store::lock drops the key of the retired profile.
DropKey(o) ==
    /\ opPc[o] = "store"
    /\ key' = [a \in App |-> key[a] /\ a # opOld[o]]
    /\ Goto(o, "caches")
    /\ UNCHANGED <<epoch, gate, transition, app, keyChange, opKind, opSeen, opApp, opOld, workVars, overtaken, faulted>>

\* No callback is inside an engine cache of a.
CachesFree(a) == a # NoApp => cacheOwner[a] = NoWork

\* App::lock, second half: clear_sensitive_state waits for every cache.
ClearCaches(o) ==
    /\ opPc[o] = "caches"
    /\ CachesFree(opOld[o])
    /\ Goto(o, "stop")
    /\ UNCHANGED <<boundary, opKind, opSeen, opApp, opOld, workVars, overtaken, faulted>>

\* Mutant: the registries are drained and the tokens dropped, not cancelled.
StopWork_DropsTokens(o) ==
    /\ opPc[o] = "stop"
    /\ running' = {}
    /\ CASE opKind[o] = "open" ->
               /\ Goto(o, "publish")
               /\ UNCHANGED <<transition, opKind, opSeen, opApp, opOld, overtaken>>
         [] opKind[o] = "rotate" ->
               /\ Goto(o, "held")
               /\ transition' = NoOp
               /\ UNCHANGED <<opKind, opSeen, opApp, opOld, overtaken>>
         [] OTHER -> transition' = NoOp /\ Return(o)
    /\ UNCHANGED <<epoch, gate, app, keyChange, key, cacheOwner, wPc, wApp, wEpoch, cancelled, faulted>>

\* stop_work: drain the registries and cancel what was registered.
StopWork(o) ==
    /\ opPc[o] = "stop"
    /\ running' = {}
    /\ cancelled' = [w \in Work |-> cancelled[w] \/ w \in running]
    /\ CASE opKind[o] = "open" ->
               /\ Goto(o, "publish")
               /\ UNCHANGED <<transition, opKind, opSeen, opApp, opOld, overtaken>>
         [] opKind[o] = "rotate" ->
               /\ Goto(o, "held")
               /\ transition' = NoOp
               /\ UNCHANGED <<opKind, opSeen, opApp, opOld, overtaken>>
         [] OTHER -> transition' = NoOp /\ Return(o)
    /\ UNCHANGED <<epoch, gate, app, keyChange, key, cacheOwner, wPc, wApp, wEpoch, faulted>>

\* set_app_since opens delivery once the previous profile's work is stopped.
Publish(o) ==
    /\ opPc[o] = "publish" /\ NoReaders
    /\ gate' = TRUE
    /\ transition' = NoOp
    /\ Return(o)
    /\ UNCHANGED <<epoch, app, keyChange, key, workVars, faulted>>

\* Mutant: the guard is dropped without locking the profile.
RotationEnds_KeepsKey(o) ==
    /\ opPc[o] = "held"
    /\ opKind[o] = "rotate"
    /\ Goto(o, "drop")
    /\ UNCHANGED <<boundary, opKind, opSeen, opApp, opOld, workVars, overtaken, faulted>>

\* The worker is done, or failed: KeyChange::drop locks the profile ...
RotationEnds(o) ==
    /\ opPc[o] = "held"
    /\ opKind[o] = "rotate"
    /\ key' = [key EXCEPT ![opApp[o]] = FALSE]
    /\ Goto(o, "drop")
    /\ UNCHANGED <<epoch, gate, transition, app, keyChange, opKind, opSeen, opApp, opOld, workVars, overtaken, faulted>>

\* ... clears its caches, and only then allows unlock and publication again.
KeyChangeDropped(o) ==
    /\ opPc[o] = "drop"
    /\ CachesFree(opApp[o])
    /\ keyChange' = FALSE
    /\ Return(o)
    /\ UNCHANGED <<epoch, gate, transition, app, key, workVars, faulted>>

\* EnrollmentChange::drop.
EnrollmentDropped(o) ==
    /\ opPc[o] = "held"
    /\ opKind[o] = "enroll"
    /\ keyChange' = FALSE
    /\ Return(o)
    /\ UNCHANGED <<epoch, gate, transition, app, key, workVars, faulted>>

\* A store that finds its records corrupt drops its own key, without the
\* boundary (Store::protected_authority).
SelfLock(a) ==
    /\ key[a]
    /\ key' = [key EXCEPT ![a] = FALSE]
    /\ faulted' = TRUE
    /\ UNCHANGED <<epoch, gate, transition, app, keyChange, opVars, workVars, overtaken>>

----------------------------------------------------------------------------
(* Payload work: send_request and its callbacks.                           *)

\* What deliver_payload tests under shared access.
Valid(w) == gate /\ epoch = wEpoch[w] /\ app = wApp[w] /\ key[wApp[w]]

\* deliver_payload gets shared access, and past the gate and the epoch the
\* app read guard.
Decides(w) == ~WriterWaits /\ (gate /\ epoch = wEpoch[w] => ~AppGuardHeld)

\* Mutant: the flag of the gate is not tested.
Admit_WhileClosed(w) ==
    /\ wPc[w] = "idle"
    /\ ~WriterWaits /\ ~AppGuardHeld
    /\ app # NoApp
    /\ wPc' = [wPc EXCEPT ![w] = "admitted"]
    /\ wApp' = [wApp EXCEPT ![w] = app]
    /\ wEpoch' = [wEpoch EXCEPT ![w] = epoch]
    /\ UNCHANGED <<boundary, opVars, cacheOwner, running, cancelled, overtaken, faulted>>

\* admit_payload.
Admit(w) ==
    /\ wPc[w] = "idle"
    /\ ~WriterWaits /\ gate /\ ~AppGuardHeld
    /\ app # NoApp /\ key[app]
    /\ wPc' = [wPc EXCEPT ![w] = "admitted"]
    /\ wApp' = [wApp EXCEPT ![w] = app]
    /\ wEpoch' = [wEpoch EXCEPT ![w] = epoch]
    /\ UNCHANGED <<boundary, opVars, cacheOwner, running, cancelled, overtaken, faulted>>

\* send_request: PendingEntry::register, before the profile is read.
Register(w) ==
    /\ wPc[w] = "admitted"
    /\ running' = running \cup {w}
    /\ wPc' = [wPc EXCEPT ![w] = "registered"]
    /\ UNCHANGED <<boundary, opVars, cacheOwner, wApp, wEpoch, cancelled, overtaken, faulted>>

\* send_request returns: its PendingEntry is dropped and its reply is due.
Retire(w) ==
    /\ wPc' = [wPc EXCEPT ![w] = "replying"]
    /\ running' = running \ {w}

\* Mutant: the attempt starts without checking its fence again.
CheckPayload_Skipped(w) ==
    /\ wPc[w] = "registered"
    /\ wPc' = [wPc EXCEPT ![w] = "running"]
    /\ UNCHANGED <<boundary, opVars, cacheOwner, running, wApp, wEpoch, cancelled, overtaken, faulted>>

\* send_request: check_payload once registered.
CheckPayload(w) ==
    /\ wPc[w] = "registered"
    /\ Decides(w)
    /\ \/ /\ Valid(w)
          /\ wPc' = [wPc EXCEPT ![w] = "running"]
          /\ UNCHANGED running
       \/ ~Valid(w) /\ Retire(w)
    /\ UNCHANGED <<boundary, opVars, cacheOwner, wApp, wEpoch, cancelled, overtaken, faulted>>

\* The execution takes an engine cache and calls its sink while it owns it.
EnterCache(w) ==
    /\ wPc[w] = "running"
    /\ cacheOwner[wApp[w]] = NoWork
    /\ cacheOwner' = [cacheOwner EXCEPT ![wApp[w]] = w]
    /\ wPc' = [wPc EXCEPT ![w] = "callback"]
    /\ UNCHANGED <<boundary, opVars, running, wApp, wEpoch, cancelled, overtaken, faulted>>

\* deliver_payload, admitted: shared access is held until the enqueue is done.
Deliver(w) ==
    /\ wPc[w] \in {"running", "callback"}
    /\ Decides(w)
    /\ Valid(w)
    /\ wPc' = [wPc EXCEPT ![w] = "delivering"]
    /\ UNCHANGED <<boundary, opVars, cacheOwner, running, wApp, wEpoch, cancelled, overtaken, faulted>>

\* deliver_payload, refused: the event is dropped.
DeliverRefused(w) ==
    /\ wPc[w] \in {"running", "callback"}
    /\ Decides(w)
    /\ ~Valid(w)
    /\ wPc' = [wPc EXCEPT ![w] = IF @ = "callback" THEN "leaving" ELSE @]
    /\ UNCHANGED <<boundary, opVars, cacheOwner, running, wApp, wEpoch, cancelled, overtaken, faulted>>

Delivered(w) ==
    /\ wPc[w] = "delivering"
    /\ wPc' = [wPc EXCEPT ![w] = IF cacheOwner[wApp[w]] = w THEN "leaving" ELSE "running"]
    /\ UNCHANGED <<boundary, opVars, cacheOwner, running, wApp, wEpoch, cancelled, overtaken, faulted>>

LeaveCache(w) ==
    /\ wPc[w] = "leaving"
    /\ cacheOwner' = [cacheOwner EXCEPT ![wApp[w]] = NoWork]
    /\ wPc' = [wPc EXCEPT ![w] = "running"]
    /\ UNCHANGED <<boundary, opVars, running, wApp, wEpoch, cancelled, overtaken, faulted>>

\* cancel_execution: cancel_pending finds the attempt in the registry.
CancelExecution(w) ==
    /\ w \in running
    /\ cancelled' = [cancelled EXCEPT ![w] = TRUE]
    /\ UNCHANGED <<boundary, opVars, cacheOwner, running, wPc, wApp, wEpoch, overtaken, faulted>>

\* The execution finishes, or stops at a cancellation point.
Finish(w) ==
    /\ wPc[w] = "running"
    /\ Retire(w)
    /\ UNCHANGED <<boundary, opVars, cacheOwner, wApp, wEpoch, cancelled, overtaken, faulted>>

\* The reply is out: the fence and the token are dropped.
Ends(w) ==
    /\ wPc' = [wPc EXCEPT ![w] = "idle"]
    /\ wApp' = [wApp EXCEPT ![w] = NoApp]
    /\ wEpoch' = [wEpoch EXCEPT ![w] = 0]
    /\ cancelled' = [cancelled EXCEPT ![w] = FALSE]

\* reply_payload: the result is enqueued under the fence ...
Reply(w) ==
    /\ wPc[w] = "replying"
    /\ Decides(w)
    /\ Valid(w)
    /\ wPc' = [wPc EXCEPT ![w] = "answering"]
    /\ UNCHANGED <<boundary, opVars, cacheOwner, running, wApp, wEpoch, cancelled, overtaken, faulted>>

Answered(w) ==
    /\ wPc[w] = "answering"
    /\ Ends(w)
    /\ UNCHANGED <<boundary, opVars, cacheOwner, running, overtaken, faulted>>

\* ... or replaced by the scalar LOCKED.
ReplyLocked(w) ==
    /\ wPc[w] = "replying"
    /\ Decides(w)
    /\ ~Valid(w)
    /\ Ends(w)
    /\ UNCHANGED <<boundary, opVars, cacheOwner, running, overtaken, faulted>>

----------------------------------------------------------------------------
OpBegins(o) ==
    \/ BeginLock(o) \/ BeginLockIfCurrent(o) \/ BeginLockIntegrity(o)
    \/ BeginUnlock(o) \/ BeginRotate(o) \/ BeginEnroll(o)

\* The steps of an operation that has begun.
OpSteps(o) ==
    \/ ChooseUnlock(o) \/ ChooseOpen(o) \/ DeriveFails(o) \/ NotConfirmed(o)
    \/ Acquire(o) \/ Refuse(o)
    \/ FenceLock(o) \/ FenceOpen(o) \/ OpenOvertaken(o) \/ FenceUnlock(o)
    \/ FenceRotate(o) \/ FenceEnroll(o) \/ ChangeRefused(o)
    \/ DropKey(o) \/ ClearCaches(o) \/ StopWork(o) \/ Publish(o)
    \/ RotationEnds(o) \/ KeyChangeDropped(o) \/ EnrollmentDropped(o)

\* The steps of admitted work that do not wait for its network or its user.
WorkSteps(w) ==
    \/ Register(w) \/ CheckPayload(w)
    \/ Delivered(w) \/ LeaveCache(w)
    \/ Reply(w) \/ Answered(w) \/ ReplyLocked(w)
    \/ wPc[w] = "callback" /\ (Deliver(w) \/ DeliverRefused(w))

Next ==
    \/ \E o \in Op : OpBegins(o) \/ OpSteps(o)
    \/ \E a \in App : SelfLock(a)
    \/ \E w \in Work : \/ Admit(w) \/ WorkSteps(w) \/ EnterCache(w)
                       \/ Deliver(w) \/ DeliverRefused(w)
                       \/ CancelExecution(w) \/ Finish(w)

(***************************************************************************)
(* Fairness: every thread that can run does.  The transition mutex, the    *)
(* gate and the caches are parking_lot locks, which are eventually fair: a *)
(* thread that finds one free again and again gets it.  A cancelled        *)
(* execution ends at a cancellation point.                                 *)
(***************************************************************************)
Fairness ==
    /\ \A o \in Op : SF_vars(OpSteps(o))
    /\ \A w \in Work : SF_vars(WorkSteps(w)) /\ SF_vars(Finish(w) /\ cancelled[w])

Spec == Init /\ [][Next]_vars
FairSpec == Spec /\ Fairness
----------------------------------------------------------------------------
(* The boundary as its users see it.                                       *)
Boundary == INSTANCE LockBoundary WITH
    open <- gate,
    gen <- epoch,
    pass <- [w \in Work |-> IF wPc[w] = "idle" THEN {} ELSE {wEpoch[w]}],
    inside <- {w \in Work : wPc[w] \in Delivering}

\* The threads, locks, keys and caches implement the abstract boundary: every
\* step of theirs is a step of LockBoundary or leaves it as it is.
RefinesBoundary == Boundary!Spec

----------------------------------------------------------------------------
(* What the boundary promises.                                             *)

\* While a payload is being enqueued (between the validation in
\* deliver_payload and the end of its callback) the boundary does not move:
\* delivery is open, in the epoch and for the profile the work was admitted
\* in, and no operation is cleaning up.
DeliveryFenced ==
    \A w \in Work : wPc[w] \in Delivering =>
        /\ gate
        /\ epoch = wEpoch[w]
        /\ app = wApp[w]
        /\ \A o \in Op : opPc[o] \notin {"store", "caches", "stop", "publish"}

\* A profile holds its key only while it is published, while the unlock that
\* opened it has still to publish it, or while its own retirement is under
\* way: a profile that was switched away from, or whose opening was refused,
\* keeps no key in memory (set_app_since).
KeyConfined ==
    \A a \in App : key[a] =>
        \/ a = app
        \/ \E o \in Op : opKind[o] = "open" /\ opApp[o] = a /\ opPc[o] \in {"wait", "gate"}
        \/ \E o \in Op : opKind[o] = "open" /\ opOld[o] = a /\ opPc[o] = "store"

\* Once the boundary is at rest and delivery is closed, the published profile
\* holds no key: neither a lock, a refused unlock nor the end of a credential
\* rotation leaves a closed profile readable.
ClosedMeansLocked ==
    transition = NoOp /\ ~gate /\ ~keyChange => app = NoApp \/ ~key[app]

\* A credential rotation never loses its exclusivity: while its worker holds
\* the old key, no unlock and no publication opens delivery.
RotationExclusive ==
    \A o \in Op : opKind[o] = "rotate" /\ opPc[o] \in {"stop", "held", "drop"} =>
        keyChange /\ ~gate /\ app = opApp[o]

\* Work admitted in an earlier epoch that has passed its check was cancelled,
\* unless the operation that moved the epoch has still to stop it: an attempt
\* that registered before a lock is stopped by it, one that registers later
\* is refused by its check (send_request, stop_work).  This holds as long as no
\* store has dropped its key by itself, which closes delivery without stopping
\* anything.
StaleWorkStopped ==
    ~faulted =>
      \A w \in Work : wPc[w] \in {"running", "callback", "delivering", "leaving"} /\ wEpoch[w] # epoch =>
        cancelled[w] \/ \E o \in Op : opPc[o] \in {"store", "caches", "stop"} /\ w \in running

\* What a step of an overtaken opener leaves alone.
OvertakenKeepsClosed ==
    \A o \in overtaken : opPc'[o] # opPc[o] =>
        /\ gate' => gate
        /\ app' = app
        /\ keyChange' => keyChange
        /\ app # NoApp => (key'[app] => key[app])

\* A lock wins over every opener it lands on: an unlock, a publication, a
\* rotation or an enrollment that captured its epoch before a boundary move
\* neither opens delivery, publishes a profile, starts a credential change
\* nor gives the published profile its key back (set_app_since,
\* unlock_since, begin_key_change).
LockWins == [][OvertakenKeepsClosed]_vars

\* A fence that has become invalid stays so until its work ends: no later
\* unlock makes it valid again, not even of the same profile.
FenceNeverRevives ==
    [][\A w \in Work : wPc[w] # "idle" /\ wPc'[w] # "idle" /\ ~Valid(w) => ~Valid(w)']_vars

\* A lock that was asked for completes: neither a delivery in progress nor a
\* callback inside an engine cache, which the cleanup waits for, can block it.
LockCompletes == \A o \in Op : opPc[o] = "wait" /\ opKind[o] = "lock" ~> opPc[o] = "idle"

\* Work admitted before a boundary move ends after it, unless a store drops its
\* key by itself.
StaleWorkEnds == \A w \in Work : (wPc[w] # "idle" /\ wEpoch[w] < epoch) ~> (wPc[w] = "idle" \/ faulted)
=============================================================================
