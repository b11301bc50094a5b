----------------------------- MODULE LoadReports -----------------------------
(***************************************************************************)
(* Desktop load runs and the reports they leave behind: load_run_start,    *)
(* its supervisor and `finished` in cmd_load.rs; the run registries of     *)
(* DesktopState and of App; PendingReports in state.rs.                    *)
(*                                                                         *)
(* A run works in a worker process while locks, unlocks, profile switches, *)
(* credential rotations and workspace deletes land.  It registers before   *)
(* it reads the profile, is stopped through cancellation tokens, and its   *)
(* report is saved into the profile it started under, held while that      *)
(* profile is locked, or dropped with its workspace.                       *)
(*                                                                         *)
(* The lock boundary itself is module DesktopState; here a boundary move   *)
(* keeps only the steps a load run can observe.  A profile has one         *)
(* workspace.  An instance is one opened Arc<App>; its vault (VaultId) is  *)
(* the profile with the version of its data key.                           *)
(***************************************************************************)
EXTENDS Naturals, Sequences, FiniteSets

CONSTANTS
    Profile,
    Run,          \* load runs
    Opener,       \* threads of profile_unlock
    NoRun,
    MaxInst,      \* bound: instances ever opened
    MaxMoves,     \* bound: boundary moves
    Rotations,    \* whether the passphrase may be changed
    StoreErrors   \* whether a save may fail on an unlocked store

ASSUME LoadAssumption ==
    /\ NoRun \notin Run \cup Opener
    /\ Run \cap Opener = {}
    /\ MaxInst \in Nat \ {0} /\ MaxMoves \in Nat
    /\ Rotations \in BOOLEAN /\ StoreErrors \in BOOLEAN

VARIABLES
    insts,        \* the opened instances, each with its vault
    key,          \* the instances whose store holds its key
    cur, gate,    \* the published instance (0: none); delivery is open
    ver,          \* ver[p]: the version of the data key on disk
    ws,           \* the profiles whose workspace exists
    rotation,     \* the credential rotation in flight
    mover,        \* the lock or publication under the transition mutex
    deleting,     \* the instance whose workspace delete committed (0: none)
    moves,
    rPc, rInst, stop, worker, stopped,
    entries,      \* DesktopState::load_runs
    guards,       \* App::load_runs
    crossed,      \* history: runs whose instance lost its key
    held,         \* pending_load_reports
    saved,        \* the reports stored in each profile
    lost,         \* reports answered as gone or not saved
    flushing, fInst, fTaken, fBack,
    told          \* told[r]: what the finished event is about to say

session == <<insts, key, cur, gate, ver, ws, rotation, mover, deleting, moves>>
runVars == <<rPc, rInst, stop, worker, stopped, entries, guards, crossed>>
reports == <<held, saved, lost>>
flushVars == <<flushing, fInst, fTaken, fBack>>
vars == <<session, runVars, reports, flushVars, told>>

Thread == Run \cup Opener
Token == {"user", "lock", "locked", "deleted"}
StopCause == {"User", "Lock", "WorkspaceDeleted"}
RunPc == {"idle", "registered", "planning", "guarded", "preparing", "prepared", "proving", "spawning",
          "supervised", "saving", "holding", "flushing", "deciding", "emitting", "done"}
RotationPc == {"none", "work", "drop", "runs"}
MoverPc == {"idle", "store", "runs", "stop"}

ProfileOf(i) == insts[i].profile
Unlocked(i) == i \in key
AtRest == mover.pc = "idle" /\ rotation.pc = "none"

----------------------------------------------------------------------------
(* Boundary moves, as a load run observes them.                            *)

Idle == [pc |-> "idle", inst |-> 0, by |-> NoRun]

\* DesktopState::lock and the transition mutex.
Lock ==
    /\ mover.pc = "idle" /\ moves < MaxMoves
    /\ moves' = moves + 1
    /\ gate' = FALSE
    /\ mover' = [pc |-> "store", inst |-> cur, by |-> NoRun]
    /\ UNCHANGED <<insts, key, cur, ver, ws, rotation, deleting, runVars, reports, flushVars, told>>

\* The open profile, its header still current, is unlocked in place: a load
\* run keeps its instance.  Unlocking an unlocked profile changes nothing.
Unlock(u) ==
    /\ mover.pc = "idle" /\ moves < MaxMoves /\ flushing[u] = "no"
    /\ rotation.pc = "none"
    /\ cur # 0 /\ insts[cur].ver = ver[ProfileOf(cur)]
    /\ moves' = moves + 1
    /\ key' = key \cup {cur}
    /\ gate' = TRUE
    /\ flushing' = [flushing EXCEPT ![u] = "due"]
    /\ UNCHANGED <<insts, cur, ver, ws, rotation, mover, deleting, runVars, reports, fInst, fTaken, fBack, told>>

\* profile_unlock of any other vault: a new instance is published.
Publish(u, p) ==
    /\ mover.pc = "idle" /\ moves < MaxMoves /\ flushing[u] = "no"
    /\ rotation.pc = "none"
    /\ cur # 0 => insts[cur] # [profile |-> p, ver |-> ver[p]]
    /\ Len(insts) < MaxInst
    /\ moves' = moves + 1
    /\ insts' = Append(insts, [profile |-> p, ver |-> ver[p]])
    /\ cur' = Len(insts')
    /\ key' = key \cup {cur'}
    /\ gate' = FALSE
    /\ mover' = [pc |-> "store", inst |-> cur, by |-> u]
    /\ UNCHANGED <<ver, ws, rotation, deleting, runVars, reports, flushVars, told>>

\* Store::lock of the instance being closed.
StoreLocks ==
    /\ mover.pc = "store"
    /\ key' = key \ {mover.inst}
    /\ crossed' = crossed \cup {r \in Run : rInst[r] = mover.inst /\ rInst[r] # 0}
    /\ mover' = [mover EXCEPT !.pc = "runs"]
    /\ UNCHANGED <<insts, cur, gate, ver, ws, rotation, deleting, moves, rPc, rInst, stop, worker, stopped, entries,
                   guards, reports, flushVars, told>>

Cancel(runs, token) == stopped' = [r \in Run |-> IF r \in runs THEN stopped[r] \cup {token} ELSE stopped[r]]

\* The registered runs of an instance: App::load_runs.
GuardsOf(i) == {r \in guards : rInst[r] = i}

\* App::lock stops the load runs registered with the instance.
StopRuns ==
    /\ mover.pc = "runs"
    /\ Cancel(GuardsOf(mover.inst), "locked")
    /\ mover' = [mover EXCEPT !.pc = "stop"]
    /\ UNCHANGED <<insts, key, cur, gate, ver, ws, rotation, deleting, moves, rPc, rInst, stop, worker, entries, guards,
                   crossed, reports, flushVars, told>>

\* DesktopState::stop_work; a publication then opens delivery and its
\* command goes on to flush the held reports.
StopWork ==
    /\ mover.pc = "stop"
    /\ Cancel(entries, "lock")
    /\ mover' = Idle
    /\ gate' = (mover.by # NoRun)
    /\ flushing' = [u \in Thread |-> IF u = mover.by THEN "due" ELSE flushing[u]]
    /\ UNCHANGED <<insts, key, cur, ver, ws, rotation, deleting, moves, rPc, rInst, stop, worker, entries, guards, crossed,
                   reports, fInst, fTaken, fBack, told>>

\* change_passphrase after its dialogs: begin_key_change closes delivery and
\* stops the work, keeping the key for the rotation.
BeginKeyChange ==
    /\ Rotations
    /\ mover.pc = "idle" /\ moves < MaxMoves
    /\ gate /\ rotation.pc = "none" /\ cur # 0 /\ Unlocked(cur)
    /\ moves' = moves + 1
    /\ gate' = FALSE
    /\ rotation' = [pc |-> "work", inst |-> cur]
    /\ mover' = [pc |-> "stop", inst |-> cur, by |-> NoRun]
    /\ UNCHANGED <<insts, key, cur, ver, ws, deleting, runVars, reports, flushVars, told>>

\* Store::rotate_to: the new header and the re-encrypted data commit together
\* and the store forgets its key; or the rotation fails (also because a lock
\* dropped the key) and leaves everything as it was.
RotateTo ==
    /\ rotation.pc = "work" /\ mover.pc # "stop"
    /\ rotation' = [rotation EXCEPT !.pc = "drop"]
    /\ \/ /\ Unlocked(rotation.inst)
          /\ ver' = [ver EXCEPT ![ProfileOf(rotation.inst)] = @ + 1]
          /\ key' = key \ {rotation.inst}
       \/ UNCHANGED <<ver, key>>
    /\ UNCHANGED <<insts, cur, gate, ws, mover, deleting, moves, runVars, reports, flushVars, told>>

\* KeyChange::drop locks the instance and then admits unlocks again.
KeyChangeDrops ==
    /\ rotation.pc = "drop"
    /\ key' = key \ {rotation.inst}
    /\ crossed' = crossed \cup {r \in Run : rInst[r] = rotation.inst}
    /\ rotation' = [rotation EXCEPT !.pc = "runs"]
    /\ UNCHANGED <<insts, cur, gate, ver, ws, mover, deleting, moves, rPc, rInst, stop, worker, stopped, entries, guards,
                   reports, flushVars, told>>

KeyChangeEnds ==
    /\ rotation.pc = "runs"
    /\ Cancel(GuardsOf(rotation.inst), "locked")
    /\ rotation' = [pc |-> "none", inst |-> 0]
    /\ UNCHANGED <<insts, key, cur, gate, ver, ws, mover, deleting, moves, rPc, rInst, stop, worker, entries, guards,
                   crossed, reports, flushVars, told>>

\* App::delete_workspace: the delete, with the workspace's reports, commits
\* before the runs of the workspace are stopped.
DeleteWorkspace ==
    /\ deleting = 0 /\ cur # 0 /\ Unlocked(cur) /\ ProfileOf(cur) \in ws
    /\ ws' = ws \ {ProfileOf(cur)}
    /\ saved' = [saved EXCEPT ![ProfileOf(cur)] = {}]
    /\ lost' = lost \cup saved[ProfileOf(cur)]
    /\ deleting' = cur
    /\ UNCHANGED <<insts, key, cur, gate, ver, rotation, mover, moves, runVars, held, flushVars, told>>

StopWorkspaceRuns ==
    /\ deleting # 0
    /\ Cancel(GuardsOf(deleting), "deleted")
    /\ deleting' = 0
    /\ UNCHANGED <<insts, key, cur, gate, ver, ws, rotation, mover, moves, rPc, rInst, stop, worker, entries, guards,
                   crossed, reports, flushVars, told>>

----------------------------------------------------------------------------
(* load_run_start.                                                         *)

Goto(r, p) == rPc' = [rPc EXCEPT ![r] = p]

\* LoadRunEntry::register, before the app is read.
Register(r) ==
    /\ rPc[r] = "idle"
    /\ entries' = entries \cup {r}
    /\ Goto(r, "registered")
    /\ UNCHANGED <<session, rInst, stop, worker, stopped, guards, crossed, reports, flushVars, told>>

\* An early return retires the entry and, once made, the guard.
Retire(r) ==
    /\ entries' = entries \ {r}
    /\ guards' = guards \ {r}
    /\ Goto(r, "done")
    /\ UNCHANGED <<rInst, stopped>>

\* DesktopState::app().
ReadApp(r) ==
    /\ rPc[r] = "registered"
    /\ \/ /\ gate /\ cur # 0 /\ Unlocked(cur)
          /\ rInst' = [rInst EXCEPT ![r] = cur]
          /\ Goto(r, "planning")
          /\ UNCHANGED <<entries, guards, stopped>>
       \/ ~(gate /\ cur # 0 /\ Unlocked(cur)) /\ Retire(r)
    /\ UNCHANGED <<session, stop, worker, crossed, reports, flushVars, told>>

\* What a read of the plan or of its secrets needs.
Readable(r) == Unlocked(rInst[r]) /\ ProfileOf(rInst[r]) \in ws

\* The plan is read and the run listed with its profile.
RegisterLoadRun(r) ==
    /\ rPc[r] = "planning"
    /\ \/ /\ Readable(r)
          /\ guards' = guards \cup {r}
          /\ Goto(r, "guarded")
          /\ UNCHANGED <<entries, stopped, rInst>>
       \/ (~Readable(r) \/ StoreErrors) /\ Retire(r)
    /\ UNCHANGED <<session, stop, worker, crossed, reports, flushVars, told>>

\* register_load_run looks again: a stop that missed the entry is seen here.
\* A failure to look drops the guard.
Recheck(r) ==
    /\ rPc[r] = "guarded"
    /\ \/ /\ Goto(r, "preparing")
          /\ CASE ~Unlocked(rInst[r]) -> Cancel({r}, "locked")
               [] Unlocked(rInst[r]) /\ ProfileOf(rInst[r]) \notin ws -> Cancel({r}, "deleted")
               [] OTHER -> UNCHANGED stopped
          /\ UNCHANGED <<rInst, entries, guards>>
       \/ StoreErrors /\ Retire(r)
    /\ UNCHANGED <<session, stop, worker, crossed, reports, flushVars, told>>

\* A read of the job or of its authority, which fails on a locked store.  The
\* lock_integrity_if_current that follows finds delivery closed: no store of
\* this module locks itself.
Reads(r, from, to) ==
    /\ rPc[r] = from
    /\ \/ Readable(r) /\ Goto(r, to) /\ UNCHANGED <<entries, guards, stopped, rInst>>
       \/ (~Readable(r) \/ StoreErrors) /\ Retire(r)
    /\ UNCHANGED <<session, stop, worker, crossed, reports, flushVars, told>>

\* The tokens are read once between the two reads of the store.
CheckStops(r) ==
    /\ rPc[r] = "prepared"
    /\ \/ /\ stopped[r] \subseteq {"user"}
          /\ Goto(r, "proving")
          /\ UNCHANGED <<entries, guards, stopped, rInst>>
       \/ ~(stopped[r] \subseteq {"user"}) /\ Retire(r)
    /\ UNCHANGED <<session, stop, worker, crossed, reports, flushVars, told>>

Spawn(r) ==
    /\ rPc[r] = "spawning"
    /\ \/ /\ worker' = [worker EXCEPT ![r] = "working"]
          /\ Goto(r, "supervised")
          /\ UNCHANGED <<entries, guards, stopped, rInst>>
       \/ Retire(r) /\ UNCHANGED worker
    /\ UNCHANGED <<session, stop, crossed, reports, flushVars, told>>

\* load_run_cancel.
LoadRunCancel(r) ==
    /\ r \in entries /\ "user" \notin stopped[r]
    /\ Cancel({r}, "user")
    /\ UNCHANGED <<session, rPc, rInst, stop, worker, entries, guards, crossed, reports, flushVars, told>>

----------------------------------------------------------------------------
(* The supervisor of the worker process.                                   *)

On_IgnoresLock(state, cause) ==
    CASE state = "Killed" -> <<"Killed", "none">>
      [] state # "Killed" /\ cause = "WorkspaceDeleted" -> <<"Killed", "killed">>
      [] state = "Running" /\ cause = "User" -> <<"Draining", "asked">>
      [] OTHER -> <<state, "none">>

\* Stop::on: the next state and what is done to the worker.
On(state, cause) ==
    CASE state = "Killed" -> <<"Killed", "none">>
      [] state # "Killed" /\ cause = "WorkspaceDeleted" -> <<"Killed", "killed">>
      [] state = "Running" /\ cause = "User" -> <<"Draining", "asked">>
      [] state = "Running" /\ cause = "Lock" -> <<"Draining", "locked">>
      [] state = "Draining" /\ cause \in {"User", "Lock"} -> <<"Draining", "none">>

Admits(state, cause) == On(state, cause)[2] # "none"

Raised(r, cause) ==
    CASE cause = "User" -> "user" \in stopped[r]
      [] cause = "Lock" -> stopped[r] \cap {"lock", "locked"} # {}
      [] cause = "WorkspaceDeleted" -> "deleted" \in stopped[r]

\* One round of the loop that ends a branch with a cause.
Supervise(r, cause) ==
    /\ rPc[r] = "supervised" /\ worker[r] # "exited"
    /\ Raised(r, cause) /\ Admits(stop[r], cause)
    /\ stop' = [stop EXCEPT ![r] = On(@, cause)[1]]
    /\ worker' = [worker EXCEPT ![r] = On(stop[r], cause)[2]]
    /\ UNCHANGED <<session, rPc, rInst, stopped, entries, guards, crossed, reports, flushVars, told>>

\* The worker process (external) ends: by itself, drained, killed by the
\* supervisor, or killed by the deadline of the stop it was sent.
WorkerExits(r) ==
    /\ worker[r] \in {"working", "asked", "locked", "killed"}
    /\ worker' = [worker EXCEPT ![r] = "exited"]
    /\ UNCHANGED <<session, rPc, rInst, stop, stopped, entries, guards, crossed, reports, flushVars, told>>

\* The loop ends with the worker.  A run of a deleted workspace is discarded;
\* a worker that refused its job leaves no report.
SupervisorEnds(r) ==
    /\ rPc[r] = "supervised" /\ worker[r] = "exited"
    /\ entries' = entries \ {r}
    /\ guards' = guards \ {r}
    /\ \/ /\ "deleted" \notin stopped[r]
          /\ Goto(r, "saving")
          /\ UNCHANGED lost
       \/ /\ Goto(r, "deciding")
          /\ lost' = lost \cup {r}
    /\ UNCHANGED <<session, rInst, stop, worker, stopped, crossed, held, saved, flushVars, told>>

----------------------------------------------------------------------------
(* Saving, holding and flushing reports.                                   *)

\* save_load_report refuses a report whose workspace is gone, in the
\* transaction that writes it.
SavesInto_Unchecked(i, r) ==
    /\ Unlocked(i)
    /\ saved' = [saved EXCEPT ![ProfileOf(i)] = @ \cup {r}]
    /\ UNCHANGED lost

SavesInto(i, r) ==
    /\ Unlocked(i) /\ ProfileOf(i) \in ws
    /\ saved' = [saved EXCEPT ![ProfileOf(i)] = @ \cup {r}]
    /\ UNCHANGED lost

Gone(i, r) ==
    /\ Unlocked(i) /\ ProfileOf(i) \notin ws
    /\ lost' = lost \cup {r}
    /\ UNCHANGED saved

\* `finished`: a locked profile holds the report; any other failure to save
\* is answered as such.
Finished(r) ==
    /\ rPc[r] = "saving"
    /\ \/ SavesInto(rInst[r], r) /\ Goto(r, "deciding")
       \/ Gone(rInst[r], r) /\ Goto(r, "deciding")
       \/ StoreErrors /\ Unlocked(rInst[r]) /\ lost' = lost \cup {r} /\ UNCHANGED saved /\ Goto(r, "deciding")
       \/ ~Unlocked(rInst[r]) /\ Goto(r, "holding") /\ UNCHANGED <<saved, lost>>
    /\ UNCHANGED <<session, rInst, stop, worker, stopped, entries, guards, crossed, held, flushVars, told>>

\* hold_report pushes the report and flushes at once.
HoldReport(r) ==
    /\ rPc[r] = "holding"
    /\ held' = held \cup {r}
    /\ flushing' = [flushing EXCEPT ![r] = "due"]
    /\ Goto(r, "flushing")
    /\ UNCHANGED <<session, rInst, stop, worker, stopped, entries, guards, crossed, saved, lost, fInst, fTaken, fBack,
                   told>>

TakeFor_Any(i) == held

\* take_for: the held reports of the vault of an instance.
TakeFor(i) == {r \in held : insts[rInst[r]] = insts[i]}

FlushBegins(t) ==
    /\ flushing[t] = "due"
    /\ \/ /\ cur # 0 /\ Unlocked(cur)
          /\ fInst' = [fInst EXCEPT ![t] = cur]
          /\ fTaken' = [fTaken EXCEPT ![t] = TakeFor(cur)]
          /\ held' = held \ TakeFor(cur)
          /\ flushing' = [flushing EXCEPT ![t] = "on"]
       \/ /\ ~(cur # 0 /\ Unlocked(cur))
          /\ flushing' = [flushing EXCEPT ![t] = "no"]
          /\ UNCHANGED <<fInst, fTaken, held>>
    /\ UNCHANGED <<session, runVars, saved, lost, fBack, told>>

\* Mutant: a report that cannot be saved yet is given up.
FlushSaves_GivesUp(t) ==
    /\ flushing[t] = "on" /\ fBack[t] = NoRun
    /\ \E r \in fTaken[t] :
        /\ fTaken' = [fTaken EXCEPT ![t] = @ \ {r}]
        /\ \/ SavesInto(fInst[t], r) \/ Gone(fInst[t], r)
           \/ (~Unlocked(fInst[t]) \/ StoreErrors) /\ lost' = lost \cup {r} /\ UNCHANGED saved
    /\ UNCHANGED <<session, runVars, held, flushing, fInst, fBack, told>>

\* A report of the loop is saved, dropped with its workspace, or (the profile
\* locked again, or the store failed) goes back to the held ones.
FlushSaves(t) ==
    /\ flushing[t] = "on" /\ fBack[t] = NoRun
    /\ \E r \in fTaken[t] :
        /\ fTaken' = [fTaken EXCEPT ![t] = @ \ {r}]
        /\ \/ (SavesInto(fInst[t], r) \/ Gone(fInst[t], r)) /\ UNCHANGED fBack
           \/ /\ ~Unlocked(fInst[t]) \/ StoreErrors
              /\ fBack' = [fBack EXCEPT ![t] = r]
              /\ UNCHANGED <<saved, lost>>
    /\ UNCHANGED <<session, runVars, held, flushing, fInst, told>>

FlushPushesBack_Drops(t) ==
    /\ fBack[t] # NoRun
    /\ fBack' = [fBack EXCEPT ![t] = NoRun]
    /\ UNCHANGED <<session, runVars, reports, flushing, fInst, fTaken, told>>

FlushPushesBack(t) ==
    /\ fBack[t] # NoRun
    /\ held' = held \cup {fBack[t]}
    /\ fBack' = [fBack EXCEPT ![t] = NoRun]
    /\ UNCHANGED <<session, runVars, saved, lost, flushing, fInst, fTaken, told>>

FlushEnds(t) ==
    /\ flushing[t] = "on" /\ fTaken[t] = {} /\ fBack[t] = NoRun
    /\ flushing' = [flushing EXCEPT ![t] = "no"]
    /\ fInst' = [fInst EXCEPT ![t] = 0]
    /\ UNCHANGED <<session, runVars, reports, fTaken, fBack, told>>

\* A run whose report was held goes on once its flush has ended.
Flushed(r) ==
    /\ rPc[r] = "flushing" /\ flushing[r] = "no"
    /\ Goto(r, "deciding")
    /\ UNCHANGED <<session, rInst, stop, worker, stopped, entries, guards, crossed, reports, flushVars, told>>

\* for_window: what the finished event says depends on is_current, read
\* before the event is emitted.
ForWindow(r) ==
    /\ rPc[r] = "deciding"
    /\ told' = [told EXCEPT ![r] = (cur = rInst[r])]
    /\ Goto(r, "emitting")
    /\ UNCHANGED <<session, rInst, stop, worker, stopped, entries, guards, crossed, reports, flushVars>>

Emit(r) ==
    /\ rPc[r] = "emitting"
    /\ told' = [told EXCEPT ![r] = FALSE]
    /\ Goto(r, "done")
    /\ UNCHANGED <<session, rInst, stop, worker, stopped, entries, guards, crossed, reports, flushVars>>

----------------------------------------------------------------------------
Init ==
    /\ insts = <<>> /\ key = {} /\ cur = 0 /\ gate = FALSE
    /\ ver = [p \in Profile |-> 0] /\ ws = Profile
    /\ rotation = [pc |-> "none", inst |-> 0] /\ mover = Idle /\ deleting = 0 /\ moves = 0
    /\ rPc = [r \in Run |-> "idle"] /\ rInst = [r \in Run |-> 0]
    /\ stop = [r \in Run |-> "Running"] /\ worker = [r \in Run |-> "none"]
    /\ stopped = [r \in Run |-> {}]
    /\ entries = {} /\ guards = {} /\ crossed = {}
    /\ held = {} /\ saved = [p \in Profile |-> {}] /\ lost = {}
    /\ flushing = [t \in Thread |-> "no"] /\ fInst = [t \in Thread |-> 0]
    /\ fTaken = [t \in Thread |-> {}] /\ fBack = [t \in Thread |-> NoRun]
    /\ told = [r \in Run |-> FALSE]

MoverSteps == StoreLocks \/ StopRuns \/ StopWork
RotationSteps == RotateTo \/ KeyChangeDrops \/ KeyChangeEnds
Boundary ==
    \/ Lock \/ BeginKeyChange \/ MoverSteps \/ RotationSteps
    \/ \E u \in Opener : Unlock(u) \/ \E p \in Profile : Publish(u, p)
    \/ DeleteWorkspace \/ StopWorkspaceRuns

StartSteps(r) ==
    \/ ReadApp(r) \/ RegisterLoadRun(r) \/ Recheck(r)
    \/ Reads(r, "preparing", "prepared") \/ CheckStops(r) \/ Reads(r, "proving", "spawning") \/ Spawn(r)
StopSteps(r) == \E cause \in StopCause : Supervise(r, cause)
EndSteps(r) == SupervisorEnds(r) \/ Finished(r) \/ HoldReport(r) \/ Flushed(r) \/ ForWindow(r) \/ Emit(r)
FlushSteps(t) == FlushBegins(t) \/ FlushSaves(t) \/ FlushPushesBack(t) \/ FlushEnds(t)

Next ==
    \/ Boundary
    \/ \E r \in Run :
        Register(r) \/ StartSteps(r) \/ LoadRunCancel(r) \/ StopSteps(r) \/ WorkerExits(r) \/ EndSteps(r)
    \/ \E t \in Thread : FlushSteps(t)

Spec == Init /\ [][Next]_vars

\* Threads and tasks keep running; a worker that was asked to stop ends by
\* the deadline of the stop (LoadController::stop).
Fairness ==
    /\ WF_vars(MoverSteps) /\ WF_vars(RotationSteps) /\ WF_vars(StopWorkspaceRuns)
    /\ \A r \in Run :
        /\ WF_vars(StartSteps(r)) /\ WF_vars(StopSteps(r)) /\ WF_vars(EndSteps(r))
        /\ WF_vars(WorkerExits(r) /\ worker[r] # "working")
    /\ \A t \in Thread : WF_vars(FlushSteps(t))

FairSpec == Spec /\ Fairness

----------------------------------------------------------------------------
\* Types; MaxMoves bounds key versions.
VaultId == [profile : Profile, ver : 0 .. MaxMoves]
InstType ==
    /\ insts \in Seq(VaultId) /\ Len(insts) <= MaxInst
    /\ key \subseteq 1 .. Len(insts) /\ cur \in 0 .. Len(insts) /\ gate \in BOOLEAN
    /\ ver \in [Profile -> 0 .. MaxMoves] /\ ws \subseteq Profile /\ moves \in 0 .. MaxMoves
MoveType ==
    /\ rotation \in [pc : RotationPc, inst : 0 .. Len(insts)]
    /\ mover \in [pc : MoverPc, inst : 0 .. Len(insts), by : Opener \cup {NoRun}]
    /\ deleting \in 0 .. Len(insts)
RunType ==
    /\ rPc \in [Run -> RunPc] /\ rInst \in [Run -> 0 .. Len(insts)]
    /\ stop \in [Run -> {"Running", "Draining", "Killed"}]
    /\ worker \in [Run -> {"none", "working", "asked", "locked", "killed", "exited"}]
    /\ stopped \in [Run -> SUBSET Token] /\ told \in [Run -> BOOLEAN]
    /\ entries \subseteq Run /\ guards \subseteq Run /\ crossed \subseteq Run
ReportType ==
    /\ held \subseteq Run /\ saved \in [Profile -> SUBSET Run] /\ lost \subseteq Run
    /\ flushing \in [Thread -> {"no", "due", "on"}] /\ fInst \in [Thread -> 0 .. Len(insts)]
    /\ fTaken \in [Thread -> SUBSET Run] /\ fBack \in [Thread -> Run \cup {NoRun}]

\* ... and a run past app() has an instance.
TypeOK ==
    /\ InstType /\ MoveType /\ RunType /\ ReportType
    /\ \A r \in Run : rPc[r] \in {"idle", "registered", "done"} \/ rInst[r] # 0

\* Work stays with its profile: however locks, switches and flushes
\* interleave, a report is stored only in the profile its run started under
\* (finished, flush_pending_reports).
ReportConfined == \A p \in Profile : \A r \in saved[p] : ProfileOf(rInst[r]) = p

\* Where the report of a run is.
Stored(r) == {<<"saved", p>> : p \in {q \in Profile : r \in saved[q]}}
Moving(r) == {<<"flush", t>> : t \in {s \in Thread : r \in fTaken[s] \/ fBack[s] = r}}
Places(r) ==
    Stored(r) \cup Moving(r) \cup {<<"at", where>> : where \in
        {w \in {"run", "held", "lost"} :
            \/ w = "run" /\ rPc[r] \in {"saving", "holding"}
            \/ w = "held" /\ r \in held
            \/ w = "lost" /\ r \in lost}}

\* No report is dropped or stored twice: from the end of its worker on, the
\* report of a run is in one place, saved, held, on its way there, or
\* answered as not kept.
ReportInOnePlace ==
    \A r \in Run :
        Cardinality(Places(r)) = IF rPc[r] \in {"saving", "holding", "flushing", "deciding", "emitting"} \/
                                    (rPc[r] = "done" /\ worker[r] = "exited") THEN 1 ELSE 0

\* Nothing of a deleted workspace is stored, however late its report comes.
DeletedKeepsNothing == \A p \in Profile \ ws : saved[p] = {}

\* The profile a run started under, and the reports that are held or in the
\* hands of a flush.
Home == [r \in Run |-> {ProfileOf(i) : i \in {rInst[r]} \ {0}}]
Pending == held \cup {r \in Run : \E t \in Thread : r \in fTaken[t] \/ fBack[t] = r}

Custody == INSTANCE ReportCustody WITH home <- Home, stored <- saved, waiting <- Pending

\* Runs, flushes, locks, publications and deletes implement ReportCustody: a
\* held report stays held, whoever takes it and however often its profile
\* locks under the flush, until it is stored in the profile its run started
\* under or that workspace is deleted, and what was stored is not dropped
\* (finished, hold_report, flush_pending_reports, delete_workspace).
RefinesCustody == Custody!Spec

\* A run whose profile locked ends, also when the profile was unlocked again.
CrossedRunEnds == \A r \in Run : (r \in crossed) ~> (rPc[r] = "done")

----------------------------------------------------------------------------
(* What the documentation says of held reports.                            *)

Quiet == AtRest /\ gate /\ (\A t \in Thread : flushing[t] = "no")

\* The same profile opened again, after a passphrase change, has the reports
\* that were held for it.
HeldSurvivesRotation ==
    Quiet => \A r \in held : ProfileOf(rInst[r]) = ProfileOf(cur) => insts[rInst[r]] = insts[cur]
=============================================================================
