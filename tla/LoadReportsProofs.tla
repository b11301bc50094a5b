-------------------------- MODULE LoadReportsProofs --------------------------
(***************************************************************************)
(* What LoadReports promises for every number of profiles, load runs and   *)
(* unlocking threads, with credential rotations and failing saves: a       *)
(* report stays with the profile its run started under, is never dropped   *)
(* or stored twice, nothing of a deleted workspace is stored, and all of   *)
(* it implements ReportCustody.  And what the executor (LoadExecutor, the  *)
(* last section) writes into such a report is true, for every number of    *)
(* slots, steps and iterations.                                            *)
(***************************************************************************)
EXTENDS LoadReports, LoadExecutor, SequenceTheorems, FiniteSetTheorems, TLAPS

----------------------------------------------------------------------------
(* Type correctness.                                                       *)

\* A key version is counted by the boundary move that made it, and a
\* rotation at work has counted the version it is about to write.
VersionsCounted ==
    \A p \in Profile : ver[p] <= moves /\ (rotation.pc = "work" => ver[p] < moves)

\* A worker is started by a run that has an instance.
WorkersPlaced == \A r \in Run : worker[r] # "none" => rInst[r] # 0

Types == TypeOK /\ VersionsCounted /\ WorkersPlaced

\* Before the worker, and after it with a report.
Early == {"idle", "registered", "planning", "guarded", "preparing", "prepared", "proving", "spawning"}
Late == {"saving", "holding", "flushing", "deciding", "emitting"}

\* The worker of a run at each of its stages.
Workers ==
    \A r \in Run :
        /\ rPc[r] \in Early => worker[r] = "none"
        /\ rPc[r] = "supervised" => worker[r] # "none"
        /\ rPc[r] \in Late => worker[r] = "exited"
        /\ rPc[r] = "done" => worker[r] \in {"none", "exited"}

\* A flush has taken reports only while it is on; the thread that publishes
\* has none to end, and a run flushes only for the report it held.
Flushers ==
    /\ \A t \in Thread : flushing[t] # "on" => fTaken[t] = {} /\ fBack[t] = NoRun
    /\ mover.pc = "idle" => mover.by = NoRun
    /\ mover.by # NoRun => flushing[mover.by] = "no"
    /\ \A r \in Run : flushing[r] # "no" => rPc[r] = "flushing"

\* Whose report is somewhere outside its run, and where it may be.
Out(r) == rPc[r] \in {"flushing", "deciding", "emitting"} \/ (rPc[r] = "done" /\ worker[r] = "exited")
Kept(r) == \E p \in Profile : r \in saved[p]
InFlush(r, t) == r \in fTaken[t] \/ fBack[t] = r
OnTheWay(r) == \E t \in Thread : InFlush(r, t)

OnePlaceOf(r) ==
    /\ Out(r) <=> Kept(r) \/ OnTheWay(r) \/ r \in held \/ r \in lost
    /\ Kept(r) => ~OnTheWay(r) /\ r \notin held /\ r \notin lost
    /\ OnTheWay(r) => r \notin held /\ r \notin lost
    /\ r \in held => r \notin lost
    /\ \A p, q \in Profile : r \in saved[p] /\ r \in saved[q] => p = q
    /\ \A t, u \in Thread : InFlush(r, t) /\ InFlush(r, u) => t = u
    /\ \A t \in Thread : r \in fTaken[t] => fBack[t] # r

OnePlace == \A r \in Run : OnePlaceOf(r)

\* A flush takes the reports of the vault it saves into.
OfItsVault ==
    \A t \in Thread : \A r \in fTaken[t] : fInst[t] # 0 /\ insts[rInst[r]] = insts[fInst[t]]

ReportInv == Types /\ Workers /\ Flushers /\ OnePlace /\ OfItsVault /\ ReportConfined /\ DeletedKeepsNothing


\* The state of a backend that has opened no profile is well typed.
LEMMA TypesInit == Init => Types
<1> SUFFICES ASSUME Init PROVE Types
  OBVIOUS
<1>0. insts = <<>> /\ <<>> \in Seq(VaultId) /\ Len(insts) = 0
  BY DEF Init
<1>1. InstType
  <2>1. MaxInst \in Nat /\ MaxMoves \in Nat
    BY LoadAssumption
  <2>2. ver \in [Profile -> 0 .. MaxMoves] /\ moves \in 0 .. MaxMoves
    BY <2>1 DEF Init
  <2>3. key = {} /\ cur = 0 /\ gate = FALSE /\ ws = Profile
    BY DEF Init
  <2>4. insts \in Seq(VaultId)
    BY <1>0
  <2>5. Len(insts) <= MaxInst
    BY <1>0, <2>1
  <2>6. key \subseteq 1 .. Len(insts)
    BY <2>3
  <2>7. cur \in 0 .. Len(insts)
    BY <1>0, <2>3
  <2> QED
    BY <2>2, <2>3, <2>4, <2>5, <2>6, <2>7 DEF InstType
<1>2. rotation = [pc |-> "none", inst |-> 0] /\ mover = [pc |-> "idle", inst |-> 0, by |-> NoRun] /\ deleting = 0
  BY DEF Init, Idle
<1>3. MoveType
  BY <1>0, <1>2 DEF MoveType, RotationPc, MoverPc
<1>4. RunType /\ ReportType
  BY <1>0, LoadAssumption DEF Init, RunType, ReportType, RunPc
<1>5. VersionsCounted
  BY <1>2 DEF Init, VersionsCounted
<1>6. WorkersPlaced /\ \A r \in Run : rPc[r] = "idle"
  BY DEF Init, WorkersPlaced
<1> QED
  BY <1>1, <1>3, <1>4, <1>5, <1>6 DEF Types, TypeOK

\* Every step keeps the instances and the key versions well typed.
LEMMA InstTypeStep ==
    ASSUME TypeOK, VersionsCounted, [Next]_vars
    PROVE  InstType' /\ VersionsCounted'
<1> USE LoadAssumption DEF TypeOK, InstType, VaultId, MoveType, VersionsCounted, RotationPc, MoverPc, session, ProfileOf, Unlocked, Idle
<1>1. CASE Lock
  <2>1. moves \in Nat /\ moves' = moves + 1 /\ moves' \in 0 .. MaxMoves /\ UNCHANGED ver
    BY <1>1 DEF Lock
  <2>2. ASSUME NEW p \in Profile PROVE ver'[p] <= moves' /\ ver'[p] < moves'
    BY <2>1
  <2>3. VersionsCounted'
    BY <2>2
  <2> QED
    BY <1>1, <2>1, <2>3 DEF Lock
<1>2. ASSUME NEW u \in Opener, Unlock(u) PROVE InstType' /\ VersionsCounted'
  BY <1>2, SMTT(30) DEF Unlock
<1>3. ASSUME NEW u \in Opener, NEW p \in Profile, Publish(u, p) PROVE InstType' /\ VersionsCounted'
  <2>1. moves \in Nat /\ moves' = moves + 1 /\ moves' \in 0 .. MaxMoves /\ UNCHANGED ver
    BY <1>3 DEF Publish
  <2>2. ASSUME NEW q \in Profile PROVE ver'[q] <= moves' /\ ver'[q] < moves'
    BY <2>1
  <2>3. [profile |-> p, ver |-> ver[p]] \in VaultId
    OBVIOUS
  <2>4. insts' \in Seq(VaultId) /\ Len(insts') = Len(insts) + 1 /\ Len(insts) \in Nat /\ Len(insts) < MaxInst
    BY <1>3, <2>3 DEF Publish
  <2>5. cur' = Len(insts') /\ key' = key \cup {cur'} /\ gate' = FALSE /\ UNCHANGED ws
    BY <1>3 DEF Publish
  <2>6. key' \subseteq 1 .. Len(insts') /\ cur' \in 0 .. Len(insts') /\ Len(insts') <= MaxInst
    <3>1. key \subseteq 1 .. Len(insts) /\ MaxInst \in Nat
      OBVIOUS
    <3>2. PICK n \in Nat : n = Len(insts) /\ n < MaxInst /\ Len(insts') = n + 1
      BY <2>4
    <3>3. cur' = n + 1 /\ key \subseteq 1 .. n /\ key' = key \cup {n + 1}
      BY <2>5, <3>1, <3>2
    <3>4. key' \subseteq 1 .. (n + 1)
      BY <3>3
    <3>5. cur' \in 0 .. (n + 1) /\ n + 1 <= MaxInst
      BY <3>1, <3>2, <3>3
    <3> QED
      BY <3>2, <3>4, <3>5
  <2> QED
    BY <2>1, <2>2, <2>4, <2>5, <2>6
<1>4. CASE StoreLocks
  BY <1>4 DEF StoreLocks
<1>5. CASE StopRuns
  BY <1>5 DEF StopRuns, Cancel
<1>6. CASE StopWork
  BY <1>6 DEF StopWork, Cancel, Idle
<1>7. CASE BeginKeyChange
  <2>1. moves \in Nat /\ moves' = moves + 1 /\ moves' \in 0 .. MaxMoves /\ UNCHANGED ver
    BY <1>7 DEF BeginKeyChange
  <2>2. ASSUME NEW p \in Profile PROVE ver'[p] <= moves' /\ ver'[p] < moves'
    BY <2>1
  <2>3. VersionsCounted'
    BY <2>2
  <2> QED
    BY <1>7, <2>1, <2>3 DEF BeginKeyChange
<1>8. CASE RotateTo
  <2>1. rotation.pc = "work" /\ rotation' = [rotation EXCEPT !.pc = "drop"] /\ UNCHANGED <<insts, cur, gate, ws, moves>>
    BY <1>8 DEF RotateTo
  <2>2. rotation'.pc = "drop"
    BY <2>1
  <2>3. CASE UNCHANGED <<ver, key>>
    BY <2>1, <2>2, <2>3
  <2>4. CASE /\ rotation.inst \in key
             /\ ver' = [ver EXCEPT ![ProfileOf(rotation.inst)] = ver[ProfileOf(rotation.inst)] + 1]
             /\ key' = key \ {rotation.inst}
    <3>0. PICK q \in Profile : ver' = [ver EXCEPT ![q] = ver[q] + 1]
      <4>1. rotation.inst \in 1 .. Len(insts) /\ insts \in Seq(VaultId)
        BY <2>4
      <4>2. insts[rotation.inst] \in VaultId
        BY <4>1, ElementOfSeq
      <4>3. insts[rotation.inst].profile \in Profile
        BY <4>2
      <4> QED
        BY <2>4, <4>3
    <3>1. ASSUME NEW p \in Profile PROVE ver'[p] \in 0 .. MaxMoves /\ ver'[p] <= moves
      BY <2>1, <3>0
    <3>2. VersionsCounted'
      BY <2>1, <2>2, <3>1
    <3>3. ver' \in [Profile -> 0 .. MaxMoves]
      BY <2>4, <3>1
    <3> QED
      BY <2>1, <2>4, <3>2, <3>3
  <2>5. UNCHANGED <<ver, key>> \/ (/\ rotation.inst \in key
                                  /\ ver' = [ver EXCEPT ![ProfileOf(rotation.inst)] = ver[ProfileOf(rotation.inst)] + 1]
                                  /\ key' = key \ {rotation.inst})
    <3> HIDE DEF TypeOK, VersionsCounted
    <3> QED
      BY <1>8 DEF RotateTo
  <2> QED
    BY <2>3, <2>4, <2>5
<1>9. CASE KeyChangeDrops
  BY <1>9 DEF KeyChangeDrops
<1>10. CASE KeyChangeEnds
  BY <1>10 DEF KeyChangeEnds, Cancel
<1>11. CASE DeleteWorkspace
  BY <1>11 DEF DeleteWorkspace
<1>12. CASE StopWorkspaceRuns
  BY <1>12 DEF StopWorkspaceRuns, Cancel
<1>13. ASSUME NEW r \in Run, Register(r) PROVE InstType' /\ VersionsCounted'
  BY <1>13 DEF Register, Goto
<1>14. ASSUME NEW r \in Run, ReadApp(r) PROVE InstType' /\ VersionsCounted'
  BY <1>14 DEF ReadApp, Goto, Retire
<1>15. ASSUME NEW r \in Run, RegisterLoadRun(r) PROVE InstType' /\ VersionsCounted'
  BY <1>15 DEF RegisterLoadRun, Goto, Retire
<1>16. ASSUME NEW r \in Run, Recheck(r) PROVE InstType' /\ VersionsCounted'
  BY <1>16 DEF Recheck, Goto, Retire, Cancel
<1>17. ASSUME NEW r \in Run, Reads(r, "preparing", "prepared") \/ Reads(r, "proving", "spawning") PROVE InstType' /\ VersionsCounted'
  BY <1>17, ZenonT(60) DEF Reads
<1>18. ASSUME NEW r \in Run, CheckStops(r) PROVE InstType' /\ VersionsCounted'
  BY <1>18 DEF CheckStops, Goto, Retire
<1>19. ASSUME NEW r \in Run, Spawn(r) PROVE InstType' /\ VersionsCounted'
  BY <1>19 DEF Spawn, Goto, Retire
<1>20. ASSUME NEW r \in Run, LoadRunCancel(r) PROVE InstType' /\ VersionsCounted'
  BY <1>20 DEF LoadRunCancel, Cancel
<1>21. ASSUME NEW r \in Run, NEW cause \in StopCause, Supervise(r, cause) PROVE InstType' /\ VersionsCounted'
  BY <1>21 DEF Supervise
<1>22. ASSUME NEW r \in Run, WorkerExits(r) PROVE InstType' /\ VersionsCounted'
  BY <1>22 DEF WorkerExits
<1>23. ASSUME NEW r \in Run, SupervisorEnds(r) PROVE InstType' /\ VersionsCounted'
  BY <1>23 DEF SupervisorEnds, Goto
<1>24. ASSUME NEW r \in Run, Finished(r) PROVE InstType' /\ VersionsCounted'
  BY <1>24 DEF Finished, Goto, SavesInto, Gone
<1>25. ASSUME NEW r \in Run, HoldReport(r) PROVE InstType' /\ VersionsCounted'
  BY <1>25 DEF HoldReport, Goto
<1>26. ASSUME NEW r \in Run, Flushed(r) PROVE InstType' /\ VersionsCounted'
  BY <1>26 DEF Flushed, Goto
<1>27. ASSUME NEW r \in Run, ForWindow(r) PROVE InstType' /\ VersionsCounted'
  BY <1>27 DEF ForWindow, Goto
<1>28. ASSUME NEW r \in Run, Emit(r) PROVE InstType' /\ VersionsCounted'
  BY <1>28 DEF Emit, Goto
<1>29. ASSUME NEW t \in Thread, FlushBegins(t) PROVE InstType' /\ VersionsCounted'
  BY <1>29 DEF FlushBegins, TakeFor
<1>30. ASSUME NEW t \in Thread, FlushSaves(t) PROVE InstType' /\ VersionsCounted'
  BY <1>30 DEF FlushSaves, SavesInto, Gone
<1>31. ASSUME NEW t \in Thread, FlushPushesBack(t) PROVE InstType' /\ VersionsCounted'
  BY <1>31 DEF FlushPushesBack
<1>32. ASSUME NEW t \in Thread, FlushEnds(t) PROVE InstType' /\ VersionsCounted'
  BY <1>32 DEF FlushEnds
<1>33. CASE UNCHANGED vars
  BY <1>33 DEF vars, session, runVars, reports, flushVars
<1> QED
  BY <1>1, <1>2, <1>3, <1>4, <1>5, <1>6, <1>7, <1>8, <1>9, <1>10, <1>11, <1>12, <1>13, <1>14,
     <1>15, <1>16, <1>17, <1>18, <1>19, <1>20, <1>21, <1>22, <1>23, <1>24, <1>25, <1>26, <1>27,
     <1>28, <1>29, <1>30, <1>31, <1>32, <1>33
  DEF Next, Boundary, MoverSteps, RotationSteps, StartSteps, StopSteps, EndSteps, FlushSteps

\* Instances are only appended: what one is stays what it was.
LEMMA InstsGrow ==
    ASSUME InstType, [Next]_vars
    PROVE  /\ Len(insts) \in Nat /\ Len(insts') \in Nat /\ Len(insts) <= Len(insts')
           /\ \A i \in 1 .. Len(insts) : insts'[i] = insts[i]
<1>1. CASE UNCHANGED insts
  BY <1>1 DEF InstType
<1>2. ASSUME NEW u \in Opener, NEW p \in Profile, Publish(u, p)
      PROVE  /\ Len(insts) \in Nat /\ Len(insts') = Len(insts) + 1
             /\ \A i \in 1 .. Len(insts) : insts'[i] = insts[i]
  <2>1. insts \in Seq(VaultId) /\ insts' = Append(insts, [profile |-> p, ver |-> ver[p]])
    BY <1>2 DEF Publish, InstType
  <2> QED
    BY <2>1
<1>3. UNCHANGED insts \/ \E u \in Opener, p \in Profile : Publish(u, p)
  BY ZenonT(60) DEF vars, session, Next, Boundary, MoverSteps, RotationSteps, StartSteps, StopSteps,
     EndSteps, FlushSteps,
         Lock, Unlock, StoreLocks, StopRuns, StopWork, BeginKeyChange, RotateTo, KeyChangeDrops, KeyChangeEnds, DeleteWorkspace, StopWorkspaceRuns,
         Register, ReadApp, RegisterLoadRun, Recheck, Reads, CheckStops, Spawn, LoadRunCancel, Supervise, WorkerExits,
         SupervisorEnds, Finished, HoldReport, Flushed, ForWindow, Emit, FlushBegins, FlushSaves, FlushPushesBack, FlushEnds
<1> QED
  BY <1>1, <1>2, <1>3

\* Every step keeps the boundary moves well typed.
LEMMA MoveTypeStep ==
    ASSUME TypeOK, VersionsCounted, [Next]_vars
    PROVE  MoveType'
<1>0. /\ InstType /\ MoveType /\ RunType /\ ReportType
      /\ \A r \in Run : rPc[r] \in {"idle", "registered", "done"} \/ rInst[r] # 0
  BY DEF TypeOK
<1>a. /\ cur \in 0 .. Len(insts) /\ cur' \in 0 .. Len(insts')
      /\ \A i \in 0 .. Len(insts) : i \in 0 .. Len(insts')
  <2>1. InstType'
    BY InstTypeStep
  <2>2. \A i \in 0 .. Len(insts) : i \in 0 .. Len(insts')
    BY <1>0, InstsGrow
  <2> QED
    BY <1>0, <2>1, <2>2 DEF InstType
<1> USE <1>0, <1>a DEF MoveType, RotationPc, MoverPc, session, Idle
<1>1. CASE Lock
  BY <1>1 DEF Lock
<1>2. ASSUME NEW u \in Opener, Unlock(u) PROVE MoveType'
  BY <1>2 DEF Unlock
<1>3. ASSUME NEW u \in Opener, NEW p \in Profile, Publish(u, p) PROVE MoveType'
  BY <1>3 DEF Publish
<1>4. CASE StoreLocks
  BY <1>4 DEF StoreLocks
<1>5. CASE StopRuns
  BY <1>5 DEF StopRuns, Cancel
<1>6. CASE StopWork
  BY <1>6 DEF StopWork, Cancel, Idle
<1>7. CASE BeginKeyChange
  BY <1>7 DEF BeginKeyChange
<1>8. CASE RotateTo
  BY <1>8 DEF RotateTo
<1>9. CASE KeyChangeDrops
  BY <1>9 DEF KeyChangeDrops
<1>10. CASE KeyChangeEnds
  BY <1>10 DEF KeyChangeEnds, Cancel
<1>11. CASE DeleteWorkspace
  BY <1>11 DEF DeleteWorkspace
<1>12. CASE StopWorkspaceRuns
  BY <1>12 DEF StopWorkspaceRuns, Cancel
<1>13. ASSUME NEW r \in Run, Register(r) PROVE MoveType'
  BY <1>13 DEF Register, Goto
<1>14. ASSUME NEW r \in Run, ReadApp(r) PROVE MoveType'
  BY <1>14 DEF ReadApp, Goto, Retire
<1>15. ASSUME NEW r \in Run, RegisterLoadRun(r) PROVE MoveType'
  BY <1>15 DEF RegisterLoadRun, Goto, Retire
<1>16. ASSUME NEW r \in Run, Recheck(r) PROVE MoveType'
  BY <1>16 DEF Recheck, Goto, Retire, Cancel
<1>17. ASSUME NEW r \in Run, Reads(r, "preparing", "prepared") \/ Reads(r, "proving", "spawning") PROVE MoveType'
  BY <1>17 DEF Reads
<1>18. ASSUME NEW r \in Run, CheckStops(r) PROVE MoveType'
  BY <1>18 DEF CheckStops, Goto, Retire
<1>19. ASSUME NEW r \in Run, Spawn(r) PROVE MoveType'
  BY <1>19 DEF Spawn, Goto, Retire
<1>20. ASSUME NEW r \in Run, LoadRunCancel(r) PROVE MoveType'
  BY <1>20 DEF LoadRunCancel, Cancel
<1>21. ASSUME NEW r \in Run, NEW cause \in StopCause, Supervise(r, cause) PROVE MoveType'
  BY <1>21 DEF Supervise
<1>22. ASSUME NEW r \in Run, WorkerExits(r) PROVE MoveType'
  BY <1>22 DEF WorkerExits
<1>23. ASSUME NEW r \in Run, SupervisorEnds(r) PROVE MoveType'
  BY <1>23 DEF SupervisorEnds, Goto
<1>24. ASSUME NEW r \in Run, Finished(r) PROVE MoveType'
  BY <1>24 DEF Finished, Goto, SavesInto, Gone
<1>25. ASSUME NEW r \in Run, HoldReport(r) PROVE MoveType'
  BY <1>25 DEF HoldReport, Goto
<1>26. ASSUME NEW r \in Run, Flushed(r) PROVE MoveType'
  BY <1>26 DEF Flushed, Goto
<1>27. ASSUME NEW r \in Run, ForWindow(r) PROVE MoveType'
  BY <1>27 DEF ForWindow, Goto
<1>28. ASSUME NEW r \in Run, Emit(r) PROVE MoveType'
  BY <1>28 DEF Emit, Goto
<1>29. ASSUME NEW t \in Thread, FlushBegins(t) PROVE MoveType'
  BY <1>29 DEF FlushBegins, TakeFor
<1>30. ASSUME NEW t \in Thread, FlushSaves(t) PROVE MoveType'
  BY <1>30 DEF FlushSaves, SavesInto, Gone
<1>31. ASSUME NEW t \in Thread, FlushPushesBack(t) PROVE MoveType'
  BY <1>31 DEF FlushPushesBack
<1>32. ASSUME NEW t \in Thread, FlushEnds(t) PROVE MoveType'
  BY <1>32 DEF FlushEnds
<1>33. CASE UNCHANGED vars
  BY <1>33 DEF vars, session, runVars, reports, flushVars
<1> QED
  BY <1>1, <1>2, <1>3, <1>4, <1>5, <1>6, <1>7, <1>8, <1>9, <1>10, <1>11, <1>12, <1>13, <1>14,
     <1>15, <1>16, <1>17, <1>18, <1>19, <1>20, <1>21, <1>22, <1>23, <1>24, <1>25, <1>26, <1>27,
     <1>28, <1>29, <1>30, <1>31, <1>32, <1>33
  DEF Next, Boundary, MoverSteps, RotationSteps, StartSteps, StopSteps, EndSteps, FlushSteps

\* What Stop::on answers.
LEMMA OnType ==
    ASSUME NEW state \in {"Running", "Draining", "Killed"}, NEW cause \in StopCause
    PROVE  /\ On(state, cause)[1] \in {"Running", "Draining", "Killed"}
           /\ On(state, cause)[2] \in {"none", "asked", "locked", "killed"}
<1>1. CASE state = "Killed"
  BY <1>1 DEF On
<1>2. CASE state # "Killed" /\ cause = "WorkspaceDeleted"
  BY <1>2 DEF On
<1>3. CASE state = "Running" /\ cause = "User"
  BY <1>3 DEF On
<1>4. CASE state = "Running" /\ cause = "Lock"
  BY <1>4 DEF On
<1>5. CASE state = "Draining" /\ cause \in {"User", "Lock"}
  BY <1>5 DEF On
<1> QED
  BY <1>1, <1>2, <1>3, <1>4, <1>5 DEF StopCause

\* A cause that the supervisor admits reaches the worker.
LEMMA SuperviseEffect ==
    ASSUME RunType, NEW r \in Run, NEW cause \in StopCause, Supervise(r, cause)
    PROVE  \E s \in {"Running", "Draining", "Killed"}, w \in {"asked", "locked", "killed"} :
              stop' = [stop EXCEPT ![r] = s] /\ worker' = [worker EXCEPT ![r] = w]
<1>1. stop[r] \in {"Running", "Draining", "Killed"} /\ On(stop[r], cause)[2] # "none"
  BY DEF Supervise, Admits, RunType
<1>2. /\ On(stop[r], cause)[1] \in {"Running", "Draining", "Killed"}
      /\ On(stop[r], cause)[2] \in {"asked", "locked", "killed"}
  BY <1>1, OnType
<1>3. /\ stop' = [stop EXCEPT ![r] = On(stop[r], cause)[1]]
      /\ worker' = [worker EXCEPT ![r] = On(stop[r], cause)[2]]
  BY DEF Supervise
<1> QED
  BY <1>2, <1>3

\* The steps of load_run_start that go on or return early: what they leave
\* of the run's record.
StartStep(r) ==
    /\ \/ \E p \in RunPc : Goto(r, p) /\ UNCHANGED <<rInst, entries>> /\ guards' \in {guards, guards \cup {r}}
       \/ Retire(r)
    /\ stopped' \in [Run -> SUBSET Token]
    /\ rPc[r] \notin {"idle", "registered", "done"}
    /\ UNCHANGED <<session, stop, worker, crossed, reports, flushVars, told>>

\* The steps between app() and the worker are of that form.
LEMMA StartStepsForm ==
    ASSUME RunType, NEW r \in Run,
           \/ RegisterLoadRun(r) \/ Recheck(r) \/ CheckStops(r)
           \/ Reads(r, "preparing", "prepared") \/ Reads(r, "proving", "spawning")
    PROVE  StartStep(r)
<1> USE DEF RunType, RunPc, Token, StartStep
<1>1. CASE RegisterLoadRun(r)
  <2>1. rPc[r] = "planning" /\ (Goto(r, "guarded") \/ Retire(r))
    BY <1>1 DEF RegisterLoadRun
  <2>2. UNCHANGED stopped
    BY <1>1 DEF RegisterLoadRun, Retire
  <2> QED
    BY <1>1, <2>1, <2>2 DEF RegisterLoadRun
<1>2. CASE Recheck(r)
  <2>1. CASE Retire(r)
    BY <1>2, <2>1 DEF Recheck, Retire
  <2>2. CASE ~Retire(r)
    <3>1. Goto(r, "preparing") /\ UNCHANGED <<rInst, entries, guards>>
      BY <1>2, <2>2 DEF Recheck
    <3>2. Cancel({r}, "locked") \/ Cancel({r}, "deleted") \/ UNCHANGED stopped
      BY <1>2, <2>2 DEF Recheck
    <3>3. stopped' \in [Run -> SUBSET Token]
      BY <3>2 DEF Cancel
    <3> QED
      BY <1>2, <3>1, <3>3 DEF Recheck
  <2> QED
    BY <2>1, <2>2
<1>3. CASE CheckStops(r)
  <2>1. rPc[r] = "prepared" /\ (Goto(r, "proving") \/ Retire(r))
    BY <1>3 DEF CheckStops
  <2>2. UNCHANGED stopped
    BY <1>3 DEF CheckStops, Retire
  <2> QED
    BY <1>3, <2>1, <2>2 DEF CheckStops
<1>4. ASSUME NEW from \in {"preparing", "proving"}, NEW to \in {"prepared", "spawning"}, Reads(r, from, to)
      PROVE  StartStep(r)
  <2>1. rPc[r] = from /\ (Goto(r, to) \/ Retire(r))
    BY <1>4 DEF Reads
  <2>2. UNCHANGED stopped
    BY <1>4 DEF Reads, Retire
  <2> QED
    BY <1>4, <2>1, <2>2 DEF Reads
<1> QED
  BY <1>1, <1>2, <1>3, <1>4

\* Every step keeps the runs well typed, and with an instance from app() on.
LEMMA RunTypeStep ==
    ASSUME TypeOK, VersionsCounted, WorkersPlaced, [Next]_vars
    PROVE  /\ RunType' /\ WorkersPlaced'
           /\ (\A r \in Run : rPc[r] \in {"idle", "registered", "done"} \/ rInst[r] # 0)'
<1> DEFINE Goal == /\ RunType /\ WorkersPlaced
                   /\ \A r \in Run : rPc[r] \in {"idle", "registered", "done"} \/ rInst[r] # 0
<1>0. /\ InstType /\ MoveType /\ RunType /\ ReportType
      /\ \A r \in Run : rPc[r] \in {"idle", "registered", "done"} \/ rInst[r] # 0
  BY DEF TypeOK
<1>a. /\ cur \in 0 .. Len(insts) /\ cur' \in 0 .. Len(insts')
      /\ \A i \in 0 .. Len(insts) : i \in 0 .. Len(insts')
  <2>1. InstType'
    BY InstTypeStep
  <2>2. \A i \in 0 .. Len(insts) : i \in 0 .. Len(insts')
    BY <1>0, InstsGrow
  <2> QED
    BY <1>0, <2>1, <2>2 DEF InstType
<1>e. ASSUME NEW r \in Run, StartStep(r) PROVE Goal'
  <2>0. UNCHANGED <<insts, stop, worker, crossed, told>> /\ rInst' = rInst
    BY <1>e DEF StartStep, Retire, session
  <2>1. PICK p \in RunPc : rPc' = [rPc EXCEPT ![r] = p]
    BY <1>e DEF StartStep, Goto, Retire, RunPc
  <2>2. entries' \subseteq Run /\ guards' \subseteq Run /\ stopped' \in [Run -> SUBSET Token]
    BY <1>e, <1>0 DEF StartStep, Retire, RunType
  <2>3. rInst[r] # 0
    BY <1>e, <1>0 DEF StartStep
  <2>4. RunType' /\ WorkersPlaced'
    BY <2>0, <2>1, <2>2, <1>0 DEF RunType, WorkersPlaced
  <2> QED
    BY <2>0, <2>1, <2>3, <2>4, <1>0 DEF RunType
<1> USE <1>0, <1>a DEF RunType, WorkersPlaced, RunPc, runVars, Token, StopCause, Thread
<1>1. CASE Lock
  BY <1>1 DEF Lock
<1>2. ASSUME NEW u \in Opener, Unlock(u) PROVE Goal'
  BY <1>2 DEF Unlock
<1>3. ASSUME NEW u \in Opener, NEW p \in Profile, Publish(u, p) PROVE Goal'
  BY <1>3 DEF Publish
<1>4. CASE StoreLocks
  BY <1>4 DEF StoreLocks
<1>5. CASE StopRuns
  BY <1>5 DEF StopRuns, Cancel
<1>6. CASE StopWork
  BY <1>6 DEF StopWork, Cancel, Idle
<1>7. CASE BeginKeyChange
  BY <1>7 DEF BeginKeyChange
<1>8. CASE RotateTo
  BY <1>8 DEF RotateTo
<1>9. CASE KeyChangeDrops
  BY <1>9 DEF KeyChangeDrops
<1>10. CASE KeyChangeEnds
  BY <1>10 DEF KeyChangeEnds, Cancel
<1>11. CASE DeleteWorkspace
  BY <1>11 DEF DeleteWorkspace
<1>12. CASE StopWorkspaceRuns
  BY <1>12 DEF StopWorkspaceRuns, Cancel
<1>13. ASSUME NEW r \in Run, Register(r) PROVE Goal'
  BY <1>13 DEF Register, Goto
<1>14. ASSUME NEW r \in Run, ReadApp(r) PROVE Goal'
  <2>1. CASE Retire(r)
    BY <1>14, <2>1 DEF ReadApp, Retire, Goto
  <2>2. CASE cur # 0 /\ rInst' = [rInst EXCEPT ![r] = cur] /\ Goto(r, "planning") /\ UNCHANGED <<entries, guards, stopped>>
    BY <1>14, <2>2 DEF ReadApp, Goto
  <2> QED
    BY <1>14, <2>1, <2>2 DEF ReadApp
<1>15. ASSUME NEW r \in Run, RegisterLoadRun(r) PROVE Goal'
  <2>1. StartStep(r)
    BY <1>15, StartStepsForm
  <2> QED
    BY <2>1, <1>e
<1>16. ASSUME NEW r \in Run, Recheck(r) PROVE Goal'
  <2>1. StartStep(r)
    BY <1>16, StartStepsForm
  <2> QED
    BY <2>1, <1>e
<1>17. ASSUME NEW r \in Run, Reads(r, "preparing", "prepared") \/ Reads(r, "proving", "spawning") PROVE Goal'
  <2>1. StartStep(r)
    BY <1>17, StartStepsForm
  <2> QED
    BY <2>1, <1>e
<1>18. ASSUME NEW r \in Run, CheckStops(r) PROVE Goal'
  <2>1. StartStep(r)
    BY <1>18, StartStepsForm
  <2> QED
    BY <2>1, <1>e
<1>19. ASSUME NEW r \in Run, Spawn(r) PROVE Goal'
  <2>1. CASE Retire(r) /\ UNCHANGED worker
    BY <1>19, <2>1 DEF Spawn, Retire, Goto
  <2>2. CASE worker' = [worker EXCEPT ![r] = "working"] /\ Goto(r, "supervised") /\ UNCHANGED <<entries, guards, stopped, rInst>>
    BY <1>19, <2>2 DEF Spawn, Goto
  <2> QED
    BY <1>19, <2>1, <2>2 DEF Spawn
<1>20. ASSUME NEW r \in Run, LoadRunCancel(r) PROVE Goal'
  BY <1>20 DEF LoadRunCancel, Cancel
<1>21. ASSUME NEW r \in Run, NEW cause \in StopCause, Supervise(r, cause) PROVE Goal'
  <2>1. PICK s \in {"Running", "Draining", "Killed"}, w \in {"asked", "locked", "killed"} :
          stop' = [stop EXCEPT ![r] = s] /\ worker' = [worker EXCEPT ![r] = w]
    BY <1>21, SuperviseEffect
  <2>2. rInst[r] # 0
    BY <1>21 DEF Supervise
  <2> QED
    BY <1>21, <2>1, <2>2 DEF Supervise
<1>22. ASSUME NEW r \in Run, WorkerExits(r) PROVE Goal'
  BY <1>22 DEF WorkerExits
<1>23. ASSUME NEW r \in Run, SupervisorEnds(r) PROVE Goal'
  BY <1>23 DEF SupervisorEnds, Goto
<1>24. ASSUME NEW r \in Run, Finished(r) PROVE Goal'
  BY <1>24 DEF Finished, Goto, SavesInto, Gone
<1>25. ASSUME NEW r \in Run, HoldReport(r) PROVE Goal'
  BY <1>25 DEF HoldReport, Goto
<1>26. ASSUME NEW r \in Run, Flushed(r) PROVE Goal'
  BY <1>26 DEF Flushed, Goto
<1>27. ASSUME NEW r \in Run, ForWindow(r) PROVE Goal'
  BY <1>27 DEF ForWindow, Goto
<1>28. ASSUME NEW r \in Run, Emit(r) PROVE Goal'
  BY <1>28 DEF Emit, Goto
<1>29. ASSUME NEW t \in Thread, FlushBegins(t) PROVE Goal'
  BY <1>29 DEF FlushBegins, TakeFor
<1>30. ASSUME NEW t \in Thread, FlushSaves(t) PROVE Goal'
  BY <1>30 DEF FlushSaves, SavesInto, Gone
<1>31. ASSUME NEW t \in Thread, FlushPushesBack(t) PROVE Goal'
  BY <1>31 DEF FlushPushesBack
<1>32. ASSUME NEW t \in Thread, FlushEnds(t) PROVE Goal'
  BY <1>32 DEF FlushEnds
<1>33. CASE UNCHANGED vars
  BY <1>33 DEF vars, session, runVars, reports, flushVars
<1> QED
  BY <1>1, <1>2, <1>3, <1>4, <1>5, <1>6, <1>7, <1>8, <1>9, <1>10, <1>11, <1>12, <1>13, <1>14,
     <1>15, <1>16, <1>17, <1>18, <1>19, <1>20, <1>21, <1>22, <1>23, <1>24, <1>25, <1>26, <1>27,
     <1>28, <1>29, <1>30, <1>31, <1>32, <1>33
  DEF Next, Boundary, MoverSteps, RotationSteps, StartSteps, StopSteps, EndSteps, FlushSteps

\* Every step keeps the reports and the flushes well typed.
LEMMA ReportTypeStep ==
    ASSUME TypeOK, VersionsCounted, [Next]_vars
    PROVE  ReportType'
<1>0. /\ InstType /\ MoveType /\ RunType /\ ReportType
      /\ \A r \in Run : rPc[r] \in {"idle", "registered", "done"} \/ rInst[r] # 0
  BY DEF TypeOK
<1>a. /\ cur \in 0 .. Len(insts) /\ cur' \in 0 .. Len(insts')
      /\ \A i \in 0 .. Len(insts) : i \in 0 .. Len(insts')
  <2>1. InstType'
    BY InstTypeStep
  <2>2. \A i \in 0 .. Len(insts) : i \in 0 .. Len(insts')
    BY <1>0, InstsGrow
  <2> QED
    BY <1>0, <2>1, <2>2 DEF InstType
<1> USE <1>0, <1>a, LoadAssumption DEF ReportType, reports, flushVars, Thread, ProfileOf, Unlocked
<1>1. CASE Lock
  BY <1>1 DEF Lock
<1>2. ASSUME NEW u \in Opener, Unlock(u) PROVE ReportType'
  BY <1>2 DEF Unlock
<1>3. ASSUME NEW u \in Opener, NEW p \in Profile, Publish(u, p) PROVE ReportType'
  BY <1>3 DEF Publish
<1>4. CASE StoreLocks
  BY <1>4 DEF StoreLocks
<1>5. CASE StopRuns
  BY <1>5 DEF StopRuns, Cancel
<1>6. CASE StopWork
  BY <1>6 DEF StopWork, Cancel, Idle
<1>7. CASE BeginKeyChange
  BY <1>7 DEF BeginKeyChange
<1>8. CASE RotateTo
  BY <1>8 DEF RotateTo
<1>9. CASE KeyChangeDrops
  BY <1>9 DEF KeyChangeDrops
<1>10. CASE KeyChangeEnds
  BY <1>10 DEF KeyChangeEnds, Cancel
<1>11. CASE DeleteWorkspace
  <2>1. UNCHANGED <<insts, held, flushVars>> /\ saved' = [saved EXCEPT ![ProfileOf(cur)] = {}]
    BY <1>11 DEF DeleteWorkspace
  <2>2. saved[ProfileOf(cur)] \subseteq Run
    BY <1>11, <1>0 DEF DeleteWorkspace, InstType
  <2>3. lost' \subseteq Run /\ saved' \in [Profile -> SUBSET Run]
    BY <1>11, <2>1, <2>2 DEF DeleteWorkspace
  <2> QED
    BY <2>1, <2>3
<1>12. CASE StopWorkspaceRuns
  BY <1>12 DEF StopWorkspaceRuns, Cancel
<1>13. ASSUME NEW r \in Run, Register(r) PROVE ReportType'
  BY <1>13 DEF Register, Goto
<1>14. ASSUME NEW r \in Run, ReadApp(r) PROVE ReportType'
  BY <1>14 DEF ReadApp, Goto, Retire
<1>15. ASSUME NEW r \in Run, RegisterLoadRun(r) PROVE ReportType'
  BY <1>15 DEF RegisterLoadRun, Goto, Retire
<1>16. ASSUME NEW r \in Run, Recheck(r) PROVE ReportType'
  BY <1>16 DEF Recheck, Goto, Retire, Cancel
<1>17. ASSUME NEW r \in Run, Reads(r, "preparing", "prepared") \/ Reads(r, "proving", "spawning") PROVE ReportType'
  BY <1>17 DEF Reads, Goto, Retire
<1>18. ASSUME NEW r \in Run, CheckStops(r) PROVE ReportType'
  BY <1>18 DEF CheckStops, Goto, Retire
<1>19. ASSUME NEW r \in Run, Spawn(r) PROVE ReportType'
  BY <1>19 DEF Spawn, Goto, Retire
<1>20. ASSUME NEW r \in Run, LoadRunCancel(r) PROVE ReportType'
  BY <1>20 DEF LoadRunCancel, Cancel
<1>21. ASSUME NEW r \in Run, NEW cause \in StopCause, Supervise(r, cause) PROVE ReportType'
  BY <1>21 DEF Supervise
<1>22. ASSUME NEW r \in Run, WorkerExits(r) PROVE ReportType'
  BY <1>22 DEF WorkerExits
<1>23. ASSUME NEW r \in Run, SupervisorEnds(r) PROVE ReportType'
  BY <1>23 DEF SupervisorEnds, Goto
<1>24. ASSUME NEW r \in Run, Finished(r) PROVE ReportType'
  BY <1>24 DEF Finished, Goto, SavesInto, Gone
<1>25. ASSUME NEW r \in Run, HoldReport(r) PROVE ReportType'
  BY <1>25 DEF HoldReport, Goto
<1>26. ASSUME NEW r \in Run, Flushed(r) PROVE ReportType'
  BY <1>26 DEF Flushed, Goto
<1>27. ASSUME NEW r \in Run, ForWindow(r) PROVE ReportType'
  BY <1>27 DEF ForWindow, Goto
<1>28. ASSUME NEW r \in Run, Emit(r) PROVE ReportType'
  BY <1>28 DEF Emit, Goto
<1>29. ASSUME NEW t \in Thread, FlushBegins(t) PROVE ReportType'
  BY <1>29, SMTT(30) DEF FlushBegins, TakeFor
<1>30. ASSUME NEW t \in Thread, FlushSaves(t) PROVE ReportType'
  BY <1>30, SMTT(30) DEF FlushSaves, SavesInto, Gone
<1>31. ASSUME NEW t \in Thread, FlushPushesBack(t) PROVE ReportType'
  BY <1>31 DEF FlushPushesBack
<1>32. ASSUME NEW t \in Thread, FlushEnds(t) PROVE ReportType'
  BY <1>32 DEF FlushEnds
<1>33. CASE UNCHANGED vars
  BY <1>33 DEF vars, session, runVars, reports, flushVars
<1> QED
  BY <1>1, <1>2, <1>3, <1>4, <1>5, <1>6, <1>7, <1>8, <1>9, <1>10, <1>11, <1>12, <1>13, <1>14,
     <1>15, <1>16, <1>17, <1>18, <1>19, <1>20, <1>21, <1>22, <1>23, <1>24, <1>25, <1>26, <1>27,
     <1>28, <1>29, <1>30, <1>31, <1>32, <1>33
  DEF Next, Boundary, MoverSteps, RotationSteps, StartSteps, StopSteps, EndSteps, FlushSteps

\* Every step keeps the types.
LEMMA TypesStep == Types /\ [Next]_vars => Types'
BY InstTypeStep, MoveTypeStep, RunTypeStep, ReportTypeStep DEF Types, TypeOK

\* Every registry, run, report and flush of a desktop backend stays well
\* typed, and the version of a data key is bounded by the boundary moves.
THEOREM LoadsTyped == Spec => []TypeOK
<1>1. Types => TypeOK
  BY DEF Types
<1> QED
  BY TypesInit, TypesStep, <1>1, PTL DEF Spec

----------------------------------------------------------------------------
(* Where the report of a run is.                                           *)

\* Every step keeps the workers of the stages.
LEMMA WorkersStep ==
    ASSUME Types, Workers, [Next]_vars
    PROVE  Workers'
<1>0. InstType /\ MoveType /\ RunType /\ ReportType
  BY DEF Types, TypeOK
<1> USE <1>0 DEF RunType, RunPc, runVars, Workers, Early, Late
<1>1. CASE Lock
  BY <1>1 DEF Lock
<1>2. ASSUME NEW u \in Opener, Unlock(u) PROVE Workers'
  BY <1>2 DEF Unlock
<1>3. ASSUME NEW u \in Opener, NEW p \in Profile, Publish(u, p) PROVE Workers'
  BY <1>3 DEF Publish
<1>4. CASE StoreLocks
  BY <1>4 DEF StoreLocks
<1>5. CASE StopRuns
  BY <1>5 DEF StopRuns, Cancel
<1>6. CASE StopWork
  BY <1>6 DEF StopWork, Cancel, Idle
<1>7. CASE BeginKeyChange
  BY <1>7 DEF BeginKeyChange
<1>8. CASE RotateTo
  BY <1>8 DEF RotateTo
<1>9. CASE KeyChangeDrops
  BY <1>9 DEF KeyChangeDrops
<1>10. CASE KeyChangeEnds
  BY <1>10 DEF KeyChangeEnds, Cancel
<1>11. CASE DeleteWorkspace
  BY <1>11 DEF DeleteWorkspace
<1>12. CASE StopWorkspaceRuns
  BY <1>12 DEF StopWorkspaceRuns, Cancel
<1>13. ASSUME NEW r \in Run, Register(r) PROVE Workers'
  BY <1>13 DEF Register, Goto
<1>14. ASSUME NEW r \in Run, ReadApp(r) PROVE Workers'
  BY <1>14 DEF ReadApp, Goto, Retire
<1>15. ASSUME NEW r \in Run, RegisterLoadRun(r) PROVE Workers'
  BY <1>15 DEF RegisterLoadRun, Goto, Retire
<1>16. ASSUME NEW r \in Run, Recheck(r) PROVE Workers'
  BY <1>16 DEF Recheck, Goto, Retire, Cancel
<1>17. ASSUME NEW r \in Run, Reads(r, "preparing", "prepared") \/ Reads(r, "proving", "spawning") PROVE Workers'
  BY <1>17 DEF Reads, Goto, Retire
<1>18. ASSUME NEW r \in Run, CheckStops(r) PROVE Workers'
  BY <1>18 DEF CheckStops, Goto, Retire
<1>19. ASSUME NEW r \in Run, Spawn(r) PROVE Workers'
  BY <1>19, ZenonT(60) DEF Spawn, Goto, Retire
<1>20. ASSUME NEW r \in Run, LoadRunCancel(r) PROVE Workers'
  BY <1>20 DEF LoadRunCancel, Cancel
<1>21. ASSUME NEW r \in Run, NEW cause \in StopCause, Supervise(r, cause) PROVE Workers'
  BY <1>21, SuperviseEffect DEF Supervise
<1>22. ASSUME NEW r \in Run, WorkerExits(r) PROVE Workers'
  BY <1>22 DEF WorkerExits
<1>23. ASSUME NEW r \in Run, SupervisorEnds(r) PROVE Workers'
  BY <1>23 DEF SupervisorEnds, Goto
<1>24. ASSUME NEW r \in Run, Finished(r) PROVE Workers'
  BY <1>24 DEF Finished, Goto, SavesInto, Gone
<1>25. ASSUME NEW r \in Run, HoldReport(r) PROVE Workers'
  BY <1>25 DEF HoldReport, Goto
<1>26. ASSUME NEW r \in Run, Flushed(r) PROVE Workers'
  BY <1>26 DEF Flushed, Goto
<1>27. ASSUME NEW r \in Run, ForWindow(r) PROVE Workers'
  BY <1>27 DEF ForWindow, Goto
<1>28. ASSUME NEW r \in Run, Emit(r) PROVE Workers'
  BY <1>28 DEF Emit, Goto
<1>29. ASSUME NEW t \in Thread, FlushBegins(t) PROVE Workers'
  BY <1>29 DEF FlushBegins, TakeFor
<1>30. ASSUME NEW t \in Thread, FlushSaves(t) PROVE Workers'
  BY <1>30 DEF FlushSaves, SavesInto, Gone
<1>31. ASSUME NEW t \in Thread, FlushPushesBack(t) PROVE Workers'
  BY <1>31 DEF FlushPushesBack
<1>32. ASSUME NEW t \in Thread, FlushEnds(t) PROVE Workers'
  BY <1>32 DEF FlushEnds
<1>33. CASE UNCHANGED vars
  BY <1>33 DEF vars, session, runVars, reports, flushVars
<1> QED
  BY <1>1, <1>2, <1>3, <1>4, <1>5, <1>6, <1>7, <1>8, <1>9, <1>10, <1>11, <1>12, <1>13, <1>14,
     <1>15, <1>16, <1>17, <1>18, <1>19, <1>20, <1>21, <1>22, <1>23, <1>24, <1>25, <1>26, <1>27,
     <1>28, <1>29, <1>30, <1>31, <1>32, <1>33
  DEF Next, Boundary, MoverSteps, RotationSteps, StartSteps, StopSteps, EndSteps, FlushSteps

\* Every step keeps the flushes apart from one another.
LEMMA FlushersStep ==
    ASSUME Types, Flushers, [Next]_vars
    PROVE  Flushers'
<1>0. InstType /\ MoveType /\ RunType /\ ReportType
  BY DEF Types, TypeOK
<1> USE <1>0, LoadAssumption DEF MoveType, RunType, ReportType, RunPc, MoverPc, session, runVars, flushVars, Flushers, Thread
<1>1. CASE Lock
  BY <1>1 DEF Lock
<1>2. ASSUME NEW u \in Opener, Unlock(u) PROVE Flushers'
  BY <1>2 DEF Unlock
<1>3. ASSUME NEW u \in Opener, NEW p \in Profile, Publish(u, p) PROVE Flushers'
  BY <1>3 DEF Publish
<1>4. CASE StoreLocks
  BY <1>4 DEF StoreLocks
<1>5. CASE StopRuns
  BY <1>5 DEF StopRuns, Cancel
<1>6. CASE StopWork
  BY <1>6 DEF StopWork, Cancel, Idle
<1>7. CASE BeginKeyChange
  BY <1>7 DEF BeginKeyChange
<1>8. CASE RotateTo
  BY <1>8 DEF RotateTo
<1>9. CASE KeyChangeDrops
  BY <1>9 DEF KeyChangeDrops
<1>10. CASE KeyChangeEnds
  BY <1>10 DEF KeyChangeEnds, Cancel
<1>11. CASE DeleteWorkspace
  BY <1>11 DEF DeleteWorkspace
<1>12. CASE StopWorkspaceRuns
  BY <1>12 DEF StopWorkspaceRuns, Cancel
<1>13. ASSUME NEW r \in Run, Register(r) PROVE Flushers'
  BY <1>13 DEF Register, Goto
<1>14. ASSUME NEW r \in Run, ReadApp(r) PROVE Flushers'
  BY <1>14 DEF ReadApp, Goto, Retire
<1>15. ASSUME NEW r \in Run, RegisterLoadRun(r) PROVE Flushers'
  BY <1>15 DEF RegisterLoadRun, Goto, Retire
<1>16. ASSUME NEW r \in Run, Recheck(r) PROVE Flushers'
  BY <1>16 DEF Recheck, Goto, Retire, Cancel
<1>17. ASSUME NEW r \in Run, Reads(r, "preparing", "prepared") \/ Reads(r, "proving", "spawning") PROVE Flushers'
  BY <1>17 DEF Reads, Goto, Retire
<1>18. ASSUME NEW r \in Run, CheckStops(r) PROVE Flushers'
  BY <1>18 DEF CheckStops, Goto, Retire
<1>19. ASSUME NEW r \in Run, Spawn(r) PROVE Flushers'
  BY <1>19 DEF Spawn, Goto, Retire
<1>20. ASSUME NEW r \in Run, LoadRunCancel(r) PROVE Flushers'
  BY <1>20 DEF LoadRunCancel, Cancel
<1>21. ASSUME NEW r \in Run, NEW cause \in StopCause, Supervise(r, cause) PROVE Flushers'
  BY <1>21 DEF Supervise
<1>22. ASSUME NEW r \in Run, WorkerExits(r) PROVE Flushers'
  BY <1>22 DEF WorkerExits
<1>23. ASSUME NEW r \in Run, SupervisorEnds(r) PROVE Flushers'
  BY <1>23 DEF SupervisorEnds, Goto
<1>24. ASSUME NEW r \in Run, Finished(r) PROVE Flushers'
  BY <1>24 DEF Finished, Goto, SavesInto, Gone
<1>25. ASSUME NEW r \in Run, HoldReport(r) PROVE Flushers'
  <2>1. /\ rPc[r] = "holding" /\ flushing[r] = "no" /\ fTaken[r] = {} /\ fBack[r] = NoRun
        /\ r \notin Opener
    BY <1>25 DEF HoldReport
  <2>2. flushing' = [flushing EXCEPT ![r] = "due"] /\ UNCHANGED <<mover, fTaken, fBack>>
    BY <1>25 DEF HoldReport
  <2>3. \A x \in Run : rPc'[x] = IF x = r THEN "flushing" ELSE rPc[x]
    BY <1>25 DEF HoldReport, Goto
  <2>4. mover.by # NoRun => mover.by # r
    BY <2>1
  <2> QED
    BY <2>1, <2>2, <2>3, <2>4
<1>26. ASSUME NEW r \in Run, Flushed(r) PROVE Flushers'
  BY <1>26 DEF Flushed, Goto
<1>27. ASSUME NEW r \in Run, ForWindow(r) PROVE Flushers'
  BY <1>27 DEF ForWindow, Goto
<1>28. ASSUME NEW r \in Run, Emit(r) PROVE Flushers'
  BY <1>28 DEF Emit, Goto
<1>29. ASSUME NEW t \in Thread, FlushBegins(t) PROVE Flushers'
  BY <1>29 DEF FlushBegins, TakeFor
<1>30. ASSUME NEW t \in Thread, FlushSaves(t) PROVE Flushers'
  BY <1>30 DEF FlushSaves, SavesInto, Gone
<1>31. ASSUME NEW t \in Thread, FlushPushesBack(t) PROVE Flushers'
  BY <1>31 DEF FlushPushesBack
<1>32. ASSUME NEW t \in Thread, FlushEnds(t) PROVE Flushers'
  BY <1>32 DEF FlushEnds
<1>33. CASE UNCHANGED vars
  BY <1>33 DEF vars, session, runVars, reports, flushVars
<1> QED
  BY <1>1, <1>2, <1>3, <1>4, <1>5, <1>6, <1>7, <1>8, <1>9, <1>10, <1>11, <1>12, <1>13, <1>14,
     <1>15, <1>16, <1>17, <1>18, <1>19, <1>20, <1>21, <1>22, <1>23, <1>24, <1>25, <1>26, <1>27,
     <1>28, <1>29, <1>30, <1>31, <1>32, <1>33
  DEF Next, Boundary, MoverSteps, RotationSteps, StartSteps, StopSteps, EndSteps, FlushSteps

\* A report that a step leaves where it is.
StaysPut(r) ==
    /\ Out(r)' = Out(r)
    /\ \A p \in Profile : r \in saved'[p] <=> r \in saved[p]
    /\ \A t \in Thread : (r \in fTaken'[t] <=> r \in fTaken[t]) /\ (fBack'[t] = r <=> fBack[t] = r)
    /\ r \in held' <=> r \in held
    /\ r \in lost' <=> r \in lost

\* It stays in one place.
LEMMA StaysInOnePlace ==
    ASSUME NEW r \in Run, OnePlaceOf(r), StaysPut(r)
    PROVE  OnePlaceOf(r)'
BY DEF StaysPut, OnePlaceOf, Kept, OnTheWay, InFlush

\* Every step moves a report to one other place at most.
LEMMA OnePlaceStep ==
    ASSUME Types, Workers, Flushers, OnePlace, [Next]_vars
    PROVE  OnePlace'
<1>0. InstType /\ MoveType /\ RunType /\ ReportType
  BY DEF Types, TypeOK
<1>q. ASSUME UNCHANGED <<held, saved, lost, fTaken, fBack>>, \A r \in Run : Out(r)' = Out(r)
      PROVE  OnePlace'
  BY <1>q, StaysInOnePlace DEF OnePlace, StaysPut
<1> USE <1>0, LoadAssumption DEF RunType, ReportType, RunPc, session, runVars, reports, flushVars, Out, Workers, Early, Late
<1>1. CASE Lock
  BY <1>1, <1>q DEF Lock
<1>2. ASSUME NEW u \in Opener, Unlock(u) PROVE OnePlace'
  BY <1>2, <1>q DEF Unlock
<1>3. ASSUME NEW u \in Opener, NEW p \in Profile, Publish(u, p) PROVE OnePlace'
  BY <1>3, <1>q DEF Publish
<1>4. CASE StoreLocks
  BY <1>4, <1>q DEF StoreLocks
<1>5. CASE StopRuns
  BY <1>5, <1>q DEF StopRuns, Cancel
<1>6. CASE StopWork
  BY <1>6, <1>q DEF StopWork, Cancel, Idle
<1>7. CASE BeginKeyChange
  BY <1>7, <1>q DEF BeginKeyChange
<1>8. CASE RotateTo
  BY <1>8, <1>q DEF RotateTo
<1>9. CASE KeyChangeDrops
  BY <1>9, <1>q DEF KeyChangeDrops
<1>10. CASE KeyChangeEnds
  BY <1>10, <1>q DEF KeyChangeEnds, Cancel
<1>11. CASE DeleteWorkspace
  <2>1. PICK p \in Profile : /\ saved' = [saved EXCEPT ![p] = {}] /\ lost' = lost \cup saved[p]
                             /\ UNCHANGED <<rPc, worker, held, fTaken, fBack>>
    BY <1>11 DEF DeleteWorkspace, InstType
  <2>2. ASSUME NEW x \in Run, x \notin saved[p] PROVE OnePlaceOf(x)'
    <3>1. StaysPut(x)
      BY <2>1, <2>2 DEF StaysPut
    <3> QED
      BY <3>1, StaysInOnePlace DEF OnePlace
  <2>3. ASSUME NEW x \in Run, x \in saved[p] PROVE OnePlaceOf(x)'
    <3>1. /\ \A q \in Profile : x \notin saved'[q]
          /\ \A t \in Thread : x \notin fTaken[t] /\ fBack[t] # x
          /\ x \notin held /\ x \in lost' /\ Out(x) /\ Out(x)'
      BY <2>1, <2>3 DEF OnePlace, OnePlaceOf, Kept, OnTheWay, InFlush
    <3> QED
      BY <2>1, <3>1 DEF OnePlaceOf, Kept, OnTheWay, InFlush
  <2> QED
    BY <2>2, <2>3 DEF OnePlace
<1>12. CASE StopWorkspaceRuns
  BY <1>12, <1>q DEF StopWorkspaceRuns, Cancel
<1>13. ASSUME NEW r \in Run, Register(r) PROVE OnePlace'
  BY <1>13, <1>q DEF Register, Goto
<1>14. ASSUME NEW r \in Run, ReadApp(r) PROVE OnePlace'
  BY <1>14, <1>q DEF ReadApp, Goto, Retire
<1>15. ASSUME NEW r \in Run, RegisterLoadRun(r) PROVE OnePlace'
  BY <1>15, <1>q DEF RegisterLoadRun, Goto, Retire
<1>16. ASSUME NEW r \in Run, Recheck(r) PROVE OnePlace'
  BY <1>16, <1>q DEF Recheck, Goto, Retire, Cancel
<1>17. ASSUME NEW r \in Run, Reads(r, "preparing", "prepared") \/ Reads(r, "proving", "spawning") PROVE OnePlace'
  BY <1>17, <1>q DEF Reads, Goto, Retire
<1>18. ASSUME NEW r \in Run, CheckStops(r) PROVE OnePlace'
  BY <1>18, <1>q DEF CheckStops, Goto, Retire
<1>19. ASSUME NEW r \in Run, Spawn(r) PROVE OnePlace'
  BY <1>19, <1>q DEF Spawn, Goto, Retire
<1>20. ASSUME NEW r \in Run, LoadRunCancel(r) PROVE OnePlace'
  BY <1>20, <1>q DEF LoadRunCancel, Cancel
<1>21. ASSUME NEW r \in Run, NEW cause \in StopCause, Supervise(r, cause) PROVE OnePlace'
  BY <1>21, <1>q DEF Supervise
<1>22. ASSUME NEW r \in Run, WorkerExits(r) PROVE OnePlace'
  BY <1>22, <1>q DEF WorkerExits
<1>23. ASSUME NEW r \in Run, SupervisorEnds(r) PROVE OnePlace'
  <2>1. ASSUME NEW x \in Run, x # r PROVE StaysPut(x)
    BY <1>23, <2>1 DEF SupervisorEnds, Goto, StaysPut
  <2>2. /\ \A p \in Profile : r \notin saved[p]
        /\ \A t \in Thread : r \notin fTaken[t] /\ fBack[t] # r
        /\ r \notin held /\ r \notin lost
    BY <1>23 DEF SupervisorEnds, OnePlace, OnePlaceOf, Kept, OnTheWay, InFlush
  <2>3. OnePlaceOf(r)'
    <3>1. CASE Goto(r, "saving") /\ UNCHANGED lost
      BY <1>23, <2>2, <3>1 DEF SupervisorEnds, Goto, OnePlaceOf, Kept, OnTheWay, InFlush
    <3>2. CASE Goto(r, "deciding") /\ lost' = lost \cup {r}
      BY <1>23, <2>2, <3>2 DEF SupervisorEnds, Goto, OnePlaceOf, Kept, OnTheWay, InFlush
    <3> QED
      BY <1>23, <3>1, <3>2 DEF SupervisorEnds
  <2> QED
    BY <2>1, <2>3, StaysInOnePlace DEF OnePlace
<1>24. ASSUME NEW r \in Run, Finished(r) PROVE OnePlace'
  <2>0. rPc[r] = "saving" /\ UNCHANGED <<worker, held, fTaken, fBack>>
    BY <1>24 DEF Finished
  <2>a. \/ \E p \in Profile : saved' = [saved EXCEPT ![p] = saved[p] \cup {r}] /\ UNCHANGED lost /\ Goto(r, "deciding")
        \/ lost' = lost \cup {r} /\ UNCHANGED saved /\ Goto(r, "deciding")
        \/ UNCHANGED <<saved, lost>> /\ Goto(r, "holding")
    BY <1>24 DEF Finished, SavesInto, Gone, InstType
  <2>1. ASSUME NEW x \in Run, x # r PROVE StaysPut(x)
    <3>1. \A p \in Profile : x \in saved'[p] <=> x \in saved[p]
      BY <2>a, <2>1
    <3>2. x \in lost' <=> x \in lost
      BY <2>a, <2>1
    <3>3. rPc'[x] = rPc[x]
      BY <2>a, <2>1 DEF Goto
    <3> QED
      BY <2>0, <3>1, <3>2, <3>3 DEF StaysPut
  <2>2. /\ \A p \in Profile : r \notin saved[p]
        /\ \A t \in Thread : r \notin fTaken[t] /\ fBack[t] # r
        /\ r \notin held /\ r \notin lost
    BY <2>0 DEF Finished, OnePlace, OnePlaceOf, Kept, OnTheWay, InFlush
  <2>3. OnePlaceOf(r)'
    <3>1. ASSUME NEW p \in Profile, saved' = [saved EXCEPT ![p] = saved[p] \cup {r}], UNCHANGED lost, Goto(r, "deciding")
          PROVE  OnePlaceOf(r)'
      BY <2>0, <2>2, <3>1 DEF Goto, OnePlaceOf, Kept, OnTheWay, InFlush
    <3>2. CASE lost' = lost \cup {r} /\ UNCHANGED saved /\ Goto(r, "deciding")
      BY <2>0, <2>2, <3>2 DEF Goto, OnePlaceOf, Kept, OnTheWay, InFlush
    <3>3. CASE UNCHANGED <<saved, lost>> /\ Goto(r, "holding")
      BY <2>0, <2>2, <3>3 DEF Goto, OnePlaceOf, Kept, OnTheWay, InFlush
    <3> QED
      BY <2>a, <3>1, <3>2, <3>3
  <2> QED
    BY <2>1, <2>3, StaysInOnePlace DEF OnePlace
<1>25. ASSUME NEW r \in Run, HoldReport(r) PROVE OnePlace'
  <2>1. ASSUME NEW x \in Run, x # r PROVE StaysPut(x)
    BY <1>25, <2>1 DEF HoldReport, Goto, StaysPut
  <2>2. /\ \A p \in Profile : r \notin saved[p]
        /\ \A t \in Thread : r \notin fTaken[t] /\ fBack[t] # r
        /\ r \notin held /\ r \notin lost
    BY <1>25 DEF HoldReport, OnePlace, OnePlaceOf, Kept, OnTheWay, InFlush
  <2>3. OnePlaceOf(r)'
    BY <1>25, <2>2 DEF HoldReport, Goto, OnePlaceOf, Kept, OnTheWay, InFlush
  <2> QED
    BY <2>1, <2>3, StaysInOnePlace DEF OnePlace
<1>26. ASSUME NEW r \in Run, Flushed(r) PROVE OnePlace'
  BY <1>26, <1>q DEF Flushed, Goto
<1>27. ASSUME NEW r \in Run, ForWindow(r) PROVE OnePlace'
  BY <1>27, <1>q DEF ForWindow, Goto
<1>28. ASSUME NEW r \in Run, Emit(r) PROVE OnePlace'
  BY <1>28, <1>q DEF Emit, Goto
<1>29. ASSUME NEW t \in Thread, FlushBegins(t) PROVE OnePlace'
  <2>0. UNCHANGED <<saved, lost, fBack, rPc, worker>> /\ fTaken[t] = {} /\ fBack[t] = NoRun
    BY <1>29 DEF FlushBegins, Flushers
  <2>1. CASE UNCHANGED <<fTaken, held>>
    BY <2>0, <2>1, <1>q
  <2>2. ASSUME NEW T \in SUBSET held, fTaken' = [fTaken EXCEPT ![t] = T], held' = held \ T
        PROVE  OnePlace'
    <3>1. ASSUME NEW x \in Run, x \notin T PROVE OnePlaceOf(x)'
      <4>1. StaysPut(x)
        BY <2>0, <2>2, <3>1 DEF StaysPut
      <4> QED
        BY <4>1, StaysInOnePlace DEF OnePlace
    <3>2. ASSUME NEW x \in Run, x \in T PROVE OnePlaceOf(x)'
      <4>1. /\ \A q \in Profile : x \notin saved[q]
            /\ \A u \in Thread : x \notin fTaken[u] /\ fBack[u] # x
            /\ x \notin held' /\ x \notin lost /\ Out(x) /\ Out(x)'
        BY <2>0, <2>2, <3>2 DEF OnePlace, OnePlaceOf, Kept, OnTheWay, InFlush
      <4>2. \A u \in Thread : x \in fTaken'[u] <=> u = t
        BY <2>2, <3>2, <4>1
      <4> QED
        BY <2>0, <4>1, <4>2 DEF OnePlaceOf, Kept, OnTheWay, InFlush
    <3> QED
      BY <3>1, <3>2 DEF OnePlace
  <2>3. TakeFor(cur) \in SUBSET held
    BY DEF TakeFor
  <2> QED
    BY <1>29, <2>1, <2>2, <2>3 DEF FlushBegins
<1>30. ASSUME NEW t \in Thread, FlushSaves(t) PROVE OnePlace'
  <2>0. PICK r \in fTaken[t] :
          /\ fTaken' = [fTaken EXCEPT ![t] = fTaken[t] \ {r}]
          /\ \/ (SavesInto(fInst[t], r) \/ Gone(fInst[t], r)) /\ UNCHANGED fBack
             \/ /\ ~Unlocked(fInst[t]) \/ StoreErrors
                /\ fBack' = [fBack EXCEPT ![t] = r]
                /\ UNCHANGED <<saved, lost>>
    BY <1>30 DEF FlushSaves
  <2>b. r \in Run /\ fBack[t] = NoRun /\ UNCHANGED <<rPc, worker, held>>
    BY <1>30, <2>0 DEF FlushSaves
  <2>a. \/ \E p \in Profile : saved' = [saved EXCEPT ![p] = saved[p] \cup {r}] /\ UNCHANGED <<lost, fBack>>
        \/ lost' = lost \cup {r} /\ UNCHANGED <<saved, fBack>>
        \/ UNCHANGED <<saved, lost>> /\ fBack' = [fBack EXCEPT ![t] = r]
    BY <2>0 DEF SavesInto, Gone, InstType
  <2>1. ASSUME NEW x \in Run, x # r PROVE StaysPut(x)
    <3>1. \A p \in Profile : x \in saved'[p] <=> x \in saved[p]
      BY <2>a, <2>1
    <3>2. x \in lost' <=> x \in lost
      BY <2>a, <2>1
    <3>3. \A u \in Thread : (x \in fTaken'[u] <=> x \in fTaken[u]) /\ (fBack'[u] = x <=> fBack[u] = x)
      BY <2>0, <2>a, <2>b, <2>1
    <3> QED
      BY <2>b, <3>1, <3>2, <3>3 DEF StaysPut
  <2>2. /\ \A p \in Profile : r \notin saved[p]
        /\ \A u \in Thread \ {t} : r \notin fTaken[u] /\ fBack[u] # r
        /\ r \notin held /\ r \notin lost /\ Out(r) /\ Out(r)'
    BY <2>0, <2>b DEF OnePlace, OnePlaceOf, Kept, OnTheWay, InFlush
  <2>c. \A u \in Thread : r \notin fTaken'[u]
    BY <2>0, <2>2
  <2>3. OnePlaceOf(r)'
    <3>1. ASSUME NEW p \in Profile, saved' = [saved EXCEPT ![p] = saved[p] \cup {r}], UNCHANGED <<lost, fBack>>
          PROVE  OnePlaceOf(r)'
      BY <2>b, <2>c, <2>2, <3>1 DEF OnePlaceOf, Kept, OnTheWay, InFlush
    <3>2. CASE lost' = lost \cup {r} /\ UNCHANGED <<saved, fBack>>
      BY <2>b, <2>c, <2>2, <3>2 DEF OnePlaceOf, Kept, OnTheWay, InFlush
    <3>3. CASE UNCHANGED <<saved, lost>> /\ fBack' = [fBack EXCEPT ![t] = r]
      BY <2>b, <2>c, <2>2, <3>3 DEF OnePlaceOf, Kept, OnTheWay, InFlush
    <3> QED
      BY <2>a, <3>1, <3>2, <3>3
  <2> QED
    BY <2>1, <2>3, <2>b, StaysInOnePlace DEF OnePlace
<1>31. ASSUME NEW t \in Thread, FlushPushesBack(t) PROVE OnePlace'
  <2>0. PICK r \in Run : /\ fBack[t] = r /\ held' = held \cup {r} /\ fBack' = [fBack EXCEPT ![t] = NoRun]
                         /\ UNCHANGED <<rPc, worker, saved, lost, fTaken>>
    BY <1>31 DEF FlushPushesBack
  <2>1. ASSUME NEW x \in Run, x # r PROVE StaysPut(x)
    BY <2>0, <2>1 DEF StaysPut
  <2>2. /\ \A p \in Profile : r \notin saved[p]
        /\ \A u \in Thread : r \notin fTaken[u] /\ (fBack[u] = r => u = t)
        /\ r \notin lost /\ Out(r) /\ Out(r)'
    BY <2>0 DEF OnePlace, OnePlaceOf, Kept, OnTheWay, InFlush
  <2>3. OnePlaceOf(r)'
    BY <2>0, <2>2 DEF OnePlaceOf, Kept, OnTheWay, InFlush
  <2> QED
    BY <2>1, <2>3, StaysInOnePlace DEF OnePlace
<1>32. ASSUME NEW t \in Thread, FlushEnds(t) PROVE OnePlace'
  BY <1>32, <1>q DEF FlushEnds
<1>33. CASE UNCHANGED vars
  BY <1>33, <1>q DEF vars, session, runVars, reports, flushVars
<1> QED
  BY <1>1, <1>2, <1>3, <1>4, <1>5, <1>6, <1>7, <1>8, <1>9, <1>10, <1>11, <1>12, <1>13, <1>14,
     <1>15, <1>16, <1>17, <1>18, <1>19, <1>20, <1>21, <1>22, <1>23, <1>24, <1>25, <1>26, <1>27,
     <1>28, <1>29, <1>30, <1>31, <1>32, <1>33
  DEF Next, Boundary, MoverSteps, RotationSteps, StartSteps, StopSteps, EndSteps, FlushSteps

----------------------------------------------------------------------------
(* Whose report it is.                                                     *)

\* A run whose report is somewhere has kept its instance, and the instance
\* its vault.
LEMMA KeepsItsVault ==
    ASSUME Types, Workers, OnePlace, [Next]_vars,
           NEW r \in Run, Kept(r) \/ OnTheWay(r) \/ r \in held \/ rPc[r] = "saving"
    PROVE  /\ rInst[r] \in 1 .. Len(insts) /\ rInst'[r] = rInst[r]
           /\ insts'[rInst[r]] = insts[rInst[r]]
<1>0. InstType /\ RunType
  BY DEF Types, TypeOK
<1>1. worker[r] = "exited" /\ rPc[r] \notin Early
  BY DEF Workers, OnePlace, OnePlaceOf, Out, Early, Late
<1>2. rInst[r] \in 1 .. Len(insts)
  <2>1. rInst[r] # 0 /\ Len(insts) \in Nat
    BY <1>0, <1>1, InstsGrow DEF Types, WorkersPlaced
  <2> QED
    BY <1>0, <2>1 DEF RunType
<1>3. rInst'[r] = rInst[r]
  <2>1. UNCHANGED rInst \/ \E x \in Run : ReadApp(x)
    BY ZenonT(60) DEF vars, runVars, Next, Boundary, MoverSteps, RotationSteps, StartSteps, StopSteps,
       EndSteps, FlushSteps,
         Retire, Lock, Unlock, Publish, StoreLocks, StopRuns, StopWork, BeginKeyChange, RotateTo, KeyChangeDrops,
         KeyChangeEnds, DeleteWorkspace, StopWorkspaceRuns, Register, RegisterLoadRun, Recheck, Reads, CheckStops, Spawn, LoadRunCancel, Supervise,
         WorkerExits, SupervisorEnds, Finished, HoldReport, Flushed, ForWindow, Emit, FlushBegins, FlushSaves, FlushPushesBack, FlushEnds
  <2>2. ASSUME NEW x \in Run, ReadApp(x) PROVE rInst'[r] = rInst[r]
    BY <1>0, <1>1, <2>2 DEF ReadApp, Retire, RunType, Early
  <2> QED
    BY <2>1, <2>2
<1> QED
  BY <1>0, <1>2, <1>3, InstsGrow

\* Every step that takes or saves a report keeps it with its vault.
LEMMA ConfinedStep ==
    ASSUME Types, Workers, Flushers, OnePlace, OfItsVault, ReportConfined, [Next]_vars
    PROVE  OfItsVault' /\ ReportConfined'
<1>0. InstType /\ MoveType /\ RunType /\ ReportType
  BY DEF Types, TypeOK
<1>k. \A r \in Run : Kept(r) \/ OnTheWay(r) \/ r \in held \/ rPc[r] = "saving" =>
        /\ rInst[r] \in 1 .. Len(insts) /\ rInst'[r] = rInst[r]
        /\ insts'[rInst[r]] = insts[rInst[r]]
  BY KeepsItsVault
<1>i. \A i \in 1 .. Len(insts) : insts'[i] = insts[i]
  BY <1>0, InstsGrow
<1>j. \A t \in Thread : \A r \in fTaken[t] :
        /\ r \in Run /\ fInst[t] \in 1 .. Len(insts)
        /\ insts'[rInst'[r]] = insts[rInst[r]] /\ insts'[fInst[t]] = insts[fInst[t]]
        /\ insts[rInst[r]] = insts[fInst[t]]
  <2>1. Len(insts) \in Nat
    BY <1>0, InstsGrow
  <2> QED
    BY <1>0, <1>i, <1>k, <2>1 DEF ReportType, OnTheWay, InFlush, OfItsVault
<1>l. \A p \in Profile : \A r \in saved[p] : r \in Run /\ insts'[rInst'[r]].profile = p
  BY <1>0, <1>k DEF ReportType, Kept, ReportConfined, ProfileOf
<1>q. ASSUME UNCHANGED <<saved, fTaken, fInst>> PROVE OfItsVault' /\ ReportConfined'
  BY <1>q, <1>j, <1>l DEF OfItsVault, ReportConfined, ProfileOf
<1>1. CASE Lock
  BY <1>1, <1>q DEF Lock, reports, flushVars
<1>2. ASSUME NEW u \in Opener, Unlock(u) PROVE OfItsVault' /\ ReportConfined'
  BY <1>2, <1>q DEF Unlock, reports, flushVars
<1>3. ASSUME NEW u \in Opener, NEW p \in Profile, Publish(u, p) PROVE OfItsVault' /\ ReportConfined'
  BY <1>3, <1>q DEF Publish, reports, flushVars
<1>4. CASE StoreLocks
  BY <1>4, <1>q DEF StoreLocks, reports, flushVars
<1>5. CASE StopRuns
  BY <1>5, <1>q DEF StopRuns, reports, flushVars
<1>6. CASE StopWork
  BY <1>6, <1>q DEF StopWork, reports, flushVars
<1>7. CASE BeginKeyChange
  BY <1>7, <1>q DEF BeginKeyChange, reports, flushVars
<1>8. CASE RotateTo
  BY <1>8, <1>q DEF RotateTo, reports, flushVars
<1>9. CASE KeyChangeDrops
  BY <1>9, <1>q DEF KeyChangeDrops, reports, flushVars
<1>10. CASE KeyChangeEnds
  BY <1>10, <1>q DEF KeyChangeEnds, reports, flushVars
<1>11. CASE DeleteWorkspace
  <2>1. PICK p \in Profile : saved' = [saved EXCEPT ![p] = {}] /\ UNCHANGED <<fTaken, fInst>>
    BY <1>11, <1>0 DEF DeleteWorkspace, InstType, flushVars
  <2> QED
    BY <1>0, <2>1, <1>j, <1>l DEF OfItsVault, ReportConfined, ProfileOf, ReportType
<1>12. CASE StopWorkspaceRuns
  BY <1>12, <1>q DEF StopWorkspaceRuns, reports, flushVars
<1>13. ASSUME NEW r \in Run, Register(r) PROVE OfItsVault' /\ ReportConfined'
  BY <1>13, <1>q DEF Register, reports, flushVars
<1>14. ASSUME NEW r \in Run, ReadApp(r) PROVE OfItsVault' /\ ReportConfined'
  BY <1>14, <1>q DEF ReadApp, reports, flushVars
<1>15. ASSUME NEW r \in Run, RegisterLoadRun(r) PROVE OfItsVault' /\ ReportConfined'
  BY <1>15, <1>q DEF RegisterLoadRun, reports, flushVars
<1>16. ASSUME NEW r \in Run, Recheck(r) PROVE OfItsVault' /\ ReportConfined'
  BY <1>16, <1>q DEF Recheck, reports, flushVars
<1>17. ASSUME NEW r \in Run, Reads(r, "preparing", "prepared") \/ Reads(r, "proving", "spawning") PROVE OfItsVault' /\ ReportConfined'
  BY <1>17, <1>q DEF Reads, reports, flushVars
<1>18. ASSUME NEW r \in Run, CheckStops(r) PROVE OfItsVault' /\ ReportConfined'
  BY <1>18, <1>q DEF CheckStops, reports, flushVars
<1>19. ASSUME NEW r \in Run, Spawn(r) PROVE OfItsVault' /\ ReportConfined'
  BY <1>19, <1>q DEF Spawn, reports, flushVars
<1>20. ASSUME NEW r \in Run, LoadRunCancel(r) PROVE OfItsVault' /\ ReportConfined'
  BY <1>20, <1>q DEF LoadRunCancel, reports, flushVars
<1>21. ASSUME NEW r \in Run, NEW cause \in StopCause, Supervise(r, cause) PROVE OfItsVault' /\ ReportConfined'
  BY <1>21, <1>q DEF Supervise, reports, flushVars
<1>22. ASSUME NEW r \in Run, WorkerExits(r) PROVE OfItsVault' /\ ReportConfined'
  BY <1>22, <1>q DEF WorkerExits, reports, flushVars
<1>23. ASSUME NEW r \in Run, SupervisorEnds(r) PROVE OfItsVault' /\ ReportConfined'
  BY <1>23, <1>q DEF SupervisorEnds, reports, flushVars
<1>24. ASSUME NEW r \in Run, Finished(r) PROVE OfItsVault' /\ ReportConfined'
  <2>1. UNCHANGED <<fTaken, fInst>> /\ rPc[r] = "saving"
    BY <1>24 DEF Finished, flushVars
  <2>2. OfItsVault'
    BY <2>1, <1>j DEF OfItsVault
  <2>3. CASE UNCHANGED saved
    BY <2>1, <2>3, <1>q
  <2>4. CASE saved' = [saved EXCEPT ![ProfileOf(rInst[r])] = saved[ProfileOf(rInst[r])] \cup {r}]
    <3>1. insts'[rInst'[r]].profile = ProfileOf(rInst[r])
      BY <2>1, <1>k DEF ProfileOf
    <3>2. \A p \in Profile : \A x \in saved'[p] : insts'[rInst'[x]].profile = p
      BY <1>0, <2>4, <3>1, <1>l DEF ReportType
    <3> QED
      BY <2>2, <3>2 DEF ReportConfined, ProfileOf
  <2> QED
    BY <1>24, <2>3, <2>4 DEF Finished, SavesInto, Gone
<1>25. ASSUME NEW r \in Run, HoldReport(r) PROVE OfItsVault' /\ ReportConfined'
  BY <1>25, <1>q DEF HoldReport, reports, flushVars
<1>26. ASSUME NEW r \in Run, Flushed(r) PROVE OfItsVault' /\ ReportConfined'
  BY <1>26, <1>q DEF Flushed, reports, flushVars
<1>27. ASSUME NEW r \in Run, ForWindow(r) PROVE OfItsVault' /\ ReportConfined'
  BY <1>27, <1>q DEF ForWindow, reports, flushVars
<1>28. ASSUME NEW r \in Run, Emit(r) PROVE OfItsVault' /\ ReportConfined'
  BY <1>28, <1>q DEF Emit, reports, flushVars
<1>29. ASSUME NEW t \in Thread, FlushBegins(t) PROVE OfItsVault' /\ ReportConfined'
  <2>1. CASE UNCHANGED <<fTaken, fInst>>
    BY <1>29, <2>1, <1>q DEF FlushBegins
  <2>2. CASE /\ cur # 0
             /\ fInst' = [fInst EXCEPT ![t] = cur]
             /\ fTaken' = [fTaken EXCEPT ![t] = TakeFor(cur)]
    <3>0. UNCHANGED saved /\ cur \in 1 .. Len(insts)
      <4>1. cur \in 0 .. Len(insts) /\ Len(insts) \in Nat
        BY <1>0, InstsGrow DEF InstType
      <4> QED
        BY <1>29, <2>2, <4>1 DEF FlushBegins
    <3>1. \A r \in TakeFor(cur) : insts'[rInst'[r]] = insts'[cur] /\ cur # 0
      BY <1>0, <1>i, <1>k, <2>2, <3>0 DEF TakeFor, ReportType
    <3>2. ASSUME NEW u \in Thread, NEW r \in fTaken'[u]
          PROVE  fInst'[u] # 0 /\ insts'[rInst'[r]] = insts'[fInst'[u]]
      <4>1. CASE u = t
        BY <1>0, <2>2, <3>1, <3>2, <4>1 DEF ReportType
      <4>2. CASE u # t
        <5>1. fInst'[u] = fInst[u] /\ fTaken'[u] = fTaken[u]
          BY <1>0, <2>2, <4>2 DEF ReportType
        <5> QED
          BY <1>j, <3>2, <5>1 DEF OfItsVault
      <4> QED
        BY <4>1, <4>2
    <3> QED
      BY <1>l, <3>0, <3>2 DEF OfItsVault, ReportConfined, ProfileOf
  <2> QED
    BY <1>29, <2>1, <2>2 DEF FlushBegins
<1>30. ASSUME NEW t \in Thread, FlushSaves(t) PROVE OfItsVault' /\ ReportConfined'
  <2>0. PICK r \in fTaken[t] :
          /\ fTaken' = [fTaken EXCEPT ![t] = fTaken[t] \ {r}] /\ UNCHANGED fInst
          /\ SavesInto(fInst[t], r) \/ UNCHANGED saved
    BY <1>30 DEF FlushSaves, Gone
  <2>1. \A u \in Thread : fTaken'[u] \subseteq fTaken[u]
    BY <1>0, <2>0 DEF ReportType
  <2>2. OfItsVault'
    BY <1>j, <2>0, <2>1 DEF OfItsVault
  <2>3. CASE UNCHANGED saved
    BY <2>2, <2>3, <1>l DEF ReportConfined, ProfileOf
  <2>4. CASE SavesInto(fInst[t], r)
    <3>1. insts'[rInst'[r]].profile = ProfileOf(fInst[t])
      BY <2>0, <1>j DEF ProfileOf
    <3>2. saved' = [saved EXCEPT ![ProfileOf(fInst[t])] = saved[ProfileOf(fInst[t])] \cup {r}]
      BY <2>4 DEF SavesInto
    <3>3. \A p \in Profile : \A x \in saved'[p] : insts'[rInst'[x]].profile = p
      BY <1>0, <3>1, <3>2, <1>l DEF ReportType
    <3> QED
      BY <2>2, <3>3 DEF ReportConfined, ProfileOf
  <2> QED
    BY <2>0, <2>3, <2>4
<1>31. ASSUME NEW t \in Thread, FlushPushesBack(t) PROVE OfItsVault' /\ ReportConfined'
  BY <1>31, <1>q DEF FlushPushesBack, reports, flushVars
<1>32. ASSUME NEW t \in Thread, FlushEnds(t) PROVE OfItsVault' /\ ReportConfined'
  <2>1. /\ fTaken[t] = {} /\ fInst' = [fInst EXCEPT ![t] = 0] /\ UNCHANGED <<fTaken, saved>>
    BY <1>32 DEF FlushEnds, reports
  <2>2. \A u \in Thread : fTaken[u] # {} => fInst'[u] = fInst[u]
    BY <1>0, <2>1 DEF ReportType
  <2> QED
    BY <1>j, <1>l, <2>1, <2>2 DEF OfItsVault, ReportConfined, ProfileOf
<1>33. CASE UNCHANGED vars
  BY <1>33, <1>q DEF vars, session, runVars, reports, flushVars
<1> QED
  BY <1>1, <1>2, <1>3, <1>4, <1>5, <1>6, <1>7, <1>8, <1>9, <1>10, <1>11, <1>12, <1>13, <1>14,
     <1>15, <1>16, <1>17, <1>18, <1>19, <1>20, <1>21, <1>22, <1>23, <1>24, <1>25, <1>26, <1>27,
     <1>28, <1>29, <1>30, <1>31, <1>32, <1>33
  DEF Next, Boundary, MoverSteps, RotationSteps, StartSteps, StopSteps, EndSteps, FlushSteps

\* Every step that saves a report finds the workspace of its profile.
LEMMA DeletedStep ==
    ASSUME Types, DeletedKeepsNothing, [Next]_vars
    PROVE  DeletedKeepsNothing'
<1>0. InstType /\ MoveType /\ RunType /\ ReportType
  BY DEF Types, TypeOK
<1> USE <1>0 DEF ReportType, DeletedKeepsNothing, session, reports
<1>1. CASE Lock
  BY <1>1 DEF Lock
<1>2. ASSUME NEW u \in Opener, Unlock(u) PROVE DeletedKeepsNothing'
  BY <1>2 DEF Unlock
<1>3. ASSUME NEW u \in Opener, NEW p \in Profile, Publish(u, p) PROVE DeletedKeepsNothing'
  BY <1>3 DEF Publish
<1>4. CASE StoreLocks
  BY <1>4 DEF StoreLocks
<1>5. CASE StopRuns
  BY <1>5 DEF StopRuns, Cancel
<1>6. CASE StopWork
  BY <1>6 DEF StopWork, Cancel, Idle
<1>7. CASE BeginKeyChange
  BY <1>7 DEF BeginKeyChange
<1>8. CASE RotateTo
  BY <1>8 DEF RotateTo
<1>9. CASE KeyChangeDrops
  BY <1>9 DEF KeyChangeDrops
<1>10. CASE KeyChangeEnds
  BY <1>10 DEF KeyChangeEnds, Cancel
<1>11. CASE DeleteWorkspace
  BY <1>11 DEF DeleteWorkspace
<1>12. CASE StopWorkspaceRuns
  BY <1>12 DEF StopWorkspaceRuns, Cancel
<1>13. ASSUME NEW r \in Run, Register(r) PROVE DeletedKeepsNothing'
  BY <1>13 DEF Register, Goto
<1>14. ASSUME NEW r \in Run, ReadApp(r) PROVE DeletedKeepsNothing'
  BY <1>14 DEF ReadApp, Goto, Retire
<1>15. ASSUME NEW r \in Run, RegisterLoadRun(r) PROVE DeletedKeepsNothing'
  BY <1>15 DEF RegisterLoadRun, Goto, Retire
<1>16. ASSUME NEW r \in Run, Recheck(r) PROVE DeletedKeepsNothing'
  BY <1>16 DEF Recheck, Goto, Retire, Cancel
<1>17. ASSUME NEW r \in Run, Reads(r, "preparing", "prepared") \/ Reads(r, "proving", "spawning") PROVE DeletedKeepsNothing'
  BY <1>17 DEF Reads, Goto, Retire
<1>18. ASSUME NEW r \in Run, CheckStops(r) PROVE DeletedKeepsNothing'
  BY <1>18 DEF CheckStops, Goto, Retire
<1>19. ASSUME NEW r \in Run, Spawn(r) PROVE DeletedKeepsNothing'
  BY <1>19 DEF Spawn, Goto, Retire
<1>20. ASSUME NEW r \in Run, LoadRunCancel(r) PROVE DeletedKeepsNothing'
  BY <1>20 DEF LoadRunCancel, Cancel
<1>21. ASSUME NEW r \in Run, NEW cause \in StopCause, Supervise(r, cause) PROVE DeletedKeepsNothing'
  BY <1>21 DEF Supervise
<1>22. ASSUME NEW r \in Run, WorkerExits(r) PROVE DeletedKeepsNothing'
  BY <1>22 DEF WorkerExits
<1>23. ASSUME NEW r \in Run, SupervisorEnds(r) PROVE DeletedKeepsNothing'
  BY <1>23 DEF SupervisorEnds, Goto
<1>24. ASSUME NEW r \in Run, Finished(r) PROVE DeletedKeepsNothing'
  BY <1>24 DEF Finished, Goto, SavesInto, Gone
<1>25. ASSUME NEW r \in Run, HoldReport(r) PROVE DeletedKeepsNothing'
  BY <1>25 DEF HoldReport, Goto
<1>26. ASSUME NEW r \in Run, Flushed(r) PROVE DeletedKeepsNothing'
  BY <1>26 DEF Flushed, Goto
<1>27. ASSUME NEW r \in Run, ForWindow(r) PROVE DeletedKeepsNothing'
  BY <1>27 DEF ForWindow, Goto
<1>28. ASSUME NEW r \in Run, Emit(r) PROVE DeletedKeepsNothing'
  BY <1>28 DEF Emit, Goto
<1>29. ASSUME NEW t \in Thread, FlushBegins(t) PROVE DeletedKeepsNothing'
  BY <1>29 DEF FlushBegins, TakeFor
<1>30. ASSUME NEW t \in Thread, FlushSaves(t) PROVE DeletedKeepsNothing'
  BY <1>30 DEF FlushSaves, SavesInto, Gone
<1>31. ASSUME NEW t \in Thread, FlushPushesBack(t) PROVE DeletedKeepsNothing'
  BY <1>31 DEF FlushPushesBack
<1>32. ASSUME NEW t \in Thread, FlushEnds(t) PROVE DeletedKeepsNothing'
  BY <1>32 DEF FlushEnds
<1>33. CASE UNCHANGED vars
  BY <1>33 DEF vars, session, runVars, reports, flushVars
<1> QED
  BY <1>1, <1>2, <1>3, <1>4, <1>5, <1>6, <1>7, <1>8, <1>9, <1>10, <1>11, <1>12, <1>13, <1>14,
     <1>15, <1>16, <1>17, <1>18, <1>19, <1>20, <1>21, <1>22, <1>23, <1>24, <1>25, <1>26, <1>27,
     <1>28, <1>29, <1>30, <1>31, <1>32, <1>33
  DEF Next, Boundary, MoverSteps, RotationSteps, StartSteps, StopSteps, EndSteps, FlushSteps

\* Initially no report is anywhere.
LEMMA ReportInit == Init => ReportInv
<1> SUFFICES ASSUME Init PROVE ReportInv
  OBVIOUS
<1>1. Types
  BY TypesInit
<1>2. Workers
  BY DEF Init, Workers, Early, Late
<1>3. Flushers
  BY DEF Init, Flushers, Idle, Thread
<1>4. OnePlace
  BY LoadAssumption DEF Init, OnePlace, OnePlaceOf, Out, Kept, OnTheWay, InFlush
<1>5. OfItsVault /\ ReportConfined /\ DeletedKeepsNothing
  BY DEF Init, OfItsVault, ReportConfined, DeletedKeepsNothing
<1> QED
  BY <1>1, <1>2, <1>3, <1>4, <1>5 DEF ReportInv

\* Every step of a run, a flush or a boundary move keeps the invariant.
LEMMA ReportStep == ReportInv /\ [Next]_vars => ReportInv'
BY TypesStep, WorkersStep, FlushersStep, OnePlaceStep, ConfinedStep, DeletedStep DEF ReportInv

\* The invariant holds in every behaviour.
LEMMA ReportAlways == Spec => []ReportInv
BY ReportInit, ReportStep, PTL DEF Spec

\* However locks, profile switches, credential rotations and flushes
\* interleave, `finished` and flush_pending_reports store a report only in
\* the profile its run started under.
THEOREM ReportsStayWithTheirProfile == Spec => []ReportConfined
BY ReportAlways, PTL DEF ReportInv

\* However late its report comes, nothing of a deleted workspace is stored
\* (save_load_report looks for the workspace where it writes).
THEOREM DeletedWorkspacesKeepNothing == Spec => []DeletedKeepsNothing
BY ReportAlways, PTL DEF ReportInv

\* One place is one element of Places, and none is none.
LEMMA PlacesCounted ==
    ASSUME Types, OnePlace, NEW r \in Run
    PROVE  Cardinality(Places(r)) = IF rPc[r] \in {"saving", "holding"} \/ Out(r) THEN 1 ELSE 0
<1> USE DEF Places, Stored, Moving
<1>1. CASE ~(rPc[r] \in {"saving", "holding"} \/ Out(r))
  <2>1. Places(r) = {}
    BY <1>1 DEF OnePlace, OnePlaceOf, Kept, OnTheWay, InFlush
  <2> QED
    BY <1>1, <2>1, FS_EmptySet
<1>2. CASE rPc[r] \in {"saving", "holding"} \/ Out(r)
  <2>1. \E x : Places(r) = {x}
    <3>1. CASE rPc[r] \in {"saving", "holding"}
      <4>1. Places(r) = {<<"at", "run">>}
        BY <3>1 DEF OnePlace, OnePlaceOf, Kept, OnTheWay, InFlush, Out
      <4> QED
        BY <4>1
    <3>2. ASSUME Out(r), NEW p \in Profile, r \in saved[p] PROVE Places(r) = {<<"saved", p>>}
      BY <3>2 DEF OnePlace, OnePlaceOf, Kept, OnTheWay, InFlush, Out
    <3>3. ASSUME Out(r), NEW t \in Thread, InFlush(r, t) PROVE Places(r) = {<<"flush", t>>}
      BY <3>3 DEF OnePlace, OnePlaceOf, Kept, OnTheWay, InFlush, Out
    <3>4. CASE Out(r) /\ r \in held
      <4>1. Places(r) = {<<"at", "held">>}
        BY <3>4 DEF OnePlace, OnePlaceOf, Kept, OnTheWay, InFlush, Out
      <4> QED
        BY <4>1
    <3>5. CASE Out(r) /\ r \in lost
      <4>1. Places(r) = {<<"at", "lost">>}
        BY <3>5 DEF OnePlace, OnePlaceOf, Kept, OnTheWay, InFlush, Out
      <4> QED
        BY <4>1
    <3>6. Out(r) => Kept(r) \/ OnTheWay(r) \/ r \in held \/ r \in lost
      BY DEF OnePlace, OnePlaceOf
    <3> HIDE DEF Places
    <3> QED
      BY <1>2, <3>1, <3>2, <3>3, <3>4, <3>5, <3>6 DEF Kept, OnTheWay
  <2>2. Cardinality(Places(r)) = 1
    BY <2>1, FS_Singleton
  <2> QED
    BY <1>2, <2>2
<1> QED
  BY <1>1, <1>2

\* From the end of its worker on, the report of a run is in exactly one
\* place, and before it nowhere: `finished`, hold_report and
\* flush_pending_reports drop none and store none twice.
THEOREM ReportsAreInOnePlace == Spec => []ReportInOnePlace
<1>1. ReportInv => ReportInOnePlace
  BY PlacesCounted DEF ReportInv, ReportInOnePlace, Out
<1> QED
  BY <1>1, ReportAlways, PTL

----------------------------------------------------------------------------
(* The refinement of ReportCustody.                                        *)

\* A run has no instance before it has read the app.
NotStarted == \A r \in Run : rPc[r] \in {"idle", "registered"} => rInst[r] = 0

\* The home of a run is the profile of its instance.
LEMMA HomeOf ==
    ASSUME InstType, RunType, NEW r \in Run
    PROVE  /\ rInst[r] = 0 => Home[r] = {}
           /\ rInst[r] # 0 => /\ rInst[r] \in 1 .. Len(insts) /\ ProfileOf(rInst[r]) \in Profile
                              /\ Home[r] = {ProfileOf(rInst[r])}
<1>1. Home[r] = {ProfileOf(i) : i \in {rInst[r]} \ {0}}
  BY DEF Home
<1>2. CASE rInst[r] = 0
  BY <1>1, <1>2
<1>3. CASE rInst[r] # 0
  <2>1. insts \in Seq(VaultId) /\ Len(insts) \in Nat /\ rInst[r] \in 0 .. Len(insts)
    BY DEF InstType, RunType
  <2>2. rInst[r] \in 1 .. Len(insts)
    BY <1>3, <2>1
  <2>3. insts[rInst[r]] \in VaultId
    BY <2>1, <2>2
  <2>4. ProfileOf(rInst[r]) \in Profile
    BY <2>3 DEF ProfileOf, VaultId
  <2>5. {rInst[r]} \ {0} = {rInst[r]}
    BY <1>3
  <2> QED
    BY <1>1, <1>3, <2>2, <2>4, <2>5
<1> QED
  BY <1>2, <1>3

\* A run keeps its home as long as it keeps its instance.
LEMMA HomeStays ==
    ASSUME InstType, RunType, [Next]_vars, UNCHANGED rInst
    PROVE  Home' = Home
<1>1. ASSUME NEW r \in Run
      PROVE  {ProfileOf(i) : i \in {rInst[r]} \ {0}}' = {ProfileOf(i) : i \in {rInst[r]} \ {0}}
  <2>1. CASE rInst[r] = 0
    BY <2>1
  <2>2. CASE rInst[r] # 0
    <3>1. rInst[r] \in 1 .. Len(insts)
      BY <2>2, HomeOf
    <3>2. insts'[rInst[r]] = insts[rInst[r]]
      BY <3>1, InstsGrow
    <3> QED
      BY <2>2, <3>2 DEF ProfileOf
  <2> QED
    BY <2>1, <2>2
<1> QED
  BY <1>1 DEF Home

\* The steps a report or the home of a run is touched by.
Touches ==
    \/ DeleteWorkspace
    \/ \E r \in Run : ReadApp(r) \/ SupervisorEnds(r) \/ Finished(r) \/ HoldReport(r)
    \/ \E t \in Thread : FlushBegins(t) \/ FlushSaves(t) \/ FlushPushesBack(t)

\* No other step touches them.
LEMMA OthersLeaveReports ==
    ASSUME [Next]_vars
    PROVE  Touches \/ UNCHANGED <<rInst, ws, saved, lost, held, fTaken, fBack>>
<1>1. CASE Boundary
  BY <1>1, ZenonT(60) DEF Touches, session, runVars, reports, flushVars, Boundary, MoverSteps, RotationSteps,
     Lock, Unlock, Publish, StoreLocks, StopRuns, StopWork, BeginKeyChange, RotateTo, KeyChangeDrops,
     KeyChangeEnds, StopWorkspaceRuns
<1>2. ASSUME NEW r \in Run, StartSteps(r)
      PROVE  Touches \/ UNCHANGED <<rInst, ws, saved, lost, held, fTaken, fBack>>
  BY <1>2, ZenonT(60) DEF Touches, session, runVars, reports, flushVars, StartSteps, Retire, RegisterLoadRun,
     Recheck, Reads, CheckStops, Spawn
<1>3. ASSUME NEW r \in Run, Register(r) \/ LoadRunCancel(r) \/ StopSteps(r) \/ WorkerExits(r) \/ EndSteps(r)
      PROVE  Touches \/ UNCHANGED <<rInst, ws, saved, lost, held, fTaken, fBack>>
  BY <1>3, ZenonT(60) DEF Touches, session, runVars, reports, flushVars, StopSteps, EndSteps, Register, LoadRunCancel,
     Supervise, WorkerExits, Flushed, ForWindow, Emit
<1>4. ASSUME NEW t \in Thread, FlushSteps(t)
      PROVE  Touches \/ UNCHANGED <<rInst, ws, saved, lost, held, fTaken, fBack>>
  BY <1>4, ZenonT(60) DEF Touches, session, runVars, reports, flushVars, FlushSteps, FlushEnds
<1>5. CASE UNCHANGED vars
  BY <1>5 DEF vars, session, runVars, reports, flushVars
<1> QED
  BY <1>1, <1>2, <1>3, <1>4, <1>5 DEF Next

\* A report that is still with its run is fresh to ReportCustody.
LEMMA WithItsRun ==
    ASSUME ReportInv, NEW r \in Run, rPc[r] \in {"supervised", "saving", "holding"}
    PROVE  /\ Custody!Fresh(r) /\ r \notin Pending /\ r \notin lost
           /\ \A p \in Profile : r \notin saved[p]
<1>1. InstType /\ RunType /\ rInst[r] # 0 /\ ~Out(r) /\ OnePlaceOf(r)
  BY DEF ReportInv, Types, TypeOK, OnePlace, Out
<1>2. ~Kept(r) /\ ~OnTheWay(r) /\ r \notin held /\ r \notin lost
  BY <1>1 DEF OnePlaceOf
<1>3. r \notin Pending
  BY <1>2 DEF Pending, OnTheWay, InFlush
<1>4. Home[r] # {}
  BY <1>1, HomeOf
<1> QED
  BY <1>2, <1>3, <1>4 DEF Custody!Fresh, Kept

\* A step of a run, of a flush or of a delete is one of ReportCustody.
LEMMA RunRefines ==
    ASSUME ReportInv, NotStarted, [Next]_vars, NEW r \in Run,
           ReadApp(r) \/ SupervisorEnds(r) \/ Finished(r) \/ HoldReport(r)
    PROVE  Custody!Next \/ UNCHANGED Custody!vars
<1>0. InstType /\ RunType /\ ReportType
  BY DEF ReportInv, Types, TypeOK
<1>1. CASE ReadApp(r)
  <2>1. UNCHANGED <<ws, saved, lost, held, fTaken, fBack>>
    BY <1>1 DEF ReadApp, session, reports, flushVars
  <2>2. UNCHANGED Pending
    BY <2>1 DEF Pending
  <2>3. CASE UNCHANGED rInst
    BY <1>0, <2>1, <2>2, <2>3, HomeStays DEF Custody!vars
  <2>4. CASE cur # 0 /\ rInst' = [rInst EXCEPT ![r] = cur]
    <3>1. Home[r] = {}
      BY <1>0, <1>1, HomeOf DEF ReadApp, NotStarted
    <3>2. UNCHANGED insts
      BY <1>1 DEF ReadApp, session
    <3>3. ProfileOf(cur) \in Profile
      <4>1. insts \in Seq(VaultId) /\ cur \in 1 .. Len(insts)
        BY <1>0, <2>4 DEF InstType
      <4>2. insts[cur] \in VaultId
        BY <4>1
      <4> QED
        BY <4>2 DEF ProfileOf, VaultId
    <3>4. Home' = [Home EXCEPT ![r] = {ProfileOf(cur)}]
      <4>1. Home' = [x \in Run |-> {ProfileOf(i) : i \in {IF x = r THEN cur ELSE rInst[x]} \ {0}}]
        BY <1>0, <2>4, <3>2 DEF Home, ProfileOf, RunType
      <4>2. {ProfileOf(i) : i \in {cur} \ {0}} = {ProfileOf(cur)}
        BY <2>4
      <4> QED
        BY <4>1, <4>2 DEF Home
    <3>5. Custody!Start(r, ProfileOf(cur))
      BY <2>1, <2>2, <3>1, <3>4 DEF Custody!Start
    <3> QED
      BY <3>3, <3>5 DEF Custody!Next
  <2> QED
    BY <1>1, <2>3, <2>4 DEF ReadApp, Retire
<1>2. CASE SupervisorEnds(r)
  <2>1. rPc[r] = "supervised" /\ UNCHANGED <<rInst, ws, saved, held, fTaken, fBack>>
    BY <1>2 DEF SupervisorEnds, session, flushVars
  <2>2. UNCHANGED <<Pending, Home>>
    BY <1>0, <2>1, HomeStays DEF Pending
  <2>3. CASE UNCHANGED lost
    BY <2>1, <2>2, <2>3 DEF Custody!vars
  <2>4. CASE lost' = lost \cup {r}
    <3>1. Custody!Lose(r)
      BY <2>1, <2>2, <2>4, WithItsRun DEF Custody!Lose
    <3> QED
      BY <3>1 DEF Custody!Next
  <2> QED
    BY <1>2, <2>3, <2>4 DEF SupervisorEnds
<1>3. CASE Finished(r)
  <2>1. rPc[r] = "saving" /\ UNCHANGED <<rInst, ws, held, fTaken, fBack>>
    BY <1>3 DEF Finished, session, flushVars
  <2>2. UNCHANGED <<Pending, Home>>
    BY <1>0, <2>1, HomeStays DEF Pending
  <2>3. Home[r] = {ProfileOf(rInst[r])} /\ ProfileOf(rInst[r]) \in Profile
    BY <1>0, <2>1, HomeOf DEF ReportInv, Types, TypeOK
  <2>4. Custody!Fresh(r) /\ r \notin Pending
    BY <2>1, WithItsRun
  <2>5. CASE SavesInto(rInst[r], r)
    <3>1. Custody!Store(r, ProfileOf(rInst[r]))
      BY <2>1, <2>2, <2>3, <2>4, <2>5 DEF Custody!Store, SavesInto
    <3> QED
      BY <2>3, <3>1 DEF Custody!Next
  <2>6. CASE lost' = lost \cup {r} /\ UNCHANGED saved
    <3>1. Custody!Lose(r)
      BY <2>1, <2>2, <2>4, <2>6 DEF Custody!Lose
    <3> QED
      BY <3>1 DEF Custody!Next
  <2>7. CASE UNCHANGED <<saved, lost>>
    BY <2>1, <2>2, <2>7 DEF Custody!vars
  <2> QED
    BY <1>3, <2>5, <2>6, <2>7 DEF Finished, Gone
<1>4. CASE HoldReport(r)
  <2>1. rPc[r] = "holding" /\ held' = held \cup {r} /\ UNCHANGED <<rInst, ws, saved, lost, fTaken, fBack>>
    BY <1>4 DEF HoldReport, session
  <2>2. Pending' = Pending \cup {r}
    BY <2>1 DEF Pending
  <2>3. UNCHANGED Home
    BY <1>0, <2>1, HomeStays
  <2>4. Custody!Wait(r)
    BY <2>1, <2>2, <2>3, WithItsRun DEF Custody!Wait
  <2> QED
    BY <2>4 DEF Custody!Next
<1> QED
  BY <1>1, <1>2, <1>3, <1>4

\* A flush keeps the reports it takes among those that wait, until one is
\* stored in its home or that workspace is gone.
LEMMA FlushRefines ==
    ASSUME ReportInv, [Next]_vars, NEW t \in Thread,
           FlushBegins(t) \/ FlushSaves(t) \/ FlushPushesBack(t)
    PROVE  Custody!Next \/ UNCHANGED Custody!vars
<1>0. InstType /\ RunType /\ ReportType /\ Flushers /\ OfItsVault
  BY DEF ReportInv, Types, TypeOK
<1>1. UNCHANGED <<rInst, ws, Home>>
  <2>1. UNCHANGED <<rInst, ws>>
    BY DEF FlushBegins, FlushSaves, FlushPushesBack, session, runVars
  <2> QED
    BY <1>0, <2>1, HomeStays
<1>2. fTaken \in [Thread -> SUBSET Run] /\ fBack \in [Thread -> Run \cup {NoRun}] /\ held \subseteq Run
      /\ NoRun \notin Run
  BY <1>0, LoadAssumption DEF ReportType
<1>3. CASE FlushBegins(t)
  <2>1. UNCHANGED <<saved, lost, fBack>> /\ fTaken[t] = {}
    BY <1>0, <1>3 DEF FlushBegins, Flushers
  <2>2. CASE UNCHANGED <<fTaken, held>>
    BY <1>1, <2>1, <2>2 DEF Custody!vars, Pending
  <2>3. CASE fTaken' = [fTaken EXCEPT ![t] = TakeFor(cur)] /\ held' = held \ TakeFor(cur)
    <3>1. TakeFor(cur) \subseteq held
      BY DEF TakeFor
    <3>2. ASSUME NEW x \in Run PROVE x \in Pending' <=> x \in Pending
      <4>1. \A u \in Thread : u # t => fTaken'[u] = fTaken[u]
        BY <1>2, <2>3
      <4>2. fTaken'[t] = TakeFor(cur)
        BY <1>2, <2>3
      <4>3. CASE x \in TakeFor(cur)
        BY <3>1, <4>2, <4>3 DEF Pending
      <4>4. CASE x \notin TakeFor(cur)
        <5>1. \A u \in Thread : x \in fTaken'[u] <=> x \in fTaken[u]
          BY <2>1, <4>1, <4>2, <4>4
        <5> QED
          BY <2>1, <2>3, <4>4, <5>1 DEF Pending
      <4> QED
        BY <4>3, <4>4
    <3>3. UNCHANGED Pending
      <4>1. Pending \subseteq Run /\ Pending' \subseteq Run
        BY <1>2, <2>3 DEF Pending
      <4> QED
        BY <3>2, <4>1
    <3> QED
      BY <1>1, <2>1, <3>3 DEF Custody!vars
  <2> QED
    BY <1>3, <2>2, <2>3 DEF FlushBegins
<1>4. CASE FlushSaves(t)
  <2>1. fBack[t] = NoRun /\ UNCHANGED held
    BY <1>4 DEF FlushSaves
  <2>2. PICK r \in fTaken[t] :
            /\ fTaken' = [fTaken EXCEPT ![t] = @ \ {r}]
            /\ \/ (SavesInto(fInst[t], r) \/ Gone(fInst[t], r)) /\ UNCHANGED fBack
               \/ fBack' = [fBack EXCEPT ![t] = r] /\ UNCHANGED <<saved, lost>>
    BY <1>4 DEF FlushSaves
  <2>3. r \in Run /\ r \in Pending
    BY <1>2, <2>2 DEF Pending
  <2>4. r \notin held /\ \A u \in Thread : (u # t => r \notin fTaken[u]) /\ fBack[u] # r
    BY <2>2, <2>3 DEF ReportInv, OnePlace, OnePlaceOf, OnTheWay, InFlush
  <2>5. \A u \in Thread : fTaken'[u] = IF u = t THEN fTaken[u] \ {r} ELSE fTaken[u]
    BY <1>2, <2>2
  <2>6. CASE (SavesInto(fInst[t], r) \/ Gone(fInst[t], r)) /\ UNCHANGED fBack
    <3>1. Pending' = Pending \ {r}
      <4>1. ASSUME NEW x \in Run PROVE x \in Pending' <=> x \in Pending /\ x # r
        <5>1. CASE x = r
          BY <2>1, <2>4, <2>5, <2>6, <5>1 DEF Pending
        <5>2. CASE x # r
          BY <2>1, <2>5, <2>6, <5>2 DEF Pending
        <5> QED
          BY <5>1, <5>2
      <4>2. Pending \subseteq Run /\ Pending' \subseteq Run
        BY <1>2, <2>1 DEF Pending
      <4> QED
        BY <4>1, <4>2
    <3>2. fInst[t] # 0 /\ insts[rInst[r]] = insts[fInst[t]]
      BY <1>0, <2>2 DEF OfItsVault
    <3>3. Home[r] = {ProfileOf(fInst[t])} /\ ProfileOf(fInst[t]) \in Profile
      <4>1. rInst[r] # 0
        <5>1. OnTheWay(r)
          BY <2>2 DEF OnTheWay, InFlush
        <5>2. Out(r)
          BY <2>3, <5>1 DEF ReportInv, OnePlace, OnePlaceOf
        <5>3. worker[r] # "none"
          BY <2>3, <5>2 DEF ReportInv, Workers, Late, Out
        <5> QED
          BY <2>3, <5>3 DEF ReportInv, Types, WorkersPlaced
      <4>2. Home[r] = {ProfileOf(rInst[r])} /\ ProfileOf(rInst[r]) \in Profile
        BY <1>0, <2>3, <4>1, HomeOf
      <4> QED
        BY <3>2, <4>2 DEF ProfileOf
    <3>4. CASE SavesInto(fInst[t], r)
      <4>1. Custody!Store(r, ProfileOf(fInst[t]))
        BY <1>1, <2>3, <3>1, <3>3, <3>4 DEF Custody!Store, SavesInto
      <4> QED
        BY <2>3, <3>3, <4>1 DEF Custody!Next
    <3>5. CASE Gone(fInst[t], r)
      <4>1. Home[r] \cap ws = {}
        BY <3>3, <3>5 DEF Gone
      <4>2. Custody!Lose(r)
        BY <1>1, <2>3, <3>1, <3>5, <4>1 DEF Custody!Lose, Gone
      <4> QED
        BY <2>3, <4>2 DEF Custody!Next
    <3> QED
      BY <2>6, <3>4, <3>5
  <2>7. CASE fBack' = [fBack EXCEPT ![t] = r] /\ UNCHANGED <<saved, lost>>
    <3>1. \A u \in Thread : fBack'[u] = IF u = t THEN r ELSE fBack[u]
      BY <1>2, <2>7
    <3>2. ASSUME NEW x \in Run PROVE x \in Pending' <=> x \in Pending
      <4>1. CASE x = r
        BY <2>3, <3>1, <4>1 DEF Pending
      <4>2. CASE x # r
        <5>1. \A u \in Thread : (x \in fTaken'[u] \/ fBack'[u] = x) <=> (x \in fTaken[u] \/ fBack[u] = x)
          BY <1>2, <2>1, <2>5, <3>1, <4>2
        <5> QED
          BY <2>1, <5>1 DEF Pending
      <4> QED
        BY <4>1, <4>2
    <3>3. UNCHANGED Pending
      <4>1. Pending \subseteq Run /\ Pending' \subseteq Run
        BY <1>2, <2>1 DEF Pending
      <4> QED
        BY <3>2, <4>1
    <3> QED
      BY <1>1, <2>7, <3>3 DEF Custody!vars
  <2> QED
    BY <2>2, <2>6, <2>7
<1>5. CASE FlushPushesBack(t)
  <2>1. /\ fBack[t] \in Run /\ held' = held \cup {fBack[t]} /\ UNCHANGED <<saved, lost, fTaken>>
        /\ fBack' = [fBack EXCEPT ![t] = NoRun]
    BY <1>2, <1>5 DEF FlushPushesBack
  <2>2. \A u \in Thread : fBack'[u] = IF u = t THEN NoRun ELSE fBack[u]
    BY <1>2, <2>1
  <2>3. ASSUME NEW x \in Run PROVE x \in Pending' <=> x \in Pending
    <3>1. CASE x = fBack[t]
      BY <2>1, <3>1 DEF Pending
    <3>2. CASE x # fBack[t]
      <4>1. \A u \in Thread : fBack'[u] = x <=> fBack[u] = x
        BY <1>2, <2>2, <3>2
      <4> QED
        BY <2>1, <3>2, <4>1 DEF Pending
    <3> QED
      BY <3>1, <3>2
  <2>4. UNCHANGED Pending
    <3>1. Pending \subseteq Run /\ Pending' \subseteq Run
      BY <1>2, <2>1 DEF Pending
    <3> QED
      BY <2>3, <3>1
  <2> QED
    BY <1>1, <2>1, <2>4 DEF Custody!vars
<1> QED
  BY <1>3, <1>4, <1>5

\* A run reads its app once: from then on it is past the two first stages.
LEMMA NotStartedStep ==
    ASSUME RunType, NotStarted, [Next]_vars
    PROVE  NotStarted'
<1>1. CASE \E r \in Run : ReadApp(r)
  <2>1. PICK r \in Run : ReadApp(r)
    BY <1>1
  <2>2. \A x \in Run : rPc'[x] \in {"idle", "registered"} => rPc'[x] = rPc[x] /\ rInst'[x] = rInst[x]
    BY <2>1 DEF ReadApp, Retire, Goto, RunType
  <2> QED
    BY <2>2 DEF NotStarted
<1>2. CASE ~ \E r \in Run : ReadApp(r)
  <2>1. UNCHANGED rInst
    BY <1>2, ZenonT(60) DEF vars, session, runVars, Next, Boundary, MoverSteps, RotationSteps,
     StartSteps, StopSteps, EndSteps, FlushSteps, Retire, Lock, Unlock, Publish, StoreLocks, StopRuns, StopWork,
     BeginKeyChange, RotateTo, KeyChangeDrops, KeyChangeEnds, DeleteWorkspace, StopWorkspaceRuns, Register,
     RegisterLoadRun, Recheck, Reads, CheckStops, Spawn, LoadRunCancel, Supervise, WorkerExits, SupervisorEnds,
     Finished, HoldReport, Flushed, ForWindow, Emit, FlushBegins, FlushSaves, FlushPushesBack, FlushEnds
  <2>2. \/ UNCHANGED rPc
        \/ \E r \in Run : Register(r) \/ StartSteps(r) \/ EndSteps(r)
    BY ZenonT(60) DEF vars, runVars, Next, Boundary, MoverSteps, RotationSteps, StopSteps, FlushSteps, Lock, Unlock,
     Publish, StoreLocks, StopRuns, StopWork, BeginKeyChange, RotateTo, KeyChangeDrops, KeyChangeEnds, DeleteWorkspace,
     StopWorkspaceRuns, LoadRunCancel, Supervise, WorkerExits, FlushBegins, FlushSaves, FlushPushesBack, FlushEnds
  <2>3. ASSUME NEW r \in Run, Register(r) \/ StartSteps(r) \/ EndSteps(r)
        PROVE  \A x \in Run : rPc'[x] \in {"idle", "registered"} => rPc[x] \in {"idle", "registered"}
    <3>1. PICK l \in RunPc : Goto(r, l) /\ (l = "registered" => rPc[r] = "idle") /\ l # "idle"
      BY <1>2, <2>3 DEF RunPc, Register, StartSteps, EndSteps, RegisterLoadRun, Recheck, Reads, CheckStops, Spawn, Retire,
         SupervisorEnds, Finished, HoldReport, Flushed, ForWindow, Emit
    <3> QED
      BY <3>1 DEF Goto, RunType
  <2> QED
    BY <2>1, <2>2, <2>3 DEF NotStarted
<1> QED
  BY <1>1, <1>2

\* Any number of runs, profiles and unlocking threads implement ReportCustody:
\* a held report stays held, whoever takes it and however often its profile
\* locks under the flush, until it is stored in the profile its run started
\* under or that workspace is deleted (finished, hold_report,
\* flush_pending_reports, delete_workspace).
THEOREM ImplementsCustody == Spec => RefinesCustody
<1>1. Init => Custody!Init /\ NotStarted
  <2> SUFFICES ASSUME Init PROVE Custody!Init /\ NotStarted
    OBVIOUS
  <2>1. Home = [r \in Run |-> {}]
    BY DEF Init, Home
  <2>2. Pending = {}
    BY LoadAssumption DEF Init, Pending, Thread
  <2> QED
    BY <2>1, <2>2 DEF Init, Custody!Init, NotStarted
<1>2. ReportInv /\ NotStarted /\ [Next]_vars => [Custody!Next]_Custody!vars /\ NotStarted'
  <2> SUFFICES ASSUME ReportInv, NotStarted, [Next]_vars PROVE [Custody!Next]_Custody!vars /\ NotStarted'
    OBVIOUS
  <2>0. InstType /\ RunType
    BY DEF ReportInv, Types, TypeOK
  <2>1. ASSUME UNCHANGED <<rInst, ws, saved, lost, held, fTaken, fBack>>
        PROVE  UNCHANGED Custody!vars
    BY <2>0, <2>1, HomeStays DEF Custody!vars, Pending
  <2>2. ASSUME DeleteWorkspace
        PROVE  Custody!Next
    <3>1. UNCHANGED <<Home, Pending>>
      BY <2>0, <2>2, HomeStays DEF DeleteWorkspace, runVars, flushVars, Pending
    <3>2. ProfileOf(cur) \in Profile
      BY <2>0, <2>2 DEF DeleteWorkspace, InstType
    <3>3. Custody!Delete(ProfileOf(cur))
      BY <2>2, <3>1 DEF DeleteWorkspace, Custody!Delete
    <3> QED
      BY <3>2, <3>3 DEF Custody!Next
  <2>3. Custody!Next \/ UNCHANGED Custody!vars
    BY <2>1, <2>2, OthersLeaveReports, RunRefines, FlushRefines DEF Touches
  <2> QED
    BY <2>0, <2>3, NotStartedStep
<1> QED
  BY <1>1, <1>2, ReportAlways, PTL DEF Spec, RefinesCustody, Custody!Spec

-----------------------------------------------------------------------------
(* The executor whose report it is, with state of its own.                 *)

\* The tasks at some point of their work, and how many they are.
Tasks(where) == {s \in Slot : pc[s] \in where}
Count(where) == Cardinality(Tasks(where))
Between == {"check", "begin", "end"}

\* The ledger counts the tasks in an iteration and in a send.  Tasks that were
\* aborted stay counted, and are among those the report says were.
Joining == {"aborting", "unlink", "reconcile", "ticker", "reported"}
LedgerInv ==
    /\ ledger.started + ledger.dropped = claimed
    /\ workload # "open" => ledger.dropped = 0
    /\ Count({"send"}) <= ledger.sends
    /\ main \notin Joining => ledger.sends = Count({"send"})
    /\ ledger.iters = ledger.sends + Count(Between)
    /\ main \in Joining => ledger.iters + Count({"claim"}) <= aborted

External == cancel \/ lock
ScheduleDone == IF workload = "iterations" THEN claimed = Iterations ELSE over

\* Whoever stops the run has given a reason first, so that lanes that end
\* while there is none, and no signal either, have run out of iterations.
ReasonInv ==
    /\ main \notin {"drive", "stop"} => stopToken
    /\ link \in {"halt", "stop", "done"} => reason # "none"
    /\ ticker \in {"halt", "stop"} => reason # "none"
    /\ stopToken /\ main = "drive" => reason # "none"
    /\ workload = "iterations" => \A s \in Slot : pc[s] # "pause"
    /\ workload = "iterations" /\ main = "drive" /\ reason = "none" /\ ~External =>
           \A s \in Slot : pc[s] \in {"off", "ended"} => claimed = Iterations
    /\ reason = "end" /\ ~External => ScheduleDone
    /\ report = "end" => main \in {"ticker", "reported"} /\ ~External /\ ScheduleDone

ExecutorInv == ExecutorTypeOK /\ LedgerInv /\ ReasonInv

\* The slots of a run are finitely many, and there is one (max_concurrency).
LEMMA SlotsFinite == IsFiniteSet(Slot) /\ Slot # {}
BY ExecutorAssumption

\* Every group of tasks has a count.
LEMMA CountIsNat ==
    ASSUME NEW where
    PROVE  IsFiniteSet(Tasks(where)) /\ Count(where) \in Nat
BY SlotsFinite, FS_Subset, FS_CardinalityType DEF Tasks, Count

\* A step of one task moves it from one group to another.
LEMMA CountMoves ==
    ASSUME pc \in [Slot -> TaskPc], NEW s \in Slot, NEW l,
           pc' = [pc EXCEPT ![s] = l], NEW where
    PROVE  /\ Count(where) \in Nat /\ Count(where)' \in Nat
           /\ pc[s] \in where /\ l \in where => Count(where)' = Count(where)
           /\ pc[s] \notin where /\ l \notin where => Count(where)' = Count(where)
           /\ pc[s] \notin where /\ l \in where => Count(where)' = Count(where) + 1
           /\ pc[s] \in where /\ l \notin where => Count(where)' = Count(where) - 1 /\ Count(where) > 0
<1>1. IsFiniteSet(Tasks(where)) /\ Count(where) \in Nat
  BY CountIsNat
<1>2. Tasks(where)' = IF l \in where THEN Tasks(where) \cup {s} ELSE Tasks(where) \ {s}
  BY DEF Tasks
<1>3. s \in Tasks(where) <=> pc[s] \in where
  BY DEF Tasks
<1>4. CASE l \in where
  <2>1. Cardinality(Tasks(where) \cup {s}) = IF s \in Tasks(where) THEN Cardinality(Tasks(where)) ELSE Cardinality(Tasks(where)) + 1
    BY <1>1, FS_AddElement
  <2> QED
    BY <1>1, <1>2, <1>3, <1>4, <2>1 DEF Count
<1>5. CASE l \notin where
  <2>1. Cardinality(Tasks(where) \ {s}) = IF s \in Tasks(where) THEN Cardinality(Tasks(where)) - 1 ELSE Cardinality(Tasks(where))
    BY <1>1, FS_RemoveElement
  <2>2. s \in Tasks(where) => Cardinality(Tasks(where)) # 0
    BY <1>1, FS_EmptySet
  <2> QED
    BY <1>1, <1>2, <1>3, <1>5, <2>1, <2>2 DEF Count
<1> QED
  BY <1>4, <1>5

\* A step that moves no task keeps the counts.
LEMMA CountStays == ASSUME UNCHANGED pc, NEW where PROVE Count(where)' = Count(where)
BY DEF Count, Tasks

\* No tasks, no count.
LEMMA CountEmpty ==
    ASSUME NEW where, \A s \in Slot : pc[s] \notin where
    PROVE  Count(where) = 0
<1>1. Tasks(where) = {}
  BY DEF Tasks
<1> QED
  BY <1>1, FS_EmptySet DEF Count

\* A step that moves no task keeps the types of the tasks.
LEMMA TasksStay ==
    ASSUME TaskType, UNCHANGED <<claimed, ledger, pc, step>>
    PROVE  TaskType'
BY DEF TaskType

\* A step that moves no task and touches no count keeps the ledger's claims.
LEMMA LedgerStays ==
    ASSUME LedgerInv, UNCHANGED <<workload, claimed, ledger, pc, aborted>>,
           main' \in Joining <=> main \in Joining
    PROVE  LedgerInv'
<1>1. \A w \in {{"send"}, Between, {"claim"}} : Count(w)' = Count(w)
  BY CountStays
<1> QED
  BY <1>1 DEF LedgerInv, Between

\* A run starts with nothing in flight and no reason to stop.
LEMMA ExecutorStarts ==
    ASSUME ExecutorInit
    PROVE  ExecutorInv
<1>1. ExecutorTypeOK
  <2>1. DriverType
    BY DEF ExecutorInit, DriverType, Workload, None, Reason,
       MainPc
  <2>2. pc \in [Slot -> TaskPc] /\ step \in [Slot -> 0 .. Steps]
    BY ExecutorAssumption DEF ExecutorInit, TaskPc
  <2>4. claimed \in 0 .. Iterations
        /\ ledger \in [started : Nat, dropped : Nat, iters : Nat, sends : Nat]
    BY ExecutorAssumption DEF ExecutorInit, NoCounts
  <2> QED
    BY <2>1, <2>2, <2>4 DEF ExecutorTypeOK, TaskType
<1>2. Count({"send"}) = 0 /\ Count(Between) = 0
  BY CountEmpty DEF ExecutorInit, Between
<1>3. LedgerInv
  BY <1>2 DEF LedgerInv, ExecutorInit, NoCounts, Joining
<1>4. ReasonInv
  BY DEF ReasonInv, ExecutorInit, None, External
<1> QED
  BY <1>1, <1>3, <1>4 DEF ExecutorInv

-----------------------------------------------------------------------------
(* The signals, the schedule, the observer and the ticker. *)

\* A cancel or a lock is let in only before the reason is settled.
LEMMA SignalKeeps ==
    ASSUME ExecutorInv, Signal
    PROVE  ExecutorInv'
<1>1. ExecutorTypeOK'
  <2>1. DriverType'
    <3>1. DriverType
      BY DEF ExecutorInv, ExecutorTypeOK
    <3>2. cancel' \in BOOLEAN /\ lock' \in BOOLEAN
      BY <3>1 DEF Signal, DriverType
    <3>3. UNCHANGED <<workload, over, stopToken, halt, hard, reason, failed, link, ticker, main, wait, halted, aborted, report>>
      BY DEF Signal, tokens, run
    <3> QED
      BY <3>1, <3>2, <3>3 DEF DriverType
  <2>2. TaskType'
    BY TasksStay DEF ExecutorInv, Signal, ExecutorTypeOK, tasks, run
  <2> QED
    BY <2>1, <2>2 DEF ExecutorTypeOK
<1>2. LedgerInv'
  BY LedgerStays DEF ExecutorInv, Signal, tasks, run
<1>3. ReasonInv'
  BY DEF ExecutorInv, ReasonInv, External, ScheduleDone, Signal, ExecutorTypeOK, DriverType,
         tokens, tasks, run
<1> QED
  BY <1>1, <1>2, <1>3 DEF ExecutorInv

\* The end of the schedule, which a fixed number of iterations does not have.
LEMMA ScheduleKeeps ==
    ASSUME ExecutorInv, ScheduleEnds
    PROVE  ExecutorInv'
<1>1. ExecutorTypeOK'
  <2>1. DriverType'
    BY DEF ExecutorInv, ScheduleEnds, ExecutorTypeOK, DriverType, tokens,
       tasks, run
  <2>2. TaskType'
    BY TasksStay DEF ExecutorInv, ScheduleEnds, ExecutorTypeOK, tasks, run
  <2> QED
    BY <2>1, <2>2 DEF ExecutorTypeOK
<1>2. LedgerInv'
  BY LedgerStays DEF ExecutorInv, ScheduleEnds, tasks, run
<1>3. ReasonInv'
  BY DEF ExecutorInv, ReasonInv, External, ScheduleDone, ScheduleEnds, ExecutorTypeOK,
     DriverType,
         tokens, tasks, run
<1> QED
  BY <1>1, <1>2, <1>3 DEF ExecutorInv

\* The observer gives its reason before it halts the chains and stops stopToken.
LEMMA LinkKeeps ==
    ASSUME ExecutorInv, LinkStep
    PROVE  ExecutorInv'
<1>1. CASE LinkWakes
  <2>1. ExecutorTypeOK'
    <3>1. DriverType'
      BY <1>1 DEF ExecutorInv, LinkWakes, RecordExternal, ExecutorTypeOK,
         DriverType, Reason, None, signals, tokens,
         tasks, run
    <3>2. TaskType'
      BY <1>1, TasksStay DEF ExecutorInv, LinkWakes, ExecutorTypeOK, tasks, run
    <3> QED
      BY <3>1, <3>2 DEF ExecutorTypeOK
  <2>2. LedgerInv'
    BY <1>1, LedgerStays DEF ExecutorInv, LinkWakes, tasks, run
  <2>3. ReasonInv'
    BY <1>1 DEF ExecutorInv, ReasonInv, External, ScheduleDone, LinkWakes, RecordExternal,
           ExecutorTypeOK, DriverType, None, signals, tokens,
           tasks, run
  <2> QED
    BY <2>1, <2>2, <2>3 DEF ExecutorInv
<1>2. CASE LinkHalts
  <2>1. ExecutorTypeOK'
    <3>1. DriverType'
      BY <1>2 DEF ExecutorInv, LinkHalts, ExecutorTypeOK, DriverType, signals,
         tasks, run
    <3>2. TaskType'
      BY <1>2, TasksStay DEF ExecutorInv, LinkHalts, ExecutorTypeOK, tasks, run
    <3> QED
      BY <3>1, <3>2 DEF ExecutorTypeOK
  <2>2. LedgerInv'
    BY <1>2, LedgerStays DEF ExecutorInv, LinkHalts, tasks, run
  <2>3. ReasonInv'
    BY <1>2 DEF ExecutorInv, ReasonInv, External, ScheduleDone, LinkHalts,
           ExecutorTypeOK, DriverType, signals, tasks, run
  <2> QED
    BY <2>1, <2>2, <2>3 DEF ExecutorInv
<1>3. CASE LinkStops
  <2>1. ExecutorTypeOK'
    <3>1. DriverType'
      BY <1>3 DEF ExecutorInv, LinkStops, ExecutorTypeOK, DriverType, signals,
         tasks, run
    <3>2. TaskType'
      BY <1>3, TasksStay DEF ExecutorInv, LinkStops, ExecutorTypeOK, tasks, run
    <3> QED
      BY <3>1, <3>2 DEF ExecutorTypeOK
  <2>2. LedgerInv'
    BY <1>3, LedgerStays DEF ExecutorInv, LinkStops, tasks, run
  <2>3. ReasonInv'
    BY <1>3 DEF ExecutorInv, ReasonInv, External, ScheduleDone, LinkStops,
           ExecutorTypeOK, DriverType, signals, tasks, run
  <2> QED
    BY <2>1, <2>2, <2>3 DEF ExecutorInv
<1> QED
  BY <1>1, <1>2, <1>3 DEF LinkStep

\* So does the abort rule.
LEMMA RuleKeeps ==
    ASSUME ExecutorInv, RuleTriggers \/ RuleStep
    PROVE  ExecutorInv'
<1>1. /\ UNCHANGED <<workload, claimed, ledger, pc, step, main, aborted>>
      /\ UNCHANGED <<cancel, lock, over, hard, failed, link, wait, halted, report>>
  BY DEF RuleTriggers, RuleStep, signals, tokens, tasks,
     run
<1>5. \/ UNCHANGED <<reason, halt, stopToken>> /\ ticker' = "reason"
      \/ /\ reason' = (IF reason = "none" THEN "abort" ELSE reason)
         /\ UNCHANGED <<halt, stopToken>> /\ ticker' = "halt"
      \/ reason # "none" /\ halt' = TRUE /\ UNCHANGED <<reason, stopToken>> /\ ticker' = "stop"
      \/ reason # "none" /\ stopToken' = TRUE /\ UNCHANGED <<reason, halt>> /\ ticker' = "idle"
  <2>1. ticker \in {"halt", "stop"} => reason # "none"
    BY DEF ExecutorInv, ReasonInv
  <2>2. CASE RuleTriggers
    BY <2>2 DEF RuleTriggers, tokens
  <2>3. CASE RuleStep
    BY <2>1, <2>3 DEF RuleStep, SetReason, None
  <2> QED
    BY <2>2, <2>3
<1>2. ExecutorTypeOK'
  <2>1. DriverType'
    <3>1. DriverType
      BY DEF ExecutorInv, ExecutorTypeOK
    <3>2. stopToken' \in BOOLEAN /\ halt' \in BOOLEAN
      BY <1>5, <3>1 DEF DriverType
    <3>3. reason' \in Reason /\ ticker' \in {"idle", "reason", "halt", "stop"}
      BY <1>5, <3>1 DEF DriverType, Reason
    <3> QED
      BY <1>1, <3>1, <3>2, <3>3 DEF DriverType
  <2>2. TaskType'
    BY <1>1, <1>5, TasksStay DEF ExecutorInv, ExecutorTypeOK
  <2> QED
    BY <2>1, <2>2 DEF ExecutorTypeOK
<1>3. LedgerInv'
  BY <1>1, LedgerStays DEF ExecutorInv
<1>4. ReasonInv'
  BY <1>1, <1>5 DEF ExecutorInv, ReasonInv, External, ScheduleDone, ExecutorTypeOK, DriverType
<1> QED
  BY <1>2, <1>3, <1>4 DEF ExecutorInv

-----------------------------------------------------------------------------
(* The tasks. *)

\* How the three groups the ledger is about change when a task moves.
GroupsMoved(s, l) ==
    /\ Count({"send"}) \in Nat /\ Count(Between) \in Nat /\ Count({"claim"}) \in Nat
    /\ Count({"send"})' \in Nat /\ Count(Between)' \in Nat /\ Count({"claim"})' \in Nat
    /\ Count({"send"})' = Count({"send"})
           + (IF l = "send" THEN 1 ELSE 0) - (IF pc[s] = "send" THEN 1 ELSE 0)
    /\ Count(Between)' = Count(Between)
           + (IF l \in Between THEN 1 ELSE 0) - (IF pc[s] \in Between THEN 1 ELSE 0)
    /\ Count({"claim"})' = Count({"claim"})
           + (IF l = "claim" THEN 1 ELSE 0) - (IF pc[s] = "claim" THEN 1 ELSE 0)

\* Each group gains the task if it comes into it and loses it if it leaves.
LEMMA GroupsMove ==
    ASSUME pc \in [Slot -> TaskPc], NEW s \in Slot, NEW l,
           pc' = [pc EXCEPT ![s] = l]
    PROVE  GroupsMoved(s, l)
<1>1. ASSUME NEW w
      PROVE  /\ Count(w) \in Nat /\ Count(w)' \in Nat
             /\ Count(w)' = Count(w) + (IF l \in w THEN 1 ELSE 0) - (IF pc[s] \in w THEN 1 ELSE 0)
  <2>1. /\ Count(w) \in Nat /\ Count(w)' \in Nat
        /\ pc[s] \in w /\ l \in w => Count(w)' = Count(w)
        /\ pc[s] \notin w /\ l \notin w => Count(w)' = Count(w)
        /\ pc[s] \notin w /\ l \in w => Count(w)' = Count(w) + 1
        /\ pc[s] \in w /\ l \notin w => Count(w)' = Count(w) - 1 /\ Count(w) > 0
    BY CountMoves
  <2> QED
    BY <2>1
<1>2. /\ l \in {"send"} <=> l = "send"
      /\ l \in {"claim"} <=> l = "claim"
      /\ pc[s] \in {"send"} <=> pc[s] = "send"
      /\ pc[s] \in {"claim"} <=> pc[s] = "claim"
  OBVIOUS
<1> QED
  BY <1>1, <1>2 DEF GroupsMoved

\* A task that moves while nothing else of the run does: it ends, in a run of
\* a fixed number of iterations, only when they are all claimed or there is
\* something that stops it.
LEMMA ReasonMoves ==
    ASSUME ReasonInv, pc \in [Slot -> TaskPc], NEW s \in Slot, NEW l,
           pc' = [pc EXCEPT ![s] = l],
           UNCHANGED <<workload, cancel, lock, over, stopToken, reason, claimed, link, ticker, main,
           report>>,
           workload = "iterations" => l # "pause",
           workload = "iterations" /\ main = "drive" /\ reason = "none" /\ ~External
               => (l \in {"off", "ended"} => claimed = Iterations)
    PROVE  ReasonInv'
<1>1. \A u \in Slot : pc'[u] = IF u = s THEN l ELSE pc[u]
  OBVIOUS
<1>2. workload' = "iterations" => \A u \in Slot : pc'[u] # "pause"
  BY <1>1 DEF ReasonInv
<1>3. workload' = "iterations" /\ main' = "drive" /\ reason' = "none" /\ ~External' =>
          \A u \in Slot : pc'[u] \in {"off", "ended"} => claimed' = Iterations
  BY <1>1 DEF ReasonInv, External
<1> QED
  BY <1>2, <1>3 DEF ReasonInv, External, ScheduleDone

\* The rest of the run stays as it is.
LEMMA RunStays ==
    ASSUME DriverType,
           UNCHANGED <<workload, cancel, lock, over, stopToken, halt, hard, reason, failed, link, ticker>>,
           UNCHANGED <<main, wait, halted, aborted, report>>
    PROVE  DriverType'
BY DEF DriverType

\* A task that only moves, and does not claim while the run is joining.
LEMMA MoveKeeps ==
    ASSUME ExecutorInv, NEW s \in Slot, NEW l \in TaskPc,
           pc' = [pc EXCEPT ![s] = l],
           UNCHANGED <<workload, cancel, lock, over, stopToken, halt, hard, reason, failed, link, ticker>>,
           UNCHANGED <<main, wait, halted, aborted, report, claimed, ledger, step>>,
           pc[s] \notin {"check", "begin", "send", "end"}, l \notin {"check", "begin", "send", "end"},
           l = "claim" => ~stopToken,
           workload = "iterations" => l # "pause",
           workload = "iterations" /\ main = "drive" /\ reason = "none" /\ ~External
               => (l \in {"off", "ended"} => claimed = Iterations)
    PROVE  ExecutorInv'
<1>1. DriverType /\ TaskType /\ pc \in [Slot -> TaskPc]
  BY DEF ExecutorInv, ExecutorTypeOK, TaskType
<1>2. ExecutorTypeOK'
  BY <1>1, RunStays DEF ExecutorTypeOK, TaskType
<1>3. /\ Count({"send"})' = Count({"send"}) /\ Count(Between)' = Count(Between)
      /\ Count({"claim"}) \in Nat /\ Count({"claim"})' \in Nat
      /\ l # "claim" => Count({"claim"})' <= Count({"claim"})
  <2>1. l # "send" /\ l \notin Between /\ pc[s] # "send" /\ pc[s] \notin Between
    BY DEF Between
  <2>2. GroupsMoved(s, l)
    BY <1>1, GroupsMove
  <2> QED
    BY <2>1, <2>2 DEF GroupsMoved
<1>4. main \in Joining => l # "claim"
  BY DEF ExecutorInv, ReasonInv, Joining
<1>5. ledger.iters \in Nat /\ aborted \in Nat
  BY <1>1 DEF DriverType, TaskType
<1>6. LedgerInv'
  BY <1>3, <1>4, <1>5 DEF ExecutorInv, LedgerInv
<1>7. ReasonInv'
  BY <1>1, ReasonMoves DEF ExecutorInv
<1> QED
  BY <1>2, <1>6, <1>7 DEF ExecutorInv

\* A task that may not start ends only because something stops the run.
LEMMA LoopKeeps ==
    ASSUME ExecutorInv, NEW s \in Slot,
           LoopCheck(s) \/ Inactive(s) \/ Wakes(s)
    PROVE  ExecutorInv'
<1>1. /\ UNCHANGED <<workload, cancel, lock, over, stopToken, halt, hard, reason, failed, link, ticker>>
      /\ UNCHANGED <<main, wait, halted, aborted, report, claimed, ledger, step>>
  BY DEF LoopCheck, Inactive, Wakes, signals, tokens,
     run
<1>2. pc[s] \in {"loop", "pause"}
  BY DEF LoopCheck, Inactive, Wakes
<1>3. workload = "iterations" /\ main = "drive" /\ reason = "none" => ~stopToken
  BY DEF ExecutorInv, ReasonInv
<1>4. workload = "iterations" => pc[s] # "pause"
  BY DEF ExecutorInv, ReasonInv
<1>5. PICK l \in {"loop", "claim", "pause", "ended"} :
          /\ pc' = [pc EXCEPT ![s] = l]
          /\ l = "claim" => ~stopToken
          /\ workload = "iterations" => l # "pause"
          /\ workload = "iterations" /\ main = "drive" /\ reason = "none" /\ ~External => l # "ended"
  <2>1. CASE LoopCheck(s)
    <3>1. CASE MayStart
      BY <2>1, <3>1 DEF LoopCheck, TaskGoes, MayStart, AdmissionStopped
    <3>2. CASE ~MayStart
      BY <2>1, <3>2, <1>3 DEF LoopCheck, TaskGoes, MayStart,
         AdmissionStopped,
         ExternalStop, External
    <3> QED
      BY <3>1, <3>2
  <2>2. CASE Inactive(s)
    BY <2>2 DEF Inactive, TaskGoes
  <2>3. CASE Wakes(s)
    BY <2>3, <1>4 DEF Wakes, TaskGoes
  <2> QED
    BY <2>1, <2>2, <2>3
<1>6. l \in TaskPc /\ l # "off"
  BY DEF TaskPc
<1> QED
  BY <1>1, <1>2, <1>5, <1>6, MoveKeeps

\* What the proofs about single steps of a task start from.
LEMMA TaskFacts ==
    ASSUME ExecutorInv
    PROVE  /\ DriverType /\ LedgerInv /\ ReasonInv
           /\ claimed \in 0 .. Iterations /\ Iterations \in Nat /\ Steps \in Nat \ {0} /\ aborted \in Nat
           /\ ledger \in [started : Nat, dropped : Nat, iters : Nat, sends : Nat]
           /\ pc \in [Slot -> TaskPc] /\ step \in [Slot -> 0 .. Steps]
BY ExecutorAssumption DEF ExecutorInv, ExecutorTypeOK, TaskType, DriverType,
   None

\* An iteration begins: a claim of a lane or a virtual user, or an arrival.
LEMMA BeginKeeps ==
    ASSUME ExecutorInv, NEW s \in Slot,
           pc[s] = "claim" \/ (main = "drive" /\ workload = "open" /\ pc[s] \in {"off", "ended"}),
           claimed < Iterations, claimed' = claimed + 1,
           ledger' = [ledger EXCEPT !.started = @ + 1, !.iters = @ + 1],
           step' = [step EXCEPT ![s] = 1], pc' = [pc EXCEPT ![s] = "check"],
           UNCHANGED <<workload, cancel, lock, over, stopToken, halt, hard, reason, failed, link, ticker>>,
           UNCHANGED <<main, wait, halted, aborted, report>>
    PROVE  ExecutorInv'
<1>1. /\ DriverType /\ LedgerInv /\ ReasonInv
      /\ claimed \in 0 .. Iterations /\ Iterations \in Nat /\ Steps \in Nat \ {0} /\ aborted \in Nat
      /\ ledger \in [started : Nat, dropped : Nat, iters : Nat, sends : Nat]
      /\ pc \in [Slot -> TaskPc] /\ step \in [Slot -> 0 .. Steps]
  BY TaskFacts
<1>2. DriverType'
  BY <1>1, RunStays
<1>3. TaskType'
  <2>1. claimed' \in 0 .. Iterations
    BY <1>1
  <2>3. ledger' \in [started : Nat, dropped : Nat, iters : Nat, sends : Nat]
    <3>1. ledger.started + 1 \in Nat /\ ledger.iters + 1 \in Nat
      BY <1>1
    <3> QED
      BY <1>1, <3>1
  <2>2. pc' \in [Slot -> TaskPc] /\ step' \in [Slot -> 0 .. Steps]
    BY <1>1 DEF TaskPc
  <2> QED
    BY <1>1, <2>1, <2>2, <2>3 DEF TaskType, None
<1>4. LedgerInv'
  <2>1. GroupsMoved(s, "check")
    BY <1>1, GroupsMove
  <2>2. pc[s] # "send" /\ pc[s] \notin Between /\ "check" \in Between
    BY DEF Between
  <2>3. main \in Joining => pc[s] = "claim"
    BY DEF Joining
  <2>4. /\ ledger'.started = ledger.started + 1 /\ ledger'.dropped = ledger.dropped
        /\ ledger'.iters = ledger.iters + 1 /\ ledger'.sends = ledger.sends
    BY <1>1
  <2>5. /\ Count({"send"})' = Count({"send"}) /\ Count(Between)' = Count(Between) + 1
        /\ Count({"claim"}) \in Nat /\ Count({"claim"})' \in Nat
        /\ Count({"claim"})' = Count({"claim"}) - (IF pc[s] = "claim" THEN 1 ELSE 0)
    BY <2>1, <2>2 DEF GroupsMoved
  <2>6. main \in Joining => ledger'.iters + Count({"claim"})' <= aborted
    BY <1>1, <2>3, <2>4, <2>5 DEF LedgerInv
  <2> QED
    BY <1>1, <2>1, <2>4, <2>5, <2>6 DEF LedgerInv, GroupsMoved
<1>5. ReasonInv'
  <2>1. workload = "iterations" => ~ScheduleDone
    BY <1>1 DEF ScheduleDone
  <2>2. \A u \in Slot : pc'[u] = IF u = s THEN "check" ELSE pc[u]
    BY <1>1
  <2>3. workload' = "iterations" => \A u \in Slot : pc'[u] # "pause"
    BY <1>1, <2>2 DEF ReasonInv
  <2>4. workload' = "iterations" /\ main' = "drive" /\ reason' = "none" /\ ~External' =>
            \A u \in Slot : pc'[u] \in {"off", "ended"} => claimed' = Iterations
    BY <1>1, <2>2 DEF ReasonInv, External
  <2>5. workload # "iterations" => (ScheduleDone' <=> ScheduleDone)
    BY DEF ScheduleDone
  <2> QED
    BY <1>1, <2>1, <2>3, <2>4, <2>5 DEF ReasonInv, External
<1> QED
  BY <1>2, <1>3, <1>4, <1>5 DEF ExecutorInv, ExecutorTypeOK

\* A lane claims an iteration, or ends because none is left.
LEMMA ClaimKeeps ==
    ASSUME ExecutorInv, NEW s \in Slot, Claim(s)
    PROVE  ExecutorInv'
<1>1. /\ UNCHANGED <<workload, cancel, lock, over, stopToken, halt, hard, reason, failed, link, ticker>>
      /\ UNCHANGED <<main, wait, halted, aborted, report>>
  BY DEF Claim, signals, tokens, run
<1>2. CASE claimed < Iterations
  <2>1. /\ pc[s] = "claim" /\ claimed' = claimed + 1 /\ pc' = [pc EXCEPT ![s] = "check"]
        /\ ledger' = [ledger EXCEPT !.started = @ + 1, !.iters = @ + 1]
        /\ step' = [step EXCEPT ![s] = 1]
    BY <1>2 DEF Claim, TaskGoes
  <2>2. pc[s] = "claim" \/ (main = "drive" /\ workload = "open" /\ pc[s] \in {"off", "ended"})
    BY <2>1
  <2> QED
    BY <1>1, <1>2, <2>1, <2>2, BeginKeeps
<1>3. CASE ~(claimed < Iterations)
  <2>1. claimed = Iterations
    BY <1>3, TaskFacts
  <2>2. pc[s] = "claim" /\ pc' = [pc EXCEPT ![s] = "ended"] /\ UNCHANGED <<claimed, ledger, step>>
    BY <1>3 DEF Claim, TaskGoes
  <2>3. "ended" \in TaskPc
    BY DEF TaskPc
  <2> QED
    BY <1>1, <2>1, <2>2, <2>3, MoveKeeps
<1> QED
  BY <1>2, <1>3

\* An arrival takes a free slot, or is dropped and counted.
LEMMA ArrivalKeeps ==
    ASSUME ExecutorInv, Arrival
    PROVE  ExecutorInv'
<1>1. /\ UNCHANGED <<workload, cancel, lock, over, stopToken, halt, hard, reason, failed, link, ticker>>
      /\ UNCHANGED <<main, wait, halted, aborted, report>>
      /\ main = "drive" /\ workload = "open" /\ claimed < Iterations /\ claimed' = claimed + 1
  BY DEF Arrival, signals, tokens, run
<1>2. CASE \E s \in Slot : Over(s)
  <2>1. PICK s \in Slot :
            /\ Over(s)
            /\ ledger' = [ledger EXCEPT !.started = @ + 1, !.iters = @ + 1]
            /\ step' = [step EXCEPT ![s] = 1]
            /\ pc' = [pc EXCEPT ![s] = "check"]
    BY <1>2 DEF Arrival, TaskGoes
  <2> QED
    BY <1>1, <2>1, BeginKeeps DEF Over
<1>3. CASE ~(\E s \in Slot : Over(s))
  <2>1. ledger' = [ledger EXCEPT !.dropped = @ + 1] /\ UNCHANGED <<pc, step>>
    BY <1>3 DEF Arrival
  <2>2. /\ DriverType /\ LedgerInv /\ ReasonInv
        /\ claimed \in 0 .. Iterations /\ Iterations \in Nat
        /\ ledger \in [started : Nat, dropped : Nat, iters : Nat, sends : Nat]
        /\ pc \in [Slot -> TaskPc] /\ step \in [Slot -> 0 .. Steps]
    BY TaskFacts
  <2>3. DriverType'
    BY <1>1, <2>2, RunStays
  <2>4. TaskType'
    BY <1>1, <2>1, <2>2 DEF TaskType, None
  <2>5. LedgerInv'
    <3>1. Count({"send"})' = Count({"send"}) /\ Count(Between)' = Count(Between) /\ Count({"claim"})' = Count({"claim"})
      BY <2>1, CountStays
    <3>2. /\ ledger'.started = ledger.started /\ ledger'.dropped = ledger.dropped + 1
          /\ ledger'.iters = ledger.iters /\ ledger'.sends = ledger.sends
      BY <2>1, <2>2
    <3> QED
      BY <1>1, <2>2, <3>1, <3>2 DEF LedgerInv
  <2>6. ReasonInv'
    BY <1>1, <2>1, <2>2 DEF ReasonInv, External, ScheduleDone
  <2> QED
    BY <2>3, <2>4, <2>5, <2>6 DEF ExecutorInv, ExecutorTypeOK
<1> QED
  BY <1>2, <1>3

\* A step of a task that is in an iteration: it goes on, sends, returns or
\* ends the iteration, and the ledger follows.
LEMMA StepKeeps ==
    ASSUME ExecutorInv, NEW s \in Slot, NEW l \in TaskPc,
           pc[s] \in {"check", "begin", "send", "end"}, l # "claim", pc' = [pc EXCEPT ![s] = l],
           ledger' = [started |-> ledger.started, dropped |-> ledger.dropped,
                      iters |-> ledger.iters - (IF l \in {"check", "begin", "send", "end"} THEN 0 ELSE 1),
                      sends |-> ledger.sends + (IF l = "send" THEN 1 ELSE 0) - (IF pc[s] = "send" THEN 1 ELSE 0)],
           pc[s] = "send" => l \in {"check", "end"},
           l \notin {"check", "begin", "send", "end"} => l = "loop" \/ workload # "iterations",
           step' \in [Slot -> 0 .. Steps],
           failed' \in BOOLEAN,
           UNCHANGED <<workload, cancel, lock, over, stopToken, halt, hard, reason, link, ticker>>,
           UNCHANGED <<main, wait, halted, aborted, report, claimed>>
    PROVE  ExecutorInv'
<1>1. /\ DriverType /\ LedgerInv /\ ReasonInv
      /\ claimed \in 0 .. Iterations /\ Iterations \in Nat /\ Steps \in Nat \ {0} /\ aborted \in Nat
      /\ ledger \in [started : Nat, dropped : Nat, iters : Nat, sends : Nat]
      /\ pc \in [Slot -> TaskPc] /\ step \in [Slot -> 0 .. Steps]
  BY TaskFacts
<1>2. DriverType'
  BY <1>1 DEF DriverType
<1>3. GroupsMoved(s, l)
  BY <1>1, GroupsMove
<1>4. /\ pc[s] \in Between <=> pc[s] # "send"
      /\ l \in Between <=> l \in {"check", "begin", "end"}
      /\ pc[s] # "claim"
  BY DEF Between
<1>5. /\ ledger'.started = ledger.started /\ ledger'.dropped = ledger.dropped
      /\ ledger'.iters = ledger.iters - (IF l \in {"check", "begin", "send", "end"} THEN 0 ELSE 1)
      /\ ledger'.sends = ledger.sends + (IF l = "send" THEN 1 ELSE 0) - (IF pc[s] = "send" THEN 1 ELSE 0)
  OBVIOUS
<1>6. /\ Count({"claim"})' = Count({"claim"}) /\ Count({"claim"}) \in Nat
      /\ Count({"send"}) \in Nat /\ Count({"send"})' \in Nat
      /\ Count({"send"})' = Count({"send"}) + (IF l = "send" THEN 1 ELSE 0) - (IF pc[s] = "send" THEN 1 ELSE 0)
      /\ Count(Between) \in Nat /\ Count(Between)' \in Nat
      /\ Count(Between)' = Count(Between) + (IF l \in Between THEN 1 ELSE 0) - (IF pc[s] = "send" THEN 0 ELSE 1)
  BY <1>3, <1>4 DEF GroupsMoved
<1>7. /\ ledger.sends \in Nat /\ ledger.iters \in Nat
      /\ Count({"send"}) <= ledger.sends
      /\ main \notin Joining => ledger.sends = Count({"send"})
      /\ ledger.iters = ledger.sends + Count(Between)
      /\ main \in Joining => ledger.iters + Count({"claim"}) <= aborted
  BY <1>1 DEF LedgerInv
<1>8. /\ ledger'.sends \in Nat /\ ledger'.iters \in Nat
      /\ Count({"send"})' <= ledger'.sends
      /\ main \notin Joining => ledger'.sends = Count({"send"})'
      /\ ledger'.iters = ledger'.sends + Count(Between)'
  <2>1. CASE pc[s] = "send"
    BY <1>4, <1>5, <1>6, <1>7, <2>1
  <2>2. CASE pc[s] # "send" /\ l \in {"check", "begin", "end"}
    BY <1>4, <1>5, <1>6, <1>7, <2>2
  <2>3. CASE pc[s] # "send" /\ l = "send"
    BY <1>4, <1>5, <1>6, <1>7, <2>3
  <2>4. CASE pc[s] # "send" /\ l \notin {"check", "begin", "send", "end"}
    BY <1>4, <1>5, <1>6, <1>7, <2>4
  <2> QED
    BY <2>1, <2>2, <2>3, <2>4
<1>9. main \in Joining => ledger'.iters + Count({"claim"})' <= aborted
  BY <1>1, <1>5, <1>6, <1>7
<1>10. LedgerInv'
  BY <1>1, <1>5, <1>8, <1>9 DEF LedgerInv
<1>11. TaskType'
  <2>1. ledger' \in [started : Nat, dropped : Nat, iters : Nat, sends : Nat]
    BY <1>1, <1>8
  <2>2. pc' \in [Slot -> TaskPc]
    BY <1>1
  <2> QED
    BY <1>1, <2>1, <2>2 DEF TaskType, None
<1>12. ReasonInv'
  <2>1. workload = "iterations" => l \notin {"pause", "off", "ended"}
    OBVIOUS
  <2> QED
    BY <1>1, <2>1, ReasonMoves
<1> QED
  BY <1>2, <1>10, <1>11, <1>12 DEF ExecutorInv, ExecutorTypeOK

\* A record with the fields of a ledger is the ledger.
LEMMA LedgerFields ==
    ASSUME ledger \in [started : Nat, dropped : Nat, iters : Nat, sends : Nat]
    PROVE  ledger = [started |-> ledger.started, dropped |-> ledger.dropped,
                     iters |-> ledger.iters, sends |-> ledger.sends]
OBVIOUS

\* A halted chain ends as canceled, without another send.
LEMMA StepCheckKeeps ==
    ASSUME ExecutorInv, NEW s \in Slot, StepCheck(s)
    PROVE  ExecutorInv'
<1>1. /\ UNCHANGED <<workload, cancel, lock, over, stopToken, halt, hard, reason, failed, link, ticker>>
      /\ UNCHANGED <<main, wait, halted, aborted, report, claimed, ledger, step>>
      /\ pc[s] = "check"
  BY DEF StepCheck, signals, tokens, run
<1>2. /\ ledger \in [started : Nat, dropped : Nat, iters : Nat, sends : Nat]
      /\ step \in [Slot -> 0 .. Steps] /\ failed \in BOOLEAN
  BY TaskFacts DEF DriverType
<1>3. PICK l \in {"end", "begin"} : pc' = [pc EXCEPT ![s] = l]
  BY DEF StepCheck, TaskGoes
<1>5. ledger' = [started |-> ledger.started, dropped |-> ledger.dropped,
                 iters |-> ledger.iters - (IF l \in {"check", "begin", "send", "end"} THEN 0 ELSE 1),
                 sends |-> ledger.sends + (IF l = "send" THEN 1 ELSE 0) - (IF pc[s] = "send" THEN 1 ELSE 0)]
  <2>1. ledger.iters - 0 = ledger.iters /\ ledger.sends + 0 - 0 = ledger.sends
    BY <1>2
  <2> QED
    BY <1>1, <1>2, <1>3, <2>1, LedgerFields
<1>6. l \in TaskPc
  BY <1>2 DEF TaskPc
<1> QED
  BY <1>1, <1>2, <1>3, <1>5, <1>6, StepKeeps

\* A send begins.
LEMMA BeginSendKeeps ==
    ASSUME ExecutorInv, NEW s \in Slot, BeginSend(s)
    PROVE  ExecutorInv'
<1>1. /\ UNCHANGED <<workload, cancel, lock, over, stopToken, halt, hard, reason, failed, link, ticker>>
      /\ UNCHANGED <<main, wait, halted, aborted, report, claimed, step>>
      /\ pc[s] = "begin" /\ pc' = [pc EXCEPT ![s] = "send"]
      /\ ledger' = [ledger EXCEPT !.sends = @ + 1]
  BY DEF BeginSend, TaskGoes, signals, tokens, run
<1>2. /\ ledger \in [started : Nat, dropped : Nat, iters : Nat, sends : Nat]
      /\ step \in [Slot -> 0 .. Steps] /\ failed \in BOOLEAN
  BY TaskFacts DEF DriverType
<1>3. ledger' = [started |-> ledger.started, dropped |-> ledger.dropped,
                 iters |-> ledger.iters - (IF "send" \in {"check", "begin", "send", "end"} THEN 0 ELSE 1),
                 sends |-> ledger.sends + (IF "send" = "send" THEN 1 ELSE 0) - (IF pc[s] = "send" THEN 1 ELSE 0)]
  <2>1. ledger.iters - 0 = ledger.iters /\ ledger.sends + 1 - 0 = ledger.sends + 1
    BY <1>2
  <2> QED
    BY <1>1, <1>2, <2>1
<1>4. "send" \in TaskPc
  BY <1>2 DEF TaskPc
<1> QED
  BY <1>1, <1>2, <1>3, <1>4, StepKeeps

\* A send returns; the iteration goes on or is about to end.
LEMMA SendReturnsKeeps ==
    ASSUME ExecutorInv, NEW s \in Slot,
           NEW t \in {"completed", "failed", "canceled"}, SendReturns(s, t)
    PROVE  ExecutorInv'
<1>1. /\ UNCHANGED <<workload, cancel, lock, over, stopToken, halt, hard, reason, link, ticker>>
      /\ UNCHANGED <<main, wait, halted, aborted, report, claimed>>
      /\ pc[s] = "send" /\ ledger' = [ledger EXCEPT !.sends = @ - 1]
  BY DEF SendReturns, signals, tokens, run
<1>2. /\ ledger \in [started : Nat, dropped : Nat, iters : Nat, sends : Nat]
      /\ step \in [Slot -> 0 .. Steps] /\ failed \in BOOLEAN /\ Steps \in Nat
  BY TaskFacts DEF DriverType
<1>3. failed' \in BOOLEAN
  BY DEF SendReturns
<1>4. PICK l \in {"check", "end"} :
          /\ pc' = [pc EXCEPT ![s] = l]
          /\ step' \in [Slot -> 0 .. Steps]
  <2>1. CASE t = "completed" /\ step[s] < Steps
    <3>1. step' = [step EXCEPT ![s] = @ + 1] /\ pc' = [pc EXCEPT ![s] = "check"]
      BY <2>1 DEF SendReturns, TaskGoes
    <3>2. step[s] + 1 \in 0 .. Steps
      BY <1>2, <2>1
    <3> QED
      BY <1>2, <3>1, <3>2
  <2>2. CASE ~(t = "completed" /\ step[s] < Steps)
    <3>1. UNCHANGED step /\ pc' = [pc EXCEPT ![s] = "end"]
      BY <2>2 DEF SendReturns, TaskGoes
    <3> QED
      BY <1>2, <3>1
  <2> QED
    BY <2>1, <2>2
<1>5. ledger' = [started |-> ledger.started, dropped |-> ledger.dropped,
                 iters |-> ledger.iters - (IF l \in {"check", "begin", "send", "end"} THEN 0 ELSE 1),
                 sends |-> ledger.sends + (IF l = "send" THEN 1 ELSE 0) - (IF pc[s] = "send" THEN 1 ELSE 0)]
  <2>1. ledger.iters - 0 = ledger.iters /\ ledger.sends + 0 - 1 = ledger.sends - 1
    BY <1>2
  <2> QED
    BY <1>1, <1>2, <1>4, <2>1
<1>6. l \in TaskPc
  BY <1>2 DEF TaskPc
<1> QED
  BY <1>1, <1>3, <1>4, <1>5, <1>6, StepKeeps

\* An iteration ends, and leaves the count of those in flight.
LEMMA EndIterationKeeps ==
    ASSUME ExecutorInv, NEW s \in Slot, EndIteration(s)
    PROVE  ExecutorInv'
<1>1. /\ UNCHANGED <<workload, cancel, lock, over, stopToken, halt, hard, reason, failed, link, ticker>>
      /\ UNCHANGED <<main, wait, halted, aborted, report, claimed>>
      /\ pc[s] = "end"
      /\ step' = [step EXCEPT ![s] = 0]
      /\ ledger' = [ledger EXCEPT !.iters = @ - 1]
  BY DEF EndIteration, signals, tokens, run, None
<1>2. /\ ledger \in [started : Nat, dropped : Nat, iters : Nat, sends : Nat]
      /\ step \in [Slot -> 0 .. Steps] /\ failed \in BOOLEAN /\ Steps \in Nat
  BY TaskFacts DEF DriverType
<1>3. /\ step' \in [Slot -> 0 .. Steps] /\ failed' \in BOOLEAN
  BY <1>1, <1>2
<1>4. PICK l \in {"ended", "pause", "loop"} :
          pc' = [pc EXCEPT ![s] = l] /\ (l = "loop" \/ workload # "iterations")
  BY DEF EndIteration, TaskGoes
<1>6. ledger' = [started |-> ledger.started, dropped |-> ledger.dropped,
                 iters |-> ledger.iters - (IF l \in {"check", "begin", "send", "end"} THEN 0 ELSE 1),
                 sends |-> ledger.sends + (IF l = "send" THEN 1 ELSE 0) - (IF pc[s] = "send" THEN 1 ELSE 0)]
  <2>1. ledger.sends + 0 - 0 = ledger.sends
    BY <1>2
  <2> QED
    BY <1>1, <1>2, <1>4, <2>1
<1>7. l \in TaskPc
  BY DEF TaskPc
<1> QED
  BY <1>1, <1>3, <1>4, <1>6, <1>7, StepKeeps

\* A task that is aborted stays counted.
LEMMA TaskDroppedKeeps ==
    ASSUME ExecutorInv, NEW s \in Slot, TaskDropped(s)
    PROVE  ExecutorInv'
<1>1. /\ UNCHANGED <<workload, cancel, lock, over, stopToken, halt, hard, reason, failed, link, ticker>>
      /\ UNCHANGED <<main, wait, halted, aborted, report, claimed, ledger>>
      /\ main = "aborting" /\ pc[s] \in {"send", "pause"}
      /\ pc' = [pc EXCEPT ![s] = "ended"] /\ step' = [step EXCEPT ![s] = 0]
  BY DEF TaskDropped, TaskGoes, signals, tokens, run
<1>2. /\ DriverType /\ LedgerInv /\ ReasonInv
      /\ claimed \in 0 .. Iterations /\ Iterations \in Nat /\ Steps \in Nat \ {0} /\ aborted \in Nat
      /\ ledger \in [started : Nat, dropped : Nat, iters : Nat, sends : Nat]
      /\ pc \in [Slot -> TaskPc] /\ step \in [Slot -> 0 .. Steps]
  BY TaskFacts
<1>3. DriverType'
  BY <1>1, <1>2, RunStays
<1>4. TaskType'
  <2>1. pc' \in [Slot -> TaskPc]
    BY <1>1, <1>2 DEF TaskPc
  <2>2. step' \in [Slot -> 0 .. Steps]
    BY <1>1, <1>2
  <2> QED
    BY <1>1, <1>2, <2>1, <2>2 DEF TaskType, None
<1>5. LedgerInv'
  <2>1. GroupsMoved(s, "ended")
    BY <1>1, <1>2, GroupsMove
  <2>2. pc[s] \notin Between /\ pc[s] # "claim" /\ "ended" \notin Between
    BY <1>1 DEF Between
  <2>3. /\ Count({"send"}) \in Nat /\ Count({"send"})' \in Nat /\ Count({"send"})' <= Count({"send"})
        /\ Count(Between)' = Count(Between) /\ Count({"claim"})' = Count({"claim"})
    BY <2>1, <2>2 DEF GroupsMoved
  <2>4. ledger.sends \in Nat /\ main \in Joining
    BY <1>1, <1>2 DEF Joining
  <2> QED
    BY <1>1, <1>2, <2>3, <2>4 DEF LedgerInv
<1>6. ReasonInv'
  BY <1>1, <1>2, ReasonMoves
<1> QED
  BY <1>3, <1>4, <1>5, <1>6 DEF ExecutorInv, ExecutorTypeOK

-----------------------------------------------------------------------------
(* The run itself. *)

\* Two groups of tasks that have none in common.
LEMMA CountJoins ==
    ASSUME NEW A, NEW B, A \cap B = {}
    PROVE  Count(A \cup B) = Count(A) + Count(B)
<1>1. Tasks(A \cup B) = Tasks(A) \cup Tasks(B) /\ Tasks(A) \cap Tasks(B) = {}
  BY DEF Tasks
<1>2. IsFiniteSet(Tasks(A)) /\ IsFiniteSet(Tasks(B)) /\ Count(A) \in Nat /\ Count(B) \in Nat
  BY CountIsNat
<1>3. Cardinality(Tasks(A) \cup Tasks(B))
          = Cardinality(Tasks(A)) + Cardinality(Tasks(B)) - Cardinality(Tasks(A) \cap Tasks(B))
  BY <1>2, FS_Union
<1>4. Cardinality(Tasks(A) \cap Tasks(B)) = 0
  BY <1>1, FS_EmptySet
<1>5. Count(A \cup B) = Cardinality(Tasks(A) \cup Tasks(B))
  BY <1>1 DEF Count
<1>6. Count(A \cup B) = Count(A) + Count(B) - 0
  BY <1>3, <1>4, <1>5 DEF Count
<1> QED
  BY <1>2, <1>6

\* The steps that only move the run on, before it joins its tasks or after.
LEMMA MainKeeps ==
    ASSUME ExecutorInv, DriverType', ReasonInv',
           UNCHANGED <<workload, claimed, ledger, pc, step, aborted>>,
           main' \in Joining <=> main \in Joining
    PROVE  ExecutorInv'
BY LedgerStays, TasksStay DEF ExecutorInv, ExecutorTypeOK

\* The driver calls the schedule done only when it is, or a signal came.
LEMMA DriverEndsKeeps ==
    ASSUME ExecutorInv, DriverEnds
    PROVE  ExecutorInv'
<1>1. /\ UNCHANGED <<workload, cancel, lock, over, stopToken, halt, hard, claimed, ledger, failed, link, ticker>>
      /\ UNCHANGED <<pc, step, wait, halted, aborted, report>>
      /\ main = "drive" /\ main' = "stop"
  BY DEF DriverEnds, signals, tokens, tasks
<1>2. DriverType /\ ReasonInv
  BY TaskFacts
<1>3. /\ reason' \in {reason, "end"} /\ (reason # "none" => reason' = reason)
      /\ reason' # reason => ScheduleDone \/ External
  <2>1. CASE /\ IF workload = "iterations" THEN \A s \in Slot : Over(s) ELSE over
             /\ SetReason("end")
    <3>1. reason' = IF reason = "none" THEN "end" ELSE reason
      BY <2>1 DEF SetReason, None
    <3>2. CASE workload = "iterations" /\ reason = "none" /\ ~External
      <4>1. PICK s \in Slot : TRUE
        BY SlotsFinite
      <4>2. pc[s] \in {"off", "ended"}
        BY <2>1, <3>2 DEF Over
      <4>3. claimed = Iterations
        BY <1>1, <1>2, <3>2, <4>2 DEF ReasonInv
      <4> QED
        BY <3>1, <3>2, <4>3 DEF ScheduleDone
    <3>3. CASE workload # "iterations"
      BY <2>1, <3>1, <3>3 DEF ScheduleDone
    <3> QED
      BY <3>1, <3>2, <3>3
  <2>2. CASE UNCHANGED reason
    BY <2>2
  <2> QED
    BY <2>1, <2>2 DEF DriverEnds
<1>4. DriverType'
  BY <1>1, <1>2, <1>3 DEF DriverType, Reason, MainPc
<1>5. (ScheduleDone' <=> ScheduleDone) /\ (External' <=> External)
  BY <1>1 DEF ScheduleDone, External
<1>6. ReasonInv'
  BY <1>1, <1>2, <1>3, <1>5 DEF ReasonInv
<1> QED
  BY <1>1, <1>4, <1>6, MainKeeps DEF Joining

\* The steps up to the hard cancel: stopToken is stopped, nothing is joined.
LEMMA DrainKeeps ==
    ASSUME ExecutorInv,
           \/ DriverStops \/ ChooseWait \/ DrainBegins \/ DrainHalted
           \/ \E w \in {"cancel", "graceful"} : DrainExpires(w)
    PROVE  ExecutorInv'
<1>1. /\ UNCHANGED <<workload, cancel, lock, over, reason, claimed, ledger, failed, link, ticker>>
      /\ UNCHANGED <<pc, step, aborted, report>>
  BY DEF DriverStops, ChooseWait, DrainBegins, DrainHalted,
         DrainExpires, signals, tokens, tasks
<1>2. /\ main \in {"stop", "choose", "begin", "drain"}
      /\ main' \in {"choose", "begin", "drain", "hard"}
      /\ stopToken' = stopToken \/ stopToken' = TRUE
      /\ main = "stop" => stopToken' = TRUE
  BY DEF DriverStops, ChooseWait, DrainBegins, DrainHalted,
         DrainExpires, tokens
<1>3. /\ halt' \in {halt, TRUE} /\ hard' \in {hard, TRUE} /\ halted' \in {halted, TRUE, FALSE}
      /\ wait' \in {wait, "graceful", "cancel"}
  BY DEF DriverStops, ChooseWait, DrainBegins, DrainHalted,
         DrainExpires, tokens
<1>4. DriverType /\ ReasonInv
  BY TaskFacts
<1>5. DriverType'
  <2>1. stopToken' \in BOOLEAN /\ halt' \in BOOLEAN /\ hard' \in BOOLEAN /\ halted' \in BOOLEAN
    BY <1>2, <1>3, <1>4 DEF DriverType
  <2>2. main' \in MainPc /\ wait' \in {"none", "graceful", "cancel"}
    BY <1>2, <1>3, <1>4 DEF DriverType, MainPc, None
  <2> QED
    BY <1>1, <1>4, <2>1, <2>2 DEF DriverType, None
<1>6. (ScheduleDone' <=> ScheduleDone) /\ (External' <=> External)
  BY <1>1 DEF ScheduleDone, External
<1>7. stopToken'
  BY <1>2, <1>4 DEF ReasonInv
<1>8. ReasonInv'
  BY <1>1, <1>2, <1>4, <1>6, <1>7 DEF ReasonInv
<1> QED
  BY <1>1, <1>2, <1>5, <1>8, MainKeeps DEF Joining

\* When every task was joined nothing is in flight but what was aborted.
LEMMA AllJoinedKeeps ==
    ASSUME ExecutorInv, AllJoined
    PROVE  ExecutorInv'
<1>1. /\ UNCHANGED <<workload, cancel, lock, over, stopToken, halt, hard, reason, claimed, ledger, failed, link, ticker>>
      /\ UNCHANGED <<step, wait, halted, aborted, report>>
      /\ main \in {"drain", "hard", "aborting"} /\ main' = "unlink"
      /\ pc' = [s \in Slot |-> "off"] /\ \A s \in Slot : pc[s] \in {"off", "ended"}
  BY DEF AllJoined, Over, signals, tokens
<1>2. /\ DriverType /\ LedgerInv /\ ReasonInv
      /\ claimed \in 0 .. Iterations /\ aborted \in Nat
      /\ ledger \in [started : Nat, dropped : Nat, iters : Nat, sends : Nat]
      /\ step \in [Slot -> 0 .. Steps]
  BY TaskFacts
<1>3. DriverType'
  BY <1>1, <1>2 DEF DriverType, MainPc
<1>4. TaskType'
  <2>1. pc' \in [Slot -> TaskPc]
    BY <1>1 DEF TaskPc
  <2> QED
    BY <1>1, <1>2, <2>1 DEF TaskType, None
<1>5. LedgerInv'
  <2>1. Count({"send"}) = 0 /\ Count(Between) = 0 /\ Count({"claim"}) = 0
    BY <1>1, CountEmpty DEF Between
  <2>2. Tasks({"send"})' = {} /\ Tasks(Between)' = {} /\ Tasks({"claim"})' = {}
    BY <1>1 DEF Tasks, Between
  <2>3. Count({"send"})' = 0 /\ Count(Between)' = 0 /\ Count({"claim"})' = 0
    BY <2>2, FS_EmptySet DEF Count
  <2>4. /\ ledger.sends \in Nat /\ ledger.iters = ledger.sends
        /\ main \notin Joining => ledger.sends = 0
        /\ main \in Joining => ledger.iters <= aborted
    BY <1>2, <2>1 DEF LedgerInv
  <2>5. main' \in Joining /\ ledger.iters + 0 <= aborted
    BY <1>1, <1>2, <2>4 DEF Joining
  <2> QED
    BY <1>1, <1>2, <2>3, <2>4, <2>5 DEF LedgerInv
<1>6. ReasonInv'
  BY <1>1, <1>2 DEF ReasonInv, External, ScheduleDone
<1> QED
  BY <1>3, <1>4, <1>5, <1>6 DEF ExecutorInv, ExecutorTypeOK

\* The tasks that are abandoned are at least those in an iteration or about to
\* claim one.
LEMMA GraceExpiresKeeps ==
    ASSUME ExecutorInv, GraceExpires
    PROVE  ExecutorInv'
<1>1. /\ UNCHANGED <<workload, cancel, lock, over, stopToken, halt, hard, reason, claimed, ledger, failed, link, ticker>>
      /\ UNCHANGED <<pc, step, wait, halted, report>>
      /\ main = "hard" /\ main' = "aborting"
  BY DEF GraceExpires, signals, tokens, tasks
<1>2. /\ DriverType /\ LedgerInv /\ ReasonInv /\ TaskType
      /\ ledger \in [started : Nat, dropped : Nat, iters : Nat, sends : Nat]
  BY TaskFacts DEF ExecutorInv, ExecutorTypeOK
<1> DEFINE Busy == {s \in Slot : ~Over(s)}
<1>3. PICK unjoined \in SUBSET {s \in Slot : pc[s] = "ended"} :
          aborted' = Cardinality(unjoined) + Cardinality(Busy)
  BY DEF GraceExpires
<1>4. IsFiniteSet(Busy) /\ Cardinality(Busy) \in Nat /\ Cardinality(unjoined) \in Nat
  <2>1. Busy \in SUBSET Slot /\ unjoined \in SUBSET Slot
    OBVIOUS
  <2>2. IsFiniteSet(Busy) /\ IsFiniteSet(unjoined)
    BY <2>1, SlotsFinite, FS_Subset
  <2> QED
    BY <2>2, FS_CardinalityType
<1> DEFINE In == ({"send"} \cup Between) \cup {"claim"}
<1>5. Count(In) = Count({"send"}) + Count(Between) + Count({"claim"})
  <2>1. {"send"} \cap Between = {} /\ ({"send"} \cup Between) \cap {"claim"} = {}
    BY DEF Between
  <2>2. Count({"send"} \cup Between) = Count({"send"}) + Count(Between)
    BY <2>1, CountJoins
  <2>3. Count(In) = Count({"send"} \cup Between) + Count({"claim"})
    BY <2>1, CountJoins
  <2> QED
    BY <2>2, <2>3
<1>6. Count(In) <= Cardinality(Busy)
  <2>1. Tasks(In) \in SUBSET Busy
    BY DEF Tasks, Between, Over
  <2> QED
    BY <1>4, <2>1, FS_Subset DEF Count
<1> HIDE DEF Busy, In
<1>7. Count({"send"}) \in Nat /\ Count(Between) \in Nat /\ Count({"claim"}) \in Nat /\ Count(In) \in Nat
  BY CountIsNat
<1>8. aborted' \in Nat /\ ledger.iters + Count({"claim"}) <= aborted'
  <2>1. ledger.iters = Count({"send"}) + Count(Between)
    BY <1>1, <1>2 DEF LedgerInv, Joining
  <2> QED
    BY <1>3, <1>4, <1>5, <1>6, <1>7, <2>1
<1>9. DriverType'
  BY <1>1, <1>2, <1>8 DEF DriverType, MainPc
<1>10. LedgerInv'
  <2>1. Count({"send"})' = Count({"send"}) /\ Count(Between)' = Count(Between) /\ Count({"claim"})' = Count({"claim"})
    BY <1>1, CountStays
  <2>2. ledger.sends = Count({"send"})
    BY <1>1, <1>2 DEF LedgerInv, Joining
  <2> QED
    BY <1>1, <1>2, <1>7, <1>8, <2>1, <2>2 DEF LedgerInv, Joining
<1>11. ReasonInv'
  BY <1>1, <1>2 DEF ReasonInv, External, ScheduleDone
<1>12. TaskType'
  BY <1>1, <1>2, TasksStay
<1> QED
  BY <1>9, <1>10, <1>11, <1>12 DEF ExecutorInv, ExecutorTypeOK

\* A signal the observer missed still replaces the end of the schedule.
LEMMA ReportKeeps ==
    ASSUME ExecutorInv,
           StopLink \/ Reconcile \/ Assemble
    PROVE  ExecutorInv'
<1>1. /\ UNCHANGED <<workload, cancel, lock, over, stopToken, halt, hard, claimed, ledger, failed, ticker>>
      /\ UNCHANGED <<pc, step, wait, halted, aborted>>
      /\ main \in {"unlink", "reconcile", "ticker"} /\ main' \in {"reconcile", "ticker", "reported"}
  BY DEF StopLink, Reconcile, Assemble, signals, tokens,
     tasks
<1>2. DriverType /\ ReasonInv
  BY TaskFacts
<1>3. main' \in Joining <=> main \in Joining
  BY <1>1 DEF Joining
<1>4. (ScheduleDone' <=> ScheduleDone) /\ (External' <=> External)
  BY <1>1 DEF ScheduleDone, External
<1>5. CASE StopLink \/ Assemble
  <2>1. UNCHANGED <<reason, report>> /\ (link' = "gone" \/ UNCHANGED link) /\ (main = "ticker" => main' = "reported")
    BY <1>5 DEF StopLink, Assemble
  <2>2. DriverType'
    BY <1>1, <1>2, <2>1 DEF DriverType, MainPc
  <2>3. ReasonInv'
    BY <1>1, <1>2, <1>4, <2>1 DEF ReasonInv
  <2> QED
    BY <1>1, <1>3, <2>2, <2>3, MainKeeps
<1>6. CASE Reconcile
  <2>1. UNCHANGED link /\ main' = "ticker" /\ report' = reason'
    BY <1>6 DEF Reconcile
  <2>2. /\ reason' \in {reason, "lock", "user"} /\ (reason # "none" => reason' # "none")
        /\ reason' = "end" => reason = "end" /\ ~External
    BY <1>6 DEF Reconcile, RecordExternal, ExternalStop, External, None
  <2>3. DriverType'
    BY <1>1, <1>2, <2>1, <2>2 DEF DriverType, MainPc, Reason
  <2>4. ReasonInv'
    BY <1>1, <1>2, <1>4, <2>1, <2>2 DEF ReasonInv
  <2> QED
    BY <1>1, <1>3, <2>3, <2>4, MainKeeps
<1> QED
  BY <1>5, <1>6

\* Every step of the run keeps the invariant.
LEMMA ExecutorSteps ==
    ASSUME ExecutorInv, [ExecutorNext]_executorVars
    PROVE  ExecutorInv'
<1>1. CASE Signal \/ ScheduleEnds \/ Arrival
  BY <1>1, SignalKeeps, ScheduleKeeps, ArrivalKeeps
<1>2. CASE RuleTriggers \/ RuleStep \/ LinkStep
  BY <1>2, RuleKeeps, LinkKeeps
<1>3. ASSUME NEW s \in Slot, TaskStep(s)
      PROVE  ExecutorInv'
  BY <1>3, LoopKeeps, ClaimKeeps, StepCheckKeeps, BeginSendKeeps, EndIterationKeeps, TaskDroppedKeeps
     DEF TaskStep
<1>4. ASSUME NEW s \in Slot, NEW t \in {"completed", "failed", "canceled"}, SendReturns(s, t)
      PROVE  ExecutorInv'
  BY <1>4, SendReturnsKeeps
<1>5. CASE MainStep \/ DrainExpires("graceful")
  BY <1>5, DriverEndsKeeps, DrainKeeps, AllJoinedKeeps, GraceExpiresKeeps, ReportKeeps DEF MainStep
<1>6. CASE UNCHANGED executorVars
  <2>1. /\ UNCHANGED <<workload, cancel, lock, over, stopToken, halt, hard, reason, failed, link, ticker>>
        /\ UNCHANGED <<main, wait, halted, aborted, report, claimed, ledger, pc, step>>
    BY <1>6 DEF executorVars, signals, tokens, tasks, run
  <2>2. DriverType /\ ReasonInv
    BY TaskFacts
  <2>3. DriverType'
    BY <2>1, <2>2, RunStays
  <2>4. ReasonInv'
    BY <2>1, <2>2 DEF ReasonInv, External, ScheduleDone
  <2> QED
    BY <2>1, <2>3, <2>4, MainKeeps
<1> QED
  BY <1>1, <1>2, <1>3, <1>4, <1>5, <1>6 DEF ExecutorNext

\* The types of one run of the executor are kept; the counts of iterations and
\* sends in flight never fall below zero, whoever abandons which task.
THEOREM ExecutorTyped == ExecutorSpec => []ExecutorTypeOK
<1>1. ExecutorInit => ExecutorInv
  BY ExecutorStarts
<1>2. ExecutorInv /\ [ExecutorNext]_executorVars => ExecutorInv'
  BY ExecutorSteps
<1>3. ExecutorInv => ExecutorTypeOK
  BY DEF ExecutorInv
<1> QED
  BY <1>1, <1>2, <1>3, PTL DEF ExecutorSpec

\* For any number of slots, steps and iterations: a report that says the run
\* completed tells the truth, in whatever order observer, ticker and driver
\* set the reason, and what it counts as in flight belongs to tasks it says
\* were abandoned.
THEOREM ReportsAreTruthful == ExecutorSpec => []ReportTruthful
<1>1. ExecutorInit => ExecutorInv
  BY ExecutorStarts
<1>2. ExecutorInv /\ [ExecutorNext]_executorVars => ExecutorInv'
  BY ExecutorSteps
<1>3. ASSUME ExecutorInv
      PROVE  ReportTruthful
  <2>1. /\ LedgerInv /\ ReasonInv
        /\ ledger \in [started : Nat, dropped : Nat, iters : Nat, sends : Nat]
        /\ aborted \in Nat /\ claimed \in 0 .. Iterations /\ Iterations \in Nat
    BY <1>3, TaskFacts
  <2>2. Count(Between) \in Nat /\ Count({"claim"}) \in Nat
    BY CountIsNat
  <2>3. ASSUME main = "reported"
        PROVE  ledger.sends <= ledger.iters /\ ledger.iters <= aborted
    <3>1. ledger.iters = ledger.sends + Count(Between) /\ ledger.iters + Count({"claim"}) <= aborted
      BY <2>1, <2>3 DEF LedgerInv, Joining
    <3> QED
      BY <2>1, <2>2, <3>1
  <2>4. ASSUME main = "reported", report = "end"
        PROVE  /\ ~cancel /\ ~lock
               /\ IF workload = "iterations" THEN ledger.started = Iterations ELSE over
    <3>1. ~cancel /\ ~lock /\ ScheduleDone
      BY <2>1, <2>4 DEF ReasonInv, External
    <3>2. workload = "iterations" => ledger.started = claimed
      BY <2>1 DEF LedgerInv
    <3> QED
      BY <3>1, <3>2 DEF ScheduleDone
  <2> QED
    BY <2>3, <2>4 DEF ReportTruthful
<1> QED
  BY <1>1, <1>2, <1>3, PTL DEF ExecutorSpec
==============================================================================
