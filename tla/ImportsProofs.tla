---------------------------- MODULE ImportsProofs ----------------------------
(***************************************************************************)
(* What Imports promises for every set of attempts and ids and any number  *)
(* of locks: type correctness, that a canceled import writes nothing, that *)
(* import workers never pile up, and that an attempt stays cancelable.     *)
(***************************************************************************)
EXTENDS Imports, TLAPS

----------------------------------------------------------------------------
(* The inductive invariant.                                                *)

\* A publication under way has published an instance.
MoverInv == mover = "publish" => cur # 0

\* A command holds the permit until its worker takes it over, and reports
\* nothing before it returns.
CommandInv(a) ==
    /\ pc[a] \in {"idle", "claimed", "registered", "reading"} => worker[a] = "none"
    /\ pc[a] \in {"claimed", "registered", "reading"} => permit = a
    /\ pc[a] # "done" => outcome[a] = "none"

\* A running worker holds the permit; the gate is claimed by an apply only,
\* before its writes begin, and is never given back.
WorkerInv(a) ==
    /\ Working(a) => permit = a
    /\ worker[a] = "asking" \/ importGate[a] = "WRITING" => apply[a]
    /\ worker[a] \in {"none", "deriving", "asking"} => importGate[a] # "WRITING"
    /\ worker[a] \in {"writing", "attaching"} \/ a \in wrote => importGate[a] = "WRITING"
    /\ worker[a] = "ended" /\ result[a] = "canceled" => importGate[a] # "WRITING"

\* A command that has reported a cancel or a lock left the gate so that its
\* worker, should it still run, cannot claim it; or its worker had begun to
\* write and ended on a locked store.
OutcomeInv(a) ==
    outcome[a] \in {"canceled", "locked"} =>
        /\ \/ importGate[a] # "WRITING"
           \/ outcome[a] = "locked" /\ worker[a] = "ended" /\ result[a] = "locked"
        /\ worker[a] \in {"deriving", "asking"} => ~apply[a] \/ importGate[a] = "ABANDONED"

\* An attempt that a boundary move met early read an older epoch, so that its
\* worker never asks to write.
OvertakenInv(a) ==
    /\ seen[a] <= epoch
    /\ a \in overtaken =>
        /\ pc[a] \notin {"idle", "claimed", "registered"}
        /\ seen[a] < epoch
        /\ worker[a] \notin {"asking", "writing", "attaching"}
        /\ a \notin wrote

ImportInv ==
    /\ TypeOK
    /\ MoverInv
    /\ \A a \in Attempt : CommandInv(a) /\ WorkerInv(a) /\ OutcomeInv(a)

Overtaken == \A a \in Attempt : OvertakenInv(a)

----------------------------------------------------------------------------
(* Type correctness.                                                       *)

\* The state in which the application starts is well typed.
LEMMA ImportTypeInit == Init => TypeOK
<1> SUFFICES ASSUME Init PROVE TypeOK
  OBVIOUS
<1>1. epoch \in Nat /\ gate \in BOOLEAN /\ cur \in Nat /\ unlocked \subseteq 1 .. cur /\ permit \in Attempt \cup {NoAttempt}
  BY DEF Init
<1>2. imports \in [Id -> Attempt \cup {NoAttempt}] /\ id \in [Attempt -> Id \cup {NoId}] /\ apply \in [Attempt -> BOOLEAN]
  BY DEF Init
<1>3. pc \in [Attempt -> Pc] /\ seen \in [Attempt -> Nat] /\ inst \in [Attempt -> 0 .. cur] /\ outcome \in [Attempt -> Outcome]
  BY DEF Init, Pc, Outcome
<1> QED
  BY <1>1, <1>2, <1>3 DEF Init, TypeOK, Working

\* A command's return keeps the command and the registry well typed.
LEMMA ReturnsType ==
    ASSUME TypeOK, NEW a \in Attempt, NEW what \in Outcome, Returns(a, what)
    PROVE  /\ pc' \in [Attempt -> Pc] /\ outcome' \in [Attempt -> Outcome]
           /\ imports' \in [Id -> Attempt \cup {NoAttempt}]
           /\ UNCHANGED <<id, apply, seen, inst>>
BY DEF TypeOK, Returns, DropEntry, Pc

\* What a failed worker's result becomes is an outcome.
LEMMA ErrorType ==
    ASSUME NEW a, NEW what \in {"ok", "canceled", "locked", "failed", "none"}
    PROVE  Error(a, what) \in Outcome
BY DEF Error, Outcome

\* A worker's end keeps the worker and the permit well typed.
LEMMA EndsType ==
    ASSUME TypeOK, NEW a \in Attempt, NEW what \in {"ok", "canceled", "locked", "failed"}, Ends(a, what)
    PROVE  /\ worker' \in [Attempt -> {"none", "deriving", "asking", "writing", "attaching", "ended"}]
           /\ result' \in [Attempt -> {"none", "ok", "canceled", "locked", "failed"}]
           /\ permit' \in Attempt \cup {NoAttempt}
           /\ \A b \in Attempt : Working(b)' => Working(b)
BY DEF TypeOK, Ends, Working

\* Every step of a boundary move, a command and a worker keeps the types.
LEMMA ImportTypeStep == TypeOK /\ MoverInv /\ [Next]_vars => TypeOK'
<1> SUFFICES ASSUME TypeOK, MoverInv, [Next]_vars PROVE TypeOK'
  OBVIOUS
<1>1. ASSUME Fence PROVE TypeOK'
  <2>1. epoch' \in Nat /\ cur' \in Nat /\ unlocked' \subseteq 1 .. cur' /\ inst' \in [Attempt -> 0 .. cur']
    <3>1. epoch' \in Nat /\ cur' \in Nat /\ cur <= cur'
      BY <1>1 DEF TypeOK, Fence
    <3>2. unlocked' \subseteq 1 .. cur'
      <4>1. unlocked' \subseteq unlocked \cup {cur'} /\ (unlocked' = unlocked \/ cur' = cur + 1)
        BY <1>1 DEF Fence
      <4> QED
        BY <3>1, <4>1 DEF TypeOK
    <3>3. 0 .. cur \subseteq 0 .. cur'
      BY <3>1 DEF TypeOK
    <3>4. inst' \in [Attempt -> 0 .. cur']
      BY <1>1, <3>3 DEF TypeOK, Fence, command
    <3> QED
      BY <3>1, <3>2, <3>4
  <2> QED
    BY <1>1, <2>1 DEF TypeOK, Fence, command, Working
<1>2. ASSUME DropKey PROVE TypeOK'
  <2>1. unlocked' \subseteq 1 .. cur
    BY <1>2 DEF TypeOK, DropKey, MoverInv
  <2> QED
    BY <1>2, <2>1 DEF TypeOK, DropKey, command, Working
<1>3. ASSUME StopWork PROVE TypeOK'
  BY <1>3 DEF TypeOK, StopWork, command, Working
<1>4. ASSUME Unlock PROVE TypeOK'
  BY <1>4 DEF TypeOK, Unlock, command, Working
<1>5. ASSUME NEW i \in Id, ImportCancel(i) PROVE TypeOK'
  BY <1>5 DEF TypeOK, ImportCancel, session, command, Working
<1>6. ASSUME NEW a \in Attempt, ClaimImportWorker(a) PROVE TypeOK'
  <2>1. CASE permit = NoAttempt
    BY <1>6, <2>1 DEF TypeOK, ClaimImportWorker, session, Working, Pc
  <2>2. CASE permit # NoAttempt
    BY <1>6, <2>2, ReturnsType DEF TypeOK, ClaimImportWorker, session, Working, Outcome
  <2> QED
    BY <2>1, <2>2
<1>7. ASSUME NEW a \in Attempt, RegisterImport(a) PROVE TypeOK'
  <2>1. CASE Returns(a, "failed") /\ permit' = NoAttempt
    BY <1>7, <2>1, ReturnsType DEF TypeOK, RegisterImport, session, Working, Outcome
  <2>2. CASE ~(Returns(a, "failed") /\ permit' = NoAttempt)
    BY <1>7, <2>2 DEF TypeOK, RegisterImport, session, Working, Pc
  <2> QED
    BY <2>1, <2>2
<1>8. ASSUME NEW a \in Attempt, ReadEpoch(a) PROVE TypeOK'
  BY <1>8 DEF TypeOK, ReadEpoch, session, Working, Pc
<1>9. ASSUME NEW a \in Attempt, ReadApp(a) PROVE TypeOK'
  <2>1. CASE Returns(a, IF AppOpen THEN "failed" ELSE "locked") /\ permit' = NoAttempt /\ UNCHANGED worker
    <3>1. (IF AppOpen THEN "failed" ELSE "locked") \in Outcome
      BY DEF Outcome
    <3> QED
      BY <1>9, <2>1, <3>1, ReturnsType DEF TypeOK, ReadApp, session, Working
  <2>2. CASE AppOpen /\ inst' = [inst EXCEPT ![a] = cur] /\ worker' = [worker EXCEPT ![a] = "deriving"] /\ pc' = [pc EXCEPT ![a] = "working"]
             /\ UNCHANGED <<imports, permit, id, apply, seen, outcome>>
    <3>1. cur \in 1 .. cur /\ cur \in 0 .. cur
      BY <2>2 DEF TypeOK, AppOpen
    <3> QED
      BY <1>9, <2>2, <3>1 DEF TypeOK, ReadApp, session, Working, Pc
  <2> QED
    BY <1>9, <2>1, <2>2 DEF ReadApp
<1>10. ASSUME NEW a \in Attempt, WorkDone(a) PROVE TypeOK'
  <2>1. result[a] \in {"ok", "canceled", "locked", "failed", "none"}
    BY DEF TypeOK
  <2>2. PICK what \in Outcome : Returns(a, what)
    BY <1>10, <2>1, ErrorType DEF WorkDone, Outcome
  <2> QED
    BY <1>10, <2>2, ReturnsType DEF TypeOK, WorkDone, session, Working
<1>11. ASSUME NEW a \in Attempt, Canceled(a) PROVE TypeOK'
  <2>1. importGate' \in [Attempt -> {"OPEN", "WRITING", "ABANDONED"}]
    BY <1>11 DEF TypeOK, Canceled
  <2>2. CASE Returns(a, Error(a, "canceled"))
    BY <1>11, <2>1, <2>2, ReturnsType, ErrorType DEF TypeOK, Canceled, session, Working
  <2>3. CASE ~Returns(a, Error(a, "canceled"))
    BY <1>11, <2>3 DEF TypeOK, Canceled, session, Working, Pc
  <2> QED
    BY <2>2, <2>3
<1>12. ASSUME NEW a \in Attempt, Derived(a) PROVE TypeOK'
  <2>1. CASE \E what \in {"ok", "canceled", "locked", "failed"} : Ends(a, what)
    BY <1>12, <2>1, EndsType DEF TypeOK, Derived, session, command, Working
  <2>2. CASE ~\E what \in {"ok", "canceled", "locked", "failed"} : Ends(a, what)
    BY <1>12, <2>2 DEF TypeOK, Derived, session, command, Working
  <2> QED
    BY <2>1, <2>2
<1>13. ASSUME NEW a \in Attempt, BeginWrites(a) PROVE TypeOK'
  <2>1. CASE Ends(a, "canceled") /\ UNCHANGED importGate
    BY <1>13, <2>1, EndsType DEF TypeOK, BeginWrites, session, command, Working
  <2>2. CASE ~(Ends(a, "canceled") /\ UNCHANGED importGate)
    BY <1>13, <2>2 DEF TypeOK, BeginWrites, session, command, Working
  <2> QED
    BY <2>1, <2>2
<1>14. ASSUME NEW a \in Attempt, Write(a) PROVE TypeOK'
  <2>1. CASE \E what \in {"ok", "canceled", "locked", "failed"} : Ends(a, what)
    BY <1>14, <2>1, EndsType DEF TypeOK, Write, StoreError, session, command, Working
  <2>2. CASE ~\E what \in {"ok", "canceled", "locked", "failed"} : Ends(a, what)
    BY <1>14, <2>2 DEF TypeOK, Write, StoreError, session, command, Working
  <2> QED
    BY <2>1, <2>2
<1>15. ASSUME NEW a \in Attempt, Attach(a) PROVE TypeOK'
  <2>1. PICK what \in {"ok", "canceled", "locked", "failed"} : Ends(a, what)
    BY <1>15 DEF Attach, StoreError, StoreError
  <2> QED
    BY <1>15, <2>1, EndsType DEF TypeOK, Attach, StoreError, session, command, Working
<1>16. CASE UNCHANGED vars
  BY <1>16 DEF TypeOK, vars, session, command, Working
<1> QED
  BY <1>1, <1>2, <1>3, <1>4, <1>5, <1>6, <1>7, <1>8, <1>9, <1>10, <1>11, <1>12, <1>13, <1>14,
     <1>15, <1>16
     DEF Next, MoverSteps, CommandSteps, WorkerSteps

----------------------------------------------------------------------------
(* The invariant of the gate and the permit.                               *)

\* A step of the boundary, or a cancel, changes nothing the gate invariant
\* speaks of but the mover.
LEMMA ImportInvFrame ==
    ASSUME ImportInv, UNCHANGED <<permit, command, worker, importGate, result, wrote>>
    PROVE  \A a \in Attempt : CommandInv(a)' /\ WorkerInv(a)' /\ OutcomeInv(a)'
BY DEF ImportInv, CommandInv, WorkerInv, OutcomeInv, Working, command

\* A step of one attempt's command or worker leaves the invariant of the other
\* attempts alone when it keeps the permit, or gives up its own.
LEMMA ImportInvOthers ==
    ASSUME ImportInv, NEW a \in Attempt, NEW b \in Attempt, b # a,
           permit' = permit \/ permit = a \/ permit = NoAttempt,
           pc'[b] = pc[b], apply'[b] = apply[b], outcome'[b] = outcome[b],
           worker'[b] = worker[b], result'[b] = result[b], importGate'[b] = importGate[b],
           b \in wrote' <=> b \in wrote
    PROVE  CommandInv(b)' /\ WorkerInv(b)' /\ OutcomeInv(b)'
<1>1. CommandInv(b) /\ WorkerInv(b) /\ OutcomeInv(b)
  BY DEF ImportInv
<1>2. permit = b => permit' = b
  BY ImportAssumption
<1>3. CommandInv(b)'
  BY <1>1, <1>2 DEF CommandInv
<1>4. WorkerInv(b)'
  BY <1>1, <1>2 DEF WorkerInv, Working
<1>5. OutcomeInv(b)'
  BY <1>1 DEF OutcomeInv
<1> QED
  BY <1>3, <1>4, <1>5

\* Every step keeps the invariant of the gate and the permit.
LEMMA ImportInvStep == ImportInv /\ [Next]_vars => ImportInv'
<1> SUFFICES ASSUME ImportInv, [Next]_vars PROVE ImportInv'
  OBVIOUS
<1>0. TypeOK /\ TypeOK'
  BY ImportTypeStep DEF ImportInv
<1>1. ASSUME Fence PROVE ImportInv'
  <2>1. MoverInv'
    BY <1>0, <1>1 DEF Fence, MoverInv, TypeOK
  <2> QED
    BY <1>0, <1>1, <2>1, ImportInvFrame DEF Fence, ImportInv
<1>2. ASSUME MoverSteps PROVE ImportInv'
  <2>1. MoverInv'
    BY <1>2 DEF MoverSteps, DropKey, StopWork, MoverInv
  <2> QED
    BY <1>0, <1>2, <2>1, ImportInvFrame DEF MoverSteps, DropKey, StopWork, ImportInv
<1>3. ASSUME Unlock PROVE ImportInv'
  <2>1. MoverInv'
    BY <1>3 DEF Unlock, MoverInv, ImportInv
  <2> QED
    BY <1>0, <1>3, <2>1, ImportInvFrame DEF Unlock, ImportInv
<1>4. ASSUME NEW i \in Id, ImportCancel(i) PROVE ImportInv'
  <2>1. MoverInv'
    BY <1>4 DEF ImportCancel, MoverInv, ImportInv, session
  <2> QED
    BY <1>0, <1>4, <2>1, ImportInvFrame DEF ImportCancel, ImportInv
<1>5. ASSUME NEW a \in Attempt, ClaimImportWorker(a) PROVE ImportInv'
  <2>1. MoverInv'
    BY <1>5 DEF ClaimImportWorker, MoverInv, ImportInv, session
  <2>2. ASSUME NEW b \in Attempt, b # a PROVE CommandInv(b)' /\ WorkerInv(b)' /\ OutcomeInv(b)'
    <3>1. CommandInv(a) /\ WorkerInv(a)
      BY DEF ImportInv
    <3>2. permit' = permit \/ permit = a \/ permit = NoAttempt
      BY <1>5, <3>1 DEF ClaimImportWorker, CommandInv, WorkerInv, Working, Returns
    <3> QED
      BY <1>0, <1>5, <2>2, <3>2, ImportInvOthers DEF ClaimImportWorker, TypeOK, Returns
  <2>3. CommandInv(a)' /\ WorkerInv(a)' /\ OutcomeInv(a)'
    <3>1. CommandInv(a) /\ WorkerInv(a) /\ OutcomeInv(a)
      BY DEF ImportInv
    <3>2. CommandInv(a)'
      BY <1>0, <1>5, <3>1 DEF ClaimImportWorker, TypeOK, CommandInv, Returns
    <3>3. WorkerInv(a)'
      BY <1>0, <1>5, <3>1 DEF ClaimImportWorker, TypeOK, CommandInv, WorkerInv, Working, Returns
    <3>4. OutcomeInv(a)'
      BY <1>0, <1>5, <3>1
      DEF ClaimImportWorker, TypeOK, CommandInv, WorkerInv, OutcomeInv, Working, Returns
    <3> QED
      BY <3>2, <3>3, <3>4
  <2> QED
    BY <1>0, <2>1, <2>2, <2>3 DEF ImportInv
<1>6. ASSUME NEW a \in Attempt, RegisterImport(a) PROVE ImportInv'
  <2>1. MoverInv'
    BY <1>6 DEF RegisterImport, MoverInv, ImportInv, session
  <2>2. ASSUME NEW b \in Attempt, b # a PROVE CommandInv(b)' /\ WorkerInv(b)' /\ OutcomeInv(b)'
    <3>1. CommandInv(a) /\ WorkerInv(a)
      BY DEF ImportInv
    <3>2. permit' = permit \/ permit = a \/ permit = NoAttempt
      BY <1>6, <3>1 DEF RegisterImport, CommandInv, WorkerInv, Working, Returns
    <3> QED
      BY <1>0, <1>6, <2>2, <3>2, ImportInvOthers DEF RegisterImport, TypeOK, Returns
  <2>3. CommandInv(a)' /\ WorkerInv(a)' /\ OutcomeInv(a)'
    <3>1. CommandInv(a) /\ WorkerInv(a) /\ OutcomeInv(a)
      BY DEF ImportInv
    <3>2. CommandInv(a)'
      BY <1>0, <1>6, <3>1 DEF RegisterImport, TypeOK, CommandInv, Returns
    <3>3. WorkerInv(a)'
      BY <1>0, <1>6, <3>1 DEF RegisterImport, TypeOK, CommandInv, WorkerInv, Working, Returns
    <3>4. OutcomeInv(a)'
      BY <1>0, <1>6, <3>1 DEF RegisterImport, TypeOK, CommandInv, WorkerInv, OutcomeInv, Working, Returns
    <3> QED
      BY <3>2, <3>3, <3>4
  <2> QED
    BY <1>0, <2>1, <2>2, <2>3 DEF ImportInv
<1>7. ASSUME NEW a \in Attempt, ReadEpoch(a) PROVE ImportInv'
  <2>1. MoverInv'
    BY <1>7 DEF ReadEpoch, MoverInv, ImportInv, session
  <2>2. ASSUME NEW b \in Attempt, b # a PROVE CommandInv(b)' /\ WorkerInv(b)' /\ OutcomeInv(b)'
    <3>1. CommandInv(a) /\ WorkerInv(a)
      BY DEF ImportInv
    <3>2. permit' = permit \/ permit = a \/ permit = NoAttempt
      BY <1>7, <3>1 DEF ReadEpoch, CommandInv, WorkerInv, Working
    <3> QED
      BY <1>0, <1>7, <2>2, <3>2, ImportInvOthers DEF ReadEpoch, TypeOK
  <2>3. CommandInv(a)' /\ WorkerInv(a)' /\ OutcomeInv(a)'
    <3>1. CommandInv(a) /\ WorkerInv(a) /\ OutcomeInv(a)
      BY DEF ImportInv
    <3>2. CommandInv(a)'
      BY <1>0, <1>7, <3>1 DEF ReadEpoch, TypeOK, CommandInv
    <3>3. WorkerInv(a)'
      BY <1>0, <1>7, <3>1 DEF ReadEpoch, TypeOK, CommandInv, WorkerInv, Working
    <3>4. OutcomeInv(a)'
      BY <1>0, <1>7, <3>1 DEF ReadEpoch, TypeOK, CommandInv, WorkerInv, OutcomeInv, Working
    <3> QED
      BY <3>2, <3>3, <3>4
  <2> QED
    BY <1>0, <2>1, <2>2, <2>3 DEF ImportInv
<1>8. ASSUME NEW a \in Attempt, ReadApp(a) PROVE ImportInv'
  <2>1. MoverInv'
    BY <1>8 DEF ReadApp, MoverInv, ImportInv, session
  <2>2. ASSUME NEW b \in Attempt, b # a PROVE CommandInv(b)' /\ WorkerInv(b)' /\ OutcomeInv(b)'
    <3>1. CommandInv(a) /\ WorkerInv(a)
      BY DEF ImportInv
    <3>2. permit' = permit \/ permit = a \/ permit = NoAttempt
      BY <1>8, <3>1 DEF ReadApp, CommandInv, WorkerInv, Working, Returns
    <3> QED
      BY <1>0, <1>8, <2>2, <3>2, ImportInvOthers DEF ReadApp, TypeOK, Returns
  <2>3. CommandInv(a)' /\ WorkerInv(a)' /\ OutcomeInv(a)'
    <3>1. CommandInv(a) /\ WorkerInv(a) /\ OutcomeInv(a)
      BY DEF ImportInv
    <3>2. CommandInv(a)'
      BY <1>0, <1>8, <3>1 DEF ReadApp, TypeOK, CommandInv, Returns
    <3>3. WorkerInv(a)'
      BY <1>0, <1>8, <3>1 DEF ReadApp, TypeOK, CommandInv, WorkerInv, Working, Returns
    <3>4. OutcomeInv(a)'
      BY <1>0, <1>8, <3>1 DEF ReadApp, TypeOK, CommandInv, WorkerInv, OutcomeInv, Working, Returns
    <3> QED
      BY <3>2, <3>3, <3>4
  <2> QED
    BY <1>0, <2>1, <2>2, <2>3 DEF ImportInv
<1>9. ASSUME NEW a \in Attempt, WorkDone(a) PROVE ImportInv'
  <2>1. MoverInv'
    BY <1>9 DEF WorkDone, MoverInv, ImportInv, session
  <2>2. ASSUME NEW b \in Attempt, b # a PROVE CommandInv(b)' /\ WorkerInv(b)' /\ OutcomeInv(b)'
    <3>1. CommandInv(a) /\ WorkerInv(a)
      BY DEF ImportInv
    <3>2. permit' = permit \/ permit = a \/ permit = NoAttempt
      BY <1>9, <3>1 DEF WorkDone, CommandInv, WorkerInv, Working, Returns, Error
    <3> QED
      BY <1>0, <1>9, <2>2, <3>2, ImportInvOthers DEF WorkDone, TypeOK, Returns, Error
  <2>3. CommandInv(a)' /\ WorkerInv(a)' /\ OutcomeInv(a)'
    <3>1. CommandInv(a) /\ WorkerInv(a) /\ OutcomeInv(a)
      BY DEF ImportInv
    <3>2. CommandInv(a)'
      BY <1>0, <1>9, <3>1 DEF WorkDone, TypeOK, CommandInv, Returns, Error
    <3>3. WorkerInv(a)'
      BY <1>0, <1>9, <3>1 DEF WorkDone, TypeOK, CommandInv, WorkerInv, Working, Returns, Error
    <3>4. OutcomeInv(a)'
      BY <1>0, <1>9, <3>1
      DEF WorkDone, TypeOK, CommandInv, WorkerInv, OutcomeInv, Working, Returns, Error
    <3> QED
      BY <3>2, <3>3, <3>4
  <2> QED
    BY <1>0, <2>1, <2>2, <2>3 DEF ImportInv
<1>10. ASSUME NEW a \in Attempt, Canceled(a) PROVE ImportInv'
  <2>1. MoverInv'
    BY <1>10 DEF Canceled, MoverInv, ImportInv, session
  <2>2. ASSUME NEW b \in Attempt, b # a PROVE CommandInv(b)' /\ WorkerInv(b)' /\ OutcomeInv(b)'
    <3>1. CommandInv(a) /\ WorkerInv(a)
      BY DEF ImportInv
    <3>2. permit' = permit \/ permit = a \/ permit = NoAttempt
      BY <1>10, <3>1 DEF Canceled, CommandInv, WorkerInv, Working, Returns, Error
    <3> QED
      BY <1>0, <1>10, <2>2, <3>2, ImportInvOthers DEF Canceled, TypeOK, Returns, Error
  <2>3. CommandInv(a)' /\ WorkerInv(a)' /\ OutcomeInv(a)'
    <3>1. CommandInv(a) /\ WorkerInv(a) /\ OutcomeInv(a)
      BY DEF ImportInv
    <3>2. CommandInv(a)'
      BY <1>0, <1>10, <3>1 DEF Canceled, TypeOK, CommandInv, Returns, Error
    <3>3. WorkerInv(a)'
      BY <1>0, <1>10, <3>1 DEF Canceled, TypeOK, CommandInv, WorkerInv, Working, Returns, Error
    <3>4. OutcomeInv(a)'
      BY <1>0, <1>10, <3>1
      DEF Canceled, TypeOK, CommandInv, WorkerInv, OutcomeInv, Working, Returns, Error
    <3> QED
      BY <3>2, <3>3, <3>4
  <2> QED
    BY <1>0, <2>1, <2>2, <2>3 DEF ImportInv
<1>11. ASSUME NEW a \in Attempt, Derived(a) PROVE ImportInv'
  <2>1. MoverInv'
    BY <1>11 DEF Derived, MoverInv, ImportInv, session
  <2>2. ASSUME NEW b \in Attempt, b # a PROVE CommandInv(b)' /\ WorkerInv(b)' /\ OutcomeInv(b)'
    <3>1. CommandInv(a) /\ WorkerInv(a)
      BY DEF ImportInv
    <3>2. permit' = permit \/ permit = a \/ permit = NoAttempt
      BY <1>11, <3>1 DEF Derived, CommandInv, WorkerInv, Working, Ends, command
    <3> QED
      BY <1>0, <1>11, <2>2, <3>2, ImportInvOthers DEF Derived, TypeOK, Ends, command
  <2>3. CommandInv(a)' /\ WorkerInv(a)' /\ OutcomeInv(a)'
    <3>1. CommandInv(a) /\ WorkerInv(a) /\ OutcomeInv(a)
      BY DEF ImportInv
    <3>2. CommandInv(a)'
      BY <1>0, <1>11, <3>1 DEF Derived, TypeOK, CommandInv, Ends, command
    <3>3. WorkerInv(a)'
      BY <1>0, <1>11, <3>1 DEF Derived, TypeOK, CommandInv, WorkerInv, Working, Ends, command
    <3>4. OutcomeInv(a)'
      BY <1>0, <1>11, <3>1 DEF Derived, TypeOK, CommandInv, WorkerInv, OutcomeInv, Working, Ends, command
    <3> QED
      BY <3>2, <3>3, <3>4
  <2> QED
    BY <1>0, <2>1, <2>2, <2>3 DEF ImportInv
<1>12. ASSUME NEW a \in Attempt, BeginWrites(a) PROVE ImportInv'
  <2>1. MoverInv'
    BY <1>12 DEF BeginWrites, MoverInv, ImportInv, session
  <2>2. ASSUME NEW b \in Attempt, b # a PROVE CommandInv(b)' /\ WorkerInv(b)' /\ OutcomeInv(b)'
    <3>1. CommandInv(a) /\ WorkerInv(a)
      BY DEF ImportInv
    <3>2. permit' = permit \/ permit = a \/ permit = NoAttempt
      BY <1>12, <3>1 DEF BeginWrites, CommandInv, WorkerInv, Working, Ends, command
    <3> QED
      BY <1>0, <1>12, <2>2, <3>2, ImportInvOthers DEF BeginWrites, TypeOK, Ends, command
  <2>3. CommandInv(a)' /\ WorkerInv(a)' /\ OutcomeInv(a)'
    <3>1. CommandInv(a) /\ WorkerInv(a) /\ OutcomeInv(a)
      BY DEF ImportInv
    <3>2. CommandInv(a)'
      BY <1>0, <1>12, <3>1 DEF BeginWrites, TypeOK, CommandInv, Ends, command
    <3>3. WorkerInv(a)'
      BY <1>0, <1>12, <3>1 DEF BeginWrites, TypeOK, CommandInv, WorkerInv, Working, Ends, command
    <3>4. OutcomeInv(a)'
      BY <1>0, <1>12, <3>1
      DEF BeginWrites, TypeOK, CommandInv, WorkerInv, OutcomeInv, Working, Ends, command
    <3> QED
      BY <3>2, <3>3, <3>4
  <2> QED
    BY <1>0, <2>1, <2>2, <2>3 DEF ImportInv
<1>13. ASSUME NEW a \in Attempt, Write(a) PROVE ImportInv'
  <2>1. MoverInv'
    BY <1>13 DEF Write, StoreError, MoverInv, ImportInv, session
  <2>2. ASSUME NEW b \in Attempt, b # a PROVE CommandInv(b)' /\ WorkerInv(b)' /\ OutcomeInv(b)'
    <3>1. CommandInv(a) /\ WorkerInv(a)
      BY DEF ImportInv
    <3>2. permit' = permit \/ permit = a \/ permit = NoAttempt
      BY <1>13, <3>1 DEF Write, StoreError, CommandInv, WorkerInv, Working, Ends, command
    <3> QED
      BY <1>0, <1>13, <2>2, <3>2, ImportInvOthers DEF Write, StoreError, TypeOK, Ends, command
  <2>3. CommandInv(a)' /\ WorkerInv(a)' /\ OutcomeInv(a)'
    <3>1. CommandInv(a) /\ WorkerInv(a) /\ OutcomeInv(a)
      BY DEF ImportInv
    <3>2. CommandInv(a)'
      BY <1>0, <1>13, <3>1 DEF Write, StoreError, TypeOK, CommandInv, Ends, command
    <3>3. WorkerInv(a)'
      BY <1>0, <1>13, <3>1 DEF Write, StoreError, TypeOK, CommandInv, WorkerInv, Working, Ends, command
    <3>4. OutcomeInv(a)'
      BY <1>0, <1>13, <3>1 DEF Write, StoreError, TypeOK, CommandInv, WorkerInv, OutcomeInv, Working, Ends, command
    <3> QED
      BY <3>2, <3>3, <3>4
  <2> QED
    BY <1>0, <2>1, <2>2, <2>3 DEF ImportInv
<1>14. ASSUME NEW a \in Attempt, Attach(a) PROVE ImportInv'
  <2>1. MoverInv'
    BY <1>14 DEF Attach, StoreError, MoverInv, ImportInv, session
  <2>2. ASSUME NEW b \in Attempt, b # a PROVE CommandInv(b)' /\ WorkerInv(b)' /\ OutcomeInv(b)'
    <3>1. CommandInv(a) /\ WorkerInv(a)
      BY DEF ImportInv
    <3>2. permit' = permit \/ permit = a \/ permit = NoAttempt
      BY <1>14, <3>1 DEF Attach, StoreError, CommandInv, WorkerInv, Working, Ends, command
    <3> QED
      BY <1>0, <1>14, <2>2, <3>2, ImportInvOthers DEF Attach, StoreError, TypeOK, Ends, command
  <2>3. CommandInv(a)' /\ WorkerInv(a)' /\ OutcomeInv(a)'
    <3>1. CommandInv(a) /\ WorkerInv(a) /\ OutcomeInv(a)
      BY DEF ImportInv
    <3>2. CommandInv(a)'
      BY <1>0, <1>14, <3>1 DEF Attach, StoreError, TypeOK, CommandInv, Ends, command
    <3>3. WorkerInv(a)'
      BY <1>0, <1>14, <3>1 DEF Attach, StoreError, TypeOK, CommandInv, WorkerInv, Working, Ends, command
    <3>4. OutcomeInv(a)'
      BY <1>0, <1>14, <3>1 DEF Attach, StoreError, TypeOK, CommandInv, WorkerInv, OutcomeInv, Working, Ends, command
    <3> QED
      BY <3>2, <3>3, <3>4
  <2> QED
    BY <1>0, <2>1, <2>2, <2>3 DEF ImportInv
<1>15. CASE UNCHANGED vars
  BY <1>0, <1>15, ImportInvFrame DEF vars, session, command, ImportInv, MoverInv
<1> QED
  BY <1>1, <1>2, <1>3, <1>4, <1>5, <1>6, <1>7, <1>8, <1>9, <1>10, <1>11, <1>12, <1>13, <1>14,
     <1>15
  DEF Next, CommandSteps, WorkerSteps

\* The application starts in the invariant.
LEMMA ImportInvInit == Init => ImportInv
<1> SUFFICES ASSUME Init PROVE ImportInv
  OBVIOUS
<1>1. TypeOK /\ MoverInv
  BY ImportTypeInit DEF Init, MoverInv
<1>2. ASSUME NEW a \in Attempt PROVE CommandInv(a) /\ WorkerInv(a) /\ OutcomeInv(a)
  BY DEF Init, CommandInv, WorkerInv, OutcomeInv, Working
<1> QED
  BY <1>1, <1>2 DEF ImportInv

\* The invariant of the gate and the permit holds throughout.
LEMMA ImportInvariant == Spec => []ImportInv
<1>1. Init => ImportInv
  BY ImportInvInit
<1>2. ImportInv /\ [Next]_vars => ImportInv'
  BY ImportInvStep
<1> QED
  BY <1>1, <1>2, PTL DEF Spec

----------------------------------------------------------------------------
(* The invariant of the attempts that a boundary move overtook.            *)

\* Every step keeps it: only a boundary move overtakes, and the epoch that
\* the worker compares has moved by then.
LEMMA OvertakenStep == ImportInv /\ Overtaken /\ [Next]_vars => Overtaken'
<1> SUFFICES ASSUME ImportInv, Overtaken, [Next]_vars, NEW b \in Attempt PROVE OvertakenInv(b)'
  BY DEF Overtaken
<1>0. TypeOK /\ CommandInv(b) /\ WorkerInv(b) /\ OvertakenInv(b) /\ epoch \in Nat /\ seen[b] \in Nat
  BY DEF ImportInv, Overtaken, TypeOK
<1>1. CASE Fence
  <2>1. epoch' = epoch + 1 /\ UNCHANGED <<command, worker, wrote>>
    BY <1>1 DEF Fence
  <2>2. b \in overtaken' => b \in overtaken \/ pc[b] = "reading" \/ worker[b] = "deriving"
    BY <1>1 DEF Fence
  <2>3. pc[b] = "reading" \/ worker[b] = "deriving" =>
            /\ pc[b] \notin {"idle", "claimed", "registered"}
            /\ worker[b] \notin {"asking", "writing", "attaching"}
            /\ b \notin wrote
    BY <1>0 DEF CommandInv, WorkerInv
  <2> QED
    BY <1>0, <2>1, <2>2, <2>3 DEF OvertakenInv, command
<1>2. CASE MoverSteps \/ Unlock \/ UNCHANGED vars
  BY <1>0, <1>2 DEF MoverSteps, DropKey, StopWork, Unlock, vars, session, command, OvertakenInv
<1>3. ASSUME NEW i \in Id, ImportCancel(i) PROVE OvertakenInv(b)'
  BY <1>0, <1>3 DEF ImportCancel, session, command, OvertakenInv
<1>4. ASSUME NEW a \in Attempt, ClaimImportWorker(a) PROVE OvertakenInv(b)'
  BY <1>0, <1>4 DEF ClaimImportWorker, Returns, session, OvertakenInv, TypeOK
<1>5. ASSUME NEW a \in Attempt, RegisterImport(a) PROVE OvertakenInv(b)'
  BY <1>0, <1>5 DEF RegisterImport, Returns, session, OvertakenInv, TypeOK
<1>6. ASSUME NEW a \in Attempt, ReadEpoch(a) PROVE OvertakenInv(b)'
  BY <1>0, <1>6 DEF ReadEpoch, session, OvertakenInv, TypeOK
<1>7. ASSUME NEW a \in Attempt, ReadApp(a) PROVE OvertakenInv(b)'
  BY <1>0, <1>7 DEF ReadApp, Returns, session, OvertakenInv, TypeOK
<1>8. ASSUME NEW a \in Attempt, WorkDone(a) \/ Canceled(a) PROVE OvertakenInv(b)'
  BY <1>0, <1>8 DEF WorkDone, Canceled, Returns, session, OvertakenInv, TypeOK
<1>9. ASSUME NEW a \in Attempt, Derived(a) PROVE OvertakenInv(b)'
  BY <1>0, <1>9 DEF Derived, Ends, session, command, OvertakenInv, TypeOK
<1>10. ASSUME NEW a \in Attempt, BeginWrites(a) PROVE OvertakenInv(b)'
  BY <1>0, <1>10 DEF BeginWrites, Ends, session, command, OvertakenInv, TypeOK
<1>11. ASSUME NEW a \in Attempt, Write(a) PROVE OvertakenInv(b)'
  BY <1>0, <1>11 DEF Write, StoreError, Ends, session, command, OvertakenInv, TypeOK
<1>12. ASSUME NEW a \in Attempt, Attach(a) PROVE OvertakenInv(b)'
  BY <1>0, <1>12 DEF Attach, StoreError, Ends, session, command, OvertakenInv, TypeOK
<1> QED
  BY <1>1, <1>2, <1>3, <1>4, <1>5, <1>6, <1>7, <1>8, <1>9, <1>10, <1>11, <1>12
  DEF Next, CommandSteps, WorkerSteps

\* It holds throughout.
LEMMA OvertakenInvariant == Spec => []Overtaken
<1>1. Init => Overtaken
  BY DEF Init, Overtaken, OvertakenInv
<1> QED
  BY <1>1, OvertakenStep, ImportInvariant, PTL DEF Spec

----------------------------------------------------------------------------
(* The theorems.                                                           *)

\* The commands and workers of import_preview, import_apply and import_work
\* keep their state well typed, and a worker runs for a profile that
\* DesktopState::app() handed out.
THEOREM ImportsTyped == Spec => []TypeOK
<1>1. ImportInv => TypeOK
  BY DEF ImportInv
<1> QED
  BY <1>1, ImportInvariant, PTL

\* However a cancel, a lock and the worker are ordered, an import that a lock
\* met before its contents were checked never writes, and one that was
\* reported canceled, or locked by anything but a store that locked after its
\* own commit, has written nothing and never will (writes_may_begin,
\* ImportGate::begin_writes and abandon).
THEOREM CanceledImportsWriteNothing == Spec => []CanceledWritesNothing
<1>1. ImportInv /\ Overtaken => CanceledWritesNothing
  <2> SUFFICES ASSUME ImportInv, Overtaken PROVE CanceledWritesNothing
    OBVIOUS
  <2>1. overtaken \cap wrote = {}
    BY DEF Overtaken, OvertakenInv, ImportInv, TypeOK
  <2>2. ASSUME NEW a \in Attempt, outcome[a] \in {"canceled", "locked"}
        PROVE  /\ worker[a] \notin {"writing", "attaching"}
               /\ a \in wrote => outcome[a] = "locked" /\ result[a] = "locked"
    BY <2>2 DEF ImportInv, OutcomeInv, WorkerInv
  <2> QED
    BY <2>1, <2>2 DEF CanceledWritesNothing
<1> QED
  BY <1>1, ImportInvariant, OvertakenInvariant, PTL

\* At most one import worker runs, and it holds the permit, also when its
\* command was canceled and has returned (claim_import_worker).
THEOREM ImportWorkersNeverPileUp == Spec => []OneWorker
<1>1. ImportInv => OneWorker
  BY DEF ImportInv, OneWorker, WorkerInv
<1> QED
  BY <1>1, ImportInvariant, PTL

\* An attempt that runs under an id is registered under it or has been
\* canceled, whoever else uses the id, until it returns (register_import,
\* PendingEntry::drop and stop_work).
THEOREM ImportsStayCancelable == Spec => []Cancelable
<1>1. Init => Cancelable
  BY DEF Init, Cancelable
<1>2. TypeOK /\ Cancelable /\ [Next]_vars => Cancelable'
  <2> SUFFICES ASSUME TypeOK, Cancelable, [Next]_vars, NEW b \in Attempt,
                      pc'[b] \in {"registered", "reading", "working", "waiting"}, id'[b] # NoId
               PROVE  imports'[id'[b]] = b \/ b \in cancelled'
    BY DEF Cancelable
  <2> DEFINE Registered == pc[b] \in {"registered", "reading", "working", "waiting"} /\ id[b] # NoId
  <2>0. Registered => id[b] \in Id /\ (imports[id[b]] = b \/ b \in cancelled)
    BY DEF TypeOK, Cancelable
  <2>1. CASE Fence \/ DropKey \/ Unlock \/ UNCHANGED vars
    BY <2>1, <2>0 DEF Fence, DropKey, Unlock, vars, session, command
  <2>2. CASE StopWork
    BY <2>2, <2>0 DEF StopWork, command
  <2>3. ASSUME NEW i \in Id, ImportCancel(i) PROVE imports'[id'[b]] = b \/ b \in cancelled'
    BY <2>3, <2>0 DEF ImportCancel, command
  <2>4. ASSUME NEW a \in Attempt, WorkerSteps(a) PROVE imports'[id'[b]] = b \/ b \in cancelled'
    BY <2>4, <2>0 DEF WorkerSteps, Derived, BeginWrites, Write, Attach, StoreError, command
  <2>5. ASSUME NEW a \in Attempt, NEW what, Returns(a, what), UNCHANGED cancelled
        PROVE  imports'[id'[b]] = b \/ b \in cancelled'
    BY <2>5, <2>0 DEF Returns, DropEntry, TypeOK
  <2>6. ASSUME NEW a \in Attempt, ClaimImportWorker(a) PROVE imports'[id'[b]] = b \/ b \in cancelled'
    BY <2>6, <2>5, <2>0 DEF ClaimImportWorker, TypeOK
  <2>7. ASSUME NEW a \in Attempt, RegisterImport(a) PROVE imports'[id'[b]] = b \/ b \in cancelled'
    BY <2>7, <2>5, <2>0, ImportAssumption DEF RegisterImport, TypeOK
  <2>8. ASSUME NEW a \in Attempt, ReadEpoch(a) PROVE imports'[id'[b]] = b \/ b \in cancelled'
    BY <2>8, <2>0 DEF ReadEpoch, TypeOK
  <2>9. ASSUME NEW a \in Attempt, ReadApp(a) PROVE imports'[id'[b]] = b \/ b \in cancelled'
    BY <2>9, <2>5, <2>0 DEF ReadApp, TypeOK
  <2>10. ASSUME NEW a \in Attempt, WorkDone(a) PROVE imports'[id'[b]] = b \/ b \in cancelled'
    BY <2>10, <2>5 DEF WorkDone
  <2>11. ASSUME NEW a \in Attempt, Canceled(a) PROVE imports'[id'[b]] = b \/ b \in cancelled'
    BY <2>11, <2>5, <2>0 DEF Canceled, TypeOK
  <2> QED
    BY <2>1, <2>2, <2>3, <2>4, <2>6, <2>7, <2>8, <2>9, <2>10, <2>11 DEF Next, MoverSteps, CommandSteps
<1> QED
  BY <1>1, <1>2, ImportsTyped, PTL DEF Spec
=============================================================================
