--------------------------- MODULE SessionsProofs ---------------------------
(***************************************************************************)
(* What Sessions promises for every number of attempts, ids, controls and  *)
(* boundary moves: type correctness, that no session runs where nobody can *)
(* stop it, that a control acts on the attempt it was meant for, and that  *)
(* an attempt that has ended is over.                                      *)
(***************************************************************************)
EXTENDS Sessions, TLAPS

----------------------------------------------------------------------------
(* The inductive invariants.                                               *)

\* What SessionReachable says of one attempt.
Reachable(a) ==
    engine[a] = "running" /\ a \notin engineCancel =>
        \/ sessions[id[a]] = a
        \/ a \in aborting /\ a \in inSlot
        \/ pc[a] = "opened" /\ ~Valid(a)
        \/ pc[a] = "published" /\ a \in token

\* An attempt's fence is not ahead of the epoch, and behind it as soon as
\* delivery has closed.  A session runs only while its attempt waits for it;
\* its handle is in the slot once it was published; and an attempt is
\* registered under its id from its registration to its retirement, unless a
\* boundary move has overtaken it.
AttemptInv(a) ==
    /\ fence[a] <= epoch /\ (~gate /\ pc[a] # "idle" => fence[a] < epoch)
    /\ engine[a] = "running" => pc[a] \in {"opened", "published", "live"}
    /\ pc[a] \in {"published", "live"} => a \in inSlot
    /\ pc[a] \in {"dialog", "opening", "opened", "published", "live", "taken"} =>
           sessions[id[a]] = a \/ fence[a] < epoch
    /\ Reachable(a)

\* A control under way holds the slot of the attempt its console showed.
ControlInv == \A c \in Control : cPc[c] # "idle" => cSlot[c] = cWant[c] /\ cWant[c] \in Attempt

ReachInv == TypeOK /\ (stopping => ~gate) /\ \A a \in Attempt : AttemptInv(a)

OwnInv == TypeOK /\ ControlInv

----------------------------------------------------------------------------
(* Type correctness.                                                       *)

\* A control's end keeps the controls and the mutexes well typed.
LEMMA ControlEndsType ==
    ASSUME TypeOK, NEW c \in Control, ControlEnds(c)
    PROVE  /\ cPc' \in [Control -> ControlPc] /\ mutex' \in [Attempt -> Control \cup {None}]
           /\ cWant' \in [Control -> Attempt \cup {None}] /\ cSlot' \in [Control -> Attempt \cup {None}]
BY DEF TypeOK, ControlEnds, ControlPc

\* The state in which the application starts is well typed.
LEMMA SessionTypeInit == Init => TypeOK
<1> SUFFICES ASSUME Init PROVE TypeOK
  OBVIOUS
<1>1. epoch \in Nat /\ gate \in BOOLEAN /\ stopping \in BOOLEAN
  BY DEF Init
<1>2. sessions \in [Id -> Attempt \cup {None}] /\ running \in [Id -> Attempt \cup {None}] /\ mutex \in [Attempt -> Control \cup {None}]
  BY DEF Init
<1>3. pc \in [Attempt -> Pc] /\ fence \in [Attempt -> Nat] /\ queue \in [Attempt -> 0 .. Capacity]
  BY CapacityAssumption DEF Init, Pc
<1>4. cPc \in [Control -> ControlPc] /\ cWant \in [Control -> Attempt \cup {None}] /\ cSlot \in [Control -> Attempt \cup {None}]
  BY DEF Init, ControlPc
<1> QED
  BY <1>1, <1>2, <1>3, <1>4 DEF Init, TypeOK

\* Every step of the boundary, an attempt, an engine task and a control keeps
\* the types.
LEMMA SessionTypeStep == OwnInv /\ [Next]_vars => TypeOK'
<1> SUFFICES ASSUME TypeOK, ControlInv, [Next]_vars PROVE TypeOK'
  BY DEF OwnInv
<1> USE DEF bound, registry, opening, task, control, report
<1>1. CASE Fence \/ StopWork \/ Unlock
  <2>1. gate' \in BOOLEAN /\ stopping' \in BOOLEAN
    BY <1>1 DEF TypeOK, Fence, StopWork, Unlock
  <2>2. epoch' \in Nat /\ sessions' \in [Id -> Attempt \cup {None}] /\ running' \in [Id -> Attempt \cup {None}]
    BY <1>1 DEF TypeOK, Fence, StopWork, Unlock
  <2>3. token' \in SUBSET Attempt /\ aborting' \in SUBSET Attempt
    BY <1>1 DEF TypeOK, Fence, StopWork, Unlock, Registered, Slots
  <2> QED
    BY <1>1, <2>1, <2>2, <2>3 DEF TypeOK, Fence, StopWork, Unlock
<1>2. ASSUME NEW a \in Attempt, Admit(a) \/ RegistrationRefused(a) \/ Confirm(a) PROVE TypeOK'
  BY <1>2 DEF TypeOK, Admit, RegistrationRefused, Confirm, Goto, Pc
<1>3. ASSUME NEW a \in Attempt, RegisterSession(a) PROVE TypeOK'
  BY <1>3 DEF TypeOK, RegisterSession, Goto, Pc
<1>4. ASSUME NEW a \in Attempt, AbandonOpen(a) PROVE TypeOK'
  BY <1>4 DEF TypeOK, AbandonOpen, RemoveSlot, DropEntry, Goto, Pc
<1>5. ASSUME NEW a \in Attempt, OpenCompletes(a) PROVE TypeOK'
  BY <1>5 DEF TypeOK, OpenCompletes, DropEntry, Goto, Pc
<1>6. ASSUME NEW a \in Attempt, PublishHandle(a) \/ StartWatcher(a) \/ TakeHandle(a) PROVE TypeOK'
  BY <1>6 DEF TypeOK, PublishHandle, StartWatcher, TakeHandle, Goto, Pc
<1>7. ASSUME NEW a \in Attempt, RetireSlot(a) PROVE TypeOK'
  BY <1>7, CapacityAssumption DEF TypeOK, RetireSlot, RemoveSlot, Goto, Pc
<1>8. ASSUME NEW a \in Attempt, EmitEnded(a) \/ EmitLocked(a) PROVE TypeOK'
  BY <1>8 DEF TypeOK, EmitEnded, EmitLocked, Deliver, Goto, Pc
<1>9. ASSUME NEW a \in Attempt, Consume(a) PROVE TypeOK'
  BY <1>9, CapacityAssumption DEF TypeOK, Consume
<1>10. ASSUME NEW a \in Attempt, EngineEnds(a) \/ Abort(a) PROVE TypeOK'
  BY <1>10 DEF TypeOK, EngineEnds, Abort
<1>11. ASSUME NEW i \in Id, CancelPending(i) PROVE TypeOK'
  BY <1>11 DEF TypeOK, CancelPending
<1>12. ASSUME NEW c \in Control, AdmitControl(c) PROVE TypeOK'
  BY <1>12 DEF TypeOK, AdmitControl, Resolves, ControlPc
<1>13. ASSUME NEW c \in Cancel, SessionCancel(c) PROVE TypeOK'
  <2>1. c \in Control /\ cSlot[c] \in Attempt
    BY <1>13 DEF SessionCancel, ControlInv, Control
  <2> QED
    BY <1>13, <2>1, ControlEndsType DEF TypeOK, SessionCancel
<1>14. ASSUME NEW c \in Send, SendBegins(c) \/ SendLocks(c) PROVE TypeOK'
  <2>1. c \in Control
    BY DEF Control
  <2> QED
    BY <1>14, <2>1 DEF TypeOK, SendBegins, SendLocks, ControlPc
<1>15. ASSUME NEW c \in Send, SendRefused(c) PROVE TypeOK'
  <2>1. c \in Control /\ cSlot[c] \in Attempt
    BY <1>15 DEF SendRefused, ControlInv, Control
  <2> QED
    BY <1>15, <2>1, ControlEndsType DEF TypeOK, SendRefused
<1>16. ASSUME NEW c \in Send, SendPolls(c) PROVE TypeOK'
  <2>1. c \in Control /\ cSlot[c] \in Attempt
    BY <1>16 DEF SendPolls, ControlInv, Control
  <2>2. queue' \in [Attempt -> 0 .. Capacity]
    BY <1>16, <2>1, CapacityAssumption DEF TypeOK, SendPolls
  <2> QED
    BY <1>16, <2>1, <2>2, ControlEndsType DEF TypeOK, SendPolls
<1>17. ASSUME NEW c \in Send, SendFindsNone(c) \/ SendFails(c) \/ SendCanceled(c) PROVE TypeOK'
  <2>1. c \in Control
    BY DEF Control
  <2> QED
    BY <1>17, <2>1, ControlEndsType DEF TypeOK, SendFindsNone, SendFails, SendCanceled
<1>18. CASE UNCHANGED vars
  BY <1>18 DEF TypeOK, vars
<1> QED
  BY <1>1, <1>2, <1>3, <1>4, <1>5, <1>6, <1>7, <1>8, <1>9, <1>10, <1>11, <1>12, <1>13, <1>14,
     <1>15, <1>16, <1>17, <1>18
     DEF Next, OpenSteps

----------------------------------------------------------------------------
(* Controls.                                                               *)

\* A step that leaves the controls alone, or ends one of them, keeps the
\* others on their attempts; only the admission gives a control a slot.
LEMMA ControlStep == OwnInv /\ [Next]_vars => ControlInv'
<1> SUFFICES ASSUME TypeOK, ControlInv, [Next]_vars PROVE ControlInv'
  BY DEF OwnInv
<1> USE DEF control
<1>1. ASSUME UNCHANGED control PROVE ControlInv'
  BY <1>1 DEF ControlInv
<1>2. ASSUME NEW c \in Control, ControlEnds(c) PROVE ControlInv'
  BY <1>2 DEF ControlInv, ControlEnds, TypeOK
<1>3. ASSUME NEW c \in Control, AdmitControl(c) PROVE ControlInv'
  <2>1. PICK want \in Attempt : /\ Resolves(want) # None
                                /\ cWant' = [cWant EXCEPT ![c] = want] /\ cSlot' = [cSlot EXCEPT ![c] = Resolves(want)]
    BY <1>3 DEF AdmitControl
  <2>2. Resolves(want) = want
    BY <2>1 DEF Resolves
  <2> QED
    BY <1>3, <2>1, <2>2 DEF AdmitControl, ControlInv, TypeOK
<1>4. ASSUME NEW c \in Send, SendBegins(c) \/ SendLocks(c) PROVE ControlInv'
  <2>1. c \in Control
    BY DEF Control
  <2> QED
    BY <1>4, <2>1 DEF ControlInv, SendBegins, SendLocks, TypeOK
<1>5. ASSUME NEW c \in Send, SendRefused(c) \/ SendPolls(c) \/ SendFindsNone(c) \/ SendFails(c) \/ SendCanceled(c) PROVE ControlInv'
  BY <1>2, <1>5 DEF SendRefused, SendPolls, SendFindsNone, SendFails, SendCanceled, Control
<1>6. ASSUME NEW c \in Cancel, SessionCancel(c) PROVE ControlInv'
  BY <1>2, <1>6 DEF SessionCancel, Control
<1>7. CASE Fence \/ StopWork \/ Unlock \/ UNCHANGED vars \/ \E i \in Id : CancelPending(i)
  BY <1>1, <1>7 DEF Fence, StopWork, Unlock, vars, CancelPending
<1>8. ASSUME NEW a \in Attempt, Admit(a) \/ OpenSteps(a) \/ Confirm(a) \/ AbandonOpen(a) \/ OpenCompletes(a)
                                \/ Consume(a) \/ EngineEnds(a) \/ Abort(a)
      PROVE  ControlInv'
  BY <1>1, <1>8
  DEF Admit, OpenSteps, Confirm, AbandonOpen, OpenCompletes, Consume, EngineEnds, Abort,
     RegisterSession, RegistrationRefused, PublishHandle, StartWatcher, TakeHandle, RetireSlot, EmitEnded, EmitLocked
<1> QED
  BY <1>3, <1>4, <1>5, <1>6, <1>7, <1>8 DEF Next

\* The types and the controls' invariant hold throughout.
LEMMA OwnInvariant == Spec => []OwnInv
<1>1. Init => OwnInv
  BY SessionTypeInit DEF Init, OwnInv, ControlInv
<1>2. OwnInv /\ [Next]_vars => OwnInv'
  BY SessionTypeStep, ControlStep DEF OwnInv
<1> QED
  BY <1>1, <1>2, PTL DEF Spec

\* Registries, attempts, engine tasks and controls keep their types, and the
\* command queue of a session stays within COMMAND_QUEUE.
THEOREM SessionsTyped == Spec => []TypeOK
<1>1. OwnInv => TypeOK
  BY DEF OwnInv
<1> QED
  BY <1>1, OwnInvariant, PTL

\* A send or a cancel that queues a command, or sets an abort on its way, does
\* it to the attempt its console was showing, while that attempt's slot is
\* registered and its fence valid, however often the execution id was
\* registered again since the admission (admit_control, check_slot).
THEOREM ControlsActOnTheirOwn == Spec => ControlsOwn
<1>1. OwnInv /\ [Next]_vars => [ControlOwned]_vars
  <2> SUFFICES ASSUME OwnInv, Next, NEW c \in Control, NEW a \in Attempt, cPc'[c] # cPc[c],
                      queue'[a] # queue[a] \/ (a \in aborting' /\ a \notin aborting)
               PROVE  a = cWant[c] /\ Valid(a) /\ sessions[id[a]] = a
    BY DEF ControlOwned
  <2>0. TypeOK /\ ControlInv
    BY DEF OwnInv
  <2>1. ASSUME NEW d \in Control, ControlEnds(d) PROVE d = c
    BY <2>0, <2>1 DEF ControlEnds, TypeOK
  <2>2. ASSUME NEW d \in Cancel, SessionCancel(d) PROVE a = cWant[c] /\ Valid(a) /\ sessions[id[a]] = a
    BY <2>0, <2>1, <2>2 DEF SessionCancel, CheckSlot, ControlInv, Control
  <2>3. ASSUME NEW d \in Send, SendPolls(d) PROVE a = cWant[c] /\ Valid(a) /\ sessions[id[a]] = a
    BY <2>0, <2>1, <2>3 DEF SendPolls, CheckSlot, ControlInv, Control, TypeOK
  <2>4. ~ \E d \in Send : SendBegins(d) \/ SendRefused(d) \/ SendLocks(d) \/ SendFindsNone(d) \/ SendFails(d) \/ SendCanceled(d)
    BY DEF SendBegins, SendRefused, SendLocks, SendFindsNone, SendFails, SendCanceled
  <2>5. ~ \E d \in Control : AdmitControl(d)
    BY DEF AdmitControl
  <2>6. ~(Fence \/ StopWork \/ Unlock \/ \E i \in Id : CancelPending(i))
    BY DEF Fence, StopWork, Unlock, CancelPending, control
  <2>7. ~ \E b \in Attempt : \/ Admit(b) \/ OpenSteps(b) \/ Confirm(b) \/ AbandonOpen(b) \/ OpenCompletes(b)
                             \/ Consume(b) \/ EngineEnds(b) \/ Abort(b)
    BY DEF Admit, OpenSteps, Confirm, AbandonOpen, OpenCompletes, Consume, EngineEnds,
       Abort, control,
       RegisterSession, RegistrationRefused, PublishHandle, StartWatcher, TakeHandle, RetireSlot, EmitEnded, EmitLocked
  <2> QED
    BY <2>2, <2>3, <2>4, <2>5, <2>6, <2>7 DEF Next
<1> QED
  BY <1>1, OwnInvariant, PTL DEF Spec, ControlsOwn

----------------------------------------------------------------------------
(* No session runs where nobody can stop it.                               *)

\* An attempt that a step leaves alone keeps its invariant while the boundary
\* stands and nobody takes its slot out of the registry.
LEMMA AttemptFrame ==
    ASSUME NEW a \in Attempt, AttemptInv(a), UNCHANGED bound, id'[a] = id[a], fence'[a] = fence[a],
           pc'[a] = pc[a], engine'[a] = engine[a], sessions[id[a]] = a => sessions'[id[a]] = a,
           a \in inSlot => a \in inSlot', a \in engineCancel => a \in engineCancel',
           a \in token => a \in token', a \in aborting => a \in aborting'
    PROVE  AttemptInv(a)'
BY DEF AttemptInv, Reachable, Valid, bound

\* A step that changes neither attempts nor registry nor boundary, and takes
\* back no cancel, keeps the invariant.
LEMMA ReachFrame ==
    ASSUME ReachInv, UNCHANGED <<bound, sessions, opening, inSlot, engine>>,
           token \subseteq token', engineCancel \subseteq engineCancel', aborting \subseteq aborting', TypeOK'
    PROVE  ReachInv'
<1>1. ASSUME NEW a \in Attempt PROVE AttemptInv(a)'
  BY AttemptFrame DEF ReachInv, opening
<1> QED
  BY <1>1 DEF ReachInv, bound

\* Every step leaves every running session within reach.
LEMMA ReachStep == ReachInv /\ OwnInv /\ [Next]_vars => ReachInv'
<1> SUFFICES ASSUME ReachInv, OwnInv, [Next]_vars PROVE ReachInv'
  OBVIOUS
<1>0. TypeOK /\ TypeOK' /\ (stopping => ~gate) /\ \A a \in Attempt : AttemptInv(a)
  BY SessionTypeStep DEF ReachInv
<1>1. ASSUME NEW a \in Attempt, UNCHANGED bound, AttemptInv(a)', UNCHANGED id,
             \A b \in Attempt \ {a} :
                 /\ fence'[b] = fence[b] /\ pc'[b] = pc[b] /\ engine'[b] = engine[b]
                 /\ sessions[id[b]] = b => sessions'[id[b]] = b
                 /\ b \in inSlot => b \in inSlot'
                 /\ b \in engineCancel => b \in engineCancel'
                 /\ b \in token => b \in token'
                 /\ b \in aborting => b \in aborting'
      PROVE  ReachInv'
  BY <1>0, <1>1, AttemptFrame DEF ReachInv, bound
<1>2. CASE Fence
  <2>1. ASSUME NEW a \in Attempt PROVE AttemptInv(a)'
    <3>1. fence[a] \in Nat /\ epoch \in Nat /\ epoch' = epoch + 1 /\ ~gate' /\ fence' = fence
      BY <1>0, <1>2 DEF TypeOK, Fence, opening
    <3>2. fence'[a] <= epoch' /\ fence'[a] < epoch' /\ ~Valid(a)'
      BY <1>0, <3>1 DEF AttemptInv, Valid
    <3> QED
      BY <1>0, <1>2, <3>2 DEF AttemptInv, Reachable, Fence, registry, opening, task
  <2> QED
    BY <1>0, <1>2, <2>1 DEF ReachInv, Fence
<1>3. CASE StopWork
  <2>1. ASSUME NEW a \in Attempt PROVE AttemptInv(a)'
    <3>1. ~gate /\ epoch \in Nat /\ fence[a] \in Nat /\ id[a] \in Id
      BY <1>0, <1>3 DEF StopWork, TypeOK
    <3>2. UNCHANGED <<epoch, gate, opening, task>> /\ (a \in aborting \/ sessions[id[a]] = a => a \in aborting') /\ token \subseteq token'
      BY <1>3, <3>1 DEF StopWork, Slots
    <3>3. pc[a] # "idle" => fence[a] < epoch /\ ~Valid(a)'
      BY <1>0, <3>1, <3>2 DEF AttemptInv, Valid, opening
    <3>4. Reachable(a)'
      <4>1. CASE engine[a] = "running" /\ a \notin engineCancel
        BY <1>0, <4>1, <3>2, <3>3 DEF AttemptInv, Reachable, opening, task
      <4>2. CASE ~(engine[a] = "running" /\ a \notin engineCancel)
        BY <3>2, <4>2 DEF Reachable, task
      <4> QED
        BY <4>1, <4>2
    <3> QED
      BY <1>0, <3>2, <3>3, <3>4 DEF AttemptInv, opening, task
  <2> QED
    BY <1>0, <1>3, <2>1 DEF ReachInv, StopWork
<1>4. CASE Unlock
  <2>1. ASSUME NEW a \in Attempt PROVE AttemptInv(a)'
    <3>1. epoch \in Nat /\ fence[a] \in Nat /\ UNCHANGED <<epoch, registry, opening, task, token, aborting>> /\ ~gate /\ gate'
      BY <1>0, <1>4 DEF Unlock, TypeOK
    <3>2. pc[a] # "idle" => fence[a] < epoch /\ ~Valid(a)'
      BY <1>0, <3>1 DEF AttemptInv, Valid, opening
    <3> QED
      BY <1>0, <3>1, <3>2 DEF AttemptInv, Reachable, registry, opening, task
  <2> QED
    BY <1>0, <1>4, <2>1 DEF ReachInv, Unlock
<1>5. ASSUME NEW a \in Attempt, Admit(a) PROVE ReachInv'
  <2>1. AttemptInv(a)'
    BY <1>0, <1>5 DEF Admit, AttemptInv, Reachable, Goto, TypeOK, bound, registry, task
  <2> QED
    BY <1>0, <1>1, <1>5, <2>1 DEF Admit, Goto, TypeOK, registry, task
<1>6. ASSUME NEW a \in Attempt, RegisterSession(a) PROVE ReachInv'
  <2>1. AttemptInv(a)'
    BY <1>0, <1>6 DEF RegisterSession, AttemptInv, Reachable, Goto, TypeOK, bound, task
  <2>2. \A b \in Attempt \ {a} : sessions[id[b]] = b => sessions'[id[b]] = b
    BY <1>0, <1>6, NoneAssumption DEF RegisterSession, TypeOK
  <2> QED
    BY <1>0, <1>1, <1>6, <2>1, <2>2 DEF RegisterSession, Goto, TypeOK, task
<1>7. ASSUME NEW a \in Attempt, RegistrationRefused(a) \/ Confirm(a) PROVE ReachInv'
  <2>1. AttemptInv(a)'
    BY <1>0, <1>7
    DEF RegistrationRefused, Confirm, AttemptInv, Reachable, Goto, TypeOK, bound, registry,
        task
  <2> QED
    BY <1>0, <1>1, <1>7, <2>1 DEF RegistrationRefused, Confirm, Goto, TypeOK, registry, task
<1>8. ASSUME NEW a \in Attempt, AbandonOpen(a) PROVE ReachInv'
  <2>1. AttemptInv(a)'
    BY <1>0, <1>8 DEF AbandonOpen, AttemptInv, Reachable, Goto, TypeOK, bound, task
  <2>2. \A b \in Attempt \ {a} : sessions[id[b]] = b => sessions'[id[b]] = b
    BY <1>0, <1>8 DEF AbandonOpen, RemoveSlot, TypeOK
  <2> QED
    BY <1>0, <1>1, <1>8, <2>1, <2>2 DEF AbandonOpen, Goto, TypeOK, task
<1>9. ASSUME NEW a \in Attempt, OpenCompletes(a) PROVE ReachInv'
  <2>1. Valid(a)' => sessions'[id[a]] = a
    BY <1>0, <1>9 DEF OpenCompletes, Valid, AttemptInv, TypeOK, bound
  <2>2. AttemptInv(a)'
    BY <1>0, <1>9, <2>1 DEF OpenCompletes, AttemptInv, Reachable, Goto, TypeOK, bound
  <2> QED
    BY <1>0, <1>1, <1>9, <2>2 DEF OpenCompletes, Goto, TypeOK
<1>10. ASSUME NEW a \in Attempt, PublishHandle(a) PROVE ReachInv'
  <2>1. Valid(a) => sessions[id[a]] = a
    BY <1>0, <1>10 DEF PublishHandle, Valid, AttemptInv, TypeOK
  <2>2. AttemptInv(a)'
    BY <1>0, <1>10, <2>1 DEF PublishHandle, AttemptInv, Reachable, Goto, TypeOK, bound, registry
  <2> QED
    BY <1>0, <1>1, <1>10, <2>2 DEF PublishHandle, Goto, TypeOK, registry
<1>11. ASSUME NEW a \in Attempt, StartWatcher(a) PROVE ReachInv'
  <2>1. AttemptInv(a)'
    BY <1>0, <1>11 DEF StartWatcher, AttemptInv, Reachable, Goto, TypeOK, bound, registry
  <2> QED
    BY <1>0, <1>1, <1>11, <2>1 DEF StartWatcher, Goto, TypeOK, registry
<1>12. ASSUME NEW a \in Attempt, TakeHandle(a) \/ EmitEnded(a) \/ EmitLocked(a) PROVE ReachInv'
  <2>1. AttemptInv(a)'
    BY <1>0, <1>12 DEF TakeHandle, EmitEnded, EmitLocked, AttemptInv, Reachable, Goto, TypeOK, bound, registry, task
  <2> QED
    BY <1>0, <1>1, <1>12, <2>1 DEF TakeHandle, EmitEnded, EmitLocked, Goto, TypeOK, registry, task
<1>13. ASSUME NEW a \in Attempt, RetireSlot(a) PROVE ReachInv'
  <2>1. AttemptInv(a)'
    BY <1>0, <1>13 DEF RetireSlot, AttemptInv, Reachable, Goto, TypeOK, bound
  <2>2. \A b \in Attempt \ {a} : sessions[id[b]] = b => sessions'[id[b]] = b
    BY <1>0, <1>13 DEF RetireSlot, RemoveSlot, TypeOK
  <2> QED
    BY <1>0, <1>1, <1>13, <2>1, <2>2 DEF RetireSlot, Goto, TypeOK
<1>14. ASSUME NEW a \in Attempt, EngineEnds(a) PROVE ReachInv'
  <2>1. AttemptInv(a)'
    BY <1>0, <1>14 DEF EngineEnds, AttemptInv, Reachable, TypeOK, bound, registry, opening
  <2> QED
    BY <1>0, <1>1, <1>14, <2>1 DEF EngineEnds, TypeOK, registry, opening
<1>15. ASSUME NEW a \in Attempt, Abort(a) PROVE ReachInv'
  <2>1. AttemptInv(a)'
    BY <1>0, <1>15 DEF Abort, AttemptInv, Reachable, Valid, TypeOK, bound, registry, opening
  <2> QED
    BY <1>0, <1>1, <1>15, <2>1 DEF Abort, TypeOK, registry, opening
<1>16. ASSUME NEW a \in Attempt, Consume(a) PROVE ReachInv'
  BY <1>0, <1>16, ReachFrame DEF Consume, registry, task
<1>17. CASE UNCHANGED vars \/ (\E i \in Id : CancelPending(i)) \/ (\E c \in Control : AdmitControl(c)) \/ (\E c \in Cancel : SessionCancel(c))
  BY <1>0, <1>17, ReachFrame DEF vars, CancelPending, AdmitControl, SessionCancel, registry, task
<1>18. ASSUME NEW c \in Send, SendBegins(c) \/ SendRefused(c) \/ SendLocks(c) \/ SendFindsNone(c) \/ SendPolls(c) \/ SendFails(c)
                               \/ SendCanceled(c)
       PROVE  ReachInv'
  BY <1>0, <1>18, ReachFrame
  DEF SendBegins, SendRefused, SendLocks, SendFindsNone, SendPolls, SendFails, SendCanceled,
      registry, task
<1> QED
  BY <1>2, <1>3, <1>4, <1>5, <1>6, <1>7, <1>8, <1>9, <1>10, <1>11, <1>12, <1>13, <1>14, <1>15,
     <1>16, <1>17, <1>18
     DEF Next, OpenSteps

\* No session runs where nobody can stop it: one that was not told to stop is
\* registered under its id, or the abort of whoever took it out is on its way
\* to its handle, or its own open has still to look at the fence or the token
\* (register_session, publish_handle, stop_work).
THEOREM SessionsStayReachable == Spec => []SessionReachable
<1>1. Init => ReachInv
  <2> SUFFICES ASSUME Init PROVE ReachInv
    OBVIOUS
  <2>1. ASSUME NEW a \in Attempt PROVE AttemptInv(a)
    BY DEF Init, AttemptInv, Reachable
  <2> QED
    BY <2>1, SessionTypeInit DEF ReachInv, Init
<1>2. ReachInv /\ OwnInv /\ [Next]_vars => ReachInv'
  BY ReachStep
<1>3. ReachInv => SessionReachable
  BY DEF ReachInv, AttemptInv, Reachable, SessionReachable
<1> QED
  BY <1>1, <1>2, <1>3, OwnInvariant, PTL DEF Spec

----------------------------------------------------------------------------
(* An attempt that has ended is over.                                      *)

\* What an attempt owns, by how far it has come: registrations between its
\* registration and its retirement, an engine task and its queue from the open
\* to the retirement, the slot's content from the publication to the watcher.
\* A registered attempt that no longer is the one under its id has
\* been replaced, and one that has ended was replaced or reported.
OverInv(a) ==
    /\ \A i \in Id : running[i] = a => pc[a] \in {"dialog", "opening"}
    /\ \A i \in Id : sessions[i] = a => pc[a] \in {"dialog", "opening", "opened", "published", "live", "taken"}
    /\ engine[a] # "none" \/ queue[a] # 0 => pc[a] \in {"opened", "published", "live", "taken"}
    /\ a \in inSlot => pc[a] \in {"published", "live"}
    /\ mutex[a] # None => a \in inSlot
    /\ pc[a] \notin {"idle", "admitted", "done"} => sessions[id[a]] \in {None, a} \/ a \in replaced
    /\ pc[a] = "done" => a \in told \cup replaced

Over == \A a \in Attempt : OverInv(a)

\* An attempt that a step leaves alone keeps its invariant while no slot of
\* its id is registered and nothing is taken back.
LEMMA OverFrame ==
    ASSUME NEW a \in Attempt, OverInv(a), id'[a] = id[a], pc'[a] = pc[a],
           engine'[a] = engine[a], queue'[a] = queue[a] \/ engine[a] # "none",
           \A i \in Id : running'[i] = a => running[i] = a,
           \A i \in Id : sessions'[i] = a => sessions[i] = a,
           sessions'[id[a]] \in {None, a, sessions[id[a]]} \/ (pc[a] \in {"idle", "admitted"} \/ a \in replaced'),
           a \in inSlot' <=> a \in inSlot,
           mutex'[a] \in {None, mutex[a]} \/ a \in inSlot,
           told \subseteq told', replaced \subseteq replaced'
    PROVE  OverInv(a)'
BY DEF OverInv

\* A step that changes neither attempts nor reports, registers nothing and
\* queues nothing for a session that does not run keeps the invariant.
LEMMA OverStands ==
    ASSUME Over, UNCHANGED <<opening, inSlot, engine, report>>,
           \A i \in Id : running'[i] \in {None, running[i]} /\ sessions'[i] \in {None, sessions[i]},
           \A a \in Attempt : queue'[a] = queue[a] \/ engine[a] # "none",
           \A a \in Attempt : mutex'[a] \in {None, mutex[a]} \/ a \in inSlot,
           TypeOK
    PROVE  Over'
<1>1. ASSUME NEW a \in Attempt PROVE OverInv(a)'
  <2>1. OverInv(a) /\ id[a] \in Id
    BY DEF Over, TypeOK
  <2> QED
    BY <2>1, OverFrame, NoneAssumption DEF opening, report
<1> QED
  BY <1>1 DEF Over

\* The end of a control gives back what it held.
LEMMA ControlGivesBack ==
    ASSUME TypeOK, NEW c \in Control, ControlEnds(c)
    PROVE  \A a \in Attempt : mutex'[a] \in {None, mutex[a]}
BY DEF ControlEnds, TypeOK

\* Every step keeps it.
LEMMA OverStep == Over /\ OwnInv /\ [Next]_vars => Over'
<1> SUFFICES ASSUME Over, OwnInv, [Next]_vars PROVE Over'
  OBVIOUS
<1>0. TypeOK /\ ControlInv
  BY DEF OwnInv
<1>1. ASSUME NEW a \in Attempt, OverInv(a)', UNCHANGED <<id, mutex>>, told \subseteq told', replaced \subseteq replaced',
             \A i \in Id : sessions'[i] \in {None, sessions[i]} /\ running'[i] \in {None, running[i]},
             \A b \in Attempt \ {a} :
                 /\ pc'[b] = pc[b] /\ engine'[b] = engine[b] /\ queue'[b] = queue[b]
                 /\ b \in inSlot' <=> b \in inSlot
      PROVE  Over'
  <2>1. ASSUME NEW b \in Attempt, b # a PROVE OverInv(b)'
    <3>1. OverInv(b) /\ id[b] \in Id
      BY <1>0 DEF Over, TypeOK
    <3> QED
      BY <1>1, <2>1, <3>1, OverFrame, NoneAssumption
  <2> QED
    BY <1>1, <2>1 DEF Over
<1>2. CASE Fence \/ Unlock \/ UNCHANGED vars \/ \E i \in Id : CancelPending(i)
  BY <1>0, <1>2, OverStands DEF Fence, Unlock, vars, CancelPending, registry, task
<1>3. CASE StopWork
  BY <1>0, <1>3, OverStands DEF StopWork, task
<1>4. ASSUME NEW a \in Attempt, Admit(a) PROVE Over'
  <2>1. OverInv(a)'
    BY <1>0, <1>4 DEF Over, OverInv, Admit, Goto, TypeOK, registry, task, report
  <2> QED
    BY <1>0, <1>1, <1>4, <2>1 DEF Admit, Goto, TypeOK, registry, task, report
<1>5. ASSUME NEW a \in Attempt, RegisterSession(a) PROVE Over'
  <2>1. /\ UNCHANGED <<id, mutex, told, engine, inSlot, queue>>
        /\ pc' = [pc EXCEPT ![a] = pc'[a]] /\ pc'[a] \in {"dialog", "opening"} /\ pc[a] = "admitted"
        /\ sessions' = [sessions EXCEPT ![id[a]] = a] /\ running' = [running EXCEPT ![id[a]] = a]
        /\ replaced' = replaced \cup {b \in Attempt \ {a} : id[b] = id[a] /\ pc[b] \notin {"idle", "admitted"}}
    BY <1>0, <1>5 DEF RegisterSession, Goto, TypeOK, task
  <2>2. OverInv(a)'
    BY <1>0, <2>1 DEF Over, OverInv, TypeOK
  <2>3. ASSUME NEW b \in Attempt, b # a PROVE OverInv(b)'
    <3>1. OverInv(b) /\ id[b] \in Id /\ id[a] \in Id
      BY <1>0 DEF Over, TypeOK
    <3>2. \A i \in Id : (running'[i] = b => running[i] = b) /\ (sessions'[i] = b => sessions[i] = b)
      BY <1>0, <2>1, <2>3 DEF TypeOK
    <3>3. sessions'[id[b]] = sessions[id[b]] \/ (pc[b] \in {"idle", "admitted"} \/ b \in replaced')
      BY <1>0, <2>1, <2>3, <3>1 DEF TypeOK
    <3> QED
      BY <1>0, <2>1, <2>3, <3>1, <3>2, <3>3, OverFrame DEF TypeOK
  <2> QED
    BY <2>2, <2>3 DEF Over
<1>6. ASSUME NEW a \in Attempt, RegistrationRefused(a) \/ Confirm(a) PROVE Over'
  <2>1. OverInv(a)'
    BY <1>0, <1>6, NoneAssumption DEF Over, OverInv, RegistrationRefused, Confirm, Goto, TypeOK, registry, task, report
  <2> QED
    BY <1>0, <1>1, <1>6, <2>1 DEF RegistrationRefused, Confirm, Goto, TypeOK, registry, task, report
<1>7. ASSUME NEW a \in Attempt, AbandonOpen(a) PROVE Over'
  <2>1. \A i \in Id : sessions'[i] # a /\ running'[i] # a
    BY <1>7, NoneAssumption DEF AbandonOpen, RemoveSlot, DropEntry
  <2>2. \A i \in Id : sessions'[i] \in {None, sessions[i]} /\ running'[i] \in {None, running[i]}
    BY <1>7 DEF AbandonOpen, RemoveSlot, DropEntry
  <2>3. OverInv(a)'
    BY <1>0, <1>7, <2>1, <2>2 DEF Over, OverInv, AbandonOpen, Goto, TypeOK, task
  <2> QED
    BY <1>0, <1>1, <1>7, <2>2, <2>3 DEF AbandonOpen, Goto, TypeOK, task
<1>8. ASSUME NEW a \in Attempt, OpenCompletes(a) PROVE Over'
  <2>1. \A i \in Id : running'[i] # a /\ running'[i] \in {None, running[i]}
    BY <1>8, NoneAssumption DEF OpenCompletes, DropEntry
  <2>2. OverInv(a)'
    BY <1>0, <1>8, <2>1 DEF Over, OverInv, OpenCompletes, Goto, TypeOK, report
  <2> QED
    BY <1>0, <1>1, <1>8, <2>1, <2>2 DEF OpenCompletes, Goto, TypeOK, report
<1>9. ASSUME NEW a \in Attempt, PublishHandle(a) \/ StartWatcher(a) \/ TakeHandle(a) PROVE Over'
  <2>1. OverInv(a)'
    BY <1>0, <1>9 DEF Over, OverInv, PublishHandle, StartWatcher, TakeHandle, Goto, TypeOK, registry, report
  <2> QED
    BY <1>0, <1>1, <1>9, <2>1 DEF PublishHandle, StartWatcher, TakeHandle, Goto, TypeOK, registry, report
<1>10. ASSUME NEW a \in Attempt, RetireSlot(a) PROVE Over'
  <2>1. \A i \in Id : sessions'[i] # a /\ sessions'[i] \in {None, sessions[i]}
    BY <1>10, NoneAssumption DEF RetireSlot, RemoveSlot
  <2>2. OverInv(a)'
    BY <1>0, <1>10, <2>1 DEF Over, OverInv, RetireSlot, Goto, TypeOK, report
  <2> QED
    BY <1>0, <1>1, <1>10, <2>1, <2>2 DEF RetireSlot, Goto, TypeOK, report
<1>11. ASSUME NEW a \in Attempt, EmitEnded(a) \/ EmitLocked(a) PROVE Over'
  <2>1. told \subseteq told' /\ (sessions[id[a]] \in {None, a} /\ pc'[a] = "done" => a \in told')
    BY <1>0, <1>11 DEF EmitEnded, EmitLocked, Deliver, Goto, TypeOK
  <2>2. OverInv(a)'
    BY <1>0, <1>11, <2>1 DEF Over, OverInv, EmitEnded, EmitLocked, Goto, TypeOK, registry, task
  <2> QED
    BY <1>0, <1>1, <1>11, <2>1, <2>2 DEF EmitEnded, EmitLocked, Goto, TypeOK, registry, task
<1>12. ASSUME NEW a \in Attempt, Consume(a) PROVE Over'
  BY <1>0, <1>12, OverStands DEF Consume, TypeOK, registry, task
<1>13. ASSUME NEW a \in Attempt, EngineEnds(a) PROVE Over'
  <2>1. OverInv(a)'
    BY <1>0, <1>13 DEF Over, OverInv, EngineEnds, TypeOK, registry, opening, report
  <2> QED
    BY <1>0, <1>1, <1>13, <2>1 DEF EngineEnds, TypeOK, registry, opening, report
<1>14. ASSUME NEW a \in Attempt, Abort(a) PROVE Over'
  BY <1>0, <1>14, OverStands DEF Abort, registry
<1>15. ASSUME NEW c \in Control, AdmitControl(c) \/ SendBegins(c) PROVE Over'
  BY <1>0, <1>15, OverStands DEF AdmitControl, SendBegins, registry, task
<1>16. ASSUME NEW c \in Control, SessionCancel(c) \/ SendRefused(c) \/ SendFindsNone(c) \/ SendFails(c) \/ SendCanceled(c) PROVE Over'
  <2>1. \A a \in Attempt : mutex'[a] \in {None, mutex[a]}
    BY <1>0, <1>16, ControlGivesBack DEF SessionCancel, SendRefused, SendFindsNone, SendFails, SendCanceled
  <2> QED
    BY <1>0, <1>16, <2>1, OverStands DEF SessionCancel, SendRefused, SendFindsNone, SendFails, SendCanceled, registry, task
<1>17. ASSUME NEW c \in Control, SendPolls(c) PROVE Over'
  <2>1. \A a \in Attempt : mutex'[a] \in {None, mutex[a]}
    BY <1>0, <1>17, ControlGivesBack DEF SendPolls
  <2>2. \A a \in Attempt : queue'[a] = queue[a] \/ engine[a] # "none"
    BY <1>0, <1>17 DEF SendPolls, TypeOK
  <2> QED
    BY <1>0, <1>17, <2>1, <2>2, OverStands DEF SendPolls, registry, task
<1>18. ASSUME NEW c \in Control, SendLocks(c) PROVE Over'
  <2>1. \A a \in Attempt : mutex'[a] \in {None, mutex[a]} \/ a \in inSlot
    BY <1>0, <1>18 DEF SendLocks, TypeOK
  <2> QED
    BY <1>0, <1>18, <2>1, OverStands DEF SendLocks, registry, task
<1> QED
  BY <1>2, <1>3, <1>4, <1>5, <1>6, <1>7, <1>8, <1>9, <1>10, <1>11, <1>12, <1>13, <1>14, <1>15,
     <1>16, <1>17, <1>18
     DEF Next, OpenSteps, Control

\* An attempt that has ended leaves no registration, engine task, queued
\* command or held slot, and the window was told of its end unless another
\* attempt has taken its id (SessionRegistration, remove_slot, finish_session,
\* emit_ended).
THEOREM EndedAttemptsAreOver == Spec => []EndedIsOver
<1>1. Init => Over
  <2> SUFFICES ASSUME Init, NEW a \in Attempt PROVE OverInv(a)
    BY DEF Over
  <2> QED
    BY NoneAssumption DEF Init, OverInv
<1>2. Over => EndedIsOver
  <2> SUFFICES ASSUME Over, NEW a \in Attempt, pc[a] = "done"
               PROVE  /\ a \notin Registered /\ engine[a] = "none" /\ queue[a] = 0
                      /\ a \notin inSlot /\ mutex[a] = None /\ a \in told \cup replaced
    BY DEF EndedIsOver
  <2>1. OverInv(a)
    BY DEF Over
  <2> QED
    BY <2>1 DEF OverInv, Registered
<1> QED
  BY <1>1, <1>2, OverStep, OwnInvariant, PTL DEF Spec
=============================================================================
