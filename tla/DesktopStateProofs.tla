------------------------- MODULE DesktopStateProofs -------------------------
(***************************************************************************)
(* What DesktopState promises for every number of profiles, threads and    *)
(* executions, and whether or not stores fail: type correctness, the       *)
(* delivery fence, the confinement of keys, the exclusivity of credential  *)
(* rotation, that a lock wins over the openers it lands on, and that the   *)
(* threads implement the abstract LockBoundary.  That overtaken work has   *)
(* been stopped is about the time before a store first drops its own key.  *)
(***************************************************************************)
EXTENDS DesktopState, TLAPS

----------------------------------------------------------------------------
(* Type correctness.                                                       *)

\* The openers a boundary move lands on are operations.
LEMMA OpenersType == ASSUME NEW o PROVE Openers(o) \in SUBSET Op
BY DEF Openers

\* The state DesktopState::new builds is well typed.
LEMMA TypeInit == Init => TypeOK
<1> SUFFICES ASSUME Init PROVE TypeOK
  OBVIOUS
<1>1. epoch \in Nat /\ gate \in BOOLEAN /\ transition \in Op \cup {NoOp} /\ app \in App \cup {NoApp} /\ keyChange \in BOOLEAN
  BY DEF Init
<1>2. key \in [App -> BOOLEAN] /\ cacheOwner \in [App -> Work \cup {NoWork}] /\ running \in SUBSET Work
  BY DEF Init
<1>3. opPc \in [Op -> OpPc] /\ opKind \in [Op -> OpKind] /\ opSeen \in [Op -> Nat]
  BY DEF Init, OpPc, OpKind, LockKind
<1>4. opApp \in [Op -> App \cup {NoApp}] /\ opOld \in [Op -> App \cup {NoApp}]
  BY DEF Init
<1>5. wPc \in [Work -> WorkPc] /\ wApp \in [Work -> App \cup {NoApp}] /\ wEpoch \in [Work -> Nat] /\ cancelled \in [Work -> BOOLEAN]
  BY DEF Init, WorkPc
<1>6. overtaken \in SUBSET Op /\ faulted \in BOOLEAN
  BY DEF Init
<1> QED
  BY <1>1, <1>2, <1>3, <1>4, <1>5, <1>6 DEF TypeOK

\* Every step of every thread keeps the state well typed.
LEMMA TypeStep == TypeOK /\ [Next]_vars => TypeOK'
<1> SUFFICES ASSUME TypeOK, [Next]_vars PROVE TypeOK'
  OBVIOUS
<1> USE DEF TypeOK, OpPc, OpKind, LockKind, WorkPc, boundary, opVars, workVars
<1>1. ASSUME NEW o \in Op, BeginLock(o) PROVE TypeOK'
  BY <1>1 DEF BeginLock, Goto
<1>2. ASSUME NEW o \in Op, BeginLockIfCurrent(o) PROVE TypeOK'
  BY <1>2 DEF BeginLockIfCurrent, Goto
<1>3. ASSUME NEW o \in Op, BeginLockIntegrity(o) PROVE TypeOK'
  BY <1>3 DEF BeginLockIntegrity, Goto
<1>4. ASSUME NEW o \in Op, BeginUnlock(o) PROVE TypeOK'
  BY <1>4 DEF BeginUnlock, Goto
<1>5. ASSUME NEW o \in Op, BeginRotate(o) PROVE TypeOK'
  BY <1>5 DEF BeginRotate, Goto
<1>6. ASSUME NEW o \in Op, BeginEnroll(o) PROVE TypeOK'
  BY <1>6 DEF BeginEnroll, Goto
<1>7. ASSUME NEW o \in Op, ChooseUnlock(o) PROVE TypeOK'
  BY <1>7 DEF ChooseUnlock, Goto
<1>8. ASSUME NEW o \in Op, ChooseOpen(o) PROVE TypeOK'
  BY <1>8 DEF ChooseOpen, Goto, Unreferenced
<1>9. ASSUME NEW o \in Op, DeriveFails(o) PROVE TypeOK'
  BY <1>9 DEF DeriveFails, Return
<1>10. ASSUME NEW o \in Op, NotConfirmed(o) PROVE TypeOK'
  BY <1>10 DEF NotConfirmed, Return
<1>11. ASSUME NEW o \in Op, Acquire(o) PROVE TypeOK'
  BY <1>11 DEF Acquire, Goto
<1>12. ASSUME NEW o \in Op, Refuse(o) PROVE TypeOK'
  BY <1>12 DEF Refuse, Return
<1>13. ASSUME NEW o \in Op, FenceLock(o) PROVE TypeOK'
  <2>1. overtaken' \in SUBSET Op
    BY <1>13, OpenersType DEF FenceLock
  <2>2. opPc' \in [Op -> OpPc] /\ opOld' \in [Op -> App \cup {NoApp}] /\ opApp' \in [Op -> App \cup {NoApp}]
    BY <1>13 DEF FenceLock, Goto
  <2>3. epoch' \in Nat /\ app' \in App \cup {NoApp} /\ transition' \in Op \cup {NoOp}
    BY <1>13 DEF FenceLock
  <2> QED
    BY <1>13, <2>1, <2>2, <2>3 DEF FenceLock
<1>14. ASSUME NEW o \in Op, FenceOpen(o) PROVE TypeOK'
  <2>1. overtaken' \in SUBSET Op
    BY <1>14, OpenersType DEF FenceOpen
  <2>2. opPc' \in [Op -> OpPc] /\ opOld' \in [Op -> App \cup {NoApp}] /\ opApp' \in [Op -> App \cup {NoApp}]
    BY <1>14 DEF FenceOpen, Goto
  <2>3. epoch' \in Nat /\ app' \in App \cup {NoApp} /\ transition' \in Op \cup {NoOp}
    BY <1>14 DEF FenceOpen
  <2> QED
    BY <1>14, <2>1, <2>2, <2>3 DEF FenceOpen
<1>15. ASSUME NEW o \in Op, OpenOvertaken(o) PROVE TypeOK'
  BY <1>15 DEF OpenOvertaken, Return
<1>16. ASSUME NEW o \in Op, FenceUnlock(o) PROVE TypeOK'
  <2>1. key' \in [App -> BOOLEAN] /\ gate' \in BOOLEAN
    BY <1>16 DEF FenceUnlock, UnlockOutcome
  <2> QED
    BY <1>16, <2>1 DEF FenceUnlock, Return
<1>17. ASSUME NEW o \in Op, FenceRotate(o) PROVE TypeOK'
  <2>1. overtaken' \in SUBSET Op
    BY <1>17, OpenersType DEF FenceRotate
  <2>2. opPc' \in [Op -> OpPc] /\ opOld' \in [Op -> App \cup {NoApp}] /\ opApp' \in [Op -> App \cup {NoApp}]
    BY <1>17 DEF FenceRotate, Goto
  <2>3. epoch' \in Nat /\ app' \in App \cup {NoApp} /\ transition' \in Op \cup {NoOp}
    BY <1>17 DEF FenceRotate
  <2> QED
    BY <1>17, <2>1, <2>2, <2>3 DEF FenceRotate
<1>18. ASSUME NEW o \in Op, FenceEnroll(o) PROVE TypeOK'
  <2>1. overtaken' \in SUBSET Op
    BY <1>18, OpenersType DEF FenceEnroll
  <2>2. opPc' \in [Op -> OpPc] /\ opOld' \in [Op -> App \cup {NoApp}] /\ opApp' \in [Op -> App \cup {NoApp}]
    BY <1>18 DEF FenceEnroll, Goto
  <2>3. epoch' \in Nat /\ app' \in App \cup {NoApp} /\ transition' \in Op \cup {NoOp}
    BY <1>18 DEF FenceEnroll
  <2> QED
    BY <1>18, <2>1, <2>2, <2>3 DEF FenceEnroll
<1>19. ASSUME NEW o \in Op, ChangeRefused(o) PROVE TypeOK'
  BY <1>19 DEF ChangeRefused, Return
<1>20. ASSUME NEW o \in Op, DropKey(o) PROVE TypeOK'
  BY <1>20 DEF DropKey, Goto
<1>21. ASSUME NEW o \in Op, ClearCaches(o) PROVE TypeOK'
  BY <1>21 DEF ClearCaches, Goto
<1>22. ASSUME NEW o \in Op, StopWork(o) PROVE TypeOK'
  BY <1>22 DEF StopWork, Return, Goto
<1>23. ASSUME NEW o \in Op, Publish(o) PROVE TypeOK'
  BY <1>23 DEF Publish, Return
<1>24. ASSUME NEW o \in Op, RotationEnds(o) PROVE TypeOK'
  BY <1>24 DEF RotationEnds, Goto
<1>25. ASSUME NEW o \in Op, KeyChangeDropped(o) PROVE TypeOK'
  BY <1>25 DEF KeyChangeDropped, Return
<1>26. ASSUME NEW o \in Op, EnrollmentDropped(o) PROVE TypeOK'
  BY <1>26 DEF EnrollmentDropped, Return
<1>27. ASSUME NEW a \in App, SelfLock(a) PROVE TypeOK'
  BY <1>27 DEF SelfLock
<1>28. ASSUME NEW w \in Work, Admit(w) PROVE TypeOK'
  BY <1>28 DEF Admit
<1>29. ASSUME NEW w \in Work, Register(w) PROVE TypeOK'
  BY <1>29 DEF Register
<1>30. ASSUME NEW w \in Work, CheckPayload(w) PROVE TypeOK'
  BY <1>30 DEF CheckPayload, Retire
<1>31. ASSUME NEW w \in Work, EnterCache(w) PROVE TypeOK'
  BY <1>31 DEF EnterCache
<1>32. ASSUME NEW w \in Work, Deliver(w) PROVE TypeOK'
  BY <1>32 DEF Deliver
<1>33. ASSUME NEW w \in Work, DeliverRefused(w) PROVE TypeOK'
  BY <1>33 DEF DeliverRefused
<1>34. ASSUME NEW w \in Work, Delivered(w) PROVE TypeOK'
  BY <1>34 DEF Delivered
<1>35. ASSUME NEW w \in Work, LeaveCache(w) PROVE TypeOK'
  BY <1>35 DEF LeaveCache
<1>36. ASSUME NEW w \in Work, CancelExecution(w) PROVE TypeOK'
  BY <1>36 DEF CancelExecution
<1>37. ASSUME NEW w \in Work, Finish(w) PROVE TypeOK'
  BY <1>37 DEF Finish, Retire
<1>38. ASSUME NEW w \in Work, Reply(w) PROVE TypeOK'
  BY <1>38 DEF Reply
<1>39. ASSUME NEW w \in Work, Answered(w) PROVE TypeOK'
  BY <1>39 DEF Answered, Ends
<1>40. ASSUME NEW w \in Work, ReplyLocked(w) PROVE TypeOK'
  BY <1>40 DEF ReplyLocked, Ends
<1>41. CASE UNCHANGED vars
  BY <1>41 DEF vars
<1> QED
  BY <1>1, <1>2, <1>3, <1>4, <1>5, <1>6, <1>7, <1>8, <1>9, <1>10, <1>11, <1>12, <1>13, <1>14,
     <1>15, <1>16, <1>17, <1>18, <1>19, <1>20, <1>21, <1>22, <1>23, <1>24, <1>25, <1>26, <1>27,
     <1>28, <1>29, <1>30, <1>31, <1>32, <1>33, <1>34, <1>35, <1>36, <1>37, <1>38, <1>39, <1>40,
     <1>41
  DEF Next, OpBegins, OpSteps, WorkSteps

\* The state of the lock boundary is well typed in every behaviour: the
\* epoch, the guards, the fences and the registry always hold values the
\* fields of DesktopState can hold.
THEOREM TypeCorrect == Spec => []TypeOK
BY TypeInit, TypeStep, PTL DEF Spec
----------------------------------------------------------------------------
(* The inductive invariant.                                                *)

\* Past the fence, and before the transition mutex is released.
Cleanup == {"store", "caches", "stop", "publish"}

\* The operation of each stage.
Staged ==
    \A o \in Op :
        /\ opPc[o] = "derive" => opKind[o] = "unlock"
        /\ opPc[o] \in {"store", "caches"} => opKind[o] \in LockKind \cup {"open"}
        /\ opPc[o] = "stop" => opKind[o] \in LockKind \cup {"open", "rotate"}
        /\ opPc[o] = "publish" => opKind[o] = "open"
        /\ opPc[o] = "held" => opKind[o] \in {"rotate", "enroll"}
        /\ opPc[o] = "drop" => opKind[o] = "rotate"

\* Operations past the transition mutex hold it, and clean up with delivery
\* closed.
Serialized ==
    \A o \in Op :
        /\ opPc[o] \in Cleanup \cup {"gate"} => transition = o
        /\ opPc[o] \in Cleanup => ~gate

\* The credential change of o is under way.
Changing(o) ==
    \/ opKind[o] = "rotate" /\ opPc[o] \in {"stop", "held", "drop"}
    \/ opKind[o] = "enroll" /\ opPc[o] = "held"

\* At most one credential change is under way, key_change is set and delivery
\* closed while it is, and no publication is.
OneChange ==
    /\ \A o \in Op : Changing(o) => keyChange /\ ~gate
    /\ \A o, p \in Op : Changing(o) /\ Changing(p) => o = p
    /\ \A o \in Op : opKind[o] = "open" /\ opPc[o] \in Cleanup \cup {"gate"} => ~keyChange

AppLocked == app # NoApp => ~key[app]

\* Where the key of the published profile is gone.
LockedStages ==
    \A o \in Op :
        /\ opPc[o] = "drop" => opApp[o] = app /\ AppLocked
        /\ opKind[o] = "enroll" /\ opPc[o] = "held" => AppLocked
        /\ opKind[o] \in LockKind /\ opPc[o] \in Cleanup => opOld[o] = app
        /\ opKind[o] \in LockKind /\ opPc[o] \in {"caches", "stop"} => AppLocked

\* Delivery that is closed outside any operation is closed with the key gone.
AtRest ==
    (\A o \in Op : opPc[o] \notin Cleanup) /\ ~gate /\ ~keyChange => AppLocked

IndInv ==
    /\ TypeOK
    /\ Staged
    /\ Serialized
    /\ DeliveryFenced
    /\ KeyConfined
    /\ OneChange
    /\ RotationExclusive
    /\ LockedStages
    /\ AtRest

\* The inductive invariant holds initially.
LEMMA InitInv == Init => IndInv
<1> SUFFICES ASSUME Init PROVE IndInv
  OBVIOUS
<1>1. TypeOK
  BY TypeInit
<1>2. Staged /\ Serialized /\ DeliveryFenced
  BY DEF Init, Staged, Serialized, DeliveryFenced, Delivering, Cleanup
<1>3. KeyConfined /\ OneChange /\ RotationExclusive
  BY DEF Init, KeyConfined, OneChange, Changing, RotationExclusive, Cleanup
<1>4. LockedStages /\ AtRest
  BY DEF Init, LockedStages, AtRest, AppLocked, Cleanup
<1> QED
  BY <1>1, <1>2, <1>3, <1>4 DEF IndInv

\* Work moves neither the boundary nor an operation.
LEMMA WorkKeepsBoundary ==
    ASSUME NEW w \in Work,
           \/ Admit(w) \/ WorkSteps(w) \/ EnterCache(w) \/ Deliver(w)
           \/ DeliverRefused(w) \/ CancelExecution(w) \/ Finish(w)
    PROVE  UNCHANGED <<boundary, opVars>>
BY DEF Admit, WorkSteps, EnterCache, Deliver, DeliverRefused, CancelExecution, Finish,
       Register, CheckPayload, Delivered, LeaveCache, Reply, Answered, ReplyLocked

\* Every step keeps the operations in their stages.
LEMMA StagedStep ==
    ASSUME TypeOK, Staged, [Next]_vars
    PROVE  Staged'
<1> USE DEF TypeOK, OpPc, OpKind, LockKind, boundary, opVars, Staged
<1>1. ASSUME NEW o \in Op, BeginLock(o) PROVE Staged'
  BY <1>1 DEF BeginLock, Goto
<1>2. ASSUME NEW o \in Op, BeginLockIfCurrent(o) PROVE Staged'
  BY <1>2 DEF BeginLockIfCurrent, Goto
<1>3. ASSUME NEW o \in Op, BeginLockIntegrity(o) PROVE Staged'
  BY <1>3 DEF BeginLockIntegrity, Goto
<1>4. ASSUME NEW o \in Op, BeginUnlock(o) PROVE Staged'
  BY <1>4 DEF BeginUnlock, Goto
<1>5. ASSUME NEW o \in Op, BeginRotate(o) PROVE Staged'
  BY <1>5 DEF BeginRotate, Goto
<1>6. ASSUME NEW o \in Op, BeginEnroll(o) PROVE Staged'
  BY <1>6 DEF BeginEnroll, Goto
<1>7. ASSUME NEW o \in Op, ChooseUnlock(o) PROVE Staged'
  BY <1>7 DEF ChooseUnlock, Goto
<1>8. ASSUME NEW o \in Op, ChooseOpen(o) PROVE Staged'
  BY <1>8 DEF ChooseOpen, Goto, Unreferenced
<1>9. ASSUME NEW o \in Op, DeriveFails(o) PROVE Staged'
  BY <1>9 DEF DeriveFails, Return
<1>10. ASSUME NEW o \in Op, NotConfirmed(o) PROVE Staged'
  BY <1>10 DEF NotConfirmed, Return
<1>11. ASSUME NEW o \in Op, Acquire(o) PROVE Staged'
  BY <1>11 DEF Acquire, Goto
<1>12. ASSUME NEW o \in Op, Refuse(o) PROVE Staged'
  BY <1>12 DEF Refuse, Return
<1>13. ASSUME NEW o \in Op, FenceLock(o) PROVE Staged'
  BY <1>13 DEF FenceLock, Goto
<1>14. ASSUME NEW o \in Op, FenceOpen(o) PROVE Staged'
  BY <1>14 DEF FenceOpen, Goto
<1>15. ASSUME NEW o \in Op, OpenOvertaken(o) PROVE Staged'
  BY <1>15 DEF OpenOvertaken, Return
<1>16. ASSUME NEW o \in Op, FenceUnlock(o) PROVE Staged'
  BY <1>16 DEF FenceUnlock, Return, UnlockOutcome
<1>17. ASSUME NEW o \in Op, FenceRotate(o) PROVE Staged'
  BY <1>17 DEF FenceRotate, Goto
<1>18. ASSUME NEW o \in Op, FenceEnroll(o) PROVE Staged'
  BY <1>18 DEF FenceEnroll, Goto
<1>19. ASSUME NEW o \in Op, ChangeRefused(o) PROVE Staged'
  BY <1>19 DEF ChangeRefused, Return
<1>20. ASSUME NEW o \in Op, DropKey(o) PROVE Staged'
  BY <1>20 DEF DropKey, Goto
<1>21. ASSUME NEW o \in Op, ClearCaches(o) PROVE Staged'
  BY <1>21 DEF ClearCaches, Goto
<1>22. ASSUME NEW o \in Op, StopWork(o) PROVE Staged'
  BY <1>22 DEF StopWork, Return, Goto
<1>23. ASSUME NEW o \in Op, Publish(o) PROVE Staged'
  BY <1>23 DEF Publish, Return
<1>24. ASSUME NEW o \in Op, RotationEnds(o) PROVE Staged'
  BY <1>24 DEF RotationEnds, Goto
<1>25. ASSUME NEW o \in Op, KeyChangeDropped(o) PROVE Staged'
  BY <1>25 DEF KeyChangeDropped, Return
<1>26. ASSUME NEW o \in Op, EnrollmentDropped(o) PROVE Staged'
  BY <1>26 DEF EnrollmentDropped, Return
<1>27. ASSUME NEW a \in App, SelfLock(a) PROVE Staged'
  BY <1>27 DEF SelfLock
<1>28. CASE UNCHANGED <<boundary, opVars>>
  BY <1>28
<1> QED
  BY <1>1, <1>2, <1>3, <1>4, <1>5, <1>6, <1>7, <1>8, <1>9, <1>10, <1>11, <1>12, <1>13, <1>14,
     <1>15, <1>16, <1>17, <1>18, <1>19, <1>20, <1>21, <1>22, <1>23, <1>24, <1>25, <1>26, <1>27,
     <1>28, WorkKeepsBoundary
  DEF Next, OpBegins, OpSteps, vars

\* Every step keeps the boundary operations serialized by the transition mutex.
LEMMA SerializedStep ==
    ASSUME TypeOK, Staged, Serialized, [Next]_vars
    PROVE  Serialized'
<1> USE DEF TypeOK, OpPc, OpKind, LockKind, boundary, opVars, Staged, Serialized, Cleanup
<1>1. ASSUME NEW o \in Op, BeginLock(o) PROVE Serialized'
  BY <1>1 DEF BeginLock, Goto
<1>2. ASSUME NEW o \in Op, BeginLockIfCurrent(o) PROVE Serialized'
  BY <1>2 DEF BeginLockIfCurrent, Goto
<1>3. ASSUME NEW o \in Op, BeginLockIntegrity(o) PROVE Serialized'
  BY <1>3 DEF BeginLockIntegrity, Goto
<1>4. ASSUME NEW o \in Op, BeginUnlock(o) PROVE Serialized'
  BY <1>4 DEF BeginUnlock, Goto
<1>5. ASSUME NEW o \in Op, BeginRotate(o) PROVE Serialized'
  BY <1>5 DEF BeginRotate, Goto
<1>6. ASSUME NEW o \in Op, BeginEnroll(o) PROVE Serialized'
  BY <1>6 DEF BeginEnroll, Goto
<1>7. ASSUME NEW o \in Op, ChooseUnlock(o) PROVE Serialized'
  BY <1>7 DEF ChooseUnlock, Goto
<1>8. ASSUME NEW o \in Op, ChooseOpen(o) PROVE Serialized'
  BY <1>8 DEF ChooseOpen, Goto, Unreferenced
<1>9. ASSUME NEW o \in Op, DeriveFails(o) PROVE Serialized'
  BY <1>9 DEF DeriveFails, Return
<1>10. ASSUME NEW o \in Op, NotConfirmed(o) PROVE Serialized'
  BY <1>10 DEF NotConfirmed, Return
<1>11. ASSUME NEW o \in Op, Acquire(o) PROVE Serialized'
  BY <1>11, NoneAssumption DEF Acquire, Goto
<1>12. ASSUME NEW o \in Op, Refuse(o) PROVE Serialized'
  BY <1>12 DEF Refuse, Return
<1>13. ASSUME NEW o \in Op, FenceLock(o) PROVE Serialized'
  BY <1>13 DEF FenceLock, Goto
<1>14. ASSUME NEW o \in Op, FenceOpen(o) PROVE Serialized'
  BY <1>14 DEF FenceOpen, Goto
<1>15. ASSUME NEW o \in Op, OpenOvertaken(o) PROVE Serialized'
  BY <1>15 DEF OpenOvertaken, Return
<1>16. ASSUME NEW o \in Op, FenceUnlock(o) PROVE Serialized'
  BY <1>16 DEF FenceUnlock, Return, UnlockOutcome
<1>17. ASSUME NEW o \in Op, FenceRotate(o) PROVE Serialized'
  BY <1>17 DEF FenceRotate, Goto
<1>18. ASSUME NEW o \in Op, FenceEnroll(o) PROVE Serialized'
  BY <1>18 DEF FenceEnroll, Goto
<1>19. ASSUME NEW o \in Op, ChangeRefused(o) PROVE Serialized'
  BY <1>19 DEF ChangeRefused, Return
<1>20. ASSUME NEW o \in Op, DropKey(o) PROVE Serialized'
  BY <1>20 DEF DropKey, Goto
<1>21. ASSUME NEW o \in Op, ClearCaches(o) PROVE Serialized'
  BY <1>21 DEF ClearCaches, Goto
<1>22. ASSUME NEW o \in Op, StopWork(o) PROVE Serialized'
  BY <1>22 DEF StopWork, Return, Goto
<1>23. ASSUME NEW o \in Op, Publish(o) PROVE Serialized'
  BY <1>23 DEF Publish, Return
<1>24. ASSUME NEW o \in Op, RotationEnds(o) PROVE Serialized'
  BY <1>24 DEF RotationEnds, Goto
<1>25. ASSUME NEW o \in Op, KeyChangeDropped(o) PROVE Serialized'
  BY <1>25 DEF KeyChangeDropped, Return
<1>26. ASSUME NEW o \in Op, EnrollmentDropped(o) PROVE Serialized'
  BY <1>26 DEF EnrollmentDropped, Return
<1>27. ASSUME NEW a \in App, SelfLock(a) PROVE Serialized'
  BY <1>27 DEF SelfLock
<1>28. CASE UNCHANGED <<boundary, opVars>>
  BY <1>28
<1> QED
  BY <1>1, <1>2, <1>3, <1>4, <1>5, <1>6, <1>7, <1>8, <1>9, <1>10, <1>11, <1>12, <1>13, <1>14,
     <1>15, <1>16, <1>17, <1>18, <1>19, <1>20, <1>21, <1>22, <1>23, <1>24, <1>25, <1>26, <1>27,
     <1>28, WorkKeepsBoundary
  DEF Next, OpBegins, OpSteps, vars

\* Every step keeps the keys confined.
LEMMA KeyConfinedStep ==
    ASSUME TypeOK, Staged, KeyConfined, [Next]_vars
    PROVE  KeyConfined'
<1> USE DEF TypeOK, OpPc, OpKind, LockKind, boundary, opVars, Staged, KeyConfined
<1>1. ASSUME NEW o \in Op, BeginLock(o) PROVE KeyConfined'
  BY <1>1 DEF BeginLock, Goto
<1>2. ASSUME NEW o \in Op, BeginLockIfCurrent(o) PROVE KeyConfined'
  BY <1>2 DEF BeginLockIfCurrent, Goto
<1>3. ASSUME NEW o \in Op, BeginLockIntegrity(o) PROVE KeyConfined'
  BY <1>3 DEF BeginLockIntegrity, Goto
<1>4. ASSUME NEW o \in Op, BeginUnlock(o) PROVE KeyConfined'
  BY <1>4 DEF BeginUnlock, Goto
<1>5. ASSUME NEW o \in Op, BeginRotate(o) PROVE KeyConfined'
  BY <1>5 DEF BeginRotate, Goto
<1>6. ASSUME NEW o \in Op, BeginEnroll(o) PROVE KeyConfined'
  BY <1>6 DEF BeginEnroll, Goto
<1>7. ASSUME NEW o \in Op, ChooseUnlock(o) PROVE KeyConfined'
  BY <1>7 DEF ChooseUnlock, Goto
<1>8. ASSUME NEW o \in Op, ChooseOpen(o) PROVE KeyConfined'
  BY <1>8 DEF ChooseOpen, Goto, Unreferenced
<1>9. ASSUME NEW o \in Op, DeriveFails(o) PROVE KeyConfined'
  BY <1>9 DEF DeriveFails, Return
<1>10. ASSUME NEW o \in Op, NotConfirmed(o) PROVE KeyConfined'
  BY <1>10 DEF NotConfirmed, Return
<1>11. ASSUME NEW o \in Op, Acquire(o) PROVE KeyConfined'
  BY <1>11 DEF Acquire, Goto
<1>12. ASSUME NEW o \in Op, Refuse(o) PROVE KeyConfined'
  BY <1>12 DEF Refuse, Return
<1>13. ASSUME NEW o \in Op, FenceLock(o) PROVE KeyConfined'
  BY <1>13 DEF FenceLock, Goto
<1>14. ASSUME NEW o \in Op, FenceOpen(o) PROVE KeyConfined'
  BY <1>14 DEF FenceOpen, Goto
<1>15. ASSUME NEW o \in Op, OpenOvertaken(o) PROVE KeyConfined'
  BY <1>15 DEF OpenOvertaken, Return
<1>16. ASSUME NEW o \in Op, FenceUnlock(o) PROVE KeyConfined'
  <2>1. \A a \in App : key'[a] => key[a] \/ a = app
    BY <1>16, ZenonT(60) DEF FenceUnlock, UnlockOutcome
  <2>2. opPc[o] = "gate" /\ opKind[o] = "unlock" /\ Return(o) /\ UNCHANGED <<app, keyChange>>
    BY <1>16 DEF FenceUnlock, Return
  <2> QED
    BY <2>1, <2>2 DEF Return
<1>17. ASSUME NEW o \in Op, FenceRotate(o) PROVE KeyConfined'
  BY <1>17 DEF FenceRotate, Goto
<1>18. ASSUME NEW o \in Op, FenceEnroll(o) PROVE KeyConfined'
  BY <1>18 DEF FenceEnroll, Goto
<1>19. ASSUME NEW o \in Op, ChangeRefused(o) PROVE KeyConfined'
  BY <1>19 DEF ChangeRefused, Return
<1>20. ASSUME NEW o \in Op, DropKey(o) PROVE KeyConfined'
  <2>1. \A a \in App : key'[a] => key[a] /\ a # opOld[o]
    BY <1>20 DEF DropKey
  <2>2. opPc[o] = "store" /\ Goto(o, "caches") /\ UNCHANGED <<app, opKind, opApp, opOld>>
    BY <1>20 DEF DropKey
  <2> QED
    BY <2>1, <2>2 DEF Goto
<1>21. ASSUME NEW o \in Op, ClearCaches(o) PROVE KeyConfined'
  BY <1>21 DEF ClearCaches, Goto
<1>22. ASSUME NEW o \in Op, StopWork(o) PROVE KeyConfined'
  BY <1>22 DEF StopWork, Return, Goto
<1>23. ASSUME NEW o \in Op, Publish(o) PROVE KeyConfined'
  BY <1>23 DEF Publish, Return
<1>24. ASSUME NEW o \in Op, RotationEnds(o) PROVE KeyConfined'
  BY <1>24 DEF RotationEnds, Goto
<1>25. ASSUME NEW o \in Op, KeyChangeDropped(o) PROVE KeyConfined'
  BY <1>25 DEF KeyChangeDropped, Return
<1>26. ASSUME NEW o \in Op, EnrollmentDropped(o) PROVE KeyConfined'
  BY <1>26 DEF EnrollmentDropped, Return
<1>27. ASSUME NEW a \in App, SelfLock(a) PROVE KeyConfined'
  BY <1>27 DEF SelfLock
<1>28. CASE UNCHANGED <<boundary, opVars>>
  BY <1>28
<1> QED
  BY <1>1, <1>2, <1>3, <1>4, <1>5, <1>6, <1>7, <1>8, <1>9, <1>10, <1>11, <1>12, <1>13, <1>14,
     <1>15, <1>16, <1>17, <1>18, <1>19, <1>20, <1>21, <1>22, <1>23, <1>24, <1>25, <1>26, <1>27,
     <1>28, WorkKeepsBoundary
  DEF Next, OpBegins, OpSteps, vars

\* Every step keeps credential changes exclusive.
LEMMA OneChangeStep ==
    ASSUME TypeOK, Staged, Serialized, OneChange, [Next]_vars
    PROVE  OneChange'
<1> USE DEF TypeOK, OpPc, OpKind, LockKind, boundary, opVars, Staged, Serialized, OneChange, Changing, Cleanup, PassesTransition
<1>1. ASSUME NEW o \in Op, BeginLock(o) PROVE OneChange'
  BY <1>1 DEF BeginLock, Goto
<1>2. ASSUME NEW o \in Op, BeginLockIfCurrent(o) PROVE OneChange'
  BY <1>2 DEF BeginLockIfCurrent, Goto
<1>3. ASSUME NEW o \in Op, BeginLockIntegrity(o) PROVE OneChange'
  BY <1>3 DEF BeginLockIntegrity, Goto
<1>4. ASSUME NEW o \in Op, BeginUnlock(o) PROVE OneChange'
  BY <1>4 DEF BeginUnlock, Goto
<1>5. ASSUME NEW o \in Op, BeginRotate(o) PROVE OneChange'
  BY <1>5 DEF BeginRotate, Goto
<1>6. ASSUME NEW o \in Op, BeginEnroll(o) PROVE OneChange'
  BY <1>6 DEF BeginEnroll, Goto
<1>7. ASSUME NEW o \in Op, ChooseUnlock(o) PROVE OneChange'
  BY <1>7 DEF ChooseUnlock, Goto
<1>8. ASSUME NEW o \in Op, ChooseOpen(o) PROVE OneChange'
  BY <1>8 DEF ChooseOpen, Goto, Unreferenced
<1>9. ASSUME NEW o \in Op, DeriveFails(o) PROVE OneChange'
  BY <1>9 DEF DeriveFails, Return
<1>10. ASSUME NEW o \in Op, NotConfirmed(o) PROVE OneChange'
  BY <1>10 DEF NotConfirmed, Return
<1>11. ASSUME NEW o \in Op, Acquire(o) PROVE OneChange'
  BY <1>11 DEF Acquire, Goto
<1>12. ASSUME NEW o \in Op, Refuse(o) PROVE OneChange'
  BY <1>12 DEF Refuse, Return
<1>13. ASSUME NEW o \in Op, FenceLock(o) PROVE OneChange'
  BY <1>13 DEF FenceLock, Goto
<1>14. ASSUME NEW o \in Op, FenceOpen(o) PROVE OneChange'
  BY <1>14 DEF FenceOpen, Goto
<1>15. ASSUME NEW o \in Op, OpenOvertaken(o) PROVE OneChange'
  BY <1>15 DEF OpenOvertaken, Return
<1>16. ASSUME NEW o \in Op, FenceUnlock(o) PROVE OneChange'
  <2>1. gate' => gate \/ ~keyChange
    BY <1>16 DEF FenceUnlock, UnlockOutcome
  <2>2. opPc[o] = "gate" /\ opKind[o] = "unlock" /\ Return(o) /\ UNCHANGED <<app, keyChange>>
    BY <1>16 DEF FenceUnlock, Return
  <2> QED
    BY <2>1, <2>2 DEF Return
<1>17. ASSUME NEW o \in Op, FenceRotate(o) PROVE OneChange'
  BY <1>17 DEF FenceRotate, Goto
<1>18. ASSUME NEW o \in Op, FenceEnroll(o) PROVE OneChange'
  BY <1>18 DEF FenceEnroll, Goto
<1>19. ASSUME NEW o \in Op, ChangeRefused(o) PROVE OneChange'
  BY <1>19 DEF ChangeRefused, Return
<1>20. ASSUME NEW o \in Op, DropKey(o) PROVE OneChange'
  BY <1>20 DEF DropKey, Goto
<1>21. ASSUME NEW o \in Op, ClearCaches(o) PROVE OneChange'
  BY <1>21 DEF ClearCaches, Goto
<1>22. ASSUME NEW o \in Op, StopWork(o) PROVE OneChange'
  BY <1>22 DEF StopWork, Return, Goto
<1>23. ASSUME NEW o \in Op, Publish(o) PROVE OneChange'
  BY <1>23 DEF Publish, Return
<1>24. ASSUME NEW o \in Op, RotationEnds(o) PROVE OneChange'
  BY <1>24 DEF RotationEnds, Goto
<1>25. ASSUME NEW o \in Op, KeyChangeDropped(o) PROVE OneChange'
  BY <1>25 DEF KeyChangeDropped, Return
<1>26. ASSUME NEW o \in Op, EnrollmentDropped(o) PROVE OneChange'
  BY <1>26 DEF EnrollmentDropped, Return
<1>27. ASSUME NEW a \in App, SelfLock(a) PROVE OneChange'
  BY <1>27 DEF SelfLock
<1>28. CASE UNCHANGED <<boundary, opVars>>
  BY <1>28
<1> QED
  BY <1>1, <1>2, <1>3, <1>4, <1>5, <1>6, <1>7, <1>8, <1>9, <1>10, <1>11, <1>12, <1>13, <1>14,
     <1>15, <1>16, <1>17, <1>18, <1>19, <1>20, <1>21, <1>22, <1>23, <1>24, <1>25, <1>26, <1>27,
     <1>28, WorkKeepsBoundary
  DEF Next, OpBegins, OpSteps, vars

\* Every step keeps a rotation on the published profile, with delivery closed.
LEMMA RotationStep ==
    ASSUME TypeOK, Staged, Serialized, OneChange, RotationExclusive, [Next]_vars
    PROVE  RotationExclusive'
<1> USE DEF TypeOK, OpPc, OpKind, LockKind, boundary, opVars, Staged, Serialized, OneChange, Changing, Cleanup, RotationExclusive
<1>1. ASSUME NEW o \in Op, BeginLock(o) PROVE RotationExclusive'
  BY <1>1 DEF BeginLock, Goto
<1>2. ASSUME NEW o \in Op, BeginLockIfCurrent(o) PROVE RotationExclusive'
  BY <1>2 DEF BeginLockIfCurrent, Goto
<1>3. ASSUME NEW o \in Op, BeginLockIntegrity(o) PROVE RotationExclusive'
  BY <1>3 DEF BeginLockIntegrity, Goto
<1>4. ASSUME NEW o \in Op, BeginUnlock(o) PROVE RotationExclusive'
  BY <1>4 DEF BeginUnlock, Goto
<1>5. ASSUME NEW o \in Op, BeginRotate(o) PROVE RotationExclusive'
  BY <1>5 DEF BeginRotate, Goto
<1>6. ASSUME NEW o \in Op, BeginEnroll(o) PROVE RotationExclusive'
  BY <1>6 DEF BeginEnroll, Goto
<1>7. ASSUME NEW o \in Op, ChooseUnlock(o) PROVE RotationExclusive'
  BY <1>7 DEF ChooseUnlock, Goto
<1>8. ASSUME NEW o \in Op, ChooseOpen(o) PROVE RotationExclusive'
  BY <1>8 DEF ChooseOpen, Goto, Unreferenced
<1>9. ASSUME NEW o \in Op, DeriveFails(o) PROVE RotationExclusive'
  BY <1>9 DEF DeriveFails, Return
<1>10. ASSUME NEW o \in Op, NotConfirmed(o) PROVE RotationExclusive'
  BY <1>10 DEF NotConfirmed, Return
<1>11. ASSUME NEW o \in Op, Acquire(o) PROVE RotationExclusive'
  BY <1>11 DEF Acquire, Goto
<1>12. ASSUME NEW o \in Op, Refuse(o) PROVE RotationExclusive'
  BY <1>12 DEF Refuse, Return
<1>13. ASSUME NEW o \in Op, FenceLock(o) PROVE RotationExclusive'
  BY <1>13 DEF FenceLock, Goto
<1>14. ASSUME NEW o \in Op, FenceOpen(o) PROVE RotationExclusive'
  BY <1>14 DEF FenceOpen, Goto
<1>15. ASSUME NEW o \in Op, OpenOvertaken(o) PROVE RotationExclusive'
  BY <1>15 DEF OpenOvertaken, Return
<1>16. ASSUME NEW o \in Op, FenceUnlock(o) PROVE RotationExclusive'
  BY <1>16 DEF FenceUnlock, Return, UnlockOutcome
<1>17. ASSUME NEW o \in Op, FenceRotate(o) PROVE RotationExclusive'
  BY <1>17 DEF FenceRotate, Goto
<1>18. ASSUME NEW o \in Op, FenceEnroll(o) PROVE RotationExclusive'
  BY <1>18 DEF FenceEnroll, Goto
<1>19. ASSUME NEW o \in Op, ChangeRefused(o) PROVE RotationExclusive'
  BY <1>19 DEF ChangeRefused, Return
<1>20. ASSUME NEW o \in Op, DropKey(o) PROVE RotationExclusive'
  BY <1>20 DEF DropKey, Goto
<1>21. ASSUME NEW o \in Op, ClearCaches(o) PROVE RotationExclusive'
  BY <1>21 DEF ClearCaches, Goto
<1>22. ASSUME NEW o \in Op, StopWork(o) PROVE RotationExclusive'
  BY <1>22 DEF StopWork, Return, Goto
<1>23. ASSUME NEW o \in Op, Publish(o) PROVE RotationExclusive'
  BY <1>23 DEF Publish, Return
<1>24. ASSUME NEW o \in Op, RotationEnds(o) PROVE RotationExclusive'
  BY <1>24 DEF RotationEnds, Goto
<1>25. ASSUME NEW o \in Op, KeyChangeDropped(o) PROVE RotationExclusive'
  BY <1>25 DEF KeyChangeDropped, Return
<1>26. ASSUME NEW o \in Op, EnrollmentDropped(o) PROVE RotationExclusive'
  BY <1>26 DEF EnrollmentDropped, Return
<1>27. ASSUME NEW a \in App, SelfLock(a) PROVE RotationExclusive'
  BY <1>27 DEF SelfLock
<1>28. CASE UNCHANGED <<boundary, opVars>>
  BY <1>28
<1> QED
  BY <1>1, <1>2, <1>3, <1>4, <1>5, <1>6, <1>7, <1>8, <1>9, <1>10, <1>11, <1>12, <1>13, <1>14,
     <1>15, <1>16, <1>17, <1>18, <1>19, <1>20, <1>21, <1>22, <1>23, <1>24, <1>25, <1>26, <1>27,
     <1>28, WorkKeepsBoundary
  DEF Next, OpBegins, OpSteps, vars

\* Every step keeps the key gone where a cleanup has dropped it.
LEMMA LockedStagesStep ==
    ASSUME TypeOK, Staged, Serialized, OneChange, RotationExclusive, LockedStages, AtRest, [Next]_vars
    PROVE  LockedStages'
<1> USE DEF TypeOK, OpPc, OpKind, LockKind, boundary, opVars, Staged, Serialized, OneChange, Changing, Cleanup, RotationExclusive, LockedStages, AppLocked, AtRest
<1>1. ASSUME NEW o \in Op, BeginLock(o) PROVE LockedStages'
  BY <1>1 DEF BeginLock, Goto
<1>2. ASSUME NEW o \in Op, BeginLockIfCurrent(o) PROVE LockedStages'
  BY <1>2 DEF BeginLockIfCurrent, Goto
<1>3. ASSUME NEW o \in Op, BeginLockIntegrity(o) PROVE LockedStages'
  BY <1>3 DEF BeginLockIntegrity, Goto
<1>4. ASSUME NEW o \in Op, BeginUnlock(o) PROVE LockedStages'
  BY <1>4 DEF BeginUnlock, Goto
<1>5. ASSUME NEW o \in Op, BeginRotate(o) PROVE LockedStages'
  BY <1>5 DEF BeginRotate, Goto
<1>6. ASSUME NEW o \in Op, BeginEnroll(o) PROVE LockedStages'
  BY <1>6 DEF BeginEnroll, Goto
<1>7. ASSUME NEW o \in Op, ChooseUnlock(o) PROVE LockedStages'
  BY <1>7 DEF ChooseUnlock, Goto
<1>8. ASSUME NEW o \in Op, ChooseOpen(o) PROVE LockedStages'
  BY <1>8 DEF ChooseOpen, Goto, Unreferenced
<1>9. ASSUME NEW o \in Op, DeriveFails(o) PROVE LockedStages'
  BY <1>9 DEF DeriveFails, Return
<1>10. ASSUME NEW o \in Op, NotConfirmed(o) PROVE LockedStages'
  BY <1>10 DEF NotConfirmed, Return
<1>11. ASSUME NEW o \in Op, Acquire(o) PROVE LockedStages'
  BY <1>11 DEF Acquire, Goto
<1>12. ASSUME NEW o \in Op, Refuse(o) PROVE LockedStages'
  BY <1>12 DEF Refuse, Return
<1>13. ASSUME NEW o \in Op, FenceLock(o) PROVE LockedStages'
  BY <1>13 DEF FenceLock, Goto
<1>14. ASSUME NEW o \in Op, FenceOpen(o) PROVE LockedStages'
  BY <1>14 DEF FenceOpen, Goto
<1>15. ASSUME NEW o \in Op, OpenOvertaken(o) PROVE LockedStages'
  BY <1>15 DEF OpenOvertaken, Return
<1>16. ASSUME NEW o \in Op, FenceUnlock(o) PROVE LockedStages'
  BY <1>16, ZenonT(60) DEF FenceUnlock, Return, UnlockOutcome
<1>17. ASSUME NEW o \in Op, FenceRotate(o) PROVE LockedStages'
  BY <1>17 DEF FenceRotate, Goto
<1>18. ASSUME NEW o \in Op, FenceEnroll(o) PROVE LockedStages'
  BY <1>18 DEF FenceEnroll, Goto
<1>19. ASSUME NEW o \in Op, ChangeRefused(o) PROVE LockedStages'
  BY <1>19 DEF ChangeRefused, Return
<1>20. ASSUME NEW o \in Op, DropKey(o) PROVE LockedStages'
  BY <1>20 DEF DropKey, Goto
<1>21. ASSUME NEW o \in Op, ClearCaches(o) PROVE LockedStages'
  BY <1>21 DEF ClearCaches, Goto
<1>22. ASSUME NEW o \in Op, StopWork(o) PROVE LockedStages'
  BY <1>22 DEF StopWork, Return, Goto
<1>23. ASSUME NEW o \in Op, Publish(o) PROVE LockedStages'
  BY <1>23 DEF Publish, Return
<1>24. ASSUME NEW o \in Op, RotationEnds(o) PROVE LockedStages'
  BY <1>24 DEF RotationEnds, Goto
<1>25. ASSUME NEW o \in Op, KeyChangeDropped(o) PROVE LockedStages'
  BY <1>25 DEF KeyChangeDropped, Return
<1>26. ASSUME NEW o \in Op, EnrollmentDropped(o) PROVE LockedStages'
  BY <1>26 DEF EnrollmentDropped, Return
<1>27. ASSUME NEW a \in App, SelfLock(a) PROVE LockedStages'
  BY <1>27 DEF SelfLock
<1>28. CASE UNCHANGED <<boundary, opVars>>
  BY <1>28
<1> QED
  BY <1>1, <1>2, <1>3, <1>4, <1>5, <1>6, <1>7, <1>8, <1>9, <1>10, <1>11, <1>12, <1>13, <1>14,
     <1>15, <1>16, <1>17, <1>18, <1>19, <1>20, <1>21, <1>22, <1>23, <1>24, <1>25, <1>26, <1>27,
     <1>28, WorkKeepsBoundary
  DEF Next, OpBegins, OpSteps, vars

\* Every step leaves a closed boundary with the key gone.
LEMMA AtRestStep ==
    ASSUME TypeOK, Staged, Serialized, OneChange, RotationExclusive, LockedStages, AtRest, [Next]_vars
    PROVE  AtRest'
<1> USE DEF TypeOK, OpPc, OpKind, LockKind, boundary, opVars, Staged, Serialized, OneChange, Changing, Cleanup, RotationExclusive, LockedStages, AppLocked, AtRest
<1>1. ASSUME NEW o \in Op, BeginLock(o) PROVE AtRest'
  BY <1>1 DEF BeginLock, Goto
<1>2. ASSUME NEW o \in Op, BeginLockIfCurrent(o) PROVE AtRest'
  BY <1>2 DEF BeginLockIfCurrent, Goto
<1>3. ASSUME NEW o \in Op, BeginLockIntegrity(o) PROVE AtRest'
  BY <1>3 DEF BeginLockIntegrity, Goto
<1>4. ASSUME NEW o \in Op, BeginUnlock(o) PROVE AtRest'
  BY <1>4 DEF BeginUnlock, Goto
<1>5. ASSUME NEW o \in Op, BeginRotate(o) PROVE AtRest'
  BY <1>5 DEF BeginRotate, Goto
<1>6. ASSUME NEW o \in Op, BeginEnroll(o) PROVE AtRest'
  BY <1>6 DEF BeginEnroll, Goto
<1>7. ASSUME NEW o \in Op, ChooseUnlock(o) PROVE AtRest'
  BY <1>7 DEF ChooseUnlock, Goto
<1>8. ASSUME NEW o \in Op, ChooseOpen(o) PROVE AtRest'
  BY <1>8 DEF ChooseOpen, Goto, Unreferenced
<1>9. ASSUME NEW o \in Op, DeriveFails(o) PROVE AtRest'
  BY <1>9 DEF DeriveFails, Return
<1>10. ASSUME NEW o \in Op, NotConfirmed(o) PROVE AtRest'
  BY <1>10 DEF NotConfirmed, Return
<1>11. ASSUME NEW o \in Op, Acquire(o) PROVE AtRest'
  BY <1>11 DEF Acquire, Goto
<1>12. ASSUME NEW o \in Op, Refuse(o) PROVE AtRest'
  BY <1>12 DEF Refuse, Return
<1>13. ASSUME NEW o \in Op, FenceLock(o) PROVE AtRest'
  BY <1>13 DEF FenceLock, Goto
<1>14. ASSUME NEW o \in Op, FenceOpen(o) PROVE AtRest'
  BY <1>14 DEF FenceOpen, Goto
<1>15. ASSUME NEW o \in Op, OpenOvertaken(o) PROVE AtRest'
  BY <1>15 DEF OpenOvertaken, Return
<1>16. ASSUME NEW o \in Op, FenceUnlock(o) PROVE AtRest'
  <2>1. opPc[o] = "gate" /\ opPc' = [opPc EXCEPT ![o] = "idle"] /\ UNCHANGED <<app, keyChange>>
    BY <1>16 DEF FenceUnlock, Return
  <2>2. CASE UNCHANGED <<gate, key>>
    BY <2>1, <2>2
  <2>3. CASE ~UNCHANGED <<gate, key>>
    <3>1. PICK k \in UnlockOutcome : key' = [key EXCEPT ![app] = k] /\ gate' = k
      BY <1>16, <2>3 DEF FenceUnlock
    <3>2. ~gate' => ~k
      BY <3>1
    <3> QED
      BY <2>1, <3>1, <3>2
  <2> QED
    BY <2>2, <2>3
<1>17. ASSUME NEW o \in Op, FenceRotate(o) PROVE AtRest'
  BY <1>17 DEF FenceRotate, Goto
<1>18. ASSUME NEW o \in Op, FenceEnroll(o) PROVE AtRest'
  BY <1>18 DEF FenceEnroll, Goto
<1>19. ASSUME NEW o \in Op, ChangeRefused(o) PROVE AtRest'
  BY <1>19 DEF ChangeRefused, Return
<1>20. ASSUME NEW o \in Op, DropKey(o) PROVE AtRest'
  BY <1>20 DEF DropKey, Goto
<1>21. ASSUME NEW o \in Op, ClearCaches(o) PROVE AtRest'
  BY <1>21 DEF ClearCaches, Goto
<1>22. ASSUME NEW o \in Op, StopWork(o) PROVE AtRest'
  BY <1>22 DEF StopWork, Return, Goto
<1>23. ASSUME NEW o \in Op, Publish(o) PROVE AtRest'
  BY <1>23 DEF Publish, Return
<1>24. ASSUME NEW o \in Op, RotationEnds(o) PROVE AtRest'
  BY <1>24 DEF RotationEnds, Goto
<1>25. ASSUME NEW o \in Op, KeyChangeDropped(o) PROVE AtRest'
  BY <1>25 DEF KeyChangeDropped, Return
<1>26. ASSUME NEW o \in Op, EnrollmentDropped(o) PROVE AtRest'
  BY <1>26 DEF EnrollmentDropped, Return
<1>27. ASSUME NEW a \in App, SelfLock(a) PROVE AtRest'
  BY <1>27 DEF SelfLock
<1>28. CASE UNCHANGED <<boundary, opVars>>
  BY <1>28
<1> QED
  BY <1>1, <1>2, <1>3, <1>4, <1>5, <1>6, <1>7, <1>8, <1>9, <1>10, <1>11, <1>12, <1>13, <1>14,
     <1>15, <1>16, <1>17, <1>18, <1>19, <1>20, <1>21, <1>22, <1>23, <1>24, <1>25, <1>26, <1>27,
     <1>28, WorkKeepsBoundary
  DEF Next, OpBegins, OpSteps, vars

\* Every step keeps the deliveries in progress fenced.
LEMMA DeliveryFencedStep ==
    ASSUME TypeOK, Staged, Serialized, DeliveryFenced, [Next]_vars
    PROVE  DeliveryFenced'
<1> USE DEF TypeOK, OpPc, OpKind, LockKind, boundary, opVars, workVars, WorkPc, Staged, Serialized, DeliveryFenced, Cleanup, NoReaders, Delivering, Valid
<1>1. ASSUME NEW o \in Op, BeginLock(o) PROVE DeliveryFenced'
  BY <1>1 DEF BeginLock, Goto
<1>2. ASSUME NEW o \in Op, BeginLockIfCurrent(o) PROVE DeliveryFenced'
  BY <1>2 DEF BeginLockIfCurrent, Goto
<1>3. ASSUME NEW o \in Op, BeginLockIntegrity(o) PROVE DeliveryFenced'
  BY <1>3 DEF BeginLockIntegrity, Goto
<1>4. ASSUME NEW o \in Op, BeginUnlock(o) PROVE DeliveryFenced'
  BY <1>4 DEF BeginUnlock, Goto
<1>5. ASSUME NEW o \in Op, BeginRotate(o) PROVE DeliveryFenced'
  BY <1>5 DEF BeginRotate, Goto
<1>6. ASSUME NEW o \in Op, BeginEnroll(o) PROVE DeliveryFenced'
  BY <1>6 DEF BeginEnroll, Goto
<1>7. ASSUME NEW o \in Op, ChooseUnlock(o) PROVE DeliveryFenced'
  BY <1>7 DEF ChooseUnlock, Goto
<1>8. ASSUME NEW o \in Op, ChooseOpen(o) PROVE DeliveryFenced'
  BY <1>8 DEF ChooseOpen, Goto, Unreferenced
<1>9. ASSUME NEW o \in Op, DeriveFails(o) PROVE DeliveryFenced'
  BY <1>9 DEF DeriveFails, Return
<1>10. ASSUME NEW o \in Op, NotConfirmed(o) PROVE DeliveryFenced'
  BY <1>10 DEF NotConfirmed, Return
<1>11. ASSUME NEW o \in Op, Acquire(o) PROVE DeliveryFenced'
  BY <1>11 DEF Acquire, Goto
<1>12. ASSUME NEW o \in Op, Refuse(o) PROVE DeliveryFenced'
  BY <1>12 DEF Refuse, Return
<1>13. ASSUME NEW o \in Op, FenceLock(o) PROVE DeliveryFenced'
  BY <1>13 DEF FenceLock, Goto
<1>14. ASSUME NEW o \in Op, FenceOpen(o) PROVE DeliveryFenced'
  BY <1>14 DEF FenceOpen, Goto
<1>15. ASSUME NEW o \in Op, OpenOvertaken(o) PROVE DeliveryFenced'
  BY <1>15 DEF OpenOvertaken, Return
<1>16. ASSUME NEW o \in Op, FenceUnlock(o) PROVE DeliveryFenced'
  BY <1>16 DEF FenceUnlock, Return, UnlockOutcome
<1>17. ASSUME NEW o \in Op, FenceRotate(o) PROVE DeliveryFenced'
  BY <1>17 DEF FenceRotate, Goto
<1>18. ASSUME NEW o \in Op, FenceEnroll(o) PROVE DeliveryFenced'
  BY <1>18 DEF FenceEnroll, Goto
<1>19. ASSUME NEW o \in Op, ChangeRefused(o) PROVE DeliveryFenced'
  BY <1>19 DEF ChangeRefused, Return
<1>20. ASSUME NEW o \in Op, DropKey(o) PROVE DeliveryFenced'
  BY <1>20 DEF DropKey, Goto
<1>21. ASSUME NEW o \in Op, ClearCaches(o) PROVE DeliveryFenced'
  BY <1>21 DEF ClearCaches, Goto
<1>22. ASSUME NEW o \in Op, StopWork(o) PROVE DeliveryFenced'
  BY <1>22 DEF StopWork, Return, Goto
<1>23. ASSUME NEW o \in Op, Publish(o) PROVE DeliveryFenced'
  BY <1>23 DEF Publish, Return
<1>24. ASSUME NEW o \in Op, RotationEnds(o) PROVE DeliveryFenced'
  BY <1>24 DEF RotationEnds, Goto
<1>25. ASSUME NEW o \in Op, KeyChangeDropped(o) PROVE DeliveryFenced'
  BY <1>25 DEF KeyChangeDropped, Return
<1>26. ASSUME NEW o \in Op, EnrollmentDropped(o) PROVE DeliveryFenced'
  BY <1>26 DEF EnrollmentDropped, Return
<1>27. ASSUME NEW a \in App, SelfLock(a) PROVE DeliveryFenced'
  BY <1>27 DEF SelfLock
<1>28. ASSUME NEW w \in Work, Admit(w) PROVE DeliveryFenced'
  BY <1>28 DEF Admit
<1>29. ASSUME NEW w \in Work, Register(w) PROVE DeliveryFenced'
  BY <1>29 DEF Register
<1>30. ASSUME NEW w \in Work, CheckPayload(w) PROVE DeliveryFenced'
  BY <1>30 DEF CheckPayload, Retire
<1>31. ASSUME NEW w \in Work, EnterCache(w) PROVE DeliveryFenced'
  BY <1>31 DEF EnterCache
<1>32. ASSUME NEW w \in Work, Deliver(w) PROVE DeliveryFenced'
  BY <1>32 DEF Deliver
<1>33. ASSUME NEW w \in Work, DeliverRefused(w) PROVE DeliveryFenced'
  BY <1>33 DEF DeliverRefused
<1>34. ASSUME NEW w \in Work, Delivered(w) PROVE DeliveryFenced'
  BY <1>34 DEF Delivered
<1>35. ASSUME NEW w \in Work, LeaveCache(w) PROVE DeliveryFenced'
  BY <1>35 DEF LeaveCache
<1>36. ASSUME NEW w \in Work, CancelExecution(w) PROVE DeliveryFenced'
  BY <1>36 DEF CancelExecution
<1>37. ASSUME NEW w \in Work, Finish(w) PROVE DeliveryFenced'
  BY <1>37 DEF Finish, Retire
<1>38. ASSUME NEW w \in Work, Reply(w) PROVE DeliveryFenced'
  BY <1>38 DEF Reply
<1>39. ASSUME NEW w \in Work, Answered(w) PROVE DeliveryFenced'
  BY <1>39 DEF Answered, Ends
<1>40. ASSUME NEW w \in Work, ReplyLocked(w) PROVE DeliveryFenced'
  BY <1>40 DEF ReplyLocked, Ends
<1>41. CASE UNCHANGED vars
  BY <1>41 DEF vars
<1> QED
  BY <1>1, <1>2, <1>3, <1>4, <1>5, <1>6, <1>7, <1>8, <1>9, <1>10, <1>11, <1>12, <1>13, <1>14,
     <1>15, <1>16, <1>17, <1>18, <1>19, <1>20, <1>21, <1>22, <1>23, <1>24, <1>25, <1>26, <1>27,
     <1>28, <1>29, <1>30, <1>31, <1>32, <1>33, <1>34, <1>35, <1>36, <1>37, <1>38, <1>39, <1>40,
     <1>41
  DEF Next, OpBegins, OpSteps, WorkSteps

\* Every step of every thread preserves the inductive invariant.
LEMMA IndInvStep == IndInv /\ [Next]_vars => IndInv'
BY TypeStep, StagedStep, SerializedStep, DeliveryFencedStep, KeyConfinedStep, OneChangeStep,
   RotationStep, LockedStagesStep, AtRestStep DEF IndInv

\* The inductive invariant holds in every behaviour.
LEMMA Invariance == Spec => []IndInv
BY InitInv, IndInvStep, PTL DEF Spec

\* No lock, unlock, publication or credential change moves the boundary while
\* a payload is being enqueued by deliver_payload.
THEOREM DeliveryIsFenced == Spec => []DeliveryFenced
BY Invariance, PTL DEF IndInv

\* A profile that was switched away from, or whose opening set_app_since
\* refused, holds no key in memory.
THEOREM KeysAreConfined == Spec => []KeyConfined
BY Invariance, PTL DEF IndInv

\* From begin_key_change until KeyChange is dropped nothing opens delivery or
\* publishes another profile.
THEOREM RotationIsExclusive == Spec => []RotationExclusive
BY Invariance, PTL DEF IndInv

\* When delivery is closed and no boundary operation is under way, the
\* published profile's store holds no key.
THEOREM ClosedProfileIsLocked == Spec => []ClosedMeansLocked
<1>1. IndInv => ClosedMeansLocked
  BY NoneAssumption DEF IndInv, Serialized, AtRest, AppLocked, ClosedMeansLocked, Cleanup
<1> QED
  BY <1>1, Invariance, PTL

----------------------------------------------------------------------------
(* Stale work is stopped.  With store faults it need not be: an unlock of  *)
(* the open profile that fails closes delivery without stopping its work   *)
(* and without moving the epoch, and an enrollment then moves the epoch    *)
(* over work that nobody cancelled.  Without them an unlock never closes   *)
(* delivery that was open, because an open profile holds its key; that is  *)
(* the first half of the invariant.                                        *)

\* Between its opening and its fence.
Opening(o) == opKind[o] = "open" /\ opPc[o] \in {"wait", "gate"}

\* A profile that is being opened is nobody else's.
Private ==
    \A o \in Op : Opening(o) =>
        /\ opApp[o] \in App \ {app}
        /\ \A p \in Op : opOld[p] # opApp[o]
        /\ \A p \in Op : Opening(p) /\ p # o => opApp[p] # opApp[o]

\* It keeps its key until it is published, and as published.
HeldKey ==
    \A o \in Op :
        /\ Opening(o) => key[opApp[o]]
        /\ opKind[o] = "open" /\ opPc[o] \in Cleanup => app # NoApp /\ key[app] /\ opOld[o] # app

\* An open profile holds its key.
OpenKeyed == gate => app # NoApp /\ key[app]

\* Started, and past the check that starting ends with.
PastCheck == {"running", "callback", "delivering", "leaving"}

\* A started attempt is in the registry until it is cancelled, and once
\* delivery closes or the epoch moves it is cancelled or about to be.
Stopped ==
    \A w \in Work :
        /\ wPc[w] \in PastCheck \cup {"registered"} => w \in running \/ cancelled[w]
        /\ wPc[w] \in PastCheck /\ (~gate \/ wEpoch[w] # epoch) =>
              cancelled[w] \/ \E o \in Op : opPc[o] \in {"store", "caches", "stop"} /\ w \in running

StaleInv == Private /\ HeldKey /\ OpenKeyed /\ Stopped

\* An unlock that is no fault takes no key away, and delivery follows the
\* key of the published profile.
LEMMA UnlockEffect ==
    ASSUME ~faulted', TypeOK, NEW o \in Op, FenceUnlock(o)
    PROVE  /\ \A a \in App : key[a] => key'[a]
           /\ gate' = gate \/ (app # NoApp /\ gate' = key'[app])
           /\ opPc[o] = "gate" /\ opKind[o] = "unlock" /\ Return(o)
           /\ UNCHANGED <<epoch, app, keyChange, workVars>>
<1>1. opPc[o] = "gate" /\ opKind[o] = "unlock" /\ Return(o) /\ UNCHANGED <<epoch, app, keyChange, workVars>>
  BY DEF FenceUnlock
<1>2. CASE UNCHANGED <<gate, key>>
  BY <1>1, <1>2
<1>3. CASE /\ app # NoApp
           /\ \E k \in BOOLEAN : /\ key' = [key EXCEPT ![app] = k] /\ gate' = k
                                 /\ faulted' = (faulted \/ (key[app] /\ ~k))
  <2>1. PICK k \in BOOLEAN : key' = [key EXCEPT ![app] = k] /\ gate' = k /\ (key[app] => k)
    BY <1>3
  <2>2. key'[app] = k /\ \A a \in App : key[a] => key'[a]
    BY <1>3, <2>1 DEF TypeOK
  <2> QED
    BY <1>1, <1>3, <2>1, <2>2
<1> QED
  BY <1>2, <1>3 DEF FenceUnlock, UnlockOutcome

\* Every step keeps the profiles being opened apart.
LEMMA PrivateStep ==
    ASSUME TypeOK, Staged, Private, [Next]_vars
    PROVE  Private'
<1> USE NoneAssumption
<1> USE DEF TypeOK, OpPc, OpKind, LockKind, boundary, opVars, Staged, Private, Opening
<1>1. ASSUME NEW o \in Op, BeginLock(o) PROVE Private'
  BY <1>1 DEF BeginLock, Goto
<1>2. ASSUME NEW o \in Op, BeginLockIfCurrent(o) PROVE Private'
  BY <1>2 DEF BeginLockIfCurrent, Goto
<1>3. ASSUME NEW o \in Op, BeginLockIntegrity(o) PROVE Private'
  BY <1>3 DEF BeginLockIntegrity, Goto
<1>4. ASSUME NEW o \in Op, BeginUnlock(o) PROVE Private'
  BY <1>4 DEF BeginUnlock, Goto
<1>5. ASSUME NEW o \in Op, BeginRotate(o) PROVE Private'
  BY <1>5 DEF BeginRotate, Goto
<1>6. ASSUME NEW o \in Op, BeginEnroll(o) PROVE Private'
  BY <1>6 DEF BeginEnroll, Goto
<1>7. ASSUME NEW o \in Op, ChooseUnlock(o) PROVE Private'
  BY <1>7 DEF ChooseUnlock, Goto
<1>8. ASSUME NEW o \in Op, ChooseOpen(o) PROVE Private'
  BY <1>8 DEF ChooseOpen, Goto, Unreferenced
<1>9. ASSUME NEW o \in Op, DeriveFails(o) PROVE Private'
  BY <1>9 DEF DeriveFails, Return
<1>10. ASSUME NEW o \in Op, NotConfirmed(o) PROVE Private'
  BY <1>10 DEF NotConfirmed, Return
<1>11. ASSUME NEW o \in Op, Acquire(o) PROVE Private'
  BY <1>11 DEF Acquire, Goto
<1>12. ASSUME NEW o \in Op, Refuse(o) PROVE Private'
  BY <1>12 DEF Refuse, Return
<1>13. ASSUME NEW o \in Op, FenceLock(o) PROVE Private'
  BY <1>13 DEF FenceLock, Goto
<1>14. ASSUME NEW o \in Op, FenceOpen(o) PROVE Private'
  BY <1>14 DEF FenceOpen, Goto
<1>15. ASSUME NEW o \in Op, OpenOvertaken(o) PROVE Private'
  BY <1>15 DEF OpenOvertaken, Return
<1>16. ASSUME NEW o \in Op, FenceUnlock(o) PROVE Private'
  BY <1>16 DEF FenceUnlock, Return, UnlockOutcome
<1>17. ASSUME NEW o \in Op, FenceRotate(o) PROVE Private'
  BY <1>17 DEF FenceRotate, Goto
<1>18. ASSUME NEW o \in Op, FenceEnroll(o) PROVE Private'
  BY <1>18 DEF FenceEnroll, Goto
<1>19. ASSUME NEW o \in Op, ChangeRefused(o) PROVE Private'
  BY <1>19 DEF ChangeRefused, Return
<1>20. ASSUME NEW o \in Op, DropKey(o) PROVE Private'
  BY <1>20 DEF DropKey, Goto
<1>21. ASSUME NEW o \in Op, ClearCaches(o) PROVE Private'
  BY <1>21 DEF ClearCaches, Goto
<1>22. ASSUME NEW o \in Op, StopWork(o) PROVE Private'
  BY <1>22 DEF StopWork, Return, Goto
<1>23. ASSUME NEW o \in Op, Publish(o) PROVE Private'
  BY <1>23 DEF Publish, Return
<1>24. ASSUME NEW o \in Op, RotationEnds(o) PROVE Private'
  BY <1>24 DEF RotationEnds, Goto
<1>25. ASSUME NEW o \in Op, KeyChangeDropped(o) PROVE Private'
  BY <1>25 DEF KeyChangeDropped, Return
<1>26. ASSUME NEW o \in Op, EnrollmentDropped(o) PROVE Private'
  BY <1>26 DEF EnrollmentDropped, Return
<1>27. ASSUME NEW a \in App, SelfLock(a) PROVE Private'
  BY <1>27 DEF SelfLock
<1>28. CASE UNCHANGED <<boundary, opVars>>
  BY <1>28
<1> QED
  BY <1>1, <1>2, <1>3, <1>4, <1>5, <1>6, <1>7, <1>8, <1>9, <1>10, <1>11, <1>12, <1>13, <1>14,
     <1>15, <1>16, <1>17, <1>18, <1>19, <1>20, <1>21, <1>22, <1>23, <1>24, <1>25, <1>26, <1>27,
     <1>28, WorkKeepsBoundary
  DEF Next, OpBegins, OpSteps, vars

\* Until a store drops its own key, every step keeps the key of an opened profile until
\* its retirement.
LEMMA HeldKeyStep ==
    ASSUME ~faulted', IndInv, Private, HeldKey, [Next]_vars
    PROVE  HeldKey'
<1>0. TypeOK /\ Staged /\ Serialized /\ OneChange /\ RotationExclusive /\ LockedStages
  BY DEF IndInv
<1> USE <1>0, NoneAssumption
<1> USE DEF TypeOK, OpPc, OpKind, LockKind, boundary, opVars, Staged, Serialized, Private, HeldKey, Opening, Cleanup
<1>1. ASSUME NEW o \in Op, BeginLock(o) PROVE HeldKey'
  BY <1>1 DEF BeginLock, Goto
<1>2. ASSUME NEW o \in Op, BeginLockIfCurrent(o) PROVE HeldKey'
  BY <1>2 DEF BeginLockIfCurrent, Goto
<1>3. ASSUME NEW o \in Op, BeginLockIntegrity(o) PROVE HeldKey'
  BY <1>3 DEF BeginLockIntegrity, Goto
<1>4. ASSUME NEW o \in Op, BeginUnlock(o) PROVE HeldKey'
  BY <1>4 DEF BeginUnlock, Goto
<1>5. ASSUME NEW o \in Op, BeginRotate(o) PROVE HeldKey'
  BY <1>5 DEF BeginRotate, Goto
<1>6. ASSUME NEW o \in Op, BeginEnroll(o) PROVE HeldKey'
  BY <1>6 DEF BeginEnroll, Goto
<1>7. ASSUME NEW o \in Op, ChooseUnlock(o) PROVE HeldKey'
  BY <1>7 DEF ChooseUnlock, Goto
<1>8. ASSUME NEW o \in Op, ChooseOpen(o) PROVE HeldKey'
  BY <1>8 DEF ChooseOpen, Goto, Unreferenced
<1>9. ASSUME NEW o \in Op, DeriveFails(o) PROVE HeldKey'
  BY <1>9 DEF DeriveFails, Return
<1>10. ASSUME NEW o \in Op, NotConfirmed(o) PROVE HeldKey'
  BY <1>10 DEF NotConfirmed, Return
<1>11. ASSUME NEW o \in Op, Acquire(o) PROVE HeldKey'
  BY <1>11 DEF Acquire, Goto
<1>12. ASSUME NEW o \in Op, Refuse(o) PROVE HeldKey'
  BY <1>12 DEF Refuse, Return
<1>13. ASSUME NEW o \in Op, FenceLock(o) PROVE HeldKey'
  BY <1>13 DEF FenceLock, Goto
<1>14. ASSUME NEW o \in Op, FenceOpen(o) PROVE HeldKey'
  BY <1>14 DEF FenceOpen, Goto
<1>15. ASSUME NEW o \in Op, OpenOvertaken(o) PROVE HeldKey'
  BY <1>15 DEF OpenOvertaken, Return
<1>16. ASSUME NEW o \in Op, FenceUnlock(o) PROVE HeldKey'
  BY <1>16, UnlockEffect DEF Return
<1>17. ASSUME NEW o \in Op, FenceRotate(o) PROVE HeldKey'
  BY <1>17 DEF FenceRotate, Goto
<1>18. ASSUME NEW o \in Op, FenceEnroll(o) PROVE HeldKey'
  BY <1>18 DEF FenceEnroll, Goto
<1>19. ASSUME NEW o \in Op, ChangeRefused(o) PROVE HeldKey'
  BY <1>19 DEF ChangeRefused, Return
<1>20. ASSUME NEW o \in Op, DropKey(o) PROVE HeldKey'
  BY <1>20 DEF DropKey, Goto
<1>21. ASSUME NEW o \in Op, ClearCaches(o) PROVE HeldKey'
  BY <1>21 DEF ClearCaches, Goto
<1>22. ASSUME NEW o \in Op, StopWork(o) PROVE HeldKey'
  BY <1>22 DEF StopWork, Return, Goto
<1>23. ASSUME NEW o \in Op, Publish(o) PROVE HeldKey'
  BY <1>23 DEF Publish, Return
<1>24. ASSUME NEW o \in Op, RotationEnds(o) PROVE HeldKey'
  <2>1. opKind[o] = "rotate" /\ opPc[o] = "held" /\ opApp[o] = app /\ keyChange
    BY <1>24 DEF RotationEnds, RotationExclusive
  <2>2. \A p \in Op : opKind[p] = "open" => opPc[p] \notin Cleanup
    BY <2>1 DEF OneChange
  <2> QED
    BY <1>24, <2>1, <2>2 DEF RotationEnds, Goto
<1>25. ASSUME NEW o \in Op, KeyChangeDropped(o) PROVE HeldKey'
  BY <1>25 DEF KeyChangeDropped, Return
<1>26. ASSUME NEW o \in Op, EnrollmentDropped(o) PROVE HeldKey'
  BY <1>26 DEF EnrollmentDropped, Return
<1>27. ASSUME NEW a \in App, SelfLock(a) PROVE HeldKey'
  BY <1>27 DEF SelfLock
<1>28. CASE UNCHANGED <<boundary, opVars>>
  BY <1>28
<1> QED
  BY <1>1, <1>2, <1>3, <1>4, <1>5, <1>6, <1>7, <1>8, <1>9, <1>10, <1>11, <1>12, <1>13, <1>14,
     <1>15, <1>16, <1>17, <1>18, <1>19, <1>20, <1>21, <1>22, <1>23, <1>24, <1>25, <1>26, <1>27,
     <1>28, WorkKeepsBoundary
  DEF Next, OpBegins, OpSteps, vars

\* Until a store drops its own key, every step keeps the key of an open profile.
LEMMA OpenKeyedStep ==
    ASSUME ~faulted', IndInv, Private, HeldKey, OpenKeyed, [Next]_vars
    PROVE  OpenKeyed'
<1>0. TypeOK /\ Staged /\ Serialized /\ OneChange /\ RotationExclusive /\ LockedStages
  BY DEF IndInv
<1> USE <1>0, NoneAssumption
<1> USE DEF TypeOK, OpPc, OpKind, LockKind, boundary, opVars, Staged, Serialized, Private, HeldKey, OpenKeyed, Opening, Cleanup
<1>1. ASSUME NEW o \in Op, BeginLock(o) PROVE OpenKeyed'
  BY <1>1 DEF BeginLock, Goto
<1>2. ASSUME NEW o \in Op, BeginLockIfCurrent(o) PROVE OpenKeyed'
  BY <1>2 DEF BeginLockIfCurrent, Goto
<1>3. ASSUME NEW o \in Op, BeginLockIntegrity(o) PROVE OpenKeyed'
  BY <1>3 DEF BeginLockIntegrity, Goto
<1>4. ASSUME NEW o \in Op, BeginUnlock(o) PROVE OpenKeyed'
  BY <1>4 DEF BeginUnlock, Goto
<1>5. ASSUME NEW o \in Op, BeginRotate(o) PROVE OpenKeyed'
  BY <1>5 DEF BeginRotate, Goto
<1>6. ASSUME NEW o \in Op, BeginEnroll(o) PROVE OpenKeyed'
  BY <1>6 DEF BeginEnroll, Goto
<1>7. ASSUME NEW o \in Op, ChooseUnlock(o) PROVE OpenKeyed'
  BY <1>7 DEF ChooseUnlock, Goto
<1>8. ASSUME NEW o \in Op, ChooseOpen(o) PROVE OpenKeyed'
  BY <1>8 DEF ChooseOpen, Goto, Unreferenced
<1>9. ASSUME NEW o \in Op, DeriveFails(o) PROVE OpenKeyed'
  BY <1>9 DEF DeriveFails, Return
<1>10. ASSUME NEW o \in Op, NotConfirmed(o) PROVE OpenKeyed'
  BY <1>10 DEF NotConfirmed, Return
<1>11. ASSUME NEW o \in Op, Acquire(o) PROVE OpenKeyed'
  BY <1>11 DEF Acquire, Goto
<1>12. ASSUME NEW o \in Op, Refuse(o) PROVE OpenKeyed'
  BY <1>12 DEF Refuse, Return
<1>13. ASSUME NEW o \in Op, FenceLock(o) PROVE OpenKeyed'
  BY <1>13 DEF FenceLock, Goto
<1>14. ASSUME NEW o \in Op, FenceOpen(o) PROVE OpenKeyed'
  BY <1>14 DEF FenceOpen, Goto
<1>15. ASSUME NEW o \in Op, OpenOvertaken(o) PROVE OpenKeyed'
  BY <1>15 DEF OpenOvertaken, Return
<1>16. ASSUME NEW o \in Op, FenceUnlock(o) PROVE OpenKeyed'
  <2>1. /\ \A a \in App : key[a] => key'[a]
        /\ gate' = gate \/ (app # NoApp /\ gate' = key'[app])
        /\ UNCHANGED app
    BY <1>16, UnlockEffect
  <2> QED
    BY <2>1
<1>17. ASSUME NEW o \in Op, FenceRotate(o) PROVE OpenKeyed'
  BY <1>17 DEF FenceRotate, Goto
<1>18. ASSUME NEW o \in Op, FenceEnroll(o) PROVE OpenKeyed'
  BY <1>18 DEF FenceEnroll, Goto
<1>19. ASSUME NEW o \in Op, ChangeRefused(o) PROVE OpenKeyed'
  BY <1>19 DEF ChangeRefused, Return
<1>20. ASSUME NEW o \in Op, DropKey(o) PROVE OpenKeyed'
  BY <1>20 DEF DropKey, Goto
<1>21. ASSUME NEW o \in Op, ClearCaches(o) PROVE OpenKeyed'
  BY <1>21 DEF ClearCaches, Goto
<1>22. ASSUME NEW o \in Op, StopWork(o) PROVE OpenKeyed'
  BY <1>22 DEF StopWork, Return, Goto
<1>23. ASSUME NEW o \in Op, Publish(o) PROVE OpenKeyed'
  BY <1>23 DEF Publish, Return
<1>24. ASSUME NEW o \in Op, RotationEnds(o) PROVE OpenKeyed'
  BY <1>24 DEF RotationEnds, RotationExclusive, Goto
<1>25. ASSUME NEW o \in Op, KeyChangeDropped(o) PROVE OpenKeyed'
  BY <1>25 DEF KeyChangeDropped, Return
<1>26. ASSUME NEW o \in Op, EnrollmentDropped(o) PROVE OpenKeyed'
  BY <1>26 DEF EnrollmentDropped, Return
<1>27. ASSUME NEW a \in App, SelfLock(a) PROVE OpenKeyed'
  BY <1>27 DEF SelfLock
<1>28. CASE UNCHANGED <<boundary, opVars>>
  BY <1>28
<1> QED
  BY <1>1, <1>2, <1>3, <1>4, <1>5, <1>6, <1>7, <1>8, <1>9, <1>10, <1>11, <1>12, <1>13, <1>14,
     <1>15, <1>16, <1>17, <1>18, <1>19, <1>20, <1>21, <1>22, <1>23, <1>24, <1>25, <1>26, <1>27,
     <1>28, WorkKeepsBoundary
  DEF Next, OpBegins, OpSteps, vars

\* Until a store drops its own key, every step leaves started work registered or
\* cancelled, and stale work cancelled or about to be.
LEMMA StoppedStep ==
    ASSUME ~faulted', IndInv, OpenKeyed, Stopped, [Next]_vars
    PROVE  Stopped'
<1>0. TypeOK /\ Staged /\ Serialized
  BY DEF IndInv
<1> USE <1>0
<1> USE DEF TypeOK, OpPc, OpKind, LockKind, boundary, opVars, workVars, WorkPc, Staged, Stopped, PastCheck, Valid
<1>1. ASSUME NEW o \in Op, BeginLock(o) PROVE Stopped'
  BY <1>1 DEF BeginLock, Goto
<1>2. ASSUME NEW o \in Op, BeginLockIfCurrent(o) PROVE Stopped'
  BY <1>2 DEF BeginLockIfCurrent, Goto
<1>3. ASSUME NEW o \in Op, BeginLockIntegrity(o) PROVE Stopped'
  BY <1>3 DEF BeginLockIntegrity, Goto
<1>4. ASSUME NEW o \in Op, BeginUnlock(o) PROVE Stopped'
  BY <1>4 DEF BeginUnlock, Goto
<1>5. ASSUME NEW o \in Op, BeginRotate(o) PROVE Stopped'
  BY <1>5 DEF BeginRotate, Goto
<1>6. ASSUME NEW o \in Op, BeginEnroll(o) PROVE Stopped'
  BY <1>6 DEF BeginEnroll, Goto
<1>7. ASSUME NEW o \in Op, ChooseUnlock(o) PROVE Stopped'
  BY <1>7 DEF ChooseUnlock, Goto
<1>8. ASSUME NEW o \in Op, ChooseOpen(o) PROVE Stopped'
  BY <1>8 DEF ChooseOpen, Goto, Unreferenced
<1>9. ASSUME NEW o \in Op, DeriveFails(o) PROVE Stopped'
  BY <1>9 DEF DeriveFails, Return
<1>10. ASSUME NEW o \in Op, NotConfirmed(o) PROVE Stopped'
  BY <1>10 DEF NotConfirmed, Return
<1>11. ASSUME NEW o \in Op, Acquire(o) PROVE Stopped'
  BY <1>11 DEF Acquire, Goto
<1>12. ASSUME NEW o \in Op, Refuse(o) PROVE Stopped'
  BY <1>12 DEF Refuse, Return
<1>13. ASSUME NEW o \in Op, FenceLock(o) PROVE Stopped'
  BY <1>13 DEF FenceLock, Goto
<1>14. ASSUME NEW o \in Op, FenceOpen(o) PROVE Stopped'
  BY <1>14 DEF FenceOpen, Goto
<1>15. ASSUME NEW o \in Op, OpenOvertaken(o) PROVE Stopped'
  BY <1>15 DEF OpenOvertaken, Return
<1>16. ASSUME NEW o \in Op, FenceUnlock(o) PROVE Stopped'
  <2>1. gate => gate'
    BY <1>16, UnlockEffect DEF OpenKeyed
  <2> QED
    BY <1>16, <2>1, UnlockEffect DEF Return
<1>17. ASSUME NEW o \in Op, FenceRotate(o) PROVE Stopped'
  BY <1>17 DEF FenceRotate, Goto
<1>18. ASSUME NEW o \in Op, FenceEnroll(o) PROVE Stopped'
  BY <1>18 DEF FenceEnroll, Goto
<1>19. ASSUME NEW o \in Op, ChangeRefused(o) PROVE Stopped'
  BY <1>19 DEF ChangeRefused, Return
<1>20. ASSUME NEW o \in Op, DropKey(o) PROVE Stopped'
  BY <1>20 DEF DropKey, Goto
<1>21. ASSUME NEW o \in Op, ClearCaches(o) PROVE Stopped'
  BY <1>21 DEF ClearCaches, Goto
<1>22. ASSUME NEW o \in Op, StopWork(o) PROVE Stopped'
  BY <1>22 DEF StopWork, Return, Goto
<1>23. ASSUME NEW o \in Op, Publish(o) PROVE Stopped'
  BY <1>23 DEF Publish, Return
<1>24. ASSUME NEW o \in Op, RotationEnds(o) PROVE Stopped'
  BY <1>24 DEF RotationEnds, Goto
<1>25. ASSUME NEW o \in Op, KeyChangeDropped(o) PROVE Stopped'
  BY <1>25 DEF KeyChangeDropped, Return
<1>26. ASSUME NEW o \in Op, EnrollmentDropped(o) PROVE Stopped'
  BY <1>26 DEF EnrollmentDropped, Return
<1>27. ASSUME NEW a \in App, SelfLock(a) PROVE Stopped'
  BY <1>27 DEF SelfLock
<1>28. ASSUME NEW w \in Work, Admit(w) PROVE Stopped'
  BY <1>28 DEF Admit
<1>29. ASSUME NEW w \in Work, Register(w) PROVE Stopped'
  BY <1>29 DEF Register
<1>30. ASSUME NEW w \in Work, CheckPayload(w) PROVE Stopped'
  BY <1>30 DEF CheckPayload, Retire
<1>31. ASSUME NEW w \in Work, EnterCache(w) PROVE Stopped'
  BY <1>31 DEF EnterCache
<1>32. ASSUME NEW w \in Work, Deliver(w) PROVE Stopped'
  BY <1>32 DEF Deliver
<1>33. ASSUME NEW w \in Work, DeliverRefused(w) PROVE Stopped'
  BY <1>33 DEF DeliverRefused
<1>34. ASSUME NEW w \in Work, Delivered(w) PROVE Stopped'
  BY <1>34 DEF Delivered
<1>35. ASSUME NEW w \in Work, LeaveCache(w) PROVE Stopped'
  BY <1>35 DEF LeaveCache
<1>36. ASSUME NEW w \in Work, CancelExecution(w) PROVE Stopped'
  BY <1>36 DEF CancelExecution
<1>37. ASSUME NEW w \in Work, Finish(w) PROVE Stopped'
  BY <1>37 DEF Finish, Retire
<1>38. ASSUME NEW w \in Work, Reply(w) PROVE Stopped'
  BY <1>38 DEF Reply
<1>39. ASSUME NEW w \in Work, Answered(w) PROVE Stopped'
  BY <1>39 DEF Answered, Ends
<1>40. ASSUME NEW w \in Work, ReplyLocked(w) PROVE Stopped'
  BY <1>40 DEF ReplyLocked, Ends
<1>41. CASE UNCHANGED vars
  BY <1>41 DEF vars
<1> QED
  BY <1>1, <1>2, <1>3, <1>4, <1>5, <1>6, <1>7, <1>8, <1>9, <1>10, <1>11, <1>12, <1>13, <1>14,
     <1>15, <1>16, <1>17, <1>18, <1>19, <1>20, <1>21, <1>22, <1>23, <1>24, <1>25, <1>26, <1>27,
     <1>28, <1>29, <1>30, <1>31, <1>32, <1>33, <1>34, <1>35, <1>36, <1>37, <1>38, <1>39, <1>40,
     <1>41
  DEF Next, OpBegins, OpSteps, WorkSteps

\* A fault is not forgotten.
LEMMA FaultStays == [Next]_vars /\ ~faulted' => ~faulted
BY DEF Next, OpBegins, OpSteps, WorkSteps, vars, UnlockOutcome,
       BeginLock, BeginLockIfCurrent, BeginLockIntegrity, BeginUnlock, BeginRotate, BeginEnroll,
       ChooseUnlock, ChooseOpen, DeriveFails, NotConfirmed, Acquire, Refuse, FenceLock, FenceOpen,
       OpenOvertaken, FenceUnlock, FenceRotate, FenceEnroll, ChangeRefused, DropKey, ClearCaches,
       StopWork, Publish, RotationEnds, KeyChangeDropped, EnrollmentDropped, SelfLock,
       Admit, Register, CheckPayload, EnterCache, Deliver, DeliverRefused, Delivered, LeaveCache,
       CancelExecution, Finish, Reply, Answered, ReplyLocked, Ends

\* Until a store drops its own key, work admitted before a boundary move is
\* cancelled by it once it has passed its check: stop_work leaves none behind.
THEOREM StaleWorkIsStopped == Spec => []StaleWorkStopped
<1>1. Init => StaleInv
  BY NoneAssumption DEF Init, StaleInv, Private, HeldKey, OpenKeyed, Stopped, Opening, PastCheck, Cleanup
<1>2. IndInv /\ (~faulted => StaleInv) /\ [Next]_vars => (~faulted => StaleInv)'
  BY FaultStays, PrivateStep, HeldKeyStep, OpenKeyedStep, StoppedStep DEF StaleInv, IndInv
<1>3. (~faulted => StaleInv) => StaleWorkStopped
  BY DEF StaleInv, Stopped, StaleWorkStopped, PastCheck
<1> QED
  BY <1>1, <1>2, <1>3, Invariance, PTL DEF Spec

----------------------------------------------------------------------------
(* A lock wins over the openers it lands on.                               *)

\* No operation has seen a later epoch, and an overtaken opener has seen an
\* earlier one and is still before its fence.
SeenBefore ==
    /\ \A o \in Op : opSeen[o] <= epoch
    /\ \A o \in overtaken :
          /\ opSeen[o] < epoch
          /\ opKind[o] \notin LockKind
          /\ opPc[o] \in {"derive", "wait", "gate"}

\* Work overtakes nobody.
LEMMA WorkKeepsOvertaken ==
    ASSUME NEW w \in Work,
           \/ Admit(w) \/ WorkSteps(w) \/ EnterCache(w) \/ Deliver(w)
           \/ DeliverRefused(w) \/ CancelExecution(w) \/ Finish(w)
    PROVE  UNCHANGED overtaken
BY DEF Admit, WorkSteps, EnterCache, Deliver, DeliverRefused, CancelExecution, Finish,
       Register, CheckPayload, Delivered, LeaveCache, Reply, Answered, ReplyLocked

\* Every step keeps an overtaken opener behind the epoch and before its fence.
LEMMA SeenBeforeStep ==
    ASSUME TypeOK, Staged, SeenBefore, [Next]_vars
    PROVE  SeenBefore'
<1> USE DEF TypeOK, OpPc, OpKind, LockKind, boundary, opVars, SeenBefore, Staged
<1>1. ASSUME NEW o \in Op, BeginLock(o) PROVE SeenBefore'
  BY <1>1 DEF BeginLock, Goto
<1>2. ASSUME NEW o \in Op, BeginLockIfCurrent(o) PROVE SeenBefore'
  BY <1>2 DEF BeginLockIfCurrent, Goto
<1>3. ASSUME NEW o \in Op, BeginLockIntegrity(o) PROVE SeenBefore'
  BY <1>3 DEF BeginLockIntegrity, Goto
<1>4. ASSUME NEW o \in Op, BeginUnlock(o) PROVE SeenBefore'
  BY <1>4 DEF BeginUnlock, Goto
<1>5. ASSUME NEW o \in Op, BeginRotate(o) PROVE SeenBefore'
  BY <1>5 DEF BeginRotate, Goto
<1>6. ASSUME NEW o \in Op, BeginEnroll(o) PROVE SeenBefore'
  BY <1>6 DEF BeginEnroll, Goto
<1>7. ASSUME NEW o \in Op, ChooseUnlock(o) PROVE SeenBefore'
  BY <1>7 DEF ChooseUnlock, Goto
<1>8. ASSUME NEW o \in Op, ChooseOpen(o) PROVE SeenBefore'
  BY <1>8 DEF ChooseOpen, Goto, Unreferenced
<1>9. ASSUME NEW o \in Op, DeriveFails(o) PROVE SeenBefore'
  BY <1>9 DEF DeriveFails, Return
<1>10. ASSUME NEW o \in Op, NotConfirmed(o) PROVE SeenBefore'
  BY <1>10 DEF NotConfirmed, Return
<1>11. ASSUME NEW o \in Op, Acquire(o) PROVE SeenBefore'
  BY <1>11 DEF Acquire, Goto
<1>12. ASSUME NEW o \in Op, Refuse(o) PROVE SeenBefore'
  BY <1>12 DEF Refuse, Return
<1>13. ASSUME NEW o \in Op, FenceLock(o) PROVE SeenBefore'
  BY <1>13 DEF FenceLock, Goto, Openers
<1>14. ASSUME NEW o \in Op, FenceOpen(o) PROVE SeenBefore'
  BY <1>14 DEF FenceOpen, Goto, Openers
<1>15. ASSUME NEW o \in Op, OpenOvertaken(o) PROVE SeenBefore'
  BY <1>15 DEF OpenOvertaken, Return
<1>16. ASSUME NEW o \in Op, FenceUnlock(o) PROVE SeenBefore'
  BY <1>16 DEF FenceUnlock, Return, UnlockOutcome
<1>17. ASSUME NEW o \in Op, FenceRotate(o) PROVE SeenBefore'
  BY <1>17 DEF FenceRotate, Goto, Openers
<1>18. ASSUME NEW o \in Op, FenceEnroll(o) PROVE SeenBefore'
  BY <1>18 DEF FenceEnroll, Goto, Openers
<1>19. ASSUME NEW o \in Op, ChangeRefused(o) PROVE SeenBefore'
  BY <1>19 DEF ChangeRefused, Return
<1>20. ASSUME NEW o \in Op, DropKey(o) PROVE SeenBefore'
  BY <1>20 DEF DropKey, Goto
<1>21. ASSUME NEW o \in Op, ClearCaches(o) PROVE SeenBefore'
  BY <1>21 DEF ClearCaches, Goto
<1>22. ASSUME NEW o \in Op, StopWork(o) PROVE SeenBefore'
  BY <1>22 DEF StopWork, Return, Goto
<1>23. ASSUME NEW o \in Op, Publish(o) PROVE SeenBefore'
  BY <1>23 DEF Publish, Return
<1>24. ASSUME NEW o \in Op, RotationEnds(o) PROVE SeenBefore'
  BY <1>24 DEF RotationEnds, Goto
<1>25. ASSUME NEW o \in Op, KeyChangeDropped(o) PROVE SeenBefore'
  BY <1>25 DEF KeyChangeDropped, Return
<1>26. ASSUME NEW o \in Op, EnrollmentDropped(o) PROVE SeenBefore'
  BY <1>26 DEF EnrollmentDropped, Return
<1>27. ASSUME NEW a \in App, SelfLock(a) PROVE SeenBefore'
  BY <1>27 DEF SelfLock
<1>28. CASE UNCHANGED <<boundary, opVars, overtaken>>
  BY <1>28
<1> QED
  BY <1>1, <1>2, <1>3, <1>4, <1>5, <1>6, <1>7, <1>8, <1>9, <1>10, <1>11, <1>12, <1>13, <1>14,
     <1>15, <1>16, <1>17, <1>18, <1>19, <1>20, <1>21, <1>22, <1>23, <1>24, <1>25, <1>26, <1>27,
     <1>28, WorkKeepsBoundary, WorkKeepsOvertaken
  DEF Next, OpBegins, OpSteps, vars

\* No step of an overtaken opener opens anything.
LEMMA LockWinsStep ==
    ASSUME TypeOK, SeenBefore, [Next]_vars
    PROVE  OvertakenKeepsClosed
<1> USE DEF TypeOK, OpPc, OpKind, LockKind, boundary, opVars, SeenBefore, OvertakenKeepsClosed
<1>1. ASSUME NEW o \in Op, BeginLock(o) PROVE OvertakenKeepsClosed
  BY <1>1 DEF BeginLock, Goto
<1>2. ASSUME NEW o \in Op, BeginLockIfCurrent(o) PROVE OvertakenKeepsClosed
  BY <1>2 DEF BeginLockIfCurrent, Goto
<1>3. ASSUME NEW o \in Op, BeginLockIntegrity(o) PROVE OvertakenKeepsClosed
  BY <1>3 DEF BeginLockIntegrity, Goto
<1>4. ASSUME NEW o \in Op, BeginUnlock(o) PROVE OvertakenKeepsClosed
  BY <1>4 DEF BeginUnlock, Goto
<1>5. ASSUME NEW o \in Op, BeginRotate(o) PROVE OvertakenKeepsClosed
  BY <1>5 DEF BeginRotate, Goto
<1>6. ASSUME NEW o \in Op, BeginEnroll(o) PROVE OvertakenKeepsClosed
  BY <1>6 DEF BeginEnroll, Goto
<1>7. ASSUME NEW o \in Op, ChooseUnlock(o) PROVE OvertakenKeepsClosed
  BY <1>7 DEF ChooseUnlock, Goto
<1>8. ASSUME NEW o \in Op, ChooseOpen(o) PROVE OvertakenKeepsClosed
  BY <1>8 DEF ChooseOpen, Goto, Unreferenced
<1>9. ASSUME NEW o \in Op, DeriveFails(o) PROVE OvertakenKeepsClosed
  BY <1>9 DEF DeriveFails, Return
<1>10. ASSUME NEW o \in Op, NotConfirmed(o) PROVE OvertakenKeepsClosed
  BY <1>10 DEF NotConfirmed, Return
<1>11. ASSUME NEW o \in Op, Acquire(o) PROVE OvertakenKeepsClosed
  BY <1>11 DEF Acquire, Goto
<1>12. ASSUME NEW o \in Op, Refuse(o) PROVE OvertakenKeepsClosed
  BY <1>12 DEF Refuse, Return
<1>13. ASSUME NEW o \in Op, FenceLock(o) PROVE OvertakenKeepsClosed
  BY <1>13 DEF FenceLock, Goto, Openers
<1>14. ASSUME NEW o \in Op, FenceOpen(o) PROVE OvertakenKeepsClosed
  BY <1>14 DEF FenceOpen, Goto, Openers
<1>15. ASSUME NEW o \in Op, OpenOvertaken(o) PROVE OvertakenKeepsClosed
  BY <1>15 DEF OpenOvertaken, Return
<1>16. ASSUME NEW o \in Op, FenceUnlock(o) PROVE OvertakenKeepsClosed
  <2>1. opPc' = [opPc EXCEPT ![o] = "idle"] /\ UNCHANGED <<app, keyChange>>
    BY <1>16 DEF FenceUnlock, Return
  <2>2. o \in overtaken => UNCHANGED <<gate, key>>
    BY <1>16 DEF FenceUnlock
  <2> QED
    BY <2>1, <2>2
<1>17. ASSUME NEW o \in Op, FenceRotate(o) PROVE OvertakenKeepsClosed
  BY <1>17 DEF FenceRotate, Goto, Openers
<1>18. ASSUME NEW o \in Op, FenceEnroll(o) PROVE OvertakenKeepsClosed
  BY <1>18 DEF FenceEnroll, Goto, Openers
<1>19. ASSUME NEW o \in Op, ChangeRefused(o) PROVE OvertakenKeepsClosed
  BY <1>19 DEF ChangeRefused, Return
<1>20. ASSUME NEW o \in Op, DropKey(o) PROVE OvertakenKeepsClosed
  BY <1>20 DEF DropKey, Goto
<1>21. ASSUME NEW o \in Op, ClearCaches(o) PROVE OvertakenKeepsClosed
  BY <1>21 DEF ClearCaches, Goto
<1>22. ASSUME NEW o \in Op, StopWork(o) PROVE OvertakenKeepsClosed
  BY <1>22 DEF StopWork, Return, Goto
<1>23. ASSUME NEW o \in Op, Publish(o) PROVE OvertakenKeepsClosed
  BY <1>23 DEF Publish, Return
<1>24. ASSUME NEW o \in Op, RotationEnds(o) PROVE OvertakenKeepsClosed
  BY <1>24 DEF RotationEnds, Goto
<1>25. ASSUME NEW o \in Op, KeyChangeDropped(o) PROVE OvertakenKeepsClosed
  BY <1>25 DEF KeyChangeDropped, Return
<1>26. ASSUME NEW o \in Op, EnrollmentDropped(o) PROVE OvertakenKeepsClosed
  BY <1>26 DEF EnrollmentDropped, Return
<1>27. ASSUME NEW a \in App, SelfLock(a) PROVE OvertakenKeepsClosed
  BY <1>27 DEF SelfLock
<1>28. CASE UNCHANGED <<boundary, opVars, overtaken>>
  BY <1>28
<1> QED
  BY <1>1, <1>2, <1>3, <1>4, <1>5, <1>6, <1>7, <1>8, <1>9, <1>10, <1>11, <1>12, <1>13, <1>14,
     <1>15, <1>16, <1>17, <1>18, <1>19, <1>20, <1>21, <1>22, <1>23, <1>24, <1>25, <1>26, <1>27,
     <1>28, WorkKeepsBoundary, WorkKeepsOvertaken
  DEF Next, OpBegins, OpSteps, vars

\* An unlock, publication, rotation or enrollment whose epoch was captured
\* before a boundary move never takes effect after it (set_app_since,
\* unlock_since, begin_key_change, begin_policy_enrollment).
THEOREM LockWinsAlways == Spec => LockWins
<1>1. Init => SeenBefore
  BY DEF Init, SeenBefore
<1>2. IndInv /\ SeenBefore /\ [Next]_vars => SeenBefore'
  BY SeenBeforeStep DEF IndInv
<1>3. IndInv /\ SeenBefore /\ [Next]_vars => [OvertakenKeepsClosed]_vars
  BY LockWinsStep DEF IndInv
<1> QED
  BY <1>1, <1>2, <1>3, Invariance, PTL DEF Spec, LockWins

----------------------------------------------------------------------------
(* The implementation of the abstract boundary.                            *)

\* What the abstract boundary is made of.
LEMMA QuietStep ==
    ASSUME UNCHANGED <<epoch, gate, wPc, wEpoch>>
    PROVE  UNCHANGED Boundary!vars
BY DEF Boundary!vars

\* The steps of an operation that the abstract boundary does not see.
LEMMA QuietOps ==
    ASSUME NEW o \in Op,
           \/ OpBegins(o) \/ ChooseUnlock(o) \/ ChooseOpen(o) \/ DeriveFails(o) \/ NotConfirmed(o)
           \/ Acquire(o) \/ Refuse(o) \/ OpenOvertaken(o) \/ ChangeRefused(o)
           \/ DropKey(o) \/ ClearCaches(o) \/ StopWork(o)
           \/ RotationEnds(o) \/ KeyChangeDropped(o) \/ EnrollmentDropped(o)
    PROVE  UNCHANGED <<epoch, gate, wPc, wEpoch>>
BY DEF OpBegins, BeginLock, BeginLockIfCurrent, BeginLockIntegrity, BeginUnlock, BeginRotate,
       BeginEnroll, ChooseUnlock, ChooseOpen, DeriveFails, NotConfirmed, Acquire, Refuse,
       OpenOvertaken, ChangeRefused, DropKey, ClearCaches, StopWork, RotationEnds,
       KeyChangeDropped, EnrollmentDropped, boundary, workVars

\* Every step is a step of the abstract boundary or leaves it as it is.
LEMMA BoundaryStep ==
    ASSUME TypeOK, [Next]_vars
    PROVE  [Boundary!Next]_(Boundary!vars)
<1> USE DEF TypeOK, WorkPc, Delivering, boundary, workVars
<1>1. ASSUME NEW o \in Op, FenceLock(o) \/ FenceOpen(o) \/ FenceRotate(o) \/ FenceEnroll(o)
      PROVE  Boundary!Move
  <2>1. NoReaders /\ gate' = FALSE /\ epoch' = epoch + 1 /\ UNCHANGED <<wPc, wEpoch>>
    BY <1>1 DEF FenceLock, FenceOpen, FenceRotate, FenceEnroll
  <2> QED
    BY <2>1 DEF Boundary!Move, NoReaders
<1>2. ASSUME NEW o \in Op, FenceUnlock(o) \/ Publish(o)
      PROVE  Boundary!Settle
  <2>1. NoReaders /\ UNCHANGED <<epoch, wPc, wEpoch>>
    BY <1>2 DEF FenceUnlock, Publish
  <2>2. gate' \in BOOLEAN
    BY TypeStep
  <2> QED
    BY <2>1, <2>2 DEF Boundary!Settle, NoReaders
<1>3. ASSUME NEW a \in App, SelfLock(a)
      PROVE  UNCHANGED Boundary!vars
  BY <1>3, QuietStep DEF SelfLock
<1>4. ASSUME NEW w \in Work, Admit(w)
      PROVE  Boundary!Admit(w)
  BY <1>4 DEF Admit, Boundary!Admit
<1>5. ASSUME NEW w \in Work, Deliver(w) \/ Reply(w)
      PROVE  Boundary!Enter(w)
  BY <1>5, ZenonT(60) DEF Deliver, Reply, Valid, Boundary!Enter
<1>6. ASSUME NEW w \in Work, Delivered(w)
      PROVE  Boundary!Leave(w)
  BY <1>6 DEF Delivered, Boundary!Leave
<1>7. ASSUME NEW w \in Work, Answered(w) \/ ReplyLocked(w)
      PROVE  Boundary!Retire(w)
  BY <1>7 DEF Answered, ReplyLocked, Ends, Boundary!Retire
<1>8. ASSUME NEW w \in Work, NEW pc \in WorkPc \ (Delivering \cup {"idle"}),
             wPc[w] \notin Delivering \cup {"idle"},
             wPc' = [wPc EXCEPT ![w] = pc], UNCHANGED <<epoch, gate, wEpoch>>
      PROVE  UNCHANGED Boundary!vars
  BY <1>8 DEF Boundary!vars
<1>9. ASSUME NEW w \in Work, Register(w) \/ EnterCache(w) \/ LeaveCache(w)
      PROVE  UNCHANGED Boundary!vars
  BY <1>9, <1>8 DEF Register, EnterCache, LeaveCache
<1>10. ASSUME NEW w \in Work, DeliverRefused(w)
       PROVE  UNCHANGED Boundary!vars
  BY <1>10, <1>8 DEF DeliverRefused
<1>11. ASSUME NEW w \in Work, CancelExecution(w)
       PROVE  UNCHANGED Boundary!vars
  BY <1>11, QuietStep DEF CancelExecution
<1>12. ASSUME NEW w \in Work, CheckPayload(w) \/ Finish(w)
       PROVE  UNCHANGED Boundary!vars
  BY <1>12, <1>8 DEF CheckPayload, Finish, Retire
<1>13. CASE UNCHANGED vars
  BY <1>13, QuietStep DEF vars
<1> QED
  BY <1>1, <1>2, <1>3, <1>4, <1>5, <1>6, <1>7, <1>9, <1>10, <1>11, <1>12, <1>13, QuietStep, QuietOps
     DEF Next, OpSteps, WorkSteps, Boundary!Next

\* The threads of DesktopState implement LockBoundary: a payload is enqueued
\* entirely before or not at all after a boundary move, and a fence of an
\* earlier epoch admits nothing.
THEOREM ImplementsBoundary == Spec => RefinesBoundary
<1>1. Init => Boundary!Init
  BY DEF Init, Delivering, Boundary!Init
<1>2. TypeOK /\ [Next]_vars => [Boundary!Next]_(Boundary!vars)
  BY BoundaryStep
<1> QED
  BY <1>1, <1>2, TypeCorrect, PTL DEF Spec, RefinesBoundary, Boundary!Spec

=============================================================================
