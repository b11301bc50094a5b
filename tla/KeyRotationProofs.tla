-------------------------- MODULE KeyRotationProofs --------------------------
(***************************************************************************)
(* What KeyRotation promises for every number of processes, rotations and  *)
(* crashes: type correctness, that the committed header's key can always   *)
(* be had, that all committed rows are sealed with it, that an unlock of   *)
(* which no step was refused leaves nothing of an earlier key, and that    *)
(* all of it implements the abstract SealedProfile.                        *)
(***************************************************************************)
EXTENDS KeyRotation, TLAPS

-----------------------------------------------------------------------------
(* The inductive invariant.                                                *)

Exclusive == {"rotating", "staged", "wal", "files", "sidecar"}
Sharing == {"op", "restoring", "retiring"}

\* The fence and the header lock are held in exactly the steps that need them,
\* by one process where they exclude, and never in both ways.
LockInv ==
  /\ \A p \in Process : /\ p \in excl <=> pc[p] \in Exclusive
                        /\ p \in shared <=> pc[p] \in Sharing
                        /\ p \in hlock <=> pc[p] = "retiring"
  /\ \A p, q \in Process : /\ p \in excl /\ q \in excl => p = q
                           /\ p \in excl => q \notin shared
                           /\ p \in hlock /\ q \in hlock => p = q

\* The committed keys in their order: the header's is the last, the retired
\* ones are older, and nothing is stored for a key not generated yet.
OrderInv ==
  /\ db.key \in past /\ sidecar \in past
  /\ \A k \in past : k <= db.key
  /\ \A k \in db.retired : k \in past /\ k # db.key
  /\ db.key <= gen
  /\ \A k \in Key : k > gen => keychain[k] = "none"

\* An account holds a key exactly while the header names it, and afterwards
\* only while the header lists it as retired.
AccountInv ==
  /\ db.mode = "keychain" <=> keychain[db.key] = "key"
  /\ \A k \in past \ {db.key} : keychain[k] = "key" => k \in db.retired

\* The sidecar is written when the files hold nothing else any more.
SidecarInv == sidecar = db.key => pages = {db.key}

\* The key a process holds is a committed one, and the committed one while it
\* holds the fence.
KeyInv(p) ==
  /\ key[p] <= db.key
  /\ pc[p] \in {"op", "restoring"} => key[p] = db.key
  /\ pc[p] \in {"read", "unwrapped", "scrub", "scrubwait", "unlocked"} => task[p] = "unlock"
  /\ pc[p] \in {"unwrapped", "retire", "retiring", "scrub", "scrubwait", "wal", "files", "sidecar", "unlocked"}
        /\ task[p] = "unlock" => key[p] = header[p].key
  /\ pc[p] \in {"wal", "files", "sidecar"} /\ task[p] = "unlock" => key[p] = db.key
  /\ pc[p] \in {"rotating", "staged"} => task[p] = "rotate"

\* The header a process read is committed, or older; the one it staged is new.
HeaderInv(p) ==
  /\ pc[p] # "staged" => /\ header[p].key <= db.key
                         /\ header[p].key = db.key => db.retired \subseteq header[p].retired
  /\ pc[p] = "rotating" => gen < MaxKey
  /\ pc[p] = "staged" => /\ header[p].key = gen /\ db.key < gen
                         /\ header[p].retired = Retiring(db)
                         /\ header[p].mode = "keychain" <=> keychain[gen] = "key"

\* A retirement works on the accounts the committed header lists.
RetireInv(p) ==
  pc[p] = "retiring" =>
    /\ todo[p] \cup left[p] \subseteq db.retired
    /\ \A k \in db.retired \ (todo[p] \cup left[p]) : keychain[k] # "key"
    /\ ~fault[p] => left[p] = {}

\* What an unlock has cleaned up so far.
CleanInv(p) ==
  /\ pc[p] \in {"scrub", "scrubwait", "wal", "files", "sidecar", "unlocked"} /\ task[p] = "unlock" /\ ~fault[p] /\ key[p] = db.key =>
       \A k \in past \ {db.key} : keychain[k] # "key"
  /\ pc[p] \in {"files", "sidecar"} => pages = {db.key}
  /\ pc[p] = "sidecar" => copies \subseteq {db.key} \cup kept[p] /\ staging = {}
  /\ pc[p] = "unlocked" /\ ~fault[p] /\ key[p] = db.key =>
       copies \subseteq {db.key} \cup kept[p] /\ staging \subseteq {db.key} /\ sidecar = db.key

DiskInv == OneKey /\ OrderInv /\ AccountInv /\ SidecarInv
ProcInv(p) == KeyInv(p) /\ HeaderInv(p) /\ RetireInv(p) /\ CleanInv(p)

RotationInv == TypeOK /\ LockInv /\ DiskInv /\ \A p \in Process : ProcInv(p)

-----------------------------------------------------------------------------
(* A record set is spelled out once: what is known of a header.            *)

\* A header has a key, a protection and a set of retired accounts, and the blank header is one.
LEMMA HeaderParts ==
  /\ \A h \in Header : h.key \in Key /\ h.mode \in Mode /\ h.retired \in SUBSET Key
  /\ \A k \in Key, m \in Mode, r \in SUBSET Key : [key |-> k, mode |-> m, retired |-> r] \in Header
  /\ \A h \in Header, r \in SUBSET Key : [h EXCEPT !.retired = r] \in Header
  /\ Blank \in Header
  BY RotationAssumption DEF Header, Blank, Key, Mode

\* What a rotation retires are accounts (the retired list of rotate_to).
LEMMA RetiringTyped == \A h \in Header : Retiring(h) \in SUBSET Key
  BY HeaderParts DEF Retiring

\* The profile as create_profile leaves it satisfies the invariant.
LEMMA Initially == Init => RotationInv
  <1> SUFFICES ASSUME Init PROVE RotationInv
    OBVIOUS
  <1>1. TypeOK
    BY RotationAssumption, HeaderParts DEF Init, TypeOK, DiskType, LockType, MineType, Key, Pc, NoKey
  <1>2. LockInv
    BY DEF Init, LockInv, Exclusive, Sharing
  <1>3. DiskInv
    BY RotationAssumption DEF Init, DiskInv, OneKey, OrderInv, AccountInv, SidecarInv, Blank, Key
  <1>4. ASSUME NEW p \in Process PROVE ProcInv(p)
    BY RotationAssumption DEF Init, ProcInv, KeyInv, HeaderInv, RetireInv, CleanInv, Blank, Key, NoKey
  <1> QED BY <1>1, <1>2, <1>3, <1>4 DEF RotationInv

\* Going back to a locked store keeps the types.
LEMMA LeaveTyped ==
  ASSUME NEW p \in Process, MineType, Leave(p)
  PROVE  MineType'
  BY HeaderParts DEF MineType, Leave, Forget, Goto, Pc

\* Every step keeps the types (a rotation that began has a key left to generate).
LEMMA StepTyped ==
  ASSUME NEW p \in Process, RotationInv, Step(p)
  PROVE  TypeOK'
  <1> USE HeaderParts
  <1>0. DiskType /\ LockType /\ MineType /\ HeaderInv(p) /\ KeyInv(p)
    BY DEF RotationInv, ProcInv, TypeOK
  <1>1. CASE ReadHeader(p)
    <2>1. DiskType'
      BY <1>0, <1>1 DEF DiskType, ReadHeader, Goto, disk, locks, MineType
    <2>2. LockType'
      BY <1>0, <1>1 DEF LockType, ReadHeader, Goto, disk, locks
    <2>3. MineType'
      BY <1>0, <1>1 DEF MineType, ReadHeader, Goto, disk, locks, Pc, DiskType
    <2> QED BY <2>1, <2>2, <2>3 DEF TypeOK
  <1>2. CASE Unwrap(p)
    <2>1. DiskType'
      BY <1>0, <1>2 DEF DiskType, Unwrap, Leave, Forget, Goto, disk, locks, MineType
    <2>2. LockType'
      BY <1>0, <1>2 DEF LockType, Unwrap, Leave, Forget, Goto, disk, locks
    <2>3. MineType'
      <3>1. CASE Leave(p)
        BY <1>0, <3>1, LeaveTyped
      <3>2. CASE ~Leave(p)
        BY <1>0, <1>2, <3>2 DEF MineType, Unwrap, Goto, Pc
      <3> QED BY <3>1, <3>2
    <2> QED BY <2>1, <2>2, <2>3 DEF TypeOK
  <1>3. CASE VerifyKey(p)
    <2>1. DiskType'
      BY <1>0, <1>3 DEF DiskType, VerifyKey, Leave, Forget, Goto, disk, locks, MineType
    <2>2. LockType'
      BY <1>0, <1>3 DEF LockType, VerifyKey, Leave, Forget, Goto, disk, locks
    <2>3. MineType'
      BY <1>0, <1>3, ZenonT(60) DEF MineType, VerifyKey, Leave, Forget, Goto, disk, locks, Pc, DiskType
    <2> QED BY <2>1, <2>2, <2>3 DEF TypeOK
  <1>4. CASE OpenStore(p)
    <2>1. DiskType'
      BY <1>0, <1>4 DEF DiskType, OpenStore, Leave, Forget, Goto, disk, locks, MineType
    <2>2. LockType'
      BY <1>0, <1>4 DEF LockType, OpenStore, Leave, Forget, Goto, disk, locks
    <2>3. MineType'
      BY <1>0, <1>4, ZenonT(60) DEF MineType, OpenStore, Leave, Forget, Goto, disk, locks, Pc, DiskType
    <2> QED BY <2>1, <2>2, <2>3 DEF TypeOK
  <1>5. CASE CloseStore(p)
    <2>1. DiskType'
      BY <1>0, <1>5 DEF DiskType, CloseStore, Leave, Forget, Goto, disk, locks, MineType
    <2>2. LockType'
      BY <1>0, <1>5 DEF LockType, CloseStore, Leave, Forget, Goto, disk, locks
    <2>3. MineType'
      BY <1>0, <1>5 DEF MineType, CloseStore, Leave, Forget, Goto, disk, locks, Pc, DiskType
    <2> QED BY <2>1, <2>2, <2>3 DEF TypeOK
  <1>6. CASE RetireBegins(p)
    <2>1. DiskType'
      BY <1>0, <1>6 DEF DiskType, RetireBegins, AfterRetire, Goto, disk, locks, MineType
    <2>2. LockType'
      BY <1>0, <1>6 DEF LockType, RetireBegins, AfterRetire, Goto, disk, locks
    <2>3. MineType'
      BY <1>0, <1>6 DEF MineType, RetireBegins, AfterRetire, Goto, disk, locks, Pc, DiskType
    <2> QED BY <2>1, <2>2, <2>3 DEF TypeOK
  <1>7. CASE RetireEnds(p)
    <2>1. DiskType'
      <3>1. left[p] \in SUBSET Key
        BY <1>0 DEF MineType
      <3>2. db' \in Header
        BY <1>0, <1>7, <3>1 DEF DiskType, RetireEnds
      <3> QED BY <1>0, <1>7, <3>2 DEF DiskType, RetireEnds
    <2>2. LockType'
      BY <1>0, <1>7 DEF LockType, RetireEnds, AfterRetire, Goto, disk, locks
    <2>3. MineType'
      BY <1>0, <1>7 DEF MineType, RetireEnds, AfterRetire, Goto, disk, locks, Pc, DiskType
    <2> QED BY <2>1, <2>2, <2>3 DEF TypeOK
  <1>8. ASSUME NEW a \in Key, RetireEntry(p, a)
        PROVE  TypeOK'
    <2>1. DiskType'
      <3>1. keychain' \in [Key -> {"none", "key", "marker"}]
        BY <1>0, <1>8 DEF DiskType, RetireEntry
      <3> QED BY <1>0, <1>8, <3>1 DEF DiskType, RetireEntry
    <2>2. LockType'
      BY <1>0, <1>8 DEF LockType, RetireEntry, Refused, disk, locks
    <2>3. MineType'
      <3>1. fault' \in [Process -> BOOLEAN]
        BY <1>0, <1>8 DEF MineType, RetireEntry, Refused
      <3>2. todo' \in [Process -> SUBSET Key] /\ left' \in [Process -> SUBSET Key]
        BY <1>0, <1>8 DEF MineType, RetireEntry
      <3> QED BY <1>0, <1>8, <3>1, <3>2 DEF MineType, RetireEntry
    <2> QED BY <2>1, <2>2, <2>3 DEF TypeOK
  <1>9. CASE ScrubCheck(p)
    <2>1. DiskType'
      BY <1>0, <1>9 DEF DiskType, ScrubCheck, Goto, disk, locks, MineType
    <2>2. LockType'
      BY <1>0, <1>9 DEF LockType, ScrubCheck, Goto, disk, locks
    <2>3. MineType'
      <3>1. pc' \in [Process -> Pc]
        BY <1>0, <1>9 DEF MineType, ScrubCheck, Goto, Pc
      <3>2. kept' \in [Process -> SUBSET Key]
        BY <1>0, <1>9 DEF MineType, DiskType, ScrubCheck
      <3> QED BY <1>0, <1>9, <3>1, <3>2 DEF MineType, ScrubCheck
    <2> QED BY <2>1, <2>2, <2>3 DEF TypeOK
  <1>10. CASE ScrubLock(p)
    <2>1. DiskType'
      BY <1>0, <1>10 DEF DiskType, ScrubLock, Goto, disk, locks, MineType
    <2>2. LockType'
      BY <1>0, <1>10 DEF LockType, ScrubLock, Goto, disk, locks
    <2>3. MineType'
      BY <1>0, <1>10 DEF MineType, ScrubLock, Goto, disk, locks, Pc, DiskType
    <2> QED BY <2>1, <2>2, <2>3 DEF TypeOK
  <1>11. CASE ScrubStops(p)
    <2>1. DiskType'
      BY <1>0, <1>11 DEF DiskType, ScrubStops, AfterScrub, Refused, Goto, disk, locks, MineType
    <2>2. LockType'
      BY <1>0, <1>11 DEF LockType, ScrubStops, AfterScrub, Refused, Goto, disk, locks
    <2>3. MineType'
      BY <1>0, <1>11 DEF MineType, ScrubStops, AfterScrub, Refused, Goto, disk, locks, Pc, DiskType
    <2> QED BY <2>1, <2>2, <2>3 DEF TypeOK
  <1>12. CASE ScrubWal(p)
    <2>1. DiskType'
      BY <1>0, <1>12 DEF DiskType, ScrubWal, Goto, disk, locks, MineType
    <2>2. LockType'
      BY <1>0, <1>12 DEF LockType, ScrubWal, Goto, disk, locks
    <2>3. MineType'
      BY <1>0, <1>12 DEF MineType, ScrubWal, Goto, disk, locks, Pc, DiskType
    <2> QED BY <2>1, <2>2, <2>3 DEF TypeOK
  <1>13. CASE ScrubFiles(p)
    <2>1. DiskType'
      BY <1>0, <1>13 DEF DiskType, ScrubFiles, Goto, disk, locks, MineType
    <2>2. LockType'
      BY <1>0, <1>13 DEF LockType, ScrubFiles, Goto, disk, locks
    <2>3. MineType'
      BY <1>0, <1>13 DEF MineType, ScrubFiles, Goto, disk, locks, Pc, DiskType
    <2> QED BY <2>1, <2>2, <2>3 DEF TypeOK
  <1>14. CASE ScrubSidecar(p)
    <2>1. DiskType'
      BY <1>0, <1>14 DEF DiskType, ScrubSidecar, AfterScrub, Goto, disk, locks, MineType
    <2>2. LockType'
      BY <1>0, <1>14 DEF LockType, ScrubSidecar, AfterScrub, Goto, disk, locks
    <2>3. MineType'
      BY <1>0, <1>14 DEF MineType, ScrubSidecar, AfterScrub, Goto, disk, locks, Pc, DiskType
    <2> QED BY <2>1, <2>2, <2>3 DEF TypeOK
  <1>15. CASE GivesUp(p)
    <2>1. DiskType'
      BY <1>0, <1>15
      DEF DiskType, GivesUp, Leave, Refused, AfterRetire, Forget, Goto, disk, locks, MineType
    <2>2. LockType'
      BY <1>0, <1>15 DEF LockType, GivesUp, Leave, Refused, AfterRetire, Forget, Goto, disk, locks
    <2>3. MineType'
      <3>1. CASE Leave(p)
        BY <1>0, <3>1, LeaveTyped
      <3>2. CASE ~Leave(p)
        <4>1. fault' \in [Process -> BOOLEAN]
          BY <1>0, <1>15, <3>2 DEF MineType, GivesUp, Refused
        <4> QED BY <1>0, <1>15, <3>2, <4>1 DEF MineType, GivesUp, AfterRetire, Goto, Pc
      <3> QED BY <3>1, <3>2
    <2> QED BY <2>1, <2>2, <2>3 DEF TypeOK
  <1>16. CASE BeginOp(p)
    <2>1. DiskType'
      BY <1>0, <1>16 DEF DiskType, BeginOp, Leave, Forget, Goto, disk, locks, MineType
    <2>2. LockType'
      BY <1>0, <1>16 DEF LockType, BeginOp, Leave, Forget, Goto, disk, locks
    <2>3. MineType'
      BY <1>0, <1>16, ZenonT(60) DEF MineType, BeginOp, Leave, Forget, Goto, disk, locks, Pc, DiskType
    <2> QED BY <2>1, <2>2, <2>3 DEF TypeOK
  <1>17. CASE WriteRows(p)
    <2>1. DiskType'
      BY <1>0, <1>17 DEF DiskType, WriteRows, EndOp, Goto, disk, locks, MineType, KeyInv
    <2>2. LockType'
      BY <1>0, <1>17 DEF LockType, WriteRows, EndOp, Goto, disk, locks
    <2>3. MineType'
      BY <1>0, <1>17 DEF MineType, WriteRows, EndOp, Goto, disk, locks, Pc, DiskType
    <2> QED BY <2>1, <2>2, <2>3 DEF TypeOK
  <1>18. CASE Checkpoint(p)
    <2>1. DiskType'
      BY <1>0, <1>18 DEF DiskType, Checkpoint, EndOp, Goto, disk, locks, MineType
    <2>2. LockType'
      BY <1>0, <1>18 DEF LockType, Checkpoint, EndOp, Goto, disk, locks
    <2>3. MineType'
      BY <1>0, <1>18 DEF MineType, Checkpoint, EndOp, Goto, disk, locks, Pc, DiskType
    <2> QED BY <2>1, <2>2, <2>3 DEF TypeOK
  <1>19. CASE StageRestore(p)
    <2>1. DiskType'
      BY <1>0, <1>19 DEF DiskType, StageRestore, Goto, disk, locks, MineType
    <2>2. LockType'
      BY <1>0, <1>19 DEF LockType, StageRestore, Goto, disk, locks
    <2>3. MineType'
      BY <1>0, <1>19 DEF MineType, StageRestore, Goto, disk, locks, Pc, DiskType
    <2> QED BY <2>1, <2>2, <2>3 DEF TypeOK
  <1>20. CASE RestoreRows(p)
    <2>1. DiskType'
      BY <1>0, <1>20 DEF DiskType, RestoreRows, EndOp, Goto, disk, locks, MineType, KeyInv
    <2>2. LockType'
      BY <1>0, <1>20 DEF LockType, RestoreRows, EndOp, Goto, disk, locks
    <2>3. MineType'
      BY <1>0, <1>20 DEF MineType, RestoreRows, EndOp, Goto, disk, locks, Pc, DiskType
    <2> QED BY <2>1, <2>2, <2>3 DEF TypeOK
  <1>21. CASE RestoreFails(p)
    <2>1. DiskType'
      BY <1>0, <1>21 DEF DiskType, RestoreFails, Leave, Forget, Goto, disk, locks, MineType
    <2>2. LockType'
      BY <1>0, <1>21 DEF LockType, RestoreFails, Leave, Forget, Goto, disk, locks
    <2>3. MineType'
      BY <1>0, <1>21 DEF MineType, RestoreFails, Leave, Forget, Goto, disk, locks, Pc, DiskType
    <2> QED BY <2>1, <2>2, <2>3 DEF TypeOK
  <1>22. CASE RotateBegins(p)
    <2>1. DiskType'
      BY <1>0, <1>22 DEF DiskType, RotateBegins, Goto, disk, locks, MineType
    <2>2. LockType'
      BY <1>0, <1>22 DEF LockType, RotateBegins, Goto, disk, locks
    <2>3. MineType'
      BY <1>0, <1>22 DEF MineType, RotateBegins, Goto, disk, locks, Pc, DiskType
    <2> QED BY <2>1, <2>2, <2>3 DEF TypeOK
  <1>23. ASSUME NEW m \in Mode, Stage(p, m)
        PROVE  TypeOK'
    <2>2. LockType'
      BY <1>0, <1>23, RotationAssumption DEF LockType, Stage, Goto, disk, locks, Key, HeaderInv
    <2>1. DiskType'
      BY <1>0, <1>23, <2>2 DEF DiskType, Stage, Goto, disk, locks, LockType, MineType
    <2>3. MineType'
      BY <1>0, <1>23, RetiringTyped, <2>2
      DEF MineType, Stage, Goto, disk, locks, LockType, DiskType, Pc, DiskType
    <2> QED BY <2>1, <2>2, <2>3 DEF TypeOK
  <1>24. CASE PrepareFails(p)
    <2>1. DiskType'
      BY <1>0, <1>24 DEF DiskType, PrepareFails, Forget, Goto, disk, locks, MineType
    <2>2. LockType'
      BY <1>0, <1>24 DEF LockType, PrepareFails, Forget, Goto, disk, locks
    <2>3. MineType'
      BY <1>0, <1>24 DEF MineType, PrepareFails, Forget, Goto, disk, locks, Pc, DiskType
    <2> QED BY <2>1, <2>2, <2>3 DEF TypeOK
  <1>25. CASE Commit(p)
    <2>1. DiskType'
      BY <1>0, <1>25 DEF DiskType, Commit, Committed, Goto, disk, locks, MineType
    <2>2. LockType'
      BY <1>0, <1>25 DEF LockType, Commit, Committed, Goto, disk, locks
    <2>3. MineType'
      BY <1>0, <1>25 DEF MineType, Commit, Committed, Goto, disk, locks, Pc, DiskType
    <2> QED BY <2>1, <2>2, <2>3 DEF TypeOK
  <1>26. CASE CommitFails(p)
    <2>1. DiskType'
      BY <1>0, <1>26 DEF DiskType, CommitFails, Forget, Committed, Goto, disk, locks, MineType
    <2>2. LockType'
      BY <1>0, <1>26 DEF LockType, CommitFails, Forget, Committed, Goto, disk, locks
    <2>3. MineType'
      BY <1>0, <1>26 DEF MineType, CommitFails, Forget, Committed, Goto, disk, locks, Pc, DiskType
    <2> QED BY <2>1, <2>2, <2>3 DEF TypeOK
  <1>27. CASE Crash(p)
    <2>1. DiskType'
      BY <1>0, <1>27 DEF DiskType, Crash, Leave, Forget, Goto, disk, locks, MineType, KeyInv
    <2>2. LockType'
      BY <1>0, <1>27, RotationAssumption
      DEF LockType, Crash, Leave, Forget, Goto, disk, locks, Key, HeaderInv
    <2>3. MineType'
      BY <1>0, <1>27 DEF MineType, Crash, Leave, Forget, Goto, disk, locks, Pc, DiskType
    <2> QED BY <2>1, <2>2, <2>3 DEF TypeOK
  <1> QED BY <1>1, <1>2, <1>3, <1>4, <1>5, <1>6, <1>7, <1>8, <1>9, <1>10, <1>11, <1>12, <1>13, <1>14,
            <1>15, <1>16, <1>17, <1>18, <1>19, <1>20, <1>21, <1>22, <1>23, <1>24, <1>25, <1>26, <1>27 DEF Step

-----------------------------------------------------------------------------
(* Interleaving: what a step of one process leaves to the others.          *)

\* A step changes nothing that another process keeps for itself.
LEMMA OthersKeep ==
  ASSUME NEW p \in Process, NEW q \in Process, q # p, MineType, Step(p)
  PROVE  /\ pc'[q] = pc[q] /\ key'[q] = key[q] /\ header'[q] = header[q] /\ task'[q] = task[q]
         /\ todo'[q] = todo[q] /\ left'[q] = left[q] /\ fault'[q] = fault[q] /\ kept'[q] = kept[q]
  <1> DEFINE Same == /\ pc'[q] = pc[q] /\ key'[q] = key[q] /\ header'[q] = header[q] /\ task'[q] = task[q]
                     /\ todo'[q] = todo[q] /\ left'[q] = left[q] /\ fault'[q] = fault[q] /\ kept'[q] = kept[q]
  <1> SUFFICES Same
    OBVIOUS
  <1>1. CASE ReadHeader(p)
    BY <1>1 DEF MineType, ReadHeader, Goto
  <1>2. CASE Unwrap(p)
    BY <1>2 DEF MineType, Unwrap, Leave, Forget, Goto
  <1>3. CASE VerifyKey(p)
    BY <1>3 DEF MineType, VerifyKey, Leave, Forget, Goto
  <1>4. CASE OpenStore(p)
    BY <1>4 DEF MineType, OpenStore, Leave, Forget, Goto
  <1>5. CASE CloseStore(p)
    BY <1>5 DEF MineType, CloseStore, Leave, Forget, Goto
  <1>6. CASE RetireBegins(p)
    BY <1>6 DEF MineType, RetireBegins, AfterRetire, Goto
  <1>7. CASE RetireEnds(p)
    BY <1>7 DEF MineType, RetireEnds, AfterRetire, Goto
  <1>8. ASSUME NEW a \in Key, RetireEntry(p, a)
        PROVE  Same
    BY <1>8 DEF MineType, RetireEntry, Refused
  <1>9. CASE ScrubCheck(p)
    BY <1>9 DEF MineType, ScrubCheck, Goto
  <1>10. CASE ScrubLock(p)
    BY <1>10 DEF MineType, ScrubLock, Goto
  <1>11. CASE ScrubStops(p)
    BY <1>11 DEF MineType, ScrubStops, AfterScrub, Refused, Goto
  <1>12. CASE ScrubWal(p)
    BY <1>12 DEF MineType, ScrubWal, Goto
  <1>13. CASE ScrubFiles(p)
    BY <1>13 DEF MineType, ScrubFiles, Goto
  <1>14. CASE ScrubSidecar(p)
    BY <1>14 DEF MineType, ScrubSidecar, AfterScrub, Goto
  <1>15. CASE GivesUp(p)
    BY <1>15 DEF MineType, GivesUp, Leave, Refused, AfterRetire, Forget, Goto
  <1>16. CASE BeginOp(p)
    BY <1>16 DEF MineType, BeginOp, Leave, Forget, Goto
  <1>17. CASE WriteRows(p)
    BY <1>17 DEF MineType, WriteRows, EndOp, Goto
  <1>18. CASE Checkpoint(p)
    BY <1>18 DEF MineType, Checkpoint, EndOp, Goto
  <1>19. CASE StageRestore(p)
    BY <1>19 DEF MineType, StageRestore, Goto
  <1>20. CASE RestoreRows(p)
    BY <1>20 DEF MineType, RestoreRows, EndOp, Goto
  <1>21. CASE RestoreFails(p)
    BY <1>21 DEF MineType, RestoreFails, Leave, Forget, Goto
  <1>22. CASE RotateBegins(p)
    BY <1>22 DEF MineType, RotateBegins, Goto
  <1>23. ASSUME NEW m \in Mode, Stage(p, m)
        PROVE  Same
    BY <1>23 DEF MineType, Stage, Goto
  <1>24. CASE PrepareFails(p)
    BY <1>24 DEF MineType, PrepareFails, Forget, Goto
  <1>25. CASE Commit(p)
    BY <1>25 DEF MineType, Commit, Committed, Goto
  <1>26. CASE CommitFails(p)
    BY <1>26 DEF MineType, CommitFails, Forget, Committed, Goto
  <1>27. CASE Crash(p)
    BY <1>27 DEF MineType, Crash, Leave, Forget, Goto
  <1> QED BY <1>1, <1>2, <1>3, <1>4, <1>5, <1>6, <1>7, <1>8, <1>9, <1>10, <1>11, <1>12, <1>13, <1>14,
            <1>15, <1>16, <1>17, <1>18, <1>19, <1>20, <1>21, <1>22, <1>23, <1>24, <1>25, <1>26, <1>27 DEF Step

\* While a process is in an exclusive step no other is in a step that holds
\* the fence, and one process at a time retires accounts.
LEMMA FenceExcludes ==
  ASSUME NEW p \in Process, NEW q \in Process, q # p, LockInv
  PROVE  /\ pc[p] \in Exclusive => pc[q] \notin Exclusive /\ pc[q] \notin Sharing
         /\ pc[p] \in Sharing => pc[q] \notin Exclusive
         /\ pc[p] = "retiring" => pc[q] # "retiring"
  BY DEF LockInv

\* The locks stay with the steps that need them (profile_lock.rs).
LEMMA StepLocks ==
  ASSUME NEW p \in Process, RotationInv, Step(p)
  PROVE  LockInv'
  <1>0. LockType /\ MineType /\ LockInv
    BY DEF RotationInv, TypeOK
  <1>a. \A q \in Process : q # p => pc'[q] = pc[q]
    BY <1>0, OthersKeep
  <1>1. CASE ReadHeader(p)
    BY <1>0, <1>a, <1>1
    DEF LockInv, LockType, MineType, Exclusive, Sharing, SharedFree, ExclusiveFree, disk,
        locks, ReadHeader, Goto
  <1>2. CASE Unwrap(p)
    BY <1>0, <1>a, <1>2
    DEF LockInv, LockType, MineType, Exclusive, Sharing, SharedFree, ExclusiveFree, disk,
        locks, Unwrap, Leave, Forget, Goto
  <1>3. CASE VerifyKey(p)
    BY <1>0, <1>a, <1>3
    DEF LockInv, LockType, MineType, Exclusive, Sharing, SharedFree, ExclusiveFree, disk,
        locks, VerifyKey, Leave, Forget, Goto
  <1>4. CASE OpenStore(p)
    BY <1>0, <1>a, <1>4
    DEF LockInv, LockType, MineType, Exclusive, Sharing, SharedFree, ExclusiveFree, disk,
        locks, OpenStore, Leave, Forget, Goto
  <1>5. CASE CloseStore(p)
    BY <1>0, <1>a, <1>5
    DEF LockInv, LockType, MineType, Exclusive, Sharing, SharedFree, ExclusiveFree, disk,
        locks, CloseStore, Leave, Forget, Goto
  <1>6. CASE RetireBegins(p)
    BY <1>0, <1>a, <1>6
    DEF LockInv, LockType, MineType, Exclusive, Sharing, SharedFree, ExclusiveFree, disk,
        locks, RetireBegins, AfterRetire, Goto
  <1>7. CASE RetireEnds(p)
    BY <1>0, <1>a, <1>7
    DEF LockInv, LockType, MineType, Exclusive, Sharing, SharedFree, ExclusiveFree, disk,
        locks, RetireEnds, AfterRetire, Goto
  <1>8. ASSUME NEW a \in Key, RetireEntry(p, a)
        PROVE  LockInv'
    BY <1>0, <1>a, <1>8
    DEF LockInv, LockType, MineType, Exclusive, Sharing, SharedFree, ExclusiveFree, disk,
        locks, RetireEntry, Refused
  <1>9. CASE ScrubCheck(p)
    BY <1>0, <1>a, <1>9
    DEF LockInv, LockType, MineType, Exclusive, Sharing, SharedFree, ExclusiveFree, disk,
        locks, ScrubCheck, Goto
  <1>10. CASE ScrubLock(p)
    BY <1>0, <1>a, <1>10
    DEF LockInv, LockType, MineType, Exclusive, Sharing, SharedFree, ExclusiveFree, disk,
        locks, ScrubLock, Goto
  <1>11. CASE ScrubStops(p)
    BY <1>0, <1>a, <1>11
    DEF LockInv, LockType, MineType, Exclusive, Sharing, SharedFree, ExclusiveFree, disk,
        locks, ScrubStops, AfterScrub, Refused, Goto
  <1>12. CASE ScrubWal(p)
    BY <1>0, <1>a, <1>12
    DEF LockInv, LockType, MineType, Exclusive, Sharing, SharedFree, ExclusiveFree, disk,
        locks, ScrubWal, Goto
  <1>13. CASE ScrubFiles(p)
    BY <1>0, <1>a, <1>13
    DEF LockInv, LockType, MineType, Exclusive, Sharing, SharedFree, ExclusiveFree, disk,
        locks, ScrubFiles, Goto
  <1>14. CASE ScrubSidecar(p)
    BY <1>0, <1>a, <1>14
    DEF LockInv, LockType, MineType, Exclusive, Sharing, SharedFree, ExclusiveFree, disk,
        locks, ScrubSidecar, AfterScrub, Goto
  <1>15. CASE GivesUp(p)
    BY <1>0, <1>a, <1>15
    DEF LockInv, LockType, MineType, Exclusive, Sharing, SharedFree, ExclusiveFree, disk,
        locks, GivesUp, Leave, Refused, AfterRetire, Forget, Goto
  <1>16. CASE BeginOp(p)
    BY <1>0, <1>a, <1>16
    DEF LockInv, LockType, MineType, Exclusive, Sharing, SharedFree, ExclusiveFree, disk,
        locks, BeginOp, Leave, Forget, Goto
  <1>17. CASE WriteRows(p)
    BY <1>0, <1>a, <1>17
    DEF LockInv, LockType, MineType, Exclusive, Sharing, SharedFree, ExclusiveFree, disk,
        locks, WriteRows, EndOp, Goto
  <1>18. CASE Checkpoint(p)
    BY <1>0, <1>a, <1>18
    DEF LockInv, LockType, MineType, Exclusive, Sharing, SharedFree, ExclusiveFree, disk,
        locks, Checkpoint, EndOp, Goto
  <1>19. CASE StageRestore(p)
    BY <1>0, <1>a, <1>19
    DEF LockInv, LockType, MineType, Exclusive, Sharing, SharedFree, ExclusiveFree, disk,
        locks, StageRestore, Goto
  <1>20. CASE RestoreRows(p)
    BY <1>0, <1>a, <1>20
    DEF LockInv, LockType, MineType, Exclusive, Sharing, SharedFree, ExclusiveFree, disk,
        locks, RestoreRows, EndOp, Goto
  <1>21. CASE RestoreFails(p)
    BY <1>0, <1>a, <1>21
    DEF LockInv, LockType, MineType, Exclusive, Sharing, SharedFree, ExclusiveFree, disk,
        locks, RestoreFails, Leave, Forget, Goto
  <1>22. CASE RotateBegins(p)
    BY <1>0, <1>a, <1>22
    DEF LockInv, LockType, MineType, Exclusive, Sharing, SharedFree, ExclusiveFree, disk,
        locks, RotateBegins, Goto
  <1>23. ASSUME NEW m \in Mode, Stage(p, m)
        PROVE  LockInv'
    BY <1>0, <1>a, <1>23
    DEF LockInv, LockType, MineType, Exclusive, Sharing, SharedFree, ExclusiveFree, disk,
        locks, Stage, Goto
  <1>24. CASE PrepareFails(p)
    BY <1>0, <1>a, <1>24
    DEF LockInv, LockType, MineType, Exclusive, Sharing, SharedFree, ExclusiveFree, disk,
        locks, PrepareFails, Forget, Goto
  <1>25. CASE Commit(p)
    BY <1>0, <1>a, <1>25
    DEF LockInv, LockType, MineType, Exclusive, Sharing, SharedFree, ExclusiveFree, disk,
        locks, Commit, Committed, Goto
  <1>26. CASE CommitFails(p)
    BY <1>0, <1>a, <1>26
    DEF LockInv, LockType, MineType, Exclusive, Sharing, SharedFree, ExclusiveFree, disk,
        locks, CommitFails, Forget, Committed, Goto
  <1>27. CASE Crash(p)
    BY <1>0, <1>a, <1>27
    DEF LockInv, LockType, MineType, Exclusive, Sharing, SharedFree, ExclusiveFree, disk,
        locks, Crash, Leave, Forget, Goto
  <1> QED BY <1>1, <1>2, <1>3, <1>4, <1>5, <1>6, <1>7, <1>8, <1>9, <1>10, <1>11, <1>12, <1>13, <1>14,
            <1>15, <1>16, <1>17, <1>18, <1>19, <1>20, <1>21, <1>22, <1>23, <1>24, <1>25, <1>26, <1>27 DEF Step

-----------------------------------------------------------------------------
(* What the steps do to the disk.                                          *)

\* The steps that only read the disk.
Reads(p) ==
  \/ ReadHeader(p) \/ Unwrap(p) \/ VerifyKey(p) \/ OpenStore(p) \/ CloseStore(p)
  \/ RetireBegins(p) \/ ScrubCheck(p) \/ ScrubLock(p) \/ ScrubStops(p) \/ GivesUp(p)
  \/ BeginOp(p) \/ StageRestore(p) \/ RestoreFails(p) \/ RotateBegins(p)

\* They leave the disk and the key counter as they are.
LEMMA ReadsChangeNothing ==
  ASSUME NEW p \in Process, Reads(p)
  PROVE  /\ db' = db /\ data' = data /\ pages' = pages /\ copies' = copies /\ staging' = staging /\ sidecar' = sidecar
         /\ keychain' = keychain /\ past' = past /\ gen' = gen
  BY DEF Reads, disk, ReadHeader, Unwrap, VerifyKey, OpenStore, CloseStore, RetireBegins,
     ScrubCheck, ScrubLock, ScrubStops, GivesUp, BeginOp, StageRestore, RestoreFails,
     RotateBegins

\* The disk part of the invariant says the same of the same disk.
LEMMA SameDisk ==
  ASSUME DiskInv, db' = db, data' = data, pages' = pages, sidecar' = sidecar,
         keychain' = keychain, past' = past, gen' = gen
  PROVE  DiskInv'
  BY DEF DiskInv, OneKey, OrderInv, AccountInv, SidecarInv

\* A commit seals every row with the new key and lists the account of the one
\* it replaces (Committed, of a rotation whose header is staged).
LEMMA CommittedDisk ==
  ASSUME NEW p \in Process, DiskType, LockType, MineType, DiskInv, HeaderInv(p), pc[p] = "staged",
         Committed(p), sidecar' = sidecar, keychain' = keychain, gen' = gen
  PROVE  DiskInv'
  <1> USE RotationAssumption, HeaderParts
  <1>1. OneKey'
    BY DEF OneKey, Committed
  <1>a. /\ db'.key = gen /\ db'.retired = Retiring(db) /\ past' = past \cup {gen}
        /\ db'.mode = "keychain" <=> keychain[gen] = "key"
    BY DEF HeaderInv, Committed
  <1>c. \A k \in Retiring(db) : k \in past
    BY DEF DiskInv, OrderInv, Retiring
  <1>d. \A k \in past : k \in Key /\ k <= db.key
    BY DEF DiskInv, OrderInv, DiskType
  <1>e. gen \in Int /\ db.key \in Int /\ db.key < gen
    BY DEF HeaderInv, LockType, DiskType, Key
  <1>f. \A k \in past : k < gen /\ k # gen
    BY <1>d, <1>e DEF Key
  <1>2. OrderInv'
    BY <1>a, <1>c, <1>e, <1>f DEF DiskInv, OrderInv, DiskType, Key
  <1>b. \A k \in past : keychain[k] = "key" => k \in Retiring(db)
    BY DEF DiskInv, AccountInv, Retiring
  <1>3. AccountInv'
    BY <1>a, <1>b DEF AccountInv
  <1>4. SidecarInv'
    BY DEF DiskInv, OrderInv, SidecarInv, HeaderInv, DiskType, LockType, MineType, Key, Committed
  <1> QED BY <1>1, <1>2, <1>3, <1>4 DEF DiskInv

\* Every step keeps the rows, the accounts and the sidecar in accord with the header.
LEMMA StepDisk ==
  ASSUME NEW p \in Process, RotationInv, Step(p)
  PROVE  DiskInv'
  <1>0. /\ DiskType /\ LockType /\ MineType
        /\ DiskInv /\ KeyInv(p) /\ HeaderInv(p) /\ RetireInv(p) /\ CleanInv(p)
    BY DEF RotationInv, ProcInv, TypeOK
  <1> USE RotationAssumption, HeaderParts
  <1>1. CASE Reads(p)
    BY <1>0, <1>1, ReadsChangeNothing, SameDisk
  <1>2. CASE RetireEnds(p)
    <2>0. /\ db'.key = db.key /\ db'.mode = db.mode
          /\ db'.retired = left[p] \/ db'.retired = db.retired
      BY <1>0, <1>2 DEF RetireEnds, DiskType, Header
    <2>1. /\ left[p] \subseteq db.retired
          /\ \A k \in db.retired \ left[p] : keychain[k] # "key"
          /\ data' = data /\ pages' = pages /\ sidecar' = sidecar
          /\ keychain' = keychain /\ past' = past /\ gen' = gen
      BY <1>0, <1>2 DEF RetireEnds, RetireInv
    <2>2. OneKey' /\ SidecarInv'
      BY <1>0, <2>0, <2>1 DEF DiskInv, OneKey, SidecarInv
    <2>3. OrderInv'
      BY <1>0, <2>0, <2>1 DEF DiskInv, OrderInv
    <2>4. AccountInv'
      BY <1>0, <2>0, <2>1 DEF DiskInv, AccountInv
    <2> QED BY <2>2, <2>3, <2>4 DEF DiskInv
  <1>3. ASSUME NEW a \in Key, RetireEntry(p, a)
        PROVE  DiskInv'
    <2>1. OneKey'
      BY <1>0, <1>3 DEF DiskInv, OneKey, KeyInv, DiskType, RetireEntry, Refused
    <2>2. OrderInv'
      BY <1>0, <1>3
      DEF DiskInv, OrderInv, HeaderInv, RetireInv, Retiring, DiskType, LockType, MineType, Key,
          RetireEntry, Refused
    <2>3. AccountInv'
      BY <1>0, <1>3
      DEF DiskInv, OrderInv, AccountInv, HeaderInv, RetireInv, Retiring, DiskType, LockType,
          MineType, Key, RetireEntry, Refused
    <2>4. SidecarInv'
      BY <1>0, <1>3
      DEF DiskInv, OrderInv, SidecarInv, KeyInv, HeaderInv, CleanInv, DiskType, LockType,
          MineType, Key, RetireEntry, Refused
    <2> QED BY <2>1, <2>2, <2>3, <2>4 DEF DiskInv
  <1>4. CASE ScrubWal(p)
    <2>1. OneKey'
      BY <1>0, <1>4 DEF DiskInv, OneKey, KeyInv, DiskType, ScrubWal, Goto
    <2>2. OrderInv'
      BY <1>0, <1>4
      DEF DiskInv, OrderInv, HeaderInv, RetireInv, Retiring, DiskType, LockType, MineType, Key,
          ScrubWal, Goto
    <2>3. AccountInv'
      BY <1>0, <1>4
      DEF DiskInv, OrderInv, AccountInv, HeaderInv, RetireInv, Retiring, DiskType, LockType,
          MineType, Key, ScrubWal, Goto
    <2>4. SidecarInv'
      BY <1>0, <1>4
      DEF DiskInv, OrderInv, SidecarInv, KeyInv, HeaderInv, CleanInv, DiskType, LockType,
          MineType, Key, ScrubWal, Goto
    <2> QED BY <2>1, <2>2, <2>3, <2>4 DEF DiskInv
  <1>5. CASE ScrubFiles(p)
    BY <1>0, <1>5, SameDisk DEF ScrubFiles, Goto
  <1>6. CASE ScrubSidecar(p)
    <2>1. OneKey'
      BY <1>0, <1>6 DEF DiskInv, OneKey, KeyInv, DiskType, ScrubSidecar, AfterScrub, Goto
    <2>2. OrderInv'
      BY <1>0, <1>6
      DEF DiskInv, OrderInv, HeaderInv, RetireInv, Retiring, DiskType, LockType, MineType, Key,
          ScrubSidecar, AfterScrub, Goto
    <2>3. AccountInv'
      BY <1>0, <1>6
      DEF DiskInv, OrderInv, AccountInv, HeaderInv, RetireInv, Retiring, DiskType, LockType,
          MineType, Key, ScrubSidecar, AfterScrub, Goto
    <2>4. SidecarInv'
      BY <1>0, <1>6
      DEF DiskInv, OrderInv, SidecarInv, KeyInv, HeaderInv, CleanInv, DiskType, LockType,
          MineType, Key, ScrubSidecar, AfterScrub, Goto
    <2> QED BY <2>1, <2>2, <2>3, <2>4 DEF DiskInv
  <1>7. CASE WriteRows(p)
    <2>1. OneKey'
      BY <1>0, <1>7 DEF DiskInv, OneKey, KeyInv, DiskType, WriteRows, EndOp, Goto
    <2>2. OrderInv'
      BY <1>0, <1>7
      DEF DiskInv, OrderInv, HeaderInv, RetireInv, Retiring, DiskType, LockType, MineType, Key,
          WriteRows, EndOp, Goto
    <2>3. AccountInv'
      BY <1>0, <1>7
      DEF DiskInv, OrderInv, AccountInv, HeaderInv, RetireInv, Retiring, DiskType, LockType,
          MineType, Key, WriteRows, EndOp, Goto
    <2>4. SidecarInv'
      BY <1>0, <1>7
      DEF DiskInv, OrderInv, SidecarInv, KeyInv, HeaderInv, CleanInv, DiskType, LockType,
          MineType, Key, WriteRows, EndOp, Goto
    <2> QED BY <2>1, <2>2, <2>3, <2>4 DEF DiskInv
  <1>8. CASE Checkpoint(p)
    BY <1>0, <1>8, SameDisk DEF Checkpoint, EndOp, Goto
  <1>9. CASE RestoreRows(p)
    <2>1. OneKey'
      BY <1>0, <1>9 DEF DiskInv, OneKey, KeyInv, DiskType, RestoreRows, EndOp, Goto
    <2>2. OrderInv'
      BY <1>0, <1>9
      DEF DiskInv, OrderInv, HeaderInv, RetireInv, Retiring, DiskType, LockType, MineType, Key,
          RestoreRows, EndOp, Goto
    <2>3. AccountInv'
      BY <1>0, <1>9
      DEF DiskInv, OrderInv, AccountInv, HeaderInv, RetireInv, Retiring, DiskType, LockType,
          MineType, Key, RestoreRows, EndOp, Goto
    <2>4. SidecarInv'
      BY <1>0, <1>9
      DEF DiskInv, OrderInv, SidecarInv, KeyInv, HeaderInv, CleanInv, DiskType, LockType,
          MineType, Key, RestoreRows, EndOp, Goto
    <2> QED BY <2>1, <2>2, <2>3, <2>4 DEF DiskInv
  <1>10. ASSUME NEW m \in Mode, Stage(p, m)
        PROVE  DiskInv'
    <2>1. OneKey'
      BY <1>0, <1>10 DEF DiskInv, OneKey, KeyInv, DiskType, Stage, Goto
    <2>2. OrderInv'
      BY <1>0, <1>10
      DEF DiskInv, OrderInv, HeaderInv, RetireInv, Retiring, DiskType, LockType, MineType, Key,
          Stage, Goto
    <2>3. AccountInv'
      BY <1>0, <1>10
      DEF DiskInv, OrderInv, AccountInv, HeaderInv, RetireInv, Retiring, DiskType, LockType,
          MineType, Key, Stage, Goto
    <2>4. SidecarInv'
      BY <1>0, <1>10
      DEF DiskInv, OrderInv, SidecarInv, KeyInv, HeaderInv, CleanInv, DiskType, LockType,
          MineType, Key, Stage, Goto
    <2> QED BY <2>1, <2>2, <2>3, <2>4 DEF DiskInv
  <1>11. CASE PrepareFails(p)
    <2>1. OneKey'
      BY <1>0, <1>11 DEF DiskInv, OneKey, KeyInv, DiskType, PrepareFails, Forget, Goto
    <2>2. OrderInv'
      BY <1>0, <1>11
      DEF DiskInv, OrderInv, HeaderInv, RetireInv, Retiring, DiskType, LockType, MineType, Key,
          PrepareFails, Forget, Goto
    <2>3. AccountInv'
      BY <1>0, <1>11
      DEF DiskInv, OrderInv, AccountInv, HeaderInv, RetireInv, Retiring, DiskType, LockType,
          MineType, Key, PrepareFails, Forget, Goto
    <2>4. SidecarInv'
      BY <1>0, <1>11
      DEF DiskInv, OrderInv, SidecarInv, KeyInv, HeaderInv, CleanInv, DiskType, LockType,
          MineType, Key, PrepareFails, Forget, Goto
    <2> QED BY <2>1, <2>2, <2>3, <2>4 DEF DiskInv
  <1>12. CASE Commit(p)
    BY <1>0, <1>12, CommittedDisk DEF Commit
  <1>13. CASE CommitFails(p)
    <2>1. CASE Committed(p)
      BY <1>0, <1>13, <2>1, CommittedDisk DEF CommitFails
    <2>2. CASE ~Committed(p)
      BY <1>0, <1>13, <2>2, SameDisk DEF CommitFails
    <2> QED BY <2>1, <2>2
  <1>14. CASE Crash(p)
    BY <1>0, <1>14, SameDisk DEF Crash, Leave, Forget, Goto
  <1> QED
    BY <1>1, <1>2, <1>3, <1>4, <1>5, <1>6, <1>7, <1>8, <1>9, <1>10, <1>11, <1>12, <1>13, <1>14
    DEF Step, Reads

-----------------------------------------------------------------------------
(* What a step means to the other processes, and to its own.               *)

\* A step of another process keeps what is known of this one: a step that
\* changes the disk holds the fence against the steps that rely on it.
LEMMA StepOthers ==
  ASSUME NEW p \in Process, NEW q \in Process, q # p, RotationInv, Step(p)
  PROVE  ProcInv(q)'
  <1>0. /\ DiskType /\ LockType /\ MineType /\ LockInv
        /\ DiskInv /\ KeyInv(p) /\ HeaderInv(p) /\ RetireInv(p) /\ CleanInv(p)
        /\ KeyInv(q) /\ HeaderInv(q) /\ RetireInv(q) /\ CleanInv(q)
    BY DEF RotationInv, ProcInv, TypeOK
  <1>a. /\ pc'[q] = pc[q] /\ key'[q] = key[q] /\ header'[q] = header[q] /\ task'[q] = task[q]
        /\ todo'[q] = todo[q] /\ left'[q] = left[q] /\ fault'[q] = fault[q] /\ kept'[q] = kept[q]
    BY <1>0, OthersKeep
  <1>b. /\ pc[p] \in Exclusive => pc[q] \notin Exclusive /\ pc[q] \notin Sharing
        /\ pc[p] \in Sharing => pc[q] \notin Exclusive
        /\ pc[p] = "retiring" => pc[q] # "retiring"
    BY <1>0, FenceExcludes
  <1> USE RotationAssumption, HeaderParts
  <1>1. CASE Reads(p)
    BY <1>0, <1>1, <1>a, ReadsChangeNothing DEF ProcInv, KeyInv, HeaderInv, RetireInv, CleanInv
  <1>2. CASE RetireEnds(p)
    <2>0. /\ db'.key = db.key
          /\ db'.retired \subseteq db.retired
          /\ pages' = pages /\ copies' = copies /\ staging' = staging /\ sidecar' = sidecar
          /\ keychain' = keychain /\ past' = past /\ gen' = gen
          /\ pc[p] = "retiring"
      BY <1>0, <1>2 DEF RetireEnds, RetireInv, DiskType, Header
    <2>1. KeyInv(q)'
      BY <1>0, <1>a, <2>0 DEF KeyInv
    <2>2. HeaderInv(q)'
      BY <1>0, <1>a, <1>b, <2>0 DEF HeaderInv, Exclusive, Sharing
    <2>3. RetireInv(q)'
      BY <1>0, <1>a, <1>b, <2>0 DEF RetireInv
    <2>4. CleanInv(q)'
      BY <1>0, <1>a, <2>0 DEF CleanInv
    <2> QED BY <2>1, <2>2, <2>3, <2>4 DEF ProcInv
  <1>3. ASSUME NEW a \in Key, RetireEntry(p, a)
        PROVE  ProcInv(q)'
    <2>1. KeyInv(q)'
      BY <1>0, <1>a, <1>b, <1>3
      DEF DiskInv, OrderInv, KeyInv, HeaderInv, DiskType, LockType, MineType, Key, NoKey,
          Exclusive, Sharing, RetireEntry, Refused
    <2>2. HeaderInv(q)'
      BY <1>0, <1>a, <1>b, <1>3
      DEF DiskInv, OrderInv, HeaderInv, RetireInv, DiskType, LockType, MineType, Key,
          Exclusive, Sharing, RetireEntry, Refused
    <2>3. RetireInv(q)'
      BY <1>0, <1>a, <1>b, <1>3
      DEF RetireInv, DiskType, LockType, MineType, Exclusive, Sharing, RetireEntry, Refused
    <2>4. CleanInv(q)'
      BY <1>0, <1>a, <1>b, <1>3
      DEF DiskInv, OneKey, OrderInv, HeaderInv, KeyInv, RetireInv, CleanInv, DiskType,
          LockType, MineType, Key, NoKey, Exclusive, Sharing, Superseded, RetireEntry, Refused
    <2> QED BY <2>1, <2>2, <2>3, <2>4 DEF ProcInv
  <1>4. CASE ScrubWal(p)
    <2>1. KeyInv(q)'
      BY <1>0, <1>a, <1>b, <1>4
      DEF DiskInv, OrderInv, KeyInv, HeaderInv, DiskType, LockType, MineType, Key, NoKey,
          Exclusive, Sharing, ScrubWal, Goto
    <2>2. HeaderInv(q)'
      BY <1>0, <1>a, <1>b, <1>4
      DEF DiskInv, OrderInv, HeaderInv, RetireInv, DiskType, LockType, MineType, Key,
          Exclusive, Sharing, ScrubWal, Goto
    <2>3. RetireInv(q)'
      BY <1>0, <1>a, <1>b, <1>4
      DEF RetireInv, DiskType, LockType, MineType, Exclusive, Sharing, ScrubWal, Goto
    <2>4. CleanInv(q)'
      BY <1>0, <1>a, <1>b, <1>4
      DEF DiskInv, OneKey, OrderInv, HeaderInv, KeyInv, RetireInv, CleanInv, DiskType,
          LockType, MineType, Key, NoKey, Exclusive, Sharing, Superseded, ScrubWal, Goto
    <2> QED BY <2>1, <2>2, <2>3, <2>4 DEF ProcInv
  <1>5. CASE ScrubFiles(p)
    <2>1. KeyInv(q)'
      BY <1>0, <1>a, <1>b, <1>5
      DEF DiskInv, OrderInv, KeyInv, HeaderInv, DiskType, LockType, MineType, Key, NoKey,
          Exclusive, Sharing, ScrubFiles, Goto
    <2>2. HeaderInv(q)'
      BY <1>0, <1>a, <1>b, <1>5
      DEF DiskInv, OrderInv, HeaderInv, RetireInv, DiskType, LockType, MineType, Key,
          Exclusive, Sharing, ScrubFiles, Goto
    <2>3. RetireInv(q)'
      BY <1>0, <1>a, <1>b, <1>5
      DEF RetireInv, DiskType, LockType, MineType, Exclusive, Sharing, ScrubFiles, Goto
    <2>4. CleanInv(q)'
      BY <1>0, <1>a, <1>b, <1>5
      DEF DiskInv, OneKey, OrderInv, HeaderInv, KeyInv, RetireInv, CleanInv, DiskType,
          LockType, MineType, Key, NoKey, Exclusive, Sharing, Superseded, ScrubFiles, Goto
    <2> QED BY <2>1, <2>2, <2>3, <2>4 DEF ProcInv
  <1>6. CASE ScrubSidecar(p)
    <2>1. KeyInv(q)'
      BY <1>0, <1>a, <1>b, <1>6
      DEF DiskInv, OrderInv, KeyInv, HeaderInv, DiskType, LockType, MineType, Key, NoKey,
          Exclusive, Sharing, ScrubSidecar, AfterScrub, Goto
    <2>2. HeaderInv(q)'
      BY <1>0, <1>a, <1>b, <1>6
      DEF DiskInv, OrderInv, HeaderInv, RetireInv, DiskType, LockType, MineType, Key,
          Exclusive, Sharing, ScrubSidecar, AfterScrub, Goto
    <2>3. RetireInv(q)'
      BY <1>0, <1>a, <1>b, <1>6
      DEF RetireInv, DiskType, LockType, MineType, Exclusive, Sharing, ScrubSidecar,
          AfterScrub, Goto
    <2>4. CleanInv(q)'
      BY <1>0, <1>a, <1>b, <1>6
      DEF DiskInv, OneKey, OrderInv, HeaderInv, KeyInv, RetireInv, CleanInv, DiskType,
          LockType, MineType, Key, NoKey, Exclusive, Sharing, Superseded, ScrubSidecar,
          AfterScrub, Goto
    <2> QED BY <2>1, <2>2, <2>3, <2>4 DEF ProcInv
  <1>7. CASE WriteRows(p)
    <2>1. KeyInv(q)'
      BY <1>0, <1>a, <1>b, <1>7
      DEF DiskInv, OrderInv, KeyInv, HeaderInv, DiskType, LockType, MineType, Key, NoKey,
          Exclusive, Sharing, WriteRows, EndOp, Goto
    <2>2. HeaderInv(q)'
      BY <1>0, <1>a, <1>b, <1>7
      DEF DiskInv, OrderInv, HeaderInv, RetireInv, DiskType, LockType, MineType, Key,
          Exclusive, Sharing, WriteRows, EndOp, Goto
    <2>3. RetireInv(q)'
      BY <1>0, <1>a, <1>b, <1>7
      DEF RetireInv, DiskType, LockType, MineType, Exclusive, Sharing, WriteRows, EndOp, Goto
    <2>4. CleanInv(q)'
      BY <1>0, <1>a, <1>b, <1>7
      DEF DiskInv, OneKey, OrderInv, HeaderInv, KeyInv, RetireInv, CleanInv, DiskType,
          LockType, MineType, Key, NoKey, Exclusive, Sharing, Superseded, WriteRows, EndOp,
          Goto
    <2> QED BY <2>1, <2>2, <2>3, <2>4 DEF ProcInv
  <1>8. CASE Checkpoint(p)
    <2>1. KeyInv(q)'
      BY <1>0, <1>a, <1>b, <1>8
      DEF DiskInv, OrderInv, KeyInv, HeaderInv, DiskType, LockType, MineType, Key, NoKey,
          Exclusive, Sharing, Checkpoint, EndOp, Goto
    <2>2. HeaderInv(q)'
      BY <1>0, <1>a, <1>b, <1>8
      DEF DiskInv, OrderInv, HeaderInv, RetireInv, DiskType, LockType, MineType, Key,
          Exclusive, Sharing, Checkpoint, EndOp, Goto
    <2>3. RetireInv(q)'
      BY <1>0, <1>a, <1>b, <1>8
      DEF RetireInv, DiskType, LockType, MineType, Exclusive, Sharing, Checkpoint, EndOp, Goto
    <2>4. CleanInv(q)'
      BY <1>0, <1>a, <1>b, <1>8
      DEF DiskInv, OneKey, OrderInv, HeaderInv, KeyInv, RetireInv, CleanInv, DiskType,
          LockType, MineType, Key, NoKey, Exclusive, Sharing, Superseded, Checkpoint, EndOp,
          Goto
    <2> QED BY <2>1, <2>2, <2>3, <2>4 DEF ProcInv
  <1>9. CASE RestoreRows(p)
    <2>1. KeyInv(q)'
      BY <1>0, <1>a, <1>b, <1>9
      DEF DiskInv, OrderInv, KeyInv, HeaderInv, DiskType, LockType, MineType, Key, NoKey,
          Exclusive, Sharing, RestoreRows, EndOp, Goto
    <2>2. HeaderInv(q)'
      BY <1>0, <1>a, <1>b, <1>9
      DEF DiskInv, OrderInv, HeaderInv, RetireInv, DiskType, LockType, MineType, Key,
          Exclusive, Sharing, RestoreRows, EndOp, Goto
    <2>3. RetireInv(q)'
      BY <1>0, <1>a, <1>b, <1>9
      DEF RetireInv, DiskType, LockType, MineType, Exclusive, Sharing, RestoreRows, EndOp, Goto
    <2>4. CleanInv(q)'
      BY <1>0, <1>a, <1>b, <1>9
      DEF DiskInv, OneKey, OrderInv, HeaderInv, KeyInv, RetireInv, CleanInv, DiskType,
          LockType, MineType, Key, NoKey, Exclusive, Sharing, Superseded, RestoreRows, EndOp,
          Goto
    <2> QED BY <2>1, <2>2, <2>3, <2>4 DEF ProcInv
  <1>10. ASSUME NEW m \in Mode, Stage(p, m)
        PROVE  ProcInv(q)'
    <2>1. KeyInv(q)'
      BY <1>0, <1>a, <1>b, <1>10
      DEF DiskInv, OrderInv, KeyInv, HeaderInv, DiskType, LockType, MineType, Key, NoKey,
          Exclusive, Sharing, Stage, Goto
    <2>2. HeaderInv(q)'
      BY <1>0, <1>a, <1>b, <1>10
      DEF DiskInv, OrderInv, HeaderInv, RetireInv, DiskType, LockType, MineType, Key,
          Exclusive, Sharing, Stage, Goto
    <2>3. RetireInv(q)'
      BY <1>0, <1>a, <1>b, <1>10
      DEF RetireInv, DiskType, LockType, MineType, Exclusive, Sharing, Stage, Goto
    <2>4. CleanInv(q)'
      BY <1>0, <1>a, <1>b, <1>10
      DEF DiskInv, OneKey, OrderInv, HeaderInv, KeyInv, RetireInv, CleanInv, DiskType,
          LockType, MineType, Key, NoKey, Exclusive, Sharing, Superseded, Stage, Goto
    <2> QED BY <2>1, <2>2, <2>3, <2>4 DEF ProcInv
  <1>11. CASE PrepareFails(p)
    <2>1. KeyInv(q)'
      BY <1>0, <1>a, <1>b, <1>11
      DEF DiskInv, OrderInv, KeyInv, HeaderInv, DiskType, LockType, MineType, Key, NoKey,
          Exclusive, Sharing, PrepareFails, Forget, Goto
    <2>2. HeaderInv(q)'
      BY <1>0, <1>a, <1>b, <1>11
      DEF DiskInv, OrderInv, HeaderInv, RetireInv, DiskType, LockType, MineType, Key,
          Exclusive, Sharing, PrepareFails, Forget, Goto
    <2>3. RetireInv(q)'
      BY <1>0, <1>a, <1>b, <1>11
      DEF RetireInv, DiskType, LockType, MineType, Exclusive, Sharing, PrepareFails, Forget,
          Goto
    <2>4. CleanInv(q)'
      BY <1>0, <1>a, <1>b, <1>11
      DEF DiskInv, OneKey, OrderInv, HeaderInv, KeyInv, RetireInv, CleanInv, DiskType,
          LockType, MineType, Key, NoKey, Exclusive, Sharing, Superseded, PrepareFails, Forget,
          Goto
    <2> QED BY <2>1, <2>2, <2>3, <2>4 DEF ProcInv
  <1>12. CASE Commit(p)
    <2>1. KeyInv(q)'
      BY <1>0, <1>a, <1>b, <1>12
      DEF DiskInv, OrderInv, KeyInv, HeaderInv, DiskType, LockType, MineType, Key, NoKey,
          Exclusive, Sharing, Commit, Committed, Goto
    <2>2. HeaderInv(q)'
      BY <1>0, <1>a, <1>b, <1>12
      DEF DiskInv, OrderInv, HeaderInv, RetireInv, DiskType, LockType, MineType, Key,
          Exclusive, Sharing, Commit, Committed, Goto
    <2>3. RetireInv(q)'
      BY <1>0, <1>a, <1>b, <1>12
      DEF RetireInv, DiskType, LockType, MineType, Exclusive, Sharing, Commit, Committed, Goto
    <2>4. CleanInv(q)'
      BY <1>0, <1>a, <1>b, <1>12
      DEF DiskInv, OneKey, OrderInv, HeaderInv, KeyInv, RetireInv, CleanInv, DiskType,
          LockType, MineType, Key, NoKey, Exclusive, Sharing, Superseded, Commit, Committed,
          Goto
    <2> QED BY <2>1, <2>2, <2>3, <2>4 DEF ProcInv
  <1>13. CASE CommitFails(p)
    <2>1. KeyInv(q)'
      BY <1>0, <1>a, <1>b, <1>13, SMTT(30)
      DEF DiskInv, OrderInv, KeyInv, HeaderInv, DiskType, LockType, MineType, Key, NoKey,
          Exclusive, Sharing, CommitFails, Forget, Committed, Goto
    <2>2. HeaderInv(q)'
      BY <1>0, <1>a, <1>b, <1>13
      DEF DiskInv, OrderInv, HeaderInv, RetireInv, DiskType, LockType, MineType, Key,
          Exclusive, Sharing, CommitFails, Forget, Committed, Goto
    <2>3. RetireInv(q)'
      BY <1>0, <1>a, <1>b, <1>13
      DEF RetireInv, DiskType, LockType, MineType, Exclusive, Sharing, CommitFails, Forget,
          Committed, Goto
    <2>4. CleanInv(q)'
      BY <1>0, <1>a, <1>b, <1>13
      DEF DiskInv, OneKey, OrderInv, HeaderInv, KeyInv, RetireInv, CleanInv, DiskType,
          LockType, MineType, Key, NoKey, Exclusive, Sharing, Superseded, CommitFails, Forget,
          Committed, Goto
    <2> QED BY <2>1, <2>2, <2>3, <2>4 DEF ProcInv
  <1>14. CASE Crash(p)
    <2>1. KeyInv(q)'
      BY <1>0, <1>a, <1>b, <1>14
      DEF DiskInv, OrderInv, KeyInv, HeaderInv, DiskType, LockType, MineType, Key, NoKey,
          Exclusive, Sharing, Crash, Leave, Forget, Goto
    <2>2. HeaderInv(q)'
      BY <1>0, <1>a, <1>b, <1>14
      DEF DiskInv, OrderInv, HeaderInv, RetireInv, DiskType, LockType, MineType, Key,
          Exclusive, Sharing, Crash, Leave, Forget, Goto
    <2>3. RetireInv(q)'
      BY <1>0, <1>a, <1>b, <1>14
      DEF RetireInv, DiskType, LockType, MineType, Exclusive, Sharing, Crash, Leave, Forget,
          Goto
    <2>4. CleanInv(q)'
      BY <1>0, <1>a, <1>b, <1>14
      DEF DiskInv, OneKey, OrderInv, HeaderInv, KeyInv, RetireInv, CleanInv, DiskType,
          LockType, MineType, Key, NoKey, Exclusive, Sharing, Superseded, Crash, Leave, Forget,
          Goto
    <2> QED BY <2>1, <2>2, <2>3, <2>4 DEF ProcInv
  <1> QED
    BY <1>1, <1>2, <1>3, <1>4, <1>5, <1>6, <1>7, <1>8, <1>9, <1>10, <1>11, <1>12, <1>13, <1>14
    DEF Step, Reads

\* A step keeps what is known of its own process.
LEMMA StepMine ==
  ASSUME NEW p \in Process, RotationInv, Step(p)
  PROVE  ProcInv(p)'
  <1>0. /\ DiskType /\ LockType /\ MineType /\ LockInv
        /\ DiskInv /\ KeyInv(p) /\ HeaderInv(p) /\ RetireInv(p) /\ CleanInv(p)
    BY DEF RotationInv, ProcInv, TypeOK
  <1> USE RotationAssumption, HeaderParts
  <1>1. CASE ReadHeader(p)
    <2>1. KeyInv(p)'
      BY <1>0, <1>1
      DEF DiskInv, OrderInv, KeyInv, HeaderInv, DiskType, LockType, MineType, Key, NoKey,
          Blank, SharedFree, ExclusiveFree, disk, ReadHeader, Goto
    <2>2. HeaderInv(p)'
      BY <1>0, <1>1
      DEF DiskInv, OrderInv, HeaderInv, RetireInv, DiskType, LockType, MineType, Key, Blank,
          Retiring, disk, ReadHeader, Goto
    <2>3. RetireInv(p)'
      BY <1>0, <1>1 DEF RetireInv, DiskType, LockType, MineType, disk, ReadHeader, Goto
    <2>4. CleanInv(p)'
      BY <1>0, <1>1
      DEF DiskInv, OneKey, OrderInv, AccountInv, SidecarInv, HeaderInv, KeyInv, RetireInv,
          CleanInv, DiskType, LockType, MineType, Key, NoKey, Superseded, disk, ReadHeader,
          Goto
    <2> QED BY <2>1, <2>2, <2>3, <2>4 DEF ProcInv
  <1>2. CASE Unwrap(p)
    <2>1. KeyInv(p)'
      BY <1>0, <1>2
      DEF DiskInv, OrderInv, KeyInv, HeaderInv, DiskType, LockType, MineType, Key, NoKey,
          Blank, SharedFree, ExclusiveFree, disk, Unwrap, Leave, Forget, Goto
    <2>2. HeaderInv(p)'
      BY <1>0, <1>2
      DEF DiskInv, OrderInv, HeaderInv, RetireInv, DiskType, LockType, MineType, Key, Blank,
          Retiring, disk, Unwrap, Leave, Forget, Goto
    <2>3. RetireInv(p)'
      BY <1>0, <1>2 DEF RetireInv, DiskType, LockType, MineType, disk, Unwrap, Leave, Forget, Goto
    <2>4. CleanInv(p)'
      BY <1>0, <1>2
      DEF DiskInv, OneKey, OrderInv, AccountInv, SidecarInv, HeaderInv, KeyInv, RetireInv,
          CleanInv, DiskType, LockType, MineType, Key, NoKey, Superseded, disk, Unwrap, Leave,
          Forget, Goto
    <2> QED BY <2>1, <2>2, <2>3, <2>4 DEF ProcInv
  <1>3. CASE VerifyKey(p)
    <2>1. KeyInv(p)'
      BY <1>0, <1>3
      DEF DiskInv, OrderInv, KeyInv, HeaderInv, DiskType, LockType, MineType, Key, NoKey,
          Blank, SharedFree, ExclusiveFree, disk, VerifyKey, Leave, Forget, Goto
    <2>2. HeaderInv(p)'
      BY <1>0, <1>3
      DEF DiskInv, OrderInv, HeaderInv, RetireInv, DiskType, LockType, MineType, Key, Blank,
          Retiring, disk, VerifyKey, Leave, Forget, Goto
    <2>3. RetireInv(p)'
      BY <1>0, <1>3 DEF RetireInv, DiskType, LockType, MineType, disk, VerifyKey, Leave, Forget, Goto
    <2>4. CleanInv(p)'
      BY <1>0, <1>3
      DEF DiskInv, OneKey, OrderInv, AccountInv, SidecarInv, HeaderInv, KeyInv, RetireInv,
          CleanInv, DiskType, LockType, MineType, Key, NoKey, Superseded, disk, VerifyKey,
          Leave, Forget, Goto
    <2> QED BY <2>1, <2>2, <2>3, <2>4 DEF ProcInv
  <1>4. CASE OpenStore(p)
    <2>1. KeyInv(p)'
      BY <1>0, <1>4
      DEF DiskInv, OrderInv, KeyInv, HeaderInv, DiskType, LockType, MineType, Key, NoKey,
          Blank, SharedFree, ExclusiveFree, disk, OpenStore, Leave, Forget, Goto
    <2>2. HeaderInv(p)'
      BY <1>0, <1>4
      DEF DiskInv, OrderInv, HeaderInv, RetireInv, DiskType, LockType, MineType, Key, Blank,
          Retiring, disk, OpenStore, Leave, Forget, Goto
    <2>3. RetireInv(p)'
      BY <1>0, <1>4 DEF RetireInv, DiskType, LockType, MineType, disk, OpenStore, Leave, Forget, Goto
    <2>4. CleanInv(p)'
      BY <1>0, <1>4
      DEF DiskInv, OneKey, OrderInv, AccountInv, SidecarInv, HeaderInv, KeyInv, RetireInv,
          CleanInv, DiskType, LockType, MineType, Key, NoKey, Superseded, disk, OpenStore,
          Leave, Forget, Goto
    <2> QED BY <2>1, <2>2, <2>3, <2>4 DEF ProcInv
  <1>5. CASE CloseStore(p)
    <2>1. KeyInv(p)'
      BY <1>0, <1>5
      DEF DiskInv, OrderInv, KeyInv, HeaderInv, DiskType, LockType, MineType, Key, NoKey,
          Blank, SharedFree, ExclusiveFree, disk, CloseStore, Leave, Forget, Goto
    <2>2. HeaderInv(p)'
      BY <1>0, <1>5
      DEF DiskInv, OrderInv, HeaderInv, RetireInv, DiskType, LockType, MineType, Key, Blank,
          Retiring, disk, CloseStore, Leave, Forget, Goto
    <2>3. RetireInv(p)'
      BY <1>0, <1>5 DEF RetireInv, DiskType, LockType, MineType, disk, CloseStore, Leave, Forget, Goto
    <2>4. CleanInv(p)'
      BY <1>0, <1>5
      DEF DiskInv, OneKey, OrderInv, AccountInv, SidecarInv, HeaderInv, KeyInv, RetireInv,
          CleanInv, DiskType, LockType, MineType, Key, NoKey, Superseded, disk, CloseStore,
          Leave, Forget, Goto
    <2> QED BY <2>1, <2>2, <2>3, <2>4 DEF ProcInv
  <1>6. CASE RetireBegins(p)
    <2>1. KeyInv(p)'
      BY <1>0, <1>6
      DEF DiskInv, OrderInv, KeyInv, HeaderInv, DiskType, LockType, MineType, Key, NoKey,
          Blank, SharedFree, ExclusiveFree, disk, RetireBegins, AfterRetire, Goto
    <2>2. HeaderInv(p)'
      BY <1>0, <1>6
      DEF DiskInv, OrderInv, HeaderInv, RetireInv, DiskType, LockType, MineType, Key, Blank,
          Retiring, disk, RetireBegins, AfterRetire, Goto
    <2>3. RetireInv(p)'
      BY <1>0, <1>6 DEF RetireInv, DiskType, LockType, MineType, disk, RetireBegins, AfterRetire, Goto
    <2>4. CleanInv(p)'
      BY <1>0, <1>6
      DEF DiskInv, OneKey, OrderInv, AccountInv, SidecarInv, HeaderInv, KeyInv, RetireInv,
          CleanInv, DiskType, LockType, MineType, Key, NoKey, Superseded, disk, RetireBegins,
          AfterRetire, Goto
    <2> QED BY <2>1, <2>2, <2>3, <2>4 DEF ProcInv
  <1>7. CASE RetireEnds(p)
    <2>0. /\ db'.key = db.key
          /\ db'.retired \subseteq db.retired
          /\ pages' = pages /\ copies' = copies /\ staging' = staging /\ sidecar' = sidecar
          /\ keychain' = keychain /\ past' = past /\ gen' = gen
          /\ pc[p] = "retiring" /\ pc'[p] = AfterRetire(p) /\ todo[p] = {}
          /\ key' = key /\ header' = header /\ task' = task /\ fault' = fault
      BY <1>0, <1>7 DEF RetireEnds, RetireInv, DiskType, MineType, Header, Goto, Pc
    <2>1. KeyInv(p)'
      BY <1>0, <2>0 DEF KeyInv, AfterRetire
    <2>2. HeaderInv(p)'
      BY <1>0, <2>0 DEF HeaderInv, AfterRetire
    <2>3. RetireInv(p)'
      BY <1>0, <2>0 DEF RetireInv, AfterRetire
    <2>4. CleanInv(p)'
      BY <1>0, <2>0 DEF CleanInv, RetireInv, DiskInv, AccountInv, AfterRetire
    <2> QED BY <2>1, <2>2, <2>3, <2>4 DEF ProcInv
  <1>8. ASSUME NEW a \in Key, RetireEntry(p, a)
        PROVE  ProcInv(p)'
    <2>1. KeyInv(p)'
      BY <1>0, <1>8
      DEF DiskInv, OrderInv, KeyInv, HeaderInv, DiskType, LockType, MineType, Key, NoKey,
          Blank, SharedFree, ExclusiveFree, disk, RetireEntry, Refused
    <2>2. HeaderInv(p)'
      BY <1>0, <1>8
      DEF DiskInv, OrderInv, HeaderInv, RetireInv, DiskType, LockType, MineType, Key, Blank,
          Retiring, disk, RetireEntry, Refused
    <2>3. RetireInv(p)'
      BY <1>0, <1>8 DEF RetireInv, DiskType, LockType, MineType, disk, RetireEntry, Refused
    <2>4. CleanInv(p)'
      BY <1>0, <1>8
      DEF DiskInv, OneKey, OrderInv, AccountInv, SidecarInv, HeaderInv, KeyInv, RetireInv,
          CleanInv, DiskType, LockType, MineType, Key, NoKey, Superseded, disk, RetireEntry,
          Refused
    <2> QED BY <2>1, <2>2, <2>3, <2>4 DEF ProcInv
  <1>9. CASE ScrubCheck(p)
    <2>1. KeyInv(p)'
      BY <1>0, <1>9
      DEF DiskInv, OrderInv, KeyInv, HeaderInv, DiskType, LockType, MineType, Key, NoKey,
          Blank, SharedFree, ExclusiveFree, disk, ScrubCheck, Goto
    <2>2. HeaderInv(p)'
      BY <1>0, <1>9
      DEF DiskInv, OrderInv, HeaderInv, RetireInv, DiskType, LockType, MineType, Key, Blank,
          Retiring, disk, ScrubCheck, Goto
    <2>3. RetireInv(p)'
      BY <1>0, <1>9 DEF RetireInv, DiskType, LockType, MineType, disk, ScrubCheck, Goto
    <2>4. CleanInv(p)'
      BY <1>0, <1>9
      DEF DiskInv, OneKey, OrderInv, AccountInv, SidecarInv, HeaderInv, KeyInv, RetireInv,
          CleanInv, DiskType, LockType, MineType, Key, NoKey, Superseded, disk, ScrubCheck,
          Goto
    <2> QED BY <2>1, <2>2, <2>3, <2>4 DEF ProcInv
  <1>10. CASE ScrubLock(p)
    <2>1. KeyInv(p)'
      BY <1>0, <1>10
      DEF DiskInv, OrderInv, KeyInv, HeaderInv, DiskType, LockType, MineType, Key, NoKey,
          Blank, SharedFree, ExclusiveFree, disk, ScrubLock, Goto
    <2>2. HeaderInv(p)'
      BY <1>0, <1>10
      DEF DiskInv, OrderInv, HeaderInv, RetireInv, DiskType, LockType, MineType, Key, Blank,
          Retiring, disk, ScrubLock, Goto
    <2>3. RetireInv(p)'
      BY <1>0, <1>10 DEF RetireInv, DiskType, LockType, MineType, disk, ScrubLock, Goto
    <2>4. CleanInv(p)'
      BY <1>0, <1>10
      DEF DiskInv, OneKey, OrderInv, AccountInv, SidecarInv, HeaderInv, KeyInv, RetireInv,
          CleanInv, DiskType, LockType, MineType, Key, NoKey, Superseded, disk, ScrubLock, Goto
    <2> QED BY <2>1, <2>2, <2>3, <2>4 DEF ProcInv
  <1>11. CASE ScrubStops(p)
    <2>1. KeyInv(p)'
      BY <1>0, <1>11
      DEF DiskInv, OrderInv, KeyInv, HeaderInv, DiskType, LockType, MineType, Key, NoKey,
          Blank, SharedFree, ExclusiveFree, disk, ScrubStops, AfterScrub, Refused, Goto
    <2>2. HeaderInv(p)'
      BY <1>0, <1>11
      DEF DiskInv, OrderInv, HeaderInv, RetireInv, DiskType, LockType, MineType, Key, Blank,
          Retiring, disk, ScrubStops, AfterScrub, Refused, Goto
    <2>3. RetireInv(p)'
      BY <1>0, <1>11
      DEF RetireInv, DiskType, LockType, MineType, disk, ScrubStops, AfterScrub, Refused, Goto
    <2>4. CleanInv(p)'
      BY <1>0, <1>11
      DEF DiskInv, OneKey, OrderInv, AccountInv, SidecarInv, HeaderInv, KeyInv, RetireInv,
          CleanInv, DiskType, LockType, MineType, Key, NoKey, Superseded, disk, ScrubStops,
          AfterScrub, Refused, Goto
    <2> QED BY <2>1, <2>2, <2>3, <2>4 DEF ProcInv
  <1>12. CASE ScrubWal(p)
    <2>1. KeyInv(p)'
      BY <1>0, <1>12
      DEF DiskInv, OrderInv, KeyInv, HeaderInv, DiskType, LockType, MineType, Key, NoKey,
          Blank, SharedFree, ExclusiveFree, disk, ScrubWal, Goto
    <2>2. HeaderInv(p)'
      BY <1>0, <1>12
      DEF DiskInv, OrderInv, HeaderInv, RetireInv, DiskType, LockType, MineType, Key, Blank,
          Retiring, disk, ScrubWal, Goto
    <2>3. RetireInv(p)'
      BY <1>0, <1>12 DEF RetireInv, DiskType, LockType, MineType, disk, ScrubWal, Goto
    <2>4. CleanInv(p)'
      BY <1>0, <1>12
      DEF DiskInv, OneKey, OrderInv, AccountInv, SidecarInv, HeaderInv, KeyInv, RetireInv,
          CleanInv, DiskType, LockType, MineType, Key, NoKey, Superseded, disk, ScrubWal, Goto
    <2> QED BY <2>1, <2>2, <2>3, <2>4 DEF ProcInv
  <1>13. CASE ScrubFiles(p)
    <2>1. KeyInv(p)'
      BY <1>0, <1>13
      DEF DiskInv, OrderInv, KeyInv, HeaderInv, DiskType, LockType, MineType, Key, NoKey,
          Blank, SharedFree, ExclusiveFree, disk, ScrubFiles, Goto
    <2>2. HeaderInv(p)'
      BY <1>0, <1>13
      DEF DiskInv, OrderInv, HeaderInv, RetireInv, DiskType, LockType, MineType, Key, Blank,
          Retiring, disk, ScrubFiles, Goto
    <2>3. RetireInv(p)'
      BY <1>0, <1>13 DEF RetireInv, DiskType, LockType, MineType, disk, ScrubFiles, Goto
    <2>4. CleanInv(p)'
      BY <1>0, <1>13
      DEF DiskInv, OneKey, OrderInv, AccountInv, SidecarInv, HeaderInv, KeyInv, RetireInv,
          CleanInv, DiskType, LockType, MineType, Key, NoKey, Superseded, disk, ScrubFiles,
          Goto
    <2> QED BY <2>1, <2>2, <2>3, <2>4 DEF ProcInv
  <1>14. CASE ScrubSidecar(p)
    <2>1. KeyInv(p)'
      BY <1>0, <1>14
      DEF DiskInv, OrderInv, KeyInv, HeaderInv, DiskType, LockType, MineType, Key, NoKey,
          Blank, SharedFree, ExclusiveFree, disk, ScrubSidecar, AfterScrub, Goto
    <2>2. HeaderInv(p)'
      BY <1>0, <1>14
      DEF DiskInv, OrderInv, HeaderInv, RetireInv, DiskType, LockType, MineType, Key, Blank,
          Retiring, disk, ScrubSidecar, AfterScrub, Goto
    <2>3. RetireInv(p)'
      BY <1>0, <1>14 DEF RetireInv, DiskType, LockType, MineType, disk, ScrubSidecar, AfterScrub, Goto
    <2>4. CleanInv(p)'
      BY <1>0, <1>14
      DEF DiskInv, OneKey, OrderInv, AccountInv, SidecarInv, HeaderInv, KeyInv, RetireInv,
          CleanInv, DiskType, LockType, MineType, Key, NoKey, Superseded, disk, ScrubSidecar,
          AfterScrub, Goto
    <2> QED BY <2>1, <2>2, <2>3, <2>4 DEF ProcInv
  <1>15. CASE GivesUp(p)
    <2>1. KeyInv(p)'
      BY <1>0, <1>15
      DEF DiskInv, OrderInv, KeyInv, HeaderInv, DiskType, LockType, MineType, Key, NoKey,
          Blank, SharedFree, ExclusiveFree, disk, GivesUp, Leave, Refused, AfterRetire, Forget,
          Goto
    <2>2. HeaderInv(p)'
      BY <1>0, <1>15
      DEF DiskInv, OrderInv, HeaderInv, RetireInv, DiskType, LockType, MineType, Key, Blank,
          Retiring, disk, GivesUp, Leave, Refused, AfterRetire, Forget, Goto
    <2>3. RetireInv(p)'
      BY <1>0, <1>15
      DEF RetireInv, DiskType, LockType, MineType, disk, GivesUp, Leave, Refused, AfterRetire,
          Forget, Goto
    <2>4. CleanInv(p)'
      BY <1>0, <1>15
      DEF DiskInv, OneKey, OrderInv, AccountInv, SidecarInv, HeaderInv, KeyInv, RetireInv,
          CleanInv, DiskType, LockType, MineType, Key, NoKey, Superseded, disk, GivesUp, Leave,
          Refused, AfterRetire, Forget, Goto
    <2> QED BY <2>1, <2>2, <2>3, <2>4 DEF ProcInv
  <1>16. CASE BeginOp(p)
    <2>1. KeyInv(p)'
      BY <1>0, <1>16
      DEF DiskInv, OrderInv, KeyInv, HeaderInv, DiskType, LockType, MineType, Key, NoKey,
          Blank, SharedFree, ExclusiveFree, disk, BeginOp, Leave, Forget, Goto
    <2>2. HeaderInv(p)'
      BY <1>0, <1>16
      DEF DiskInv, OrderInv, HeaderInv, RetireInv, DiskType, LockType, MineType, Key, Blank,
          Retiring, disk, BeginOp, Leave, Forget, Goto
    <2>3. RetireInv(p)'
      BY <1>0, <1>16 DEF RetireInv, DiskType, LockType, MineType, disk, BeginOp, Leave, Forget, Goto
    <2>4. CleanInv(p)'
      BY <1>0, <1>16
      DEF DiskInv, OneKey, OrderInv, AccountInv, SidecarInv, HeaderInv, KeyInv, RetireInv,
          CleanInv, DiskType, LockType, MineType, Key, NoKey, Superseded, disk, BeginOp, Leave,
          Forget, Goto
    <2> QED BY <2>1, <2>2, <2>3, <2>4 DEF ProcInv
  <1>17. CASE WriteRows(p)
    <2>1. KeyInv(p)'
      BY <1>0, <1>17
      DEF DiskInv, OrderInv, KeyInv, HeaderInv, DiskType, LockType, MineType, Key, NoKey,
          Blank, SharedFree, ExclusiveFree, disk, WriteRows, EndOp, Goto
    <2>2. HeaderInv(p)'
      BY <1>0, <1>17
      DEF DiskInv, OrderInv, HeaderInv, RetireInv, DiskType, LockType, MineType, Key, Blank,
          Retiring, disk, WriteRows, EndOp, Goto
    <2>3. RetireInv(p)'
      BY <1>0, <1>17 DEF RetireInv, DiskType, LockType, MineType, disk, WriteRows, EndOp, Goto
    <2>4. CleanInv(p)'
      BY <1>0, <1>17
      DEF DiskInv, OneKey, OrderInv, AccountInv, SidecarInv, HeaderInv, KeyInv, RetireInv,
          CleanInv, DiskType, LockType, MineType, Key, NoKey, Superseded, disk, WriteRows,
          EndOp, Goto
    <2> QED BY <2>1, <2>2, <2>3, <2>4 DEF ProcInv
  <1>18. CASE Checkpoint(p)
    <2>1. KeyInv(p)'
      BY <1>0, <1>18
      DEF DiskInv, OrderInv, KeyInv, HeaderInv, DiskType, LockType, MineType, Key, NoKey,
          Blank, SharedFree, ExclusiveFree, disk, Checkpoint, EndOp, Goto
    <2>2. HeaderInv(p)'
      BY <1>0, <1>18
      DEF DiskInv, OrderInv, HeaderInv, RetireInv, DiskType, LockType, MineType, Key, Blank,
          Retiring, disk, Checkpoint, EndOp, Goto
    <2>3. RetireInv(p)'
      BY <1>0, <1>18 DEF RetireInv, DiskType, LockType, MineType, disk, Checkpoint, EndOp, Goto
    <2>4. CleanInv(p)'
      BY <1>0, <1>18
      DEF DiskInv, OneKey, OrderInv, AccountInv, SidecarInv, HeaderInv, KeyInv, RetireInv,
          CleanInv, DiskType, LockType, MineType, Key, NoKey, Superseded, disk, Checkpoint,
          EndOp, Goto
    <2> QED BY <2>1, <2>2, <2>3, <2>4 DEF ProcInv
  <1>19. CASE StageRestore(p)
    <2>1. KeyInv(p)'
      BY <1>0, <1>19
      DEF DiskInv, OrderInv, KeyInv, HeaderInv, DiskType, LockType, MineType, Key, NoKey,
          Blank, SharedFree, ExclusiveFree, disk, StageRestore, Goto
    <2>2. HeaderInv(p)'
      BY <1>0, <1>19
      DEF DiskInv, OrderInv, HeaderInv, RetireInv, DiskType, LockType, MineType, Key, Blank,
          Retiring, disk, StageRestore, Goto
    <2>3. RetireInv(p)'
      BY <1>0, <1>19 DEF RetireInv, DiskType, LockType, MineType, disk, StageRestore, Goto
    <2>4. CleanInv(p)'
      BY <1>0, <1>19
      DEF DiskInv, OneKey, OrderInv, AccountInv, SidecarInv, HeaderInv, KeyInv, RetireInv,
          CleanInv, DiskType, LockType, MineType, Key, NoKey, Superseded, disk, StageRestore,
          Goto
    <2> QED BY <2>1, <2>2, <2>3, <2>4 DEF ProcInv
  <1>20. CASE RestoreRows(p)
    <2>1. KeyInv(p)'
      BY <1>0, <1>20
      DEF DiskInv, OrderInv, KeyInv, HeaderInv, DiskType, LockType, MineType, Key, NoKey,
          Blank, SharedFree, ExclusiveFree, disk, RestoreRows, EndOp, Goto
    <2>2. HeaderInv(p)'
      BY <1>0, <1>20
      DEF DiskInv, OrderInv, HeaderInv, RetireInv, DiskType, LockType, MineType, Key, Blank,
          Retiring, disk, RestoreRows, EndOp, Goto
    <2>3. RetireInv(p)'
      BY <1>0, <1>20 DEF RetireInv, DiskType, LockType, MineType, disk, RestoreRows, EndOp, Goto
    <2>4. CleanInv(p)'
      BY <1>0, <1>20
      DEF DiskInv, OneKey, OrderInv, AccountInv, SidecarInv, HeaderInv, KeyInv, RetireInv,
          CleanInv, DiskType, LockType, MineType, Key, NoKey, Superseded, disk, RestoreRows,
          EndOp, Goto
    <2> QED BY <2>1, <2>2, <2>3, <2>4 DEF ProcInv
  <1>21. CASE RestoreFails(p)
    <2>1. KeyInv(p)'
      BY <1>0, <1>21
      DEF DiskInv, OrderInv, KeyInv, HeaderInv, DiskType, LockType, MineType, Key, NoKey,
          Blank, SharedFree, ExclusiveFree, disk, RestoreFails, Leave, Forget, Goto
    <2>2. HeaderInv(p)'
      BY <1>0, <1>21
      DEF DiskInv, OrderInv, HeaderInv, RetireInv, DiskType, LockType, MineType, Key, Blank,
          Retiring, disk, RestoreFails, Leave, Forget, Goto
    <2>3. RetireInv(p)'
      BY <1>0, <1>21 DEF RetireInv, DiskType, LockType, MineType, disk, RestoreFails, Leave, Forget, Goto
    <2>4. CleanInv(p)'
      BY <1>0, <1>21
      DEF DiskInv, OneKey, OrderInv, AccountInv, SidecarInv, HeaderInv, KeyInv, RetireInv,
          CleanInv, DiskType, LockType, MineType, Key, NoKey, Superseded, disk, RestoreFails,
          Leave, Forget, Goto
    <2> QED BY <2>1, <2>2, <2>3, <2>4 DEF ProcInv
  <1>22. CASE RotateBegins(p)
    <2>1. KeyInv(p)'
      BY <1>0, <1>22
      DEF DiskInv, OrderInv, KeyInv, HeaderInv, DiskType, LockType, MineType, Key, NoKey,
          Blank, SharedFree, ExclusiveFree, disk, RotateBegins, Goto
    <2>2. HeaderInv(p)'
      BY <1>0, <1>22
      DEF DiskInv, OrderInv, HeaderInv, RetireInv, DiskType, LockType, MineType, Key, Blank,
          Retiring, disk, RotateBegins, Goto
    <2>3. RetireInv(p)'
      BY <1>0, <1>22 DEF RetireInv, DiskType, LockType, MineType, disk, RotateBegins, Goto
    <2>4. CleanInv(p)'
      BY <1>0, <1>22
      DEF DiskInv, OneKey, OrderInv, AccountInv, SidecarInv, HeaderInv, KeyInv, RetireInv,
          CleanInv, DiskType, LockType, MineType, Key, NoKey, Superseded, disk, RotateBegins,
          Goto
    <2> QED BY <2>1, <2>2, <2>3, <2>4 DEF ProcInv
  <1>23. ASSUME NEW m \in Mode, Stage(p, m)
        PROVE  ProcInv(p)'
    <2>1. KeyInv(p)'
      BY <1>0, <1>23
      DEF DiskInv, OrderInv, KeyInv, HeaderInv, DiskType, LockType, MineType, Key, NoKey,
          Blank, SharedFree, ExclusiveFree, disk, Stage, Goto
    <2>2. HeaderInv(p)'
      BY <1>0, <1>23
      DEF DiskInv, OrderInv, HeaderInv, RetireInv, DiskType, LockType, MineType, Key, Blank,
          Retiring, disk, Stage, Goto
    <2>3. RetireInv(p)'
      BY <1>0, <1>23 DEF RetireInv, DiskType, LockType, MineType, disk, Stage, Goto
    <2>4. CleanInv(p)'
      BY <1>0, <1>23
      DEF DiskInv, OneKey, OrderInv, AccountInv, SidecarInv, HeaderInv, KeyInv, RetireInv,
          CleanInv, DiskType, LockType, MineType, Key, NoKey, Superseded, disk, Stage, Goto
    <2> QED BY <2>1, <2>2, <2>3, <2>4 DEF ProcInv
  <1>24. CASE PrepareFails(p)
    <2>1. KeyInv(p)'
      BY <1>0, <1>24
      DEF DiskInv, OrderInv, KeyInv, HeaderInv, DiskType, LockType, MineType, Key, NoKey,
          Blank, SharedFree, ExclusiveFree, disk, PrepareFails, Forget, Goto
    <2>2. HeaderInv(p)'
      BY <1>0, <1>24
      DEF DiskInv, OrderInv, HeaderInv, RetireInv, DiskType, LockType, MineType, Key, Blank,
          Retiring, disk, PrepareFails, Forget, Goto
    <2>3. RetireInv(p)'
      BY <1>0, <1>24 DEF RetireInv, DiskType, LockType, MineType, disk, PrepareFails, Forget, Goto
    <2>4. CleanInv(p)'
      BY <1>0, <1>24
      DEF DiskInv, OneKey, OrderInv, AccountInv, SidecarInv, HeaderInv, KeyInv, RetireInv,
          CleanInv, DiskType, LockType, MineType, Key, NoKey, Superseded, disk, PrepareFails,
          Forget, Goto
    <2> QED BY <2>1, <2>2, <2>3, <2>4 DEF ProcInv
  <1>25. CASE Commit(p)
    <2>1. KeyInv(p)'
      BY <1>0, <1>25
      DEF DiskInv, OrderInv, KeyInv, HeaderInv, DiskType, LockType, MineType, Key, NoKey,
          Blank, SharedFree, ExclusiveFree, disk, Commit, Committed, Goto
    <2>2. HeaderInv(p)'
      BY <1>0, <1>25
      DEF DiskInv, OrderInv, HeaderInv, RetireInv, DiskType, LockType, MineType, Key, Blank,
          Retiring, disk, Commit, Committed, Goto
    <2>3. RetireInv(p)'
      BY <1>0, <1>25 DEF RetireInv, DiskType, LockType, MineType, disk, Commit, Committed, Goto
    <2>4. CleanInv(p)'
      <3>1. pc'[p] = "wal" /\ key'[p] = NoKey /\ db' = header[p] /\ header[p].key \in Key
        BY <1>0, <1>25 DEF MineType, Commit, Committed, Goto
      <3>2. key'[p] # db'.key
        BY <3>1 DEF Key, NoKey
      <3> QED BY <3>1, <3>2 DEF CleanInv
    <2> QED BY <2>1, <2>2, <2>3, <2>4 DEF ProcInv
  <1>26. CASE CommitFails(p)
    <2>1. KeyInv(p)'
      <3>1. pc'[p] = "open" /\ key'[p] = key[p] /\ (db' = header[p] \/ db' = db)
        BY <1>0, <1>26 DEF MineType, CommitFails, Committed, Goto
      <3>2. /\ key[p] \in Int /\ db.key \in Int /\ header[p].key \in Int
            /\ key[p] <= db.key /\ db.key < header[p].key
        BY <1>0, <1>26 DEF KeyInv, HeaderInv, CommitFails, DiskType, LockType, MineType, Key, NoKey
      <3>3. key'[p] <= db'.key
        BY <3>1, <3>2
      <3> QED BY <3>1, <3>3 DEF KeyInv
    <2>2. HeaderInv(p)'
      BY <1>0, <1>26
      DEF DiskInv, OrderInv, HeaderInv, RetireInv, DiskType, LockType, MineType, Key, Blank,
          Retiring, disk, CommitFails, Forget, Committed, Goto
    <2>3. RetireInv(p)'
      BY <1>0, <1>26
      DEF RetireInv, DiskType, LockType, MineType, disk, CommitFails, Forget, Committed, Goto
    <2>4. CleanInv(p)'
      BY <1>0, <1>26
      DEF DiskInv, OneKey, OrderInv, AccountInv, SidecarInv, HeaderInv, KeyInv, RetireInv,
          CleanInv, DiskType, LockType, MineType, Key, NoKey, Superseded, disk, CommitFails,
          Forget, Committed, Goto
    <2> QED BY <2>1, <2>2, <2>3, <2>4 DEF ProcInv
  <1>27. CASE Crash(p)
    <2>1. KeyInv(p)'
      BY <1>0, <1>27
      DEF DiskInv, OrderInv, KeyInv, HeaderInv, DiskType, LockType, MineType, Key, NoKey,
          Blank, SharedFree, ExclusiveFree, disk, Crash, Leave, Forget, Goto
    <2>2. HeaderInv(p)'
      BY <1>0, <1>27
      DEF DiskInv, OrderInv, HeaderInv, RetireInv, DiskType, LockType, MineType, Key, Blank,
          Retiring, disk, Crash, Leave, Forget, Goto
    <2>3. RetireInv(p)'
      BY <1>0, <1>27 DEF RetireInv, DiskType, LockType, MineType, disk, Crash, Leave, Forget, Goto
    <2>4. CleanInv(p)'
      BY <1>0, <1>27
      DEF DiskInv, OneKey, OrderInv, AccountInv, SidecarInv, HeaderInv, KeyInv, RetireInv,
          CleanInv, DiskType, LockType, MineType, Key, NoKey, Superseded, disk, Crash, Leave,
          Forget, Goto
    <2> QED BY <2>1, <2>2, <2>3, <2>4 DEF ProcInv
  <1> QED BY <1>1, <1>2, <1>3, <1>4, <1>5, <1>6, <1>7, <1>8, <1>9, <1>10, <1>11, <1>12, <1>13, <1>14,
            <1>15, <1>16, <1>17, <1>18, <1>19, <1>20, <1>21, <1>22, <1>23, <1>24, <1>25, <1>26, <1>27 DEF Step

\* The invariant is inductive.
LEMMA RotationInvariant == Spec => []RotationInv
  <1>1. Init => RotationInv
    BY Initially
  <1>2. RotationInv /\ [Next]_vars => RotationInv'
    <2> SUFFICES ASSUME RotationInv, [Next]_vars PROVE RotationInv'
      OBVIOUS
    <2>1. CASE Next
      <3> PICK p \in Process : Step(p)
        BY <2>1 DEF Next
      <3>1. \A q \in Process : ProcInv(q)'
        BY StepMine, StepOthers
      <3> QED BY <3>1, StepTyped, StepLocks, StepDisk DEF RotationInv
    <2>2. CASE UNCHANGED vars
      <3>1. TypeOK' /\ LockInv' /\ DiskInv'
        BY <2>2 DEF RotationInv, vars, disk, locks, mine, TypeOK, DiskType, LockType, MineType, LockInv,
                    DiskInv, OneKey, OrderInv, AccountInv, SidecarInv
      <3>2. ASSUME NEW q \in Process PROVE ProcInv(q)'
        BY <2>2 DEF RotationInv, vars, disk, locks, mine, ProcInv, KeyInv, HeaderInv, RetireInv, CleanInv
      <3> QED BY <3>1, <3>2 DEF RotationInv
    <2> QED BY <2>1, <2>2
  <1> QED BY <1>1, <1>2, PTL DEF Spec

-----------------------------------------------------------------------------
(* The theorems.                                                           *)

\* Disk, locks and processes keep their types, whatever is rotated or crashes.
THEOREM RotationTyped == Spec => []TypeOK
  <1>1. RotationInv => TypeOK
    BY DEF RotationInv
  <1> QED BY <1>1, RotationInvariant, PTL

\* The key the committed header names can be had in every state: no rotation
\* that fails or is cut off, no cleanup of another process and no crash takes
\* the credential-store entry of the committed key (rotate_to,
\* retire_rotated_keychain).
THEOREM ProfilesOpen == Spec => []ProfileOpens
  <1>1. RotationInv => ProfileOpens
    BY HeaderParts DEF RotationInv, TypeOK, DiskType, DiskInv, AccountInv, ProfileOpens, Unwraps, Mode
  <1> QED BY <1>1, RotationInvariant, PTL

\* All committed rows are sealed with the committed key, however the writes of
\* several stores, restores and rotations interleave (Store::conn, rotate_to).
THEOREM RowsSealedWithOneKey == Spec => []OneKey
  <1>1. RotationInv => OneKey
    BY DEF RotationInv, DiskInv
  <1> QED BY <1>1, RotationInvariant, PTL

\* An unlock of which no step was refused leaves nothing of an earlier key but
\* the checkpoints whose key it could not tell, whatever was interrupted before
\* it (unlock_checked_policy, scrub_locked, checkpoint_superseded).
THEOREM UnlocksClean == Spec => []UnlockCleans
  <1>1. ASSUME RotationInv PROVE UnlockCleans
    <2> SUFFICES ASSUME NEW p \in Process, pc[p] = "unlocked", ~fault[p], key[p] = db.key
                 PROVE  /\ pages = {db.key} /\ staging \subseteq {db.key} /\ sidecar = db.key
                        /\ copies \subseteq {db.key} \cup kept[p]
                        /\ \A k \in past \ {db.key} : keychain[k] # "key"
      BY DEF UnlockCleans
    <2>1. KeyInv(p) /\ CleanInv(p) /\ SidecarInv
      BY <1>1 DEF RotationInv, ProcInv, DiskInv
    <2>2. task[p] = "unlock"
      BY <2>1 DEF KeyInv
    <2> QED BY <2>1, <2>2 DEF CleanInv, SidecarInv
  <1> QED BY <1>1, RotationInvariant, PTL

-----------------------------------------------------------------------------
(* The refinement of SealedProfile.                                        *)

\* The files hold the committed key's pages.
PagesInv == db.key \in pages

\* A step that commits nothing and adds nothing of a replaced key is one of
\* SealedProfile: what remains of such keys only shrinks.
LEMMA ErasesOnly ==
  ASSUME db'.key = db.key, data' = data, past' = past,
         pages' \subseteq pages \cup {db.key}, copies' \subseteq copies \cup {db.key},
         staging' \subseteq staging \cup {db.key}, sidecar' \in {sidecar, db.key},
         \A k \in past \ {db.key} : keychain'[k] = "key" => keychain[k] = "key"
  PROVE  Profile!Erase
  <1>1. Remains' \subseteq Remains
    BY DEF Remains
  <1> QED BY <1>1 DEF Profile!Erase

\* A commit is the rotation of SealedProfile: the key it replaces is still in
\* the files, and the new one was never committed before.
LEMMA CommitRotates ==
  ASSUME NEW p \in Process, RotationInv, PagesInv, pc[p] = "staged", Committed(p),
         UNCHANGED <<copies, staging, sidecar, keychain>>
  PROVE  Profile!Rotate /\ PagesInv'
  <1>1. /\ db \in Header /\ header[p] \in Header /\ past \in SUBSET Key /\ gen \in Key
        /\ OrderInv /\ HeaderInv(p)
    BY DEF RotationInv, TypeOK, DiskType, LockType, MineType, DiskInv, ProcInv
  <1>2. db.key \in Key /\ header[p].key = gen /\ db.key < gen
    BY <1>1, HeaderParts DEF HeaderInv
  <1>3. \A k \in past : k # gen
    BY <1>1, <1>2, RotationAssumption DEF OrderInv, Key
  <1>4. db'.key = gen /\ data' = {gen} /\ pages' = pages \cup {gen} /\ past' = past \cup {gen}
    BY <1>2 DEF Committed
  <1>5. db.key \in past /\ db.key \in pages
    BY <1>1 DEF OrderInv, PagesInv
  <1>6. Remains' = Remains \cup {db.key}
    BY <1>3, <1>4, <1>5 DEF Remains
  <1>7. gen > db.key
    BY <1>1, <1>2, RotationAssumption DEF Key
  <1> QED BY <1>4, <1>6, <1>7 DEF Profile!Rotate, PagesInv

\* Every step of a process is a rotation, an erasure or a stutter there.
LEMMA StepRefines ==
  ASSUME NEW p \in Process, RotationInv, PagesInv, Step(p)
  PROVE  [Profile!Next]_Profile!vars /\ PagesInv'
  <1>0. /\ DiskType /\ LockType /\ MineType /\ OneKey /\ OrderInv /\ KeyInv(p) /\ HeaderInv(p) /\ RetireInv(p)
    BY DEF RotationInv, TypeOK, DiskInv, ProcInv
  <1>1. CASE Reads(p)
    <2>1. /\ db' = db /\ data' = data /\ pages' = pages /\ copies' = copies /\ staging' = staging /\ sidecar' = sidecar
          /\ keychain' = keychain /\ past' = past
      BY <1>1, ReadsChangeNothing
    <2> QED BY <2>1, ErasesOnly DEF Profile!Next, PagesInv
  <1>2. ASSUME NEW a \in Key, RetireEntry(p, a)
        PROVE  Profile!Erase /\ PagesInv'
    <2>1. UNCHANGED <<db, data, pages, copies, staging, sidecar, past>>
      BY <1>2 DEF RetireEntry
    <2>2. \A k \in Key : keychain'[k] = "key" => keychain[k] = "key"
      BY <1>0, <1>2 DEF RetireEntry, DiskType
    <2>3. \A k \in past : k \in Key
      BY <1>0 DEF DiskType
    <2> QED BY <2>1, <2>2, <2>3, ErasesOnly DEF PagesInv
  <1>3. CASE RetireEnds(p)
    <2>1. UNCHANGED <<data, pages, copies, staging, sidecar, keychain, past>> /\ db'.key = db.key
      BY <1>0, <1>3, HeaderParts DEF RetireEnds, DiskType, Header
    <2> QED BY <2>1, ErasesOnly DEF PagesInv, Profile!Next
  <1>4. CASE ScrubWal(p) \/ ScrubFiles(p) \/ ScrubSidecar(p)
    <2>1. /\ UNCHANGED <<db, data, keychain, past>> /\ pages' \in {pages, {db.key}}
          /\ copies' \subseteq copies /\ staging' \subseteq staging /\ sidecar' \in {sidecar, db.key}
      BY <1>4 DEF ScrubWal, ScrubFiles, ScrubSidecar
    <2>2. /\ pages' \subseteq pages \cup {db.key} /\ copies' \subseteq copies \cup {db.key}
          /\ staging' \subseteq staging \cup {db.key}
      BY <2>1
    <2>3. PagesInv'
      BY <2>1 DEF PagesInv
    <2> QED BY <2>1, <2>2, <2>3, ErasesOnly DEF Profile!Next
  <1>5. CASE WriteRows(p) \/ Checkpoint(p) \/ RestoreRows(p)
    <2>1. key[p] = db.key /\ data = {db.key}
      <3>1. CASE pc[p] \in {"op", "restoring"}
        BY <1>0, <3>1 DEF KeyInv, OneKey
      <3>2. CASE Checkpoint(p)
        BY <1>0, <3>2 DEF KeyInv, OneKey, Checkpoint
      <3> QED BY <1>5, <3>1, <3>2 DEF WriteRows, RestoreRows
    <2>2. /\ UNCHANGED <<db, staging, sidecar, keychain, past>> /\ data' = data
          /\ pages' \in {pages, pages \cup {db.key}} /\ copies' \in {copies, copies \cup {db.key}}
      BY <1>5, <2>1 DEF WriteRows, Checkpoint, RestoreRows
    <2>3. pages' \subseteq pages \cup {db.key} /\ copies' \subseteq copies \cup {db.key}
      BY <2>2
    <2>4. PagesInv'
      BY <2>2 DEF PagesInv
    <2> QED BY <2>2, <2>3, <2>4, ErasesOnly DEF Profile!Next
  <1>6. ASSUME NEW m \in Mode, Stage(p, m)
        PROVE  Profile!Erase /\ PagesInv'
    <2>1. UNCHANGED <<db, data, pages, copies, staging, sidecar, past>>
      BY <1>6 DEF Stage
    <2>2. \A k \in past : k \in Key /\ k # gen + 1
      BY <1>0, RotationAssumption, HeaderParts DEF OrderInv, DiskType, LockType, Key
    <2>3. \A k \in past : keychain'[k] = keychain[k]
      BY <1>0, <1>6, <2>2 DEF Stage, DiskType
    <2> QED BY <2>1, <2>3, ErasesOnly DEF PagesInv
  <1>7. CASE PrepareFails(p)
    <2>1. UNCHANGED <<db, data, pages, copies, staging, sidecar, past>>
      BY <1>7 DEF PrepareFails
    <2>2. \A k \in Key : keychain'[k] = "key" => keychain[k] = "key"
      BY <1>0, <1>7 DEF PrepareFails, DiskType
    <2>3. \A k \in past : k \in Key
      BY <1>0 DEF DiskType
    <2> QED BY <2>1, <2>2, <2>3, ErasesOnly DEF PagesInv, Profile!Next
  <1>8. CASE Commit(p)
    BY <1>8, CommitRotates DEF Commit, Profile!Next
  <1>9. CASE CommitFails(p)
    <2>1. CASE Committed(p)
      BY <1>9, <2>1, CommitRotates DEF CommitFails, Profile!Next
    <2>2. CASE UNCHANGED <<db, data, pages, past>>
      BY <1>9, <2>2, ErasesOnly DEF CommitFails, Profile!Next, PagesInv
    <2> QED BY <1>9, <2>1, <2>2 DEF CommitFails
  <1>10. CASE Crash(p)
    <2>1. UNCHANGED <<db, data, pages, sidecar, keychain, past>>
      BY <1>10 DEF Crash
    <2>2. copies' \subseteq copies \cup {db.key} /\ staging' \subseteq staging \cup {db.key}
      BY <1>0, <1>10 DEF Crash, KeyInv
    <2> QED BY <2>1, <2>2, ErasesOnly DEF Profile!Next, PagesInv
  <1> QED BY <1>1, <1>2, <1>3, <1>4, <1>5, <1>6, <1>7, <1>8, <1>9, <1>10 DEF Step, Reads, Profile!Next

\* Any number of processes that unlock, work, rotate, clean up and crash
\* implement SealedProfile: key and rows change together, at a commit, and
\* nothing of a replaced key comes back once it was removed (rotate_to,
\* scrub_locked, restore_checkpoint, profile_lock.rs).
THEOREM ImplementsSealedProfile == Spec => RefinesSealedProfile
  <1>1. Init => Profile!Init /\ PagesInv
    BY DEF Init, Profile!Init, PagesInv, Remains, Blank
  <1>2. RotationInv /\ PagesInv /\ [Next]_vars => [Profile!Next]_Profile!vars /\ PagesInv'
    <2> SUFFICES ASSUME RotationInv, PagesInv, [Next]_vars PROVE [Profile!Next]_Profile!vars /\ PagesInv'
      OBVIOUS
    <2>1. CASE Next
      BY <2>1, StepRefines DEF Next
    <2>2. CASE UNCHANGED vars
      BY <2>2 DEF vars, disk, Profile!vars, Remains, PagesInv
    <2> QED BY <2>1, <2>2
  <1> QED BY <1>1, <1>2, RotationInvariant, PTL DEF Spec, RefinesSealedProfile, Profile!Spec
=============================================================================
