-------------------------- MODULE EngineCachesProofs --------------------------
(***************************************************************************)
(* What EngineCaches promises for every number of executions, workspaces   *)
(* and connections, and of locks and deletes: no connection leaks and none *)
(* is closed under a request; nothing outlives the lock or the delete that *)
(* must empty the caches; and a snapshot never mixes generations.          *)
(***************************************************************************)
EXTENDS EngineCaches, FiniteSetTheorems, TLAPS

-----------------------------------------------------------------------------
(* The invariant: connections. *)

(* The executions with a request on a connection. *)
Using(e, c) == pc[e] \in {"using", "drop"} /\ cn[e] = c
Users(c) == {e \in Exec : Using(e, c)}

(* The count of a connection is the number of its users; one that is not   *)
(* open has none and is in no map; one that is open has some, is in a map  *)
(* or is about to be released.                                             *)
AccountOf(c) ==
  /\ IsFiniteSet(Users(c)) /\ con[c].active = Cardinality(Users(c))
  /\ con[c].state # "open" => ~Held(pool, early, c) /\ Users(c) = {}
  /\ con[c].state = "open" => \/ con[c].active # 0 \/ Held(pool, early, c)
                              \/ \E e \in Exec : pc[e] = "release" /\ cn[e] = c

Accounts ==
  /\ \A c \in Conn : AccountOf(c)
  /\ \A e \in Exec : pc[e] \in {"using", "drop", "release"} => cn[e] \in Conn

-----------------------------------------------------------------------------
(* The invariant: what is dead.  The last session, and the last            *)
(* incarnation of a workspace, of which nothing may be kept any more, at   *)
(* each point of a lock and of a delete.                                   *)

DeadSession(stages) == IF locked /\ lockAt \notin stages THEN session ELSE session - 1
EpochDead == DeadSession({"epoch"})
PoolDead == DeadSession({"epoch", "quic"})
TicketsDead == DeadSession({"epoch", "quic", "tickets"})

Deleted(i) == IF present[i] THEN inc[i] - 1 ELSE inc[i]
DeadInc(i, stages) == IF delAt[i] \in stages THEN Deleted(i) - 1 ELSE Deleted(i)
JarDeadInc(i) == DeadInc(i, {"jar"})
PoolDeadInc(i) == DeadInc(i, {"jar", "quic"})
TicketsDeadInc(i) == DeadInc(i, {"jar", "quic", "tickets"})

(* A tag nothing has cleared yet from the cookies, the pool, the tickets.  *)
JarAlive(t, i) == t.ses > EpochDead /\ t.inc > JarDeadInc(i)
PoolAlive(t, i) == t.ses > PoolDead /\ t.inc > PoolDeadInc(i)
TicketsAlive(t, i) == t.ses > TicketsDead /\ t.inc > TicketsDeadInc(i)

(* What has returned is what the last stages have cleared. *)
History ==
  /\ lockAt # "none" => locked
  /\ ended = DeadSession({"epoch", "quic", "tickets", "jars"})
  /\ \A i \in Isolation : gone[i] = TicketsDeadInc(i)

(* A generation is never ahead of its cache, a snapshot of its engine. *)
Ahead ==
  /\ \A c \in Cache : gens[c].all <= gens[c].current /\ \A i \in Isolation : gens[c].iso[i] <= gens[c].current
  /\ \A e \in Exec : /\ snap[e].epoch <= epoch /\ snap[e].jar <= jarGen[iso[e]]
                     /\ snap[e].quic <= gens["quic"].current /\ snap[e].tickets <= gens["tickets"].current

(* Past the snapshot, with and without the tag of its workspace. *)
Snapped == {"read", "acquire", "connect", "handshake", "using", "drop", "release", "store"}
Tagged == Snapped \ {"read"}

Stages ==
  /\ \A e \in Exec : tag[e] # NoTag => pc[e] \in Tagged
  /\ \A e \in Exec : ectx[e] # 0 => pc[e] = "handshake"

(* An execution may keep something only of what is alive. *)
KeepsAlive ==
  \A e \in Exec : pc[e] \in Tagged =>
    /\ Current(e) => JarAlive(tag[e], iso[e])
    /\ Admits("quic", snap[e].quic, iso[e]) => PoolAlive(tag[e], iso[e])
    /\ Admits("tickets", snap[e].tickets, iso[e]) => TicketsAlive(tag[e], iso[e])

(* The cookies kept are alive for the lock, and for the delete. *)
JarsAlive ==
  \A i \in Isolation : \A t \in jars[i] : t.ses > ended /\ t.inc > JarDeadInc(i)

(* So are the pooled connections, and the one of an execution that may     *)
(* still put it back.                                                      *)
PoolIsAlive ==
  /\ \A i \in Isolation : \A c \in At(pool, {i}) \cup At(early, {i}) : PoolAlive(con[c].origin, i)
  /\ \A e \in Exec : /\ pc[e] \in {"using", "drop"}
                     /\ Admits("quic", snap[e].quic, iso[e])
                     => PoolAlive(con[cn[e]].origin, iso[e])

(* A new ticket context was never given to a connection or an execution. *)
FreshContexts ==
  \A i \in Isolation :
    LET bound == gens["tickets"].current + (IF ctx[i] = 0 THEN 0 ELSE 1)
    IN /\ ctx[i] <= bound
       /\ \A c \in Conn : con[c].home = i => con[c].ctx <= bound
       /\ \A e \in Exec : iso[e] = i => ectx[e] <= bound

(* The tickets that arrive in a context the cache holds are alive. *)
TicketsAreAlive ==
  /\ \A c \in Conn, i \in Isolation :
       con[c].home = i /\ con[c].ctx # 0 /\ con[c].ctx = ctx[i] => TicketsAlive(con[c].origin, i)
  /\ \A e \in Exec : ectx[e] # 0 /\ ectx[e] = ctx[iso[e]] => TicketsAlive(tag[e], iso[e])

(* A snapshot that a lock or a delete has passed by is refused by every    *)
(* cache that this lock or delete has cleared.                             *)
Consistent ==
  \A e \in Exec : pc[e] \in Snapped =>
    /\ snap[e].epoch # epoch =>
         /\ lockAt = "quic" \/ ~Admits("quic", snap[e].quic, iso[e])
         /\ lockAt \in {"quic", "tickets"} \/ ~Admits("tickets", snap[e].tickets, iso[e])
    /\ snap[e].jar # jarGen[iso[e]] =>
         /\ delAt[iso[e]] = "quic" \/ ~Admits("quic", snap[e].quic, iso[e])
         /\ delAt[iso[e]] \in {"quic", "tickets"} \/ ~Admits("tickets", snap[e].tickets, iso[e])

CachesInv ==
  /\ TypeOK /\ Accounts /\ History /\ Ahead /\ Stages /\ KeepsAlive
  /\ JarsAlive /\ PoolIsAlive /\ FreshContexts /\ TicketsAreAlive /\ Consistent

-----------------------------------------------------------------------------
(* Type correctness. *)

(* Clearing makes generations of generations. *)
LEMMA GenType ==
  ASSUME NEW g \in Gen, NEW i \in Isolation
  PROVE  ClearAll(g) \in Gen /\ ClearIsolation(g, i) \in Gen
<1>1. g.current + 1 \in Nat /\ g.all \in Nat /\ g.iso \in [Isolation -> Nat]
  BY DEF Gen
<1>2. ClearAll(g) \in Gen
  BY <1>1 DEF Gen, ClearAll
<1>3. ClearIsolation(g, i) = [current |-> g.current + 1, all |-> g.all, iso |-> [g.iso EXCEPT ![i] = g.current + 1]]
  <2>1. g = [current |-> g.current, all |-> g.all, iso |-> g.iso]
    BY DEF Gen
  <2>2. ClearIsolation(g, i) = [g EXCEPT !.current = g.current + 1, !.iso = [g.iso EXCEPT ![i] = g.current + 1]]
    BY <1>1, <2>1 DEF ClearIsolation
  <2> QED
    BY <1>1, <2>1, <2>2
<1>4. ClearIsolation(g, i) \in Gen
  BY <1>1, <1>3 DEF Gen
<1> QED
  BY <1>2, <1>4

(* Giving up connections closes some and leaves the others. *)
LEMMA GiveUpType ==
  ASSUME NEW k \in [Conn -> ConnState], NEW p, NEW w, NEW removed
  PROVE  GiveUp(k, p, w, removed) \in [Conn -> ConnState]
<1>1. Unused("closed") \in ConnState
  BY DEF Unused, ConnState, NoTag, Tag, None
<1> QED
  BY <1>1 DEF GiveUp

(* A lease, its end and a drain leave a connection well typed. *)
LEMMA LeaseType ==
  ASSUME NEW k \in [Conn -> ConnState], NEW c \in Conn
  PROVE  /\ [k EXCEPT ![c].active = k[c].active + 1] \in [Conn -> ConnState]
         /\ [k EXCEPT ![c].active = k[c].active - 1] \in [Conn -> ConnState]
         /\ [k EXCEPT ![c].usable = FALSE] \in [Conn -> ConnState]
<1>1. k[c] \in ConnState /\ k[c].active \in Int
  BY DEF ConnState
<1>2. /\ [k[c] EXCEPT !.active = k[c].active + 1] \in ConnState
      /\ [k[c] EXCEPT !.active = k[c].active - 1] \in ConnState
      /\ [k[c] EXCEPT !.usable = FALSE] \in ConnState
  <2>1. \A n \in Int : [k[c] EXCEPT !.active = n] \in ConnState
    BY <1>1 DEF ConnState
  <2>2. [k[c] EXCEPT !.usable = FALSE] \in ConnState
    BY <1>1 DEF ConnState
  <2>3. k[c].active + 1 \in Int /\ k[c].active - 1 \in Int
    BY <1>1
  <2> QED
    BY <2>1, <2>2, <2>3
<1>3. /\ [k EXCEPT ![c].active = k[c].active + 1] = [k EXCEPT ![c] = [k[c] EXCEPT !.active = k[c].active + 1]]
      /\ [k EXCEPT ![c].active = k[c].active - 1] = [k EXCEPT ![c] = [k[c] EXCEPT !.active = k[c].active - 1]]
      /\ [k EXCEPT ![c].usable = FALSE] = [k EXCEPT ![c] = [k[c] EXCEPT !.usable = FALSE]]
  OBVIOUS
<1>4. \A v \in ConnState : [k EXCEPT ![c] = v] \in [Conn -> ConnState]
  OBVIOUS
<1> QED
  BY <1>2, <1>3, <1>4

(* Removing isolations leaves a map of connections. *)
LEMMA WithoutType ==
  ASSUME NEW p \in [Isolation -> Conn \cup {None}], NEW r
  PROVE  Without(p, r) \in [Isolation -> Conn \cup {None}]
BY DEF Without

(* Taking a value into a snapshot leaves a snapshot. *)
LEMMA SnapType ==
  ASSUME NEW s \in Snap, NEW n \in Nat
  PROVE  /\ [s EXCEPT !.epoch = n] \in Snap /\ [s EXCEPT !.jar = n] \in Snap
         /\ [s EXCEPT !.quic = n] \in Snap /\ [s EXCEPT !.tickets = n] \in Snap
BY DEF Snap

(* Initially. *)
LEMMA TypeInit == Init => TypeOK
<1> SUFFICES ASSUME Init PROVE TypeOK
  OBVIOUS
<1>1. StorageType /\ AdminType
  <2>0. locked = FALSE
    BY DEF Init
  <2>1. session \in Nat \ {0} /\ conn = None
    BY DEF Init
  <2>2. present \in [Isolation -> BOOLEAN] /\ inc \in [Isolation -> Nat \ {0}]
    BY DEF Init
  <2>3. AdminType
    BY DEF Init, AdminType
  <2> QED
    BY <2>0, <2>1, <2>2, <2>3 DEF StorageType
<1>2. FenceType
  BY DEF Init, FenceType, Gen, NoGen
<1>3. Unused("new") \in ConnState
  BY DEF Unused, ConnState, NoTag, Tag, None
<1>4. PoolType
  BY <1>3 DEF Init, PoolType
<1>5. ExecType
  BY DEF Init, ExecType, ExecPc, Snap, NoSnap, Tag, NoTag, Try, FirstTry
<1> QED
  BY <1>1, <1>2, <1>4, <1>5 DEF TypeOK

(* Every step keeps the store well typed. *)
LEMMA StorageTypeStep ==
  ASSUME TypeOK, [Next]_vars
  PROVE  StorageType'
<1>0. StorageType /\ FenceType /\ PoolType /\ ExecType /\ AdminType
  BY DEF TypeOK
<1> USE <1>0 DEF StorageType, storage
<1>1. ASSUME NEW e \in Exec, BuildBegins(e) PROVE StorageType'
  BY <1>1 DEF BuildBegins
<1>2. ASSUME NEW e \in Exec, SnapReads(e) PROVE StorageType'
  BY <1>2 DEF SnapReads
<1>3. ASSUME NEW e \in Exec, SnapEnds(e) PROVE StorageType'
  BY <1>3 DEF SnapEnds
<1>4. ASSUME NEW e \in Exec, ReadWorkspace(e) PROVE StorageType'
  BY <1>4 DEF ReadWorkspace, Finish
<1>5. ASSUME NEW e \in Exec, TicketContext(e) PROVE StorageType'
  BY <1>5 DEF TicketContext
<1>6. ASSUME NEW e \in Exec, StoreCookies(e) PROVE StorageType'
  BY <1>6 DEF StoreCookies, Finish
<1>7. ASSUME NEW e \in Exec, TakeEarly(e) PROVE StorageType'
  BY <1>7 DEF TakeEarly
<1>8. ASSUME NEW e \in Exec, Checkout(e) PROVE StorageType'
  BY <1>8 DEF Checkout
<1>9. ASSUME NEW e \in Exec, NoCheckout(e) PROVE StorageType'
  BY <1>9 DEF NoCheckout
<1>10. ASSUME NEW e \in Exec, HandshakeFails(e) PROVE StorageType'
  BY <1>10 DEF HandshakeFails, Finish
<1>11. ASSUME NEW e \in Exec, NEW c \in Conn, NEW k \in BOOLEAN, Checkin(e, c, k) PROVE StorageType'
  BY <1>11 DEF Checkin
<1>12. ASSUME NEW e \in Exec, RequestFails(e) PROVE StorageType'
  BY <1>12 DEF RequestFails
<1>13. ASSUME NEW e \in Exec, TooEarly(e) PROVE StorageType'
  BY <1>13 DEF TooEarly
<1>14. ASSUME NEW e \in Exec, DropLease(e) PROVE StorageType'
  BY <1>14 DEF DropLease, Ended, Finish
<1>15. ASSUME NEW e \in Exec, Release(e) PROVE StorageType'
  BY <1>15 DEF Release, Ended, Finish
<1>16. ASSUME NEW c \in Conn, PeerDrains(c) PROVE StorageType'
  BY <1>16 DEF PeerDrains
<1>17. ASSUME NEW i \in Isolation, Sweep(i) PROVE StorageType'
  BY <1>17 DEF Sweep
<1>18. CASE LockBegins
  BY <1>18 DEF LockBegins
<1>19. CASE AdvanceEpoch
  BY <1>19 DEF AdvanceEpoch
<1>20. CASE LockClearsPool
  BY <1>20 DEF LockClearsPool, Fence
<1>21. CASE LockClearsTickets
  BY <1>21 DEF LockClearsTickets, Fence
<1>22. CASE LockEnds
  BY <1>22 DEF LockEnds
<1>23. CASE Unlock
  <2>1. session' \in Nat \ {0} /\ locked' = FALSE /\ UNCHANGED <<conn, present, inc>>
    BY <1>23 DEF Unlock
  <2> QED
    BY <2>1
<1>24. ASSUME NEW i \in Isolation, DeleteCommits(i) PROVE StorageType'
  BY <1>24 DEF DeleteCommits
<1>25. ASSUME NEW i \in Isolation, DeleteClearsJar(i) PROVE StorageType'
  BY <1>25 DEF DeleteClearsJar
<1>26. ASSUME NEW i \in Isolation, DeleteClearsPool(i) PROVE StorageType'
  BY <1>26 DEF DeleteClearsPool, Fence
<1>27. ASSUME NEW i \in Isolation, DeleteEnds(i) PROVE StorageType'
  BY <1>27 DEF DeleteEnds, Fence
<1>28. ASSUME NEW i \in Isolation, RestoreWorkspace(i) PROVE StorageType'
  BY <1>28 DEF RestoreWorkspace
<1>29. CASE UNCHANGED vars
  BY <1>29 DEF vars, storage, fences, kept, conns, execs, admin
<1> QED
  BY <1>1, <1>2, <1>3, <1>4, <1>5, <1>6, <1>7, <1>8, <1>9, <1>10, <1>11, <1>12, <1>13, <1>14, <1>15,
     <1>16, <1>17, <1>18, <1>19, <1>20, <1>21, <1>22, <1>23, <1>24, <1>25, <1>26, <1>27, <1>28, <1>29
  DEF Next, ExecStep, LockStep, DeleteStep

(* Every step keeps the fences, the cookies and the contexts well typed. *)
LEMMA FenceTypeStep ==
  ASSUME TypeOK, [Next]_vars
  PROVE  FenceType'
<1>0. StorageType /\ FenceType /\ PoolType /\ ExecType /\ AdminType
  BY DEF TypeOK
<1> USE <1>0 DEF FenceType, fences, kept, Cache, ExecType
<1>1. ASSUME NEW e \in Exec, BuildBegins(e) PROVE FenceType'
  BY <1>1 DEF BuildBegins
<1>2. ASSUME NEW e \in Exec, SnapReads(e) PROVE FenceType'
  BY <1>2 DEF SnapReads
<1>3. ASSUME NEW e \in Exec, SnapEnds(e) PROVE FenceType'
  BY <1>3 DEF SnapEnds
<1>4. ASSUME NEW e \in Exec, ReadWorkspace(e) PROVE FenceType'
  BY <1>4 DEF ReadWorkspace, Finish
<1>5. ASSUME NEW e \in Exec, TicketContext(e) PROVE FenceType'
  BY <1>5 DEF TicketContext, Gen
<1>6. ASSUME NEW e \in Exec, StoreCookies(e) PROVE FenceType'
  BY <1>6 DEF StoreCookies, Finish
<1>7. ASSUME NEW e \in Exec, TakeEarly(e) PROVE FenceType'
  BY <1>7 DEF TakeEarly
<1>8. ASSUME NEW e \in Exec, Checkout(e) PROVE FenceType'
  BY <1>8 DEF Checkout
<1>9. ASSUME NEW e \in Exec, NoCheckout(e) PROVE FenceType'
  BY <1>9 DEF NoCheckout
<1>10. ASSUME NEW e \in Exec, HandshakeFails(e) PROVE FenceType'
  BY <1>10 DEF HandshakeFails, Finish
<1>11. ASSUME NEW e \in Exec, NEW c \in Conn, NEW k \in BOOLEAN, Checkin(e, c, k) PROVE FenceType'
  BY <1>11 DEF Checkin
<1>12. ASSUME NEW e \in Exec, RequestFails(e) PROVE FenceType'
  BY <1>12 DEF RequestFails
<1>13. ASSUME NEW e \in Exec, TooEarly(e) PROVE FenceType'
  BY <1>13 DEF TooEarly
<1>14. ASSUME NEW e \in Exec, DropLease(e) PROVE FenceType'
  BY <1>14 DEF DropLease, Ended, Finish
<1>15. ASSUME NEW e \in Exec, Release(e) PROVE FenceType'
  BY <1>15 DEF Release, Ended, Finish
<1>16. ASSUME NEW c \in Conn, PeerDrains(c) PROVE FenceType'
  BY <1>16 DEF PeerDrains
<1>17. ASSUME NEW i \in Isolation, Sweep(i) PROVE FenceType'
  BY <1>17 DEF Sweep
<1>18. CASE LockBegins
  BY <1>18 DEF LockBegins
<1>19. CASE AdvanceEpoch
  BY <1>19 DEF AdvanceEpoch
<1>20. CASE LockClearsPool
  <2>1. gens' = [gens EXCEPT !["quic"] = ClearAll(gens["quic"])] /\ gens["quic"] \in Gen
    BY <1>20 DEF LockClearsPool, Fence
  <2>2. gens' \in [Cache -> Gen]
    BY <2>1, GenType, CachesAssumption
  <2>3. UNCHANGED <<epoch, jarGen, jars>> /\ ctx' \in [Isolation -> Nat]
    BY <1>20 DEF LockClearsPool
  <2> QED
    BY <2>2, <2>3
<1>21. CASE LockClearsTickets
  <2>1. gens' = [gens EXCEPT !["tickets"] = ClearAll(gens["tickets"])] /\ gens["tickets"] \in Gen
    BY <1>21 DEF LockClearsTickets, Fence
  <2>2. gens' \in [Cache -> Gen]
    BY <2>1, GenType, CachesAssumption
  <2>3. UNCHANGED <<epoch, jarGen, jars>> /\ ctx' \in [Isolation -> Nat]
    BY <1>21 DEF LockClearsTickets, ClearTickets
  <2> QED
    BY <2>2, <2>3
<1>22. CASE LockEnds
  BY <1>22 DEF LockEnds
<1>23. CASE Unlock
  BY <1>23 DEF Unlock
<1>24. ASSUME NEW i \in Isolation, DeleteCommits(i) PROVE FenceType'
  BY <1>24 DEF DeleteCommits
<1>25. ASSUME NEW i \in Isolation, DeleteClearsJar(i) PROVE FenceType'
  BY <1>25 DEF DeleteClearsJar
<1>26. ASSUME NEW i \in Isolation, DeleteClearsPool(i) PROVE FenceType'
  <2>1. gens' = [gens EXCEPT !["quic"] = ClearIsolation(gens["quic"], i)] /\ gens["quic"] \in Gen
    BY <1>26 DEF DeleteClearsPool, Fence
  <2>2. gens' \in [Cache -> Gen]
    BY <2>1, GenType
  <2>3. UNCHANGED <<epoch, jarGen, jars>> /\ ctx' \in [Isolation -> Nat]
    BY <1>26 DEF DeleteClearsPool
  <2> QED
    BY <2>2, <2>3
<1>27. ASSUME NEW i \in Isolation, DeleteEnds(i) PROVE FenceType'
  <2>1. gens' = [gens EXCEPT !["tickets"] = ClearIsolation(gens["tickets"], i)] /\ gens["tickets"] \in Gen
    BY <1>27 DEF DeleteEnds, Fence
  <2>2. gens' \in [Cache -> Gen]
    BY <2>1, GenType
  <2>3. UNCHANGED <<epoch, jarGen, jars>> /\ ctx' \in [Isolation -> Nat]
    BY <1>27 DEF DeleteEnds, ClearTickets
  <2> QED
    BY <2>2, <2>3
<1>28. ASSUME NEW i \in Isolation, RestoreWorkspace(i) PROVE FenceType'
  BY <1>28 DEF RestoreWorkspace
<1>29. CASE UNCHANGED vars
  BY <1>29 DEF vars, storage, fences, kept, conns, execs, admin
<1> QED
  BY <1>1, <1>2, <1>3, <1>4, <1>5, <1>6, <1>7, <1>8, <1>9, <1>10, <1>11, <1>12, <1>13, <1>14, <1>15,
     <1>16, <1>17, <1>18, <1>19, <1>20, <1>21, <1>22, <1>23, <1>24, <1>25, <1>26, <1>27, <1>28, <1>29
  DEF Next, ExecStep, LockStep, DeleteStep

(* Every step keeps the connections well typed. *)
LEMMA PoolTypeStep ==
  ASSUME TypeOK, [Next]_vars
  PROVE  PoolType'
<1>0. StorageType /\ FenceType /\ PoolType /\ ExecType /\ AdminType
  BY DEF TypeOK
<1> USE <1>0, GiveUpType, LeaseType, WithoutType DEF PoolType, conns
<1>1. ASSUME NEW e \in Exec, BuildBegins(e) PROVE PoolType'
  BY <1>1 DEF BuildBegins
<1>2. ASSUME NEW e \in Exec, SnapReads(e) PROVE PoolType'
  BY <1>2 DEF SnapReads
<1>3. ASSUME NEW e \in Exec, SnapEnds(e) PROVE PoolType'
  BY <1>3 DEF SnapEnds
<1>4. ASSUME NEW e \in Exec, ReadWorkspace(e) PROVE PoolType'
  BY <1>4 DEF ReadWorkspace, Finish
<1>5. ASSUME NEW e \in Exec, TicketContext(e) PROVE PoolType'
  BY <1>5 DEF TicketContext
<1>6. ASSUME NEW e \in Exec, StoreCookies(e) PROVE PoolType'
  BY <1>6 DEF StoreCookies, Finish
<1>7. ASSUME NEW e \in Exec, TakeEarly(e) PROVE PoolType'
  <2>1. PICK c \in Conn : c = early[iso[e]]
    BY <1>7, CachesAssumption DEF TakeEarly, ExecType
  <2>2. UNCHANGED pool /\ early' = Without(early, {iso[e]})
    BY <1>7 DEF TakeEarly
  <2>3. con' = [con EXCEPT ![c].active = con[c].active + 1] \/ con' = GiveUp(con, pool, early', {c})
    BY <1>7, <2>1 DEF TakeEarly, Lease
  <2>4. con' \in [Conn -> ConnState]
    <3>1. [con EXCEPT ![c].active = con[c].active + 1] \in [Conn -> ConnState]
      BY LeaseType
    <3>2. GiveUp(con, pool, early', {c}) \in [Conn -> ConnState]
      BY GiveUpType
    <3> QED
      BY <2>3, <3>1, <3>2
  <2> QED
    BY <2>2, <2>4
<1>8. ASSUME NEW e \in Exec, Checkout(e) PROVE PoolType'
  <2>1. PICK c \in Conn : c = pool[iso[e]]
    BY <1>8, CachesAssumption DEF Checkout, ExecType
  <2>2. UNCHANGED early /\ (UNCHANGED pool \/ pool' = Without(pool, {iso[e]}))
    BY <1>8 DEF Checkout
  <2>3. con' = [con EXCEPT ![c].active = con[c].active + 1] \/ con' = GiveUp(con, pool', early, {c})
    BY <1>8, <2>1 DEF Checkout, Lease
  <2>4. con' \in [Conn -> ConnState]
    <3>1. [con EXCEPT ![c].active = con[c].active + 1] \in [Conn -> ConnState]
      BY LeaseType
    <3>2. GiveUp(con, pool', early, {c}) \in [Conn -> ConnState]
      BY GiveUpType
    <3> QED
      BY <2>3, <3>1, <3>2
  <2> QED
    BY <2>2, <2>4
<1>9. ASSUME NEW e \in Exec, NoCheckout(e) PROVE PoolType'
  BY <1>9 DEF NoCheckout
<1>10. ASSUME NEW e \in Exec, HandshakeFails(e) PROVE PoolType'
  BY <1>10 DEF HandshakeFails, Finish
<1>11. ASSUME NEW e \in Exec, NEW c \in Conn, NEW k \in BOOLEAN, Checkin(e, c, k) PROVE PoolType'
  <2> DEFINE new == [state |-> "open", usable |-> TRUE, active |-> 1,
                      home |-> iso[e], origin |-> tag[e], ctx |-> ectx[e]]
             kk == [con EXCEPT ![c] = new]
             pp == [pool EXCEPT ![iso[e]] = c]
  <2>1. new \in ConnState
    BY DEF ConnState, ExecType
  <2>2. kk \in [Conn -> ConnState] /\ pp \in [Isolation -> Conn \cup {None}]
    BY <2>1 DEF ExecType
  <2>3. /\ UNCHANGED early
        /\ \/ \E r \in OverCap(kk, pp) :
                /\ pool' = Without(pp, r)
                /\ con' = GiveUp(kk, pool', early, At(pool, {iso[e]}) \cup At(pp, r))
           \/ con' = kk /\ UNCHANGED pool
    BY <1>11 DEF Checkin
  <2> HIDE DEF kk, pp
  <2>4. CASE con' = kk /\ UNCHANGED pool
    BY <2>2, <2>3, <2>4
  <2>5. ASSUME NEW r, pool' = Without(pp, r), con' = GiveUp(kk, pool', early, At(pool, {iso[e]}) \cup At(pp, r))
        PROVE  PoolType'
    <3>1. con' \in [Conn -> ConnState]
      BY <2>2, <2>5, GiveUpType
    <3>2. pool' \in [Isolation -> Conn \cup {None}]
      BY <2>2, <2>5, WithoutType
    <3> QED
      BY <2>3, <3>1, <3>2
  <2> QED
    BY <2>3, <2>4, <2>5
<1>12. ASSUME NEW e \in Exec, RequestFails(e) PROVE PoolType'
  BY <1>12 DEF RequestFails
<1>13. ASSUME NEW e \in Exec, TooEarly(e) PROVE PoolType'
  <2>1. UNCHANGED pool
    BY <1>13 DEF TooEarly
  <2>2. \/ early' = [early EXCEPT ![iso[e]] = cn[e]] /\ con' = GiveUp(con, pool, early', At(early, {iso[e]}))
        \/ UNCHANGED <<early, con>>
    BY <1>13 DEF TooEarly
  <2>3. con' \in [Conn -> ConnState]
    BY <2>2
  <2>4. early' \in [Isolation -> Conn \cup {None}]
    BY <2>2, ZenonT(60) DEF ExecType
  <2> QED
    BY <2>1, <2>3, <2>4
<1>14. ASSUME NEW e \in Exec, DropLease(e) PROVE PoolType'
  BY <1>14 DEF DropLease, Ended, Finish
<1>15. ASSUME NEW e \in Exec, Release(e) PROVE PoolType'
  BY <1>15 DEF Release, Ended, Finish
<1>16. ASSUME NEW c \in Conn, PeerDrains(c) PROVE PoolType'
  BY <1>16 DEF PeerDrains
<1>17. ASSUME NEW i \in Isolation, Sweep(i) PROVE PoolType'
  BY <1>17 DEF Sweep
<1>18. CASE LockBegins
  BY <1>18 DEF LockBegins
<1>19. CASE AdvanceEpoch
  BY <1>19 DEF AdvanceEpoch
<1>20. CASE LockClearsPool
  BY <1>20 DEF LockClearsPool, ClearPool
<1>21. CASE LockClearsTickets
  BY <1>21 DEF LockClearsTickets, Fence
<1>22. CASE LockEnds
  BY <1>22 DEF LockEnds
<1>23. CASE Unlock
  BY <1>23 DEF Unlock
<1>24. ASSUME NEW i \in Isolation, DeleteCommits(i) PROVE PoolType'
  BY <1>24 DEF DeleteCommits
<1>25. ASSUME NEW i \in Isolation, DeleteClearsJar(i) PROVE PoolType'
  BY <1>25 DEF DeleteClearsJar
<1>26. ASSUME NEW i \in Isolation, DeleteClearsPool(i) PROVE PoolType'
  BY <1>26 DEF DeleteClearsPool, ClearPool
<1>27. ASSUME NEW i \in Isolation, DeleteEnds(i) PROVE PoolType'
  BY <1>27 DEF DeleteEnds, Fence
<1>28. ASSUME NEW i \in Isolation, RestoreWorkspace(i) PROVE PoolType'
  BY <1>28 DEF RestoreWorkspace
<1>29. CASE UNCHANGED vars
  BY <1>29 DEF vars, storage, fences, kept, conns, execs, admin
<1> QED
  BY <1>1, <1>2, <1>3, <1>4, <1>5, <1>6, <1>7, <1>8, <1>9, <1>10, <1>11, <1>12, <1>13, <1>14, <1>15,
     <1>16, <1>17, <1>18, <1>19, <1>20, <1>21, <1>22, <1>23, <1>24, <1>25, <1>26, <1>27, <1>28, <1>29
  DEF Next, ExecStep, LockStep, DeleteStep

(* What an attempt leads to stays well typed. *)
LEMMA TryType ==
  ASSUME NEW r \in Try
  PROVE  /\ \A b \in BOOLEAN : [r EXCEPT !.reused = b] \in Try
         /\ [r EXCEPT !.failed = TRUE] \in Try
         /\ [r EXCEPT !.early = "wanted"] \in Try
         /\ [r EXCEPT !.early = "retry", !.reused = FALSE] \in Try
         /\ [r EXCEPT !.reused = FALSE, !.failed = FALSE] \in Try
BY DEF Try

(* Every step keeps the executions well typed. *)
LEMMA ExecTypeStep ==
  ASSUME TypeOK, [Next]_vars
  PROVE  ExecType'
<1>0. StorageType /\ FenceType /\ PoolType /\ ExecType /\ AdminType
  BY DEF TypeOK
<1>f. ASSUME NEW e \in Exec, Finish(e), UNCHANGED iso PROVE ExecType'
  <2>1. NoSnap \in Snap /\ NoTag \in Tag /\ FirstTry \in Try
    BY DEF NoSnap, Snap, NoTag, Tag, FirstTry, Try
  <2> QED
    BY <1>f, <1>0, <2>1 DEF Finish, Goto, ExecType, ExecPc
<1>g. ASSUME NEW e \in Exec, Ended(e), UNCHANGED iso PROVE ExecType'
  <2>1. CASE Finish(e)
    BY <2>1, <1>f, <1>g
  <2>2. CASE ~Finish(e)
    <3>1. again[e] \in Try
      BY <1>0 DEF ExecType
    <3>2. UNCHANGED again \/ again' = [again EXCEPT ![e] = [again[e] EXCEPT !.reused = FALSE, !.failed = FALSE]]
      BY <1>g, <2>2 DEF Ended
    <3>3. again' \in [Exec -> Try]
      BY <1>0, <3>1, <3>2, TryType DEF ExecType
    <3> QED
      BY <1>g, <1>0, <2>2, <3>3 DEF Ended, Goto, ExecType, ExecPc
  <2> QED
    BY <2>1, <2>2
<1> USE <1>0 DEF ExecType, execs, ExecPc, Tag, Goto
<1>1. ASSUME NEW e \in Exec, BuildBegins(e) PROVE ExecType'
  <2>1. snap' = [snap EXCEPT ![e] = [snap[e] EXCEPT !.epoch = epoch]]
    BY <1>1 DEF BuildBegins
  <2>2. [snap[e] EXCEPT !.epoch = epoch] \in Snap
    BY SnapType DEF FenceType
  <2> QED
    BY <1>1, <2>1, <2>2 DEF BuildBegins
<1>2. ASSUME NEW e \in Exec, SnapReads(e) PROVE ExecType'
  <2>1. \E s \in Snap : snap' = [snap EXCEPT ![e] = s]
    <3>1. snap[e] \in Snap /\ gens["quic"].current \in Nat /\ gens["tickets"].current \in Nat /\ jarGen[iso[e]] \in Nat
      BY DEF FenceType, Gen, Cache
    <3>2. \/ snap' = [snap EXCEPT ![e] = [snap[e] EXCEPT !.jar = jarGen[iso[e]]]]
          \/ snap' = [snap EXCEPT ![e] = [snap[e] EXCEPT !.quic = gens["quic"].current]]
          \/ snap' = [snap EXCEPT ![e] = [snap[e] EXCEPT !.tickets = gens["tickets"].current]]
      BY <1>2 DEF SnapReads
    <3> QED
      BY <3>1, <3>2, SnapType
  <2>2. \E s \in ExecPc : pc' = [pc EXCEPT ![e] = s]
    BY <1>2 DEF SnapReads
  <2> QED
    BY <1>2, <2>1, <2>2 DEF SnapReads
<1>3. ASSUME NEW e \in Exec, SnapEnds(e) PROVE ExecType'
  <2>1. UNCHANGED snap \/ snap' = [snap EXCEPT ![e] = [snap[e] EXCEPT !.epoch = epoch]]
    BY <1>3 DEF SnapEnds
  <2>2. snap' \in [Exec -> Snap]
    <3>1. [snap[e] EXCEPT !.epoch = epoch] \in Snap
      BY SnapType DEF FenceType
    <3> QED
      BY <2>1, <3>1
  <2>3. \E s \in ExecPc : pc' = [pc EXCEPT ![e] = s]
    BY <1>3 DEF SnapEnds
  <2> QED
    BY <1>3, <2>2, <2>3 DEF SnapEnds
<1>4. ASSUME NEW e \in Exec, ReadWorkspace(e) PROVE ExecType'
  <2>1. CASE Finish(e)
    BY <1>4, <2>1, <1>f DEF ReadWorkspace
  <2>2. CASE ~Finish(e)
    <3>1. [inc |-> inc[iso[e]], ses |-> session] \in Tag
      BY DEF StorageType
    <3>2. tag' = [tag EXCEPT ![e] = [inc |-> inc[iso[e]], ses |-> session]] /\ Goto(e, "acquire") /\ UNCHANGED <<iso, snap, cn, ectx, again>>
      BY <1>4, <2>2 DEF ReadWorkspace
    <3> QED
      BY <3>1, <3>2
  <2> QED
    BY <2>1, <2>2
<1>5. ASSUME NEW e \in Exec, TicketContext(e) PROVE ExecType'
  <2>1. \E n \in Nat : ectx' = [ectx EXCEPT ![e] = n]
    <3>1. ctx[iso[e]] \in Nat /\ gens["tickets"].current + 1 \in Nat
      BY DEF FenceType, Gen, Cache
    <3> QED
      BY <1>5, <3>1 DEF TicketContext
  <2> QED
    BY <1>5, <2>1 DEF TicketContext
<1>6. ASSUME NEW e \in Exec, StoreCookies(e) PROVE ExecType'
  <2>1. CASE Finish(e)
    BY <1>6, <2>1, <1>f DEF StoreCookies
  <2>2. CASE ~Finish(e)
    <3>1. again' = [again EXCEPT ![e] = [again[e] EXCEPT !.early = "retry", !.reused = FALSE]]
      BY <1>6, <2>2 DEF StoreCookies
    <3>2. again' \in [Exec -> Try]
      BY <3>1, TryType
    <3> QED
      BY <1>6, <2>2, <3>2 DEF StoreCookies
  <2> QED
    BY <2>1, <2>2
<1>7. ASSUME NEW e \in Exec, TakeEarly(e) PROVE ExecType'
  <2>1. cn' \in [Exec -> Conn \cup {None}] /\ pc' \in [Exec -> ExecPc]
    BY <1>7 DEF TakeEarly, PoolType
  <2>2. \/ again' = [again EXCEPT ![e] = [again[e] EXCEPT !.reused = TRUE]]
        \/ again' = again
    BY <1>7 DEF TakeEarly
  <2>3. again[e] \in Try /\ [again[e] EXCEPT !.reused = TRUE] \in Try
    BY TryType
  <2>4. again' \in [Exec -> Try]
    BY <2>2, <2>3
  <2> QED
    BY <1>7, <2>1, <2>4 DEF TakeEarly
<1>8. ASSUME NEW e \in Exec, Checkout(e) PROVE ExecType'
  <2>1. cn' \in [Exec -> Conn \cup {None}] /\ pc' \in [Exec -> ExecPc]
    BY <1>8 DEF Checkout, PoolType
  <2>2. \/ again' = [again EXCEPT ![e] = [again[e] EXCEPT !.reused = TRUE]]
        \/ again' = again
    BY <1>8 DEF Checkout
  <2>3. again[e] \in Try /\ [again[e] EXCEPT !.reused = TRUE] \in Try
    BY TryType
  <2>4. again' \in [Exec -> Try]
    BY <2>2, <2>3
  <2> QED
    BY <1>8, <2>1, <2>4 DEF Checkout
<1>9. ASSUME NEW e \in Exec, NoCheckout(e) PROVE ExecType'
  BY <1>9 DEF NoCheckout
<1>10. ASSUME NEW e \in Exec, HandshakeFails(e) PROVE ExecType'
  BY <1>10, <1>f DEF HandshakeFails
<1>11. ASSUME NEW e \in Exec, NEW c \in Conn, NEW k \in BOOLEAN, Checkin(e, c, k) PROVE ExecType'
  <2>1. again' = [again EXCEPT ![e] = [again[e] EXCEPT !.reused = FALSE]]
    BY <1>11 DEF Checkin
  <2>2. again' \in [Exec -> Try]
    BY <2>1, TryType
  <2> QED
    BY <1>11, <2>2 DEF Checkin
<1>12. ASSUME NEW e \in Exec, RequestFails(e) PROVE ExecType'
  <2>1. again' = [again EXCEPT ![e] = [again[e] EXCEPT !.failed = TRUE]]
    BY <1>12 DEF RequestFails
  <2>2. again' \in [Exec -> Try]
    BY <2>1, TryType
  <2> QED
    BY <1>12, <2>2 DEF RequestFails
<1>13. ASSUME NEW e \in Exec, TooEarly(e) PROVE ExecType'
  <2>1. again' = [again EXCEPT ![e] = [again[e] EXCEPT !.early = "wanted"]]
    BY <1>13 DEF TooEarly
  <2>2. again' \in [Exec -> Try]
    BY <2>1, TryType
  <2> QED
    BY <1>13, <2>2 DEF TooEarly
<1>14. ASSUME NEW e \in Exec, DropLease(e) PROVE ExecType'
  <2>1. CASE Ended(e)
    BY <1>14, <2>1, <1>g DEF DropLease
  <2>2. CASE ~Ended(e)
    BY <1>14, <2>2 DEF DropLease
  <2> QED
    BY <2>1, <2>2
<1>15. ASSUME NEW e \in Exec, Release(e) PROVE ExecType'
  BY <1>15, <1>g DEF Release
<1>16. ASSUME NEW c \in Conn, PeerDrains(c) PROVE ExecType'
  BY <1>16 DEF PeerDrains
<1>17. ASSUME NEW i \in Isolation, Sweep(i) PROVE ExecType'
  BY <1>17 DEF Sweep
<1>18. CASE LockBegins
  BY <1>18 DEF LockBegins
<1>19. CASE AdvanceEpoch
  BY <1>19 DEF AdvanceEpoch
<1>20. CASE LockClearsPool
  BY <1>20 DEF LockClearsPool, Fence
<1>21. CASE LockClearsTickets
  BY <1>21 DEF LockClearsTickets, Fence
<1>22. CASE LockEnds
  BY <1>22 DEF LockEnds
<1>23. CASE Unlock
  BY <1>23 DEF Unlock
<1>24. ASSUME NEW i \in Isolation, DeleteCommits(i) PROVE ExecType'
  BY <1>24 DEF DeleteCommits
<1>25. ASSUME NEW i \in Isolation, DeleteClearsJar(i) PROVE ExecType'
  BY <1>25 DEF DeleteClearsJar
<1>26. ASSUME NEW i \in Isolation, DeleteClearsPool(i) PROVE ExecType'
  BY <1>26 DEF DeleteClearsPool, Fence
<1>27. ASSUME NEW i \in Isolation, DeleteEnds(i) PROVE ExecType'
  BY <1>27 DEF DeleteEnds, Fence
<1>28. ASSUME NEW i \in Isolation, RestoreWorkspace(i) PROVE ExecType'
  BY <1>28 DEF RestoreWorkspace
<1>29. CASE UNCHANGED vars
  BY <1>29 DEF vars, storage, fences, kept, conns, execs, admin
<1> QED
  BY <1>1, <1>2, <1>3, <1>4, <1>5, <1>6, <1>7, <1>8, <1>9, <1>10, <1>11, <1>12, <1>13, <1>14, <1>15,
     <1>16, <1>17, <1>18, <1>19, <1>20, <1>21, <1>22, <1>23, <1>24, <1>25, <1>26, <1>27, <1>28, <1>29
  DEF Next, ExecStep, LockStep, DeleteStep

(* Every step keeps the lock and the deletes well typed. *)
LEMMA AdminTypeStep ==
  ASSUME TypeOK, [Next]_vars
  PROVE  AdminType'
<1>0. StorageType /\ FenceType /\ PoolType /\ ExecType /\ AdminType
  BY DEF TypeOK
<1> USE <1>0 DEF AdminType, admin
<1>1. ASSUME NEW e \in Exec, BuildBegins(e) PROVE AdminType'
  BY <1>1 DEF BuildBegins
<1>2. ASSUME NEW e \in Exec, SnapReads(e) PROVE AdminType'
  BY <1>2 DEF SnapReads
<1>3. ASSUME NEW e \in Exec, SnapEnds(e) PROVE AdminType'
  BY <1>3 DEF SnapEnds
<1>4. ASSUME NEW e \in Exec, ReadWorkspace(e) PROVE AdminType'
  BY <1>4 DEF ReadWorkspace, Finish
<1>5. ASSUME NEW e \in Exec, TicketContext(e) PROVE AdminType'
  BY <1>5 DEF TicketContext
<1>6. ASSUME NEW e \in Exec, StoreCookies(e) PROVE AdminType'
  BY <1>6 DEF StoreCookies, Finish
<1>7. ASSUME NEW e \in Exec, TakeEarly(e) PROVE AdminType'
  BY <1>7 DEF TakeEarly
<1>8. ASSUME NEW e \in Exec, Checkout(e) PROVE AdminType'
  BY <1>8 DEF Checkout
<1>9. ASSUME NEW e \in Exec, NoCheckout(e) PROVE AdminType'
  BY <1>9 DEF NoCheckout
<1>10. ASSUME NEW e \in Exec, HandshakeFails(e) PROVE AdminType'
  BY <1>10 DEF HandshakeFails, Finish
<1>11. ASSUME NEW e \in Exec, NEW c \in Conn, NEW k \in BOOLEAN, Checkin(e, c, k) PROVE AdminType'
  BY <1>11 DEF Checkin
<1>12. ASSUME NEW e \in Exec, RequestFails(e) PROVE AdminType'
  BY <1>12 DEF RequestFails
<1>13. ASSUME NEW e \in Exec, TooEarly(e) PROVE AdminType'
  BY <1>13 DEF TooEarly
<1>14. ASSUME NEW e \in Exec, DropLease(e) PROVE AdminType'
  BY <1>14 DEF DropLease, Ended, Finish
<1>15. ASSUME NEW e \in Exec, Release(e) PROVE AdminType'
  BY <1>15 DEF Release, Ended, Finish
<1>16. ASSUME NEW c \in Conn, PeerDrains(c) PROVE AdminType'
  BY <1>16 DEF PeerDrains
<1>17. ASSUME NEW i \in Isolation, Sweep(i) PROVE AdminType'
  BY <1>17 DEF Sweep
<1>18. CASE LockBegins
  BY <1>18 DEF LockBegins
<1>19. CASE AdvanceEpoch
  BY <1>19 DEF AdvanceEpoch
<1>20. CASE LockClearsPool
  BY <1>20 DEF LockClearsPool, Fence
<1>21. CASE LockClearsTickets
  BY <1>21 DEF LockClearsTickets, Fence
<1>22. CASE LockEnds
  BY <1>22 DEF LockEnds, StorageType
<1>23. CASE Unlock
  BY <1>23 DEF Unlock
<1>24. ASSUME NEW i \in Isolation, DeleteCommits(i) PROVE AdminType'
  BY <1>24 DEF DeleteCommits
<1>25. ASSUME NEW i \in Isolation, DeleteClearsJar(i) PROVE AdminType'
  BY <1>25 DEF DeleteClearsJar
<1>26. ASSUME NEW i \in Isolation, DeleteClearsPool(i) PROVE AdminType'
  BY <1>26 DEF DeleteClearsPool, Fence
<1>27. ASSUME NEW i \in Isolation, DeleteEnds(i) PROVE AdminType'
  BY <1>27 DEF DeleteEnds, StorageType
<1>28. ASSUME NEW i \in Isolation, RestoreWorkspace(i) PROVE AdminType'
  BY <1>28 DEF RestoreWorkspace
<1>29. CASE UNCHANGED vars
  BY <1>29 DEF vars, storage, fences, kept, conns, execs, admin
<1> QED
  BY <1>1, <1>2, <1>3, <1>4, <1>5, <1>6, <1>7, <1>8, <1>9, <1>10, <1>11, <1>12, <1>13, <1>14, <1>15,
     <1>16, <1>17, <1>18, <1>19, <1>20, <1>21, <1>22, <1>23, <1>24, <1>25, <1>26, <1>27, <1>28, <1>29
  DEF Next, ExecStep, LockStep, DeleteStep

(* Every step keeps the types. *)
LEMMA TypeStep == TypeOK /\ [Next]_vars => TypeOK'
BY StorageTypeStep, FenceTypeStep, PoolTypeStep, ExecTypeStep, AdminTypeStep DEF TypeOK

(* Generations, snapshots, cookies, ticket contexts, connections and the   *)
(* steps of executions, locks and deletes are well typed in every          *)
(* behaviour of the engine.                                                *)
THEOREM CachesTyped == Spec => []TypeOK
BY TypeInit, TypeStep, PTL DEF Spec

-----------------------------------------------------------------------------
(* Connections. *)

Leased == {"using", "drop", "release"}

(* What giving up leaves of a connection. *)
LEMMA GivenUp ==
  ASSUME NEW k, NEW p, NEW w, NEW removed, NEW x \in Conn
  PROVE  GiveUp(k, p, w, removed)[x] =
           IF x \in removed /\ k[x].active = 0 /\ ~Held(p, w, x) THEN Unused("closed") ELSE k[x]
BY DEF GiveUp, ToClose

(* What removing isolations leaves of a map. *)
LEMMA HeldWithout ==
  ASSUME NEW p, NEW w, NEW r \in SUBSET Isolation, NEW x \in Conn
  PROVE  /\ Held(Without(p, r), w, x) => Held(p, w, x)
         /\ Held(w, Without(p, r), x) => Held(w, p, x)
         /\ Held(p, w, x) => Held(Without(p, r), w, x) \/ x \in At(p, r)
         /\ Held(w, p, x) => Held(w, Without(p, r), x) \/ x \in At(p, r)
BY CachesAssumption DEF Held, Without, At

(* Of a connection that nobody begins or ends to use, giving up some of    *)
(* what was removed from the maps keeps the account.                       *)
LEMMA GivesUp ==
  ASSUME PoolType, NEW x \in Conn, AccountOf(x), NEW removed,
         con'[x] = IF x \in removed /\ con[x].active = 0 /\ ~Held(pool', early', x)
                   THEN Unused("closed") ELSE con[x],
         \A e \in Exec : Using(e, x)' <=> Using(e, x),
         Held(pool, early, x) => Held(pool', early', x) \/ x \in removed,
         Held(pool', early', x) => con[x].state = "open",
         \A e \in Exec : pc[e] = "release" /\ cn[e] = x =>
            (pc'[e] = "release" /\ cn'[e] = x) \/ x \in removed
  PROVE  AccountOf(x)'
<1>1. Users(x)' = Users(x)
  BY DEF Users
<1>2. IsFiniteSet(Users(x)) /\ con[x].active = Cardinality(Users(x))
  BY DEF AccountOf
<1>3. CASE con'[x] = con[x]
  <2>1. con[x].state # "open" => ~Held(pool', early', x) /\ Users(x) = {}
    BY DEF AccountOf
  <2>2. CASE con[x].state = "open"
    <3>1. \/ con[x].active # 0 \/ Held(pool', early', x)
          \/ \E e \in Exec : pc'[e] = "release" /\ cn'[e] = x
      <4>1. CASE x \in removed
        <5>1. Unused("closed").state = "closed"
          BY DEF Unused
        <5> QED
          BY <1>3, <2>2, <4>1, <5>1
      <4>2. CASE x \notin removed
        BY <2>2, <4>2 DEF AccountOf
      <4> QED
        BY <4>1, <4>2
    <3> QED
      BY <1>1, <1>2, <1>3, <2>2, <3>1 DEF AccountOf
  <2> QED
    BY <1>1, <1>2, <1>3, <2>1, <2>2 DEF AccountOf
<1>4. CASE con'[x] # con[x]
  <2>1. con'[x] = Unused("closed") /\ con[x].active = 0 /\ ~Held(pool', early', x)
    BY <1>4
  <2>2. con'[x].state = "closed" /\ con'[x].active = 0
    BY <2>1 DEF Unused
  <2>3. Users(x) = {}
    BY <1>2, <2>1, FS_EmptySet
  <2> QED
    BY <1>1, <1>2, <2>1, <2>2, <2>3, FS_EmptySet DEF AccountOf
<1> QED
  BY <1>3, <1>4

(* Of a connection that nobody begins or ends to use, and that stays in    *)
(* its maps, the account is kept.                                          *)
LEMMA KeepsAccount ==
  ASSUME NEW x \in Conn, AccountOf(x), con'[x] = con[x],
         \A e \in Exec : Using(e, x)' <=> Using(e, x),
         Held(pool', early', x) <=> Held(pool, early, x),
         \A e \in Exec : pc[e] = "release" /\ cn[e] = x => pc'[e] = "release" /\ cn'[e] = x
  PROVE  AccountOf(x)'
<1>1. Users(x)' = Users(x)
  BY DEF Users
<1> QED
  BY <1>1 DEF AccountOf

(* A lease counts its execution. *)
LEMMA Leases ==
  ASSUME PoolType, NEW x \in Conn, AccountOf(x), NEW e \in Exec,
         con[x].state = "open", con'[x].state = "open", con'[x].active = con[x].active + 1,
         ~Using(e, x), Using(e, x)', \A d \in Exec \ {e} : Using(d, x)' <=> Using(d, x)
  PROVE  AccountOf(x)'
<1>1. Users(x)' = Users(x) \cup {e} /\ e \notin Users(x)
  BY DEF Users
<1>2. IsFiniteSet(Users(x)) /\ con[x].active = Cardinality(Users(x)) /\ Cardinality(Users(x)) \in Nat
  BY FS_CardinalityType DEF AccountOf
<1>3. IsFiniteSet(Users(x)') /\ Cardinality(Users(x)') = Cardinality(Users(x)) + 1
  BY <1>1, <1>2, FS_AddElement
<1> QED
  BY <1>2, <1>3 DEF AccountOf

(* The end of a lease takes it off the count; the last one is about to     *)
(* release the connection.                                                 *)
LEMMA Unleases ==
  ASSUME PoolType, NEW x \in Conn, AccountOf(x), NEW e \in Exec,
         con'[x].state = con[x].state, con'[x].active = con[x].active - 1,
         UNCHANGED <<pool, early>>,
         Using(e, x), ~Using(e, x)', \A d \in Exec \ {e} : Using(d, x)' <=> Using(d, x),
         con[x].active = 1 => pc'[e] = "release" /\ cn'[e] = x
  PROVE  AccountOf(x)'
<1>1. Users(x)' = Users(x) \ {e} /\ e \in Users(x)
  BY DEF Users
<1>2. IsFiniteSet(Users(x)) /\ con[x].active = Cardinality(Users(x)) /\ Cardinality(Users(x)) \in Nat
  BY FS_CardinalityType DEF AccountOf
<1>3. IsFiniteSet(Users(x)') /\ Cardinality(Users(x)') = Cardinality(Users(x)) - 1
  BY <1>1, <1>2, FS_RemoveElement
<1>4. con[x].state = "open"
  BY <1>1 DEF AccountOf
<1>5. con'[x].active # 0 \/ (pc'[e] = "release" /\ cn'[e] = x)
  BY <1>2
<1> QED
  BY <1>2, <1>3, <1>4, <1>5 DEF AccountOf


(* Every step gives a request a connection. *)
LEMMA CnStep ==
  ASSUME TypeOK, Accounts, [Next]_vars
  PROVE  (\A e \in Exec : pc[e] \in Leased => cn[e] \in Conn)'
<1> DEFINE Goal == \A e \in Exec : pc[e] \in Leased => cn[e] \in Conn
<1>0. PoolType /\ ExecType /\ Goal
  BY DEF TypeOK, Accounts, Leased
<1> USE <1>0 DEF ExecType, ExecPc, execs, Goto, Leased
<1>1. ASSUME NEW e \in Exec, BuildBegins(e) PROVE Goal'
  BY <1>1 DEF BuildBegins
<1>2. ASSUME NEW e \in Exec, SnapReads(e) PROVE Goal'
  BY <1>2 DEF SnapReads
<1>3. ASSUME NEW e \in Exec, SnapEnds(e) PROVE Goal'
  BY <1>3 DEF SnapEnds
<1>4. ASSUME NEW e \in Exec, ReadWorkspace(e) PROVE Goal'
  BY <1>4 DEF ReadWorkspace, Finish
<1>5. ASSUME NEW e \in Exec, TicketContext(e) PROVE Goal'
  BY <1>5 DEF TicketContext
<1>6. ASSUME NEW e \in Exec, StoreCookies(e) PROVE Goal'
  BY <1>6 DEF StoreCookies, Finish
<1>7. ASSUME NEW e \in Exec, TakeEarly(e) PROVE Goal'
  BY <1>7, CachesAssumption DEF TakeEarly, PoolType
<1>8. ASSUME NEW e \in Exec, Checkout(e) PROVE Goal'
  BY <1>8, CachesAssumption DEF Checkout, PoolType
<1>9. ASSUME NEW e \in Exec, NoCheckout(e) PROVE Goal'
  BY <1>9 DEF NoCheckout
<1>10. ASSUME NEW e \in Exec, HandshakeFails(e) PROVE Goal'
  BY <1>10 DEF HandshakeFails, Finish
<1>11. ASSUME NEW e \in Exec, NEW c \in Conn, NEW k \in BOOLEAN, Checkin(e, c, k) PROVE Goal'
  BY <1>11 DEF Checkin
<1>12. ASSUME NEW e \in Exec, RequestFails(e) PROVE Goal'
  BY <1>12 DEF RequestFails
<1>13. ASSUME NEW e \in Exec, TooEarly(e) PROVE Goal'
  BY <1>13 DEF TooEarly
<1>14. ASSUME NEW e \in Exec, DropLease(e) PROVE Goal'
  BY <1>14 DEF DropLease, Ended, Finish
<1>15. ASSUME NEW e \in Exec, Release(e) PROVE Goal'
  BY <1>15 DEF Release, Ended, Finish
<1>16. ASSUME NEW c \in Conn, PeerDrains(c) PROVE Goal'
  BY <1>16 DEF PeerDrains
<1>17. ASSUME NEW i \in Isolation, Sweep(i) PROVE Goal'
  BY <1>17 DEF Sweep
<1>18. CASE LockBegins
  BY <1>18 DEF LockBegins
<1>19. CASE AdvanceEpoch
  BY <1>19 DEF AdvanceEpoch
<1>20. CASE LockClearsPool
  BY <1>20 DEF LockClearsPool, Fence
<1>21. CASE LockClearsTickets
  BY <1>21 DEF LockClearsTickets, Fence
<1>22. CASE LockEnds
  BY <1>22 DEF LockEnds
<1>23. CASE Unlock
  BY <1>23 DEF Unlock
<1>24. ASSUME NEW i \in Isolation, DeleteCommits(i) PROVE Goal'
  BY <1>24 DEF DeleteCommits
<1>25. ASSUME NEW i \in Isolation, DeleteClearsJar(i) PROVE Goal'
  BY <1>25 DEF DeleteClearsJar
<1>26. ASSUME NEW i \in Isolation, DeleteClearsPool(i) PROVE Goal'
  BY <1>26 DEF DeleteClearsPool, Fence
<1>27. ASSUME NEW i \in Isolation, DeleteEnds(i) PROVE Goal'
  BY <1>27 DEF DeleteEnds, Fence
<1>28. ASSUME NEW i \in Isolation, RestoreWorkspace(i) PROVE Goal'
  BY <1>28 DEF RestoreWorkspace
<1>29. CASE UNCHANGED vars
  BY <1>29 DEF vars, storage, fences, kept, conns, execs, admin
<1> QED
  BY <1>1, <1>2, <1>3, <1>4, <1>5, <1>6, <1>7, <1>8, <1>9, <1>10, <1>11, <1>12, <1>13, <1>14, <1>15,
     <1>16, <1>17, <1>18, <1>19, <1>20, <1>21, <1>22, <1>23, <1>24, <1>25, <1>26, <1>27, <1>28, <1>29
  DEF Next, ExecStep, LockStep, DeleteStep


(* Every step keeps the accounts of the connections. *)
LEMMA AccountsStep ==
  ASSUME TypeOK, Accounts, [Next]_vars
  PROVE  Accounts'
<1>0. StorageType /\ FenceType /\ PoolType /\ ExecType /\ AdminType
  BY DEF TypeOK
<1>a. \A x \in Conn : AccountOf(x)
  BY DEF Accounts
<1>b. \A x \in Conn : Held(pool, early, x) \/ Users(x) # {} => con[x].state = "open"
  BY DEF Accounts, AccountOf
<1>c. (\A e \in Exec : pc[e] \in Leased => cn[e] \in Conn)'
  BY CnStep
<1>d. ASSUME \A x \in Conn : AccountOf(x)' PROVE Accounts'
  BY <1>c, <1>d DEF Accounts, Leased
<1>q. ASSUME UNCHANGED <<pool, early, con>>,
             \A e \in Exec : pc[e] \in Leased \/ pc'[e] \in Leased => pc'[e] = pc[e] /\ cn'[e] = cn[e]
      PROVE  Accounts'
  <2>1. ASSUME NEW x \in Conn PROVE AccountOf(x)'
    <3>1. \A e \in Exec : Using(e, x)' <=> Using(e, x)
      BY <1>q DEF Using, Leased
    <3>2. \A e \in Exec : pc[e] = "release" /\ cn[e] = x => pc'[e] = "release" /\ cn'[e] = x
      BY <1>q DEF Leased
    <3>3. /\ con'[x] = con[x] /\ (Held(pool', early', x) <=> Held(pool, early, x))
          /\ Held(pool', early', x) => con[x].state = "open"
      BY <1>b, <1>q
    <3> QED
      BY <1>a, <3>1, <3>2, <3>3, KeepsAccount
  <2> QED
    BY <1>d, <2>1
<1>g. ASSUME NEW removed,
             con' = GiveUp(con, pool', early', removed),
             \A x \in Conn : Held(pool, early, x) => Held(pool', early', x) \/ x \in removed,
             \A x \in Conn : Held(pool', early', x) => con[x].state = "open",
             \A e \in Exec, x \in Conn : Using(e, x)' <=> Using(e, x),
             \A e \in Exec, x \in Conn : pc[e] = "release" /\ cn[e] = x =>
                (pc'[e] = "release" /\ cn'[e] = x) \/ x \in removed
      PROVE  Accounts'
  <2>1. ASSUME NEW x \in Conn PROVE AccountOf(x)'
    <3>1. con'[x] = IF x \in removed /\ con[x].active = 0 /\ ~Held(pool', early', x)
                    THEN Unused("closed") ELSE con[x]
      BY <1>g, GivenUp
    <3> QED
      BY <1>0, <1>a, <1>g, <3>1, GivesUp
  <2> QED
    BY <1>d, <2>1
<1>l. ASSUME NEW e \in Exec, NEW c \in Conn, con' = Lease(c), Held(pool, early, c),
             pc[e] \notin Leased, pc' = [pc EXCEPT ![e] = "using"], cn' = [cn EXCEPT ![e] = c],
             \A x \in Conn \ {c} : Held(pool', early', x) <=> Held(pool, early, x)
      PROVE  Accounts'
  <2>1. ASSUME NEW x \in Conn, x # c PROVE AccountOf(x)'
    <3>1. con'[x] = con[x]
      BY <1>0, <1>l, <2>1 DEF Lease, PoolType
    <3>2. \A d \in Exec : Using(d, x)' <=> Using(d, x)
      BY <1>0, <1>l, <2>1 DEF Using, ExecType, Leased
    <3>3. \A d \in Exec : pc[d] = "release" /\ cn[d] = x => pc'[d] = "release" /\ cn'[d] = x
      BY <1>0, <1>l, <2>1 DEF ExecType, Leased
    <3>4. /\ Held(pool', early', x) <=> Held(pool, early, x)
          /\ Held(pool', early', x) => con[x].state = "open"
      BY <1>b, <1>l, <2>1
    <3> QED
      BY <1>a, <3>1, <3>2, <3>3, <3>4, KeepsAccount
  <2>2. AccountOf(c)'
    <3>1. con[c].state = "open" /\ con[c] \in ConnState
      BY <1>0, <1>b, <1>l DEF PoolType
    <3>2. con'[c] = [con[c] EXCEPT !.active = con[c].active + 1]
      BY <1>0, <1>l DEF Lease, PoolType
    <3>3. con'[c].state = "open" /\ con'[c].active = con[c].active + 1
      BY <3>1, <3>2 DEF ConnState
    <3>4. ~Using(e, c) /\ Using(e, c)' /\ \A d \in Exec \ {e} : Using(d, c)' <=> Using(d, c)
      BY <1>0, <1>l DEF Using, ExecType, Leased
    <3> QED
      BY <1>0, <1>a, <3>1, <3>3, <3>4, Leases
  <2> QED
    BY <1>d, <2>1, <2>2
<1>p. ASSUME NEW is \in SUBSET Isolation, ClearPool(is), UNCHANGED <<pc, cn>> PROVE Accounts'
  <2>1. /\ pool' = Without(pool, is) /\ early' = Without(early, is)
        /\ con' = GiveUp(con, pool', early', At(pool, is) \cup At(early, is))
    BY <1>p DEF ClearPool
  <2>2. \A x \in Conn : /\ Held(pool', early', x) => Held(pool, early, x)
                        /\ Held(pool, early, x) => Held(pool', early', x) \/ x \in At(pool, is) \cup At(early, is)
    <3>1. \A x \in Conn : /\ Held(pool', early, x) => Held(pool, early, x)
                          /\ Held(pool, early, x) => Held(pool', early, x) \/ x \in At(pool, is)
      BY <2>1, HeldWithout
    <3>2. \A x \in Conn : /\ Held(pool', early', x) => Held(pool', early, x)
                          /\ Held(pool', early, x) => Held(pool', early', x) \/ x \in At(early, is)
      BY <2>1, HeldWithout
    <3> QED
      BY <3>1, <3>2
  <2>3. \A d \in Exec, x \in Conn : Using(d, x)' <=> Using(d, x)
    BY <1>p DEF Using
  <2> QED
    BY <1>b, <1>p, <2>1, <2>2, <2>3, <1>g
<1>1. ASSUME NEW e \in Exec, BuildBegins(e) PROVE Accounts'
  BY <1>1, <1>0, <1>q DEF BuildBegins, Goto, ExecType, conns, execs, Leased
<1>2. ASSUME NEW e \in Exec, SnapReads(e) PROVE Accounts'
  BY <1>2, <1>0, <1>q DEF SnapReads, Goto, ExecType, conns, execs, Leased
<1>3. ASSUME NEW e \in Exec, SnapEnds(e) PROVE Accounts'
  BY <1>3, <1>0, <1>q DEF SnapEnds, Goto, ExecType, conns, execs, Leased
<1>4. ASSUME NEW e \in Exec, ReadWorkspace(e) PROVE Accounts'
  BY <1>4, <1>0, <1>q DEF ReadWorkspace, Finish, Goto, ExecType, conns, execs, Leased
<1>5. ASSUME NEW e \in Exec, TicketContext(e) PROVE Accounts'
  BY <1>5, <1>0, <1>q DEF TicketContext, Goto, ExecType, conns, execs, Leased
<1>6. ASSUME NEW e \in Exec, StoreCookies(e) PROVE Accounts'
  BY <1>6, <1>0, <1>q DEF StoreCookies, Finish, Goto, ExecType, conns, execs, Leased
<1>7. ASSUME NEW e \in Exec, TakeEarly(e) PROVE Accounts'
  <2>1. PICK c \in Conn : c = early[iso[e]]
    BY <1>7, <1>0, CachesAssumption DEF TakeEarly, ExecType, PoolType
  <2>2. iso[e] \in Isolation /\ UNCHANGED pool /\ early' = Without(early, {iso[e]})
    BY <1>7, <1>0 DEF TakeEarly, ExecType
  <2>3. Held(pool, early, c) /\ At(early, {iso[e]}) \subseteq {c}
    BY <2>1, <2>2 DEF Held, At
  <2>4. \A x \in Conn : /\ Held(pool', early', x) => Held(pool, early, x)
                        /\ Held(pool, early, x) => Held(pool', early', x) \/ x = c
    BY <2>2, <2>3, HeldWithout
  <2>5. CASE con' = Lease(c) /\ cn' = [cn EXCEPT ![e] = c] /\ Goto(e, "using")
    BY <1>7, <2>3, <2>4, <2>5, <1>l DEF TakeEarly, Goto, Leased
  <2>6. CASE con' = GiveUp(con, pool, early', {c}) /\ UNCHANGED <<cn, pc>>
    <3>1. \A d \in Exec, x \in Conn : Using(d, x)' <=> Using(d, x)
      BY <2>6 DEF Using
    <3> QED
      BY <1>b, <2>2, <2>4, <2>6, <3>1, <1>g
  <2> QED
    BY <1>7, <2>1, <2>5, <2>6 DEF TakeEarly
<1>8. ASSUME NEW e \in Exec, Checkout(e) PROVE Accounts'
  <2>1. PICK c \in Conn : c = pool[iso[e]]
    BY <1>8, <1>0, CachesAssumption DEF Checkout, ExecType, PoolType
  <2>2. iso[e] \in Isolation /\ UNCHANGED early /\ Held(pool, early, c)
    BY <1>8, <1>0, <2>1 DEF Checkout, ExecType, Held
  <2>3. CASE con' = Lease(c) /\ cn' = [cn EXCEPT ![e] = c] /\ Goto(e, "using") /\ UNCHANGED pool
    BY <1>8, <2>2, <2>3, <1>l DEF Checkout, Goto, Leased
  <2>4. CASE /\ pool' = Without(pool, {iso[e]}) /\ con' = GiveUp(con, pool', early, {c})
             /\ Goto(e, "connect") /\ UNCHANGED cn
    <3>1. At(pool, {iso[e]}) \subseteq {c}
      BY <2>1 DEF At
    <3>2. \A x \in Conn : /\ Held(pool', early', x) => Held(pool, early, x)
                          /\ Held(pool, early, x) => Held(pool', early', x) \/ x = c
      BY <2>2, <2>4, <3>1, HeldWithout
    <3>3. /\ \A d \in Exec, x \in Conn : Using(d, x)' <=> Using(d, x)
          /\ \A d \in Exec : pc[d] = "release" => pc'[d] = "release" /\ cn'[d] = cn[d]
      BY <1>8, <1>0, <2>4 DEF Using, Goto, ExecType, Checkout
    <3> QED
      BY <1>b, <2>2, <2>4, <3>2, <3>3, <1>g
  <2> QED
    BY <1>8, <2>1, <2>3, <2>4 DEF Checkout
<1>9. ASSUME NEW e \in Exec, NoCheckout(e) PROVE Accounts'
  BY <1>9, <1>0, <1>q DEF NoCheckout, Goto, ExecType, conns, execs, Leased
<1>10. ASSUME NEW e \in Exec, HandshakeFails(e) PROVE Accounts'
  BY <1>10, <1>0, <1>q DEF HandshakeFails, Finish, Goto, ExecType, conns, execs, Leased
<1>11. ASSUME NEW e \in Exec, NEW c \in Conn, NEW k \in BOOLEAN, Checkin(e, c, k) PROVE Accounts'
  <2> DEFINE new == [state |-> "open", usable |-> TRUE, active |-> 1,
                      home |-> iso[e], origin |-> tag[e], ctx |-> ectx[e]]
             kk == [con EXCEPT ![c] = new]
             pp == [pool EXCEPT ![iso[e]] = c]
  <2>1. /\ pc[e] = "handshake" /\ con[c].state = "new" /\ iso[e] \in Isolation
        /\ cn' = [cn EXCEPT ![e] = c] /\ pc' = [pc EXCEPT ![e] = "using"] /\ UNCHANGED early
    BY <1>11, <1>0 DEF Checkin, Goto, ExecType
  <2>2. \/ \E r \in OverCap(kk, pp) :
             /\ pool' = Without(pp, r)
             /\ con' = GiveUp(kk, pool', early, At(pool, {iso[e]}) \cup At(pp, r))
        \/ con' = kk /\ UNCHANGED pool
    BY <1>11 DEF Checkin
  <2>3. kk[c] = new /\ new.active = 1 /\ new.state = "open" /\ \A x \in Conn \ {c} : kk[x] = con[x]
    BY <1>0 DEF PoolType
  <2> DEFINE Rest(s) ==
        /\ \A x \in Conn : con'[x] = IF x \in s /\ kk[x].active = 0 /\ ~Held(pool', early', x)
                                     THEN Unused("closed") ELSE kk[x]
        /\ \A x \in Conn \ {c} : /\ Held(pool', early', x) => Held(pool, early, x)
                                 /\ Held(pool, early, x) => Held(pool', early', x) \/ x \in s
  <2>4. \E s : Rest(s)
    <3>1. CASE con' = kk /\ UNCHANGED pool
      <4>1. Rest({})
        BY <2>1, <3>1
      <4> HIDE DEF Rest
      <4> QED
        BY <4>1
    <3>2. ASSUME NEW r \in OverCap(kk, pp), pool' = Without(pp, r),
                 con' = GiveUp(kk, pool', early, At(pool, {iso[e]}) \cup At(pp, r))
          PROVE  \E s : Rest(s)
      <4>1. r \in SUBSET Isolation
        BY DEF OverCap
      <4>2. \A x \in Conn \ {c} : /\ Held(pp, early, x) => Held(pool, early, x)
                                  /\ Held(pool, early, x) => Held(pp, early, x) \/ x \in At(pool, {iso[e]})
        BY <1>0, <2>1, CachesAssumption DEF Held, At, PoolType
      <4> HIDE DEF kk, pp
      <4>3. \A x \in Conn : /\ Held(pool', early', x) => Held(pp, early, x)
                            /\ Held(pp, early, x) => Held(pool', early', x) \/ x \in At(pp, r)
        BY <2>1, <3>2, <4>1, HeldWithout
      <4> DEFINE away == At(pool, {iso[e]}) \cup At(pp, r)
      <4>4. con' = GiveUp(kk, pool', early', away)
        BY <2>1, <3>2
      <4>5. away = At(pool, {iso[e]}) \cup At(pp, r)
        OBVIOUS
      <4> HIDE DEF away
      <4>6. \A x \in Conn : con'[x] = IF x \in away /\ kk[x].active = 0 /\ ~Held(pool', early', x)
                                      THEN Unused("closed") ELSE kk[x]
        BY <4>4, GivenUp
      <4>7. Rest(away)
        BY <4>2, <4>3, <4>5, <4>6
      <4> HIDE DEF Rest
      <4> QED
        BY <4>7
    <3> HIDE DEF kk, pp, Rest
    <3> QED
      BY <2>2, <3>1, <3>2
  <2> HIDE DEF kk, pp, new
  <2>9. PICK removed : Rest(removed)
    BY <2>4
  <2>5. ASSUME NEW x \in Conn, x # c PROVE AccountOf(x)'
    <3>1. con'[x] = IF x \in removed /\ con[x].active = 0 /\ ~Held(pool', early', x)
                    THEN Unused("closed") ELSE con[x]
      BY <2>3, <2>9, <2>5
    <3>2. \A d \in Exec : Using(d, x)' <=> Using(d, x)
      BY <1>0, <2>1, <2>5 DEF Using, ExecType
    <3>3. \A d \in Exec : pc[d] = "release" /\ cn[d] = x => pc'[d] = "release" /\ cn'[d] = x
      BY <1>0, <2>1 DEF ExecType
    <3>4. /\ Held(pool', early', x) => con[x].state = "open"
          /\ Held(pool, early, x) => Held(pool', early', x) \/ x \in removed
      BY <1>b, <2>9, <2>5
    <3> QED
      BY <1>0, <1>a, <3>1, <3>2, <3>3, <3>4, GivesUp
  <2>6. AccountOf(c)'
    <3>1. con'[c] = new
      BY <2>3, <2>9
    <3>2. Users(c) = {}
      BY <1>b, <2>1
    <3>3. Users(c)' = {e}
      BY <1>0, <2>1, <3>2 DEF Users, Using, ExecType
    <3>4. IsFiniteSet({e}) /\ Cardinality({e}) = 1
      BY FS_Singleton
    <3> QED
      BY <2>3, <3>1, <3>3, <3>4 DEF AccountOf
  <2> QED
    BY <1>d, <2>5, <2>6
<1>12. ASSUME NEW e \in Exec, RequestFails(e) PROVE Accounts'
  <2> DEFINE mine == {j \in {iso[e]} : pool[j] = cn[e]}
  <2>1. /\ pool' = Without(pool, mine) /\ UNCHANGED early
        /\ con' = GiveUp(con, pool', early', At(pool, mine))
    BY <1>12 DEF RequestFails
  <2>2. mine \in SUBSET Isolation
    BY <1>0 DEF ExecType
  <2> HIDE DEF mine
  <2>3. \A x \in Conn : /\ Held(pool', early', x) => Held(pool, early, x)
                        /\ Held(pool, early, x) => Held(pool', early', x) \/ x \in At(pool, mine)
    BY <2>1, <2>2, HeldWithout
  <2>4. /\ \A d \in Exec, x \in Conn : Using(d, x)' <=> Using(d, x)
        /\ \A d \in Exec : pc[d] = "release" => pc'[d] = "release" /\ cn'[d] = cn[d]
    BY <1>12, <1>0 DEF RequestFails, Using, Goto, ExecType
  <2> QED
    BY <1>b, <2>1, <2>3, <2>4, <1>g
<1>13. ASSUME NEW e \in Exec, TooEarly(e) PROVE Accounts'
  <2>0. /\ \A d \in Exec, x \in Conn : Using(d, x)' <=> Using(d, x)
        /\ \A d \in Exec : pc[d] = "release" => pc'[d] = "release" /\ cn'[d] = cn[d]
    BY <1>13, <1>0 DEF TooEarly, Using, Goto, ExecType
  <2>1. iso[e] \in Isolation /\ UNCHANGED pool
    BY <1>13, <1>0 DEF TooEarly, ExecType
  <2>2. CASE early' = [early EXCEPT ![iso[e]] = cn[e]] /\ con' = GiveUp(con, pool, early', At(early, {iso[e]}))
    <3>1. ASSUME NEW x \in Conn PROVE /\ Held(pool', early', x) => Held(pool, early, x) \/ x = cn[e]
                                      /\ Held(pool, early, x) => Held(pool', early', x) \/ x \in At(early, {iso[e]})
      BY <1>0, <2>1, <2>2, CachesAssumption DEF Held, At, PoolType
    <3>2. \A x \in Conn : x = cn[e] => con[x].state = "open"
      BY <1>13, <1>b DEF TooEarly, Users, Using
    <3>3. \A x \in Conn : Held(pool', early', x) => con[x].state = "open"
      BY <1>b, <3>1, <3>2
    <3> QED
      BY <2>0, <2>1, <2>2, <3>1, <3>3, <1>g
  <2>3. CASE UNCHANGED <<early, con>>
    <3>1. con' = GiveUp(con, pool', early', {})
      BY <1>0, <2>3 DEF GiveUp, ToClose, PoolType
    <3> QED
      BY <1>b, <2>0, <2>1, <2>3, <3>1, <1>g
  <2> QED
    BY <1>13, <2>2, <2>3 DEF TooEarly
<1>14. ASSUME NEW e \in Exec, DropLease(e) PROVE Accounts'
  <2>1. PICK c \in Conn : c = cn[e] /\ pc[e] \in {"using", "drop"}
    BY <1>14 DEF DropLease, Accounts
  <2>2. UNCHANGED <<pool, early>> /\ con' = [con EXCEPT ![c] = [con[c] EXCEPT !.active = con[c].active - 1]]
    BY <1>14, <2>1 DEF DropLease
  <2>3. con'[c].state = con[c].state /\ con'[c].active = con[c].active - 1 /\ \A x \in Conn \ {c} : con'[x] = con[x]
    BY <1>0, <2>2 DEF PoolType, ConnState
  <2>4. \A d \in Exec \ {e} : pc'[d] = pc[d] /\ cn'[d] = cn[d]
    BY <1>14, <1>0 DEF DropLease, Ended, Finish, Goto, ExecType
  <2>5. pc'[e] \notin {"using", "drop"}
    BY <1>14, <1>0 DEF DropLease, Ended, Finish, Goto, ExecType
  <2>6. con[c].active = 1 => pc'[e] = "release" /\ cn'[e] = c
    BY <1>14, <1>0, <2>1 DEF DropLease, Goto, ExecType
  <2>7. ASSUME NEW x \in Conn, x # c PROVE AccountOf(x)'
    <3>1. \A d \in Exec : Using(d, x)' <=> Using(d, x)
      BY <2>1, <2>4, <2>5, <2>7 DEF Using
    <3>2. \A d \in Exec : pc[d] = "release" /\ cn[d] = x => pc'[d] = "release" /\ cn'[d] = x
      BY <2>1, <2>4
    <3>3. Held(pool', early', x) <=> Held(pool, early, x)
      BY <2>2
    <3> QED
      BY <1>a, <2>3, <2>7, <3>1, <3>2, <3>3, KeepsAccount
  <2>8. AccountOf(c)'
    <3>1. Using(e, c) /\ ~Using(e, c)' /\ \A d \in Exec \ {e} : Using(d, c)' <=> Using(d, c)
      BY <2>1, <2>4, <2>5 DEF Using
    <3> QED
      BY <1>0, <1>a, <2>2, <2>3, <2>6, <3>1, Unleases
  <2> QED
    BY <1>d, <2>7, <2>8
<1>15. ASSUME NEW e \in Exec, Release(e) PROVE Accounts'
  <2>1. pc[e] = "release" /\ cn[e] \in Conn /\ UNCHANGED early /\ \A d \in Exec \ {e} : pc'[d] = pc[d] /\ cn'[d] = cn[d]
    BY <1>15, <1>0 DEF Release, Ended, Finish, Goto, ExecType, Accounts
  <2>2. pc'[e] \notin Leased
    BY <1>15, <1>0 DEF Release, Ended, Finish, Goto, ExecType, Leased
  <2>3. \A d \in Exec, x \in Conn : Using(d, x)' <=> Using(d, x)
    BY <2>1, <2>2 DEF Using, Leased
  <2>4. CASE Held(pool, early, cn[e])
    <3>1. PICK r \in OverCap(con, pool) : pool' = Without(pool, r) /\ con' = GiveUp(con, pool', early', At(pool, r))
      BY <1>15, <2>1, <2>4 DEF Release
    <3>2. r \in SUBSET Isolation
      BY DEF OverCap
    <3>3. \A x \in Conn : /\ Held(pool', early', x) => Held(pool, early, x)
                          /\ Held(pool, early, x) => Held(pool', early', x) \/ x \in At(pool, r)
      BY <2>1, <3>1, <3>2, HeldWithout
    <3>4. ASSUME NEW x \in Conn PROVE AccountOf(x)'
      <4>1. con'[x] = IF x \in At(pool, r) /\ con[x].active = 0 /\ ~Held(pool', early', x)
                      THEN Unused("closed") ELSE con[x]
        BY <3>1, GivenUp
      <4>2. CASE x = cn[e]
        <5>1. con'[x] = IF TRUE /\ con[x].active = 0 /\ ~Held(pool', early', x) THEN Unused("closed") ELSE con[x]
          BY <2>4, <3>3, <4>1, <4>2
        <5>2. con'[x] = IF x \in Conn /\ con[x].active = 0 /\ ~Held(pool', early', x) THEN Unused("closed") ELSE con[x]
          BY <5>1
        <5> QED
          BY <1>0, <1>a, <1>b, <2>3, <3>3, <5>2, GivesUp
      <4>3. CASE x # cn[e]
        <5>1. \A d \in Exec : pc[d] = "release" /\ cn[d] = x => pc'[d] = "release" /\ cn'[d] = x
          BY <2>1, <4>3
        <5> QED
          BY <1>0, <1>a, <1>b, <2>3, <3>3, <4>1, <5>1, GivesUp
      <4> QED
        BY <4>2, <4>3
    <3> QED
      BY <1>d, <3>4
  <2>5. CASE ~Held(pool, early, cn[e])
    <3>1. UNCHANGED pool /\ con' = GiveUp(con, pool', early', {cn[e]})
      BY <1>15, <2>1, <2>5 DEF Release
    <3>2. \A d \in Exec, x \in Conn : pc[d] = "release" /\ cn[d] = x => (pc'[d] = "release" /\ cn'[d] = x) \/ x \in {cn[e]}
      BY <2>1
    <3> QED
      BY <1>b, <2>1, <2>3, <3>1, <3>2, <1>g
  <2> QED
    BY <2>4, <2>5
<1>16. ASSUME NEW c \in Conn, PeerDrains(c) PROVE Accounts'
  <2>1. UNCHANGED <<pool, early, pc, cn>> /\ con' = [con EXCEPT ![c] = [con[c] EXCEPT !.usable = FALSE]]
    BY <1>16 DEF PeerDrains, execs
  <2>2. \A x \in Conn : con'[x].state = con[x].state /\ con'[x].active = con[x].active
    BY <1>0, <2>1 DEF PoolType, ConnState
  <2>3. ASSUME NEW x \in Conn PROVE AccountOf(x)'
    <3>1. Users(x)' = Users(x)
      BY <2>1 DEF Users, Using
    <3> QED
      BY <1>a, <2>1, <2>2, <3>1 DEF AccountOf
  <2> QED
    BY <1>d, <2>3
<1>17. ASSUME NEW i \in Isolation, Sweep(i) PROVE Accounts'
  <2>0. /\ \A d \in Exec, x \in Conn : Using(d, x)' <=> Using(d, x)
        /\ UNCHANGED <<pc, cn>>
    BY <1>17 DEF Sweep, Using, execs
  <2>1. CASE pool' = Without(pool, {i}) /\ con' = GiveUp(con, pool', early, {pool[i]}) /\ UNCHANGED early
    <3>1. At(pool, {i}) \subseteq {pool[i]}
      BY DEF At
    <3>2. \A x \in Conn : /\ Held(pool', early', x) => Held(pool, early, x)
                          /\ Held(pool, early, x) => Held(pool', early', x) \/ x \in {pool[i]}
      BY <2>1, <3>1, HeldWithout
    <3> QED
      BY <1>b, <2>0, <2>1, <3>2, <1>g
  <2>2. CASE early' = Without(early, {i}) /\ con' = GiveUp(con, pool, early', {early[i]}) /\ UNCHANGED pool
    <3>1. At(early, {i}) \subseteq {early[i]}
      BY DEF At
    <3>2. \A x \in Conn : /\ Held(pool', early', x) => Held(pool, early, x)
                          /\ Held(pool, early, x) => Held(pool', early', x) \/ x \in {early[i]}
      BY <2>2, <3>1, HeldWithout
    <3> QED
      BY <1>b, <2>0, <2>2, <3>2, <1>g
  <2> QED
    BY <1>17, <2>1, <2>2 DEF Sweep
<1>18. CASE LockBegins
  BY <1>18, <1>0, <1>q DEF LockBegins, Goto, ExecType, conns, execs, Leased
<1>19. CASE AdvanceEpoch
  BY <1>19, <1>0, <1>q DEF AdvanceEpoch, Goto, ExecType, conns, execs, Leased
<1>20. CASE LockClearsPool
  <2>1. UNCHANGED <<pc, cn>> /\ ClearPool(Isolation)
    BY <1>20 DEF LockClearsPool, execs
  <2> QED
    BY <2>1, <1>p
<1>21. CASE LockClearsTickets
  BY <1>21, <1>0, <1>q DEF LockClearsTickets, Fence, Goto, ExecType, conns, execs, Leased
<1>22. CASE LockEnds
  BY <1>22, <1>0, <1>q DEF LockEnds, Goto, ExecType, conns, execs, Leased
<1>23. CASE Unlock
  BY <1>23, <1>0, <1>q DEF Unlock, Goto, ExecType, conns, execs, Leased
<1>24. ASSUME NEW i \in Isolation, DeleteCommits(i) PROVE Accounts'
  BY <1>24, <1>0, <1>q DEF DeleteCommits, Goto, ExecType, conns, execs, Leased
<1>25. ASSUME NEW i \in Isolation, DeleteClearsJar(i) PROVE Accounts'
  BY <1>25, <1>0, <1>q DEF DeleteClearsJar, Goto, ExecType, conns, execs, Leased
<1>26. ASSUME NEW i \in Isolation, DeleteClearsPool(i) PROVE Accounts'
  <2>1. UNCHANGED <<pc, cn>> /\ ClearPool({i})
    BY <1>26 DEF DeleteClearsPool, execs
  <2> QED
    BY <2>1, <1>p
<1>27. ASSUME NEW i \in Isolation, DeleteEnds(i) PROVE Accounts'
  BY <1>27, <1>0, <1>q DEF DeleteEnds, Fence, Goto, ExecType, conns, execs, Leased
<1>28. ASSUME NEW i \in Isolation, RestoreWorkspace(i) PROVE Accounts'
  BY <1>28, <1>0, <1>q DEF RestoreWorkspace, Goto, ExecType, conns, execs, Leased
<1>29. CASE UNCHANGED vars
  BY <1>29, <1>q DEF vars, conns, execs
<1> QED
  BY <1>1, <1>2, <1>3, <1>4, <1>5, <1>6, <1>7, <1>8, <1>9, <1>10, <1>11, <1>12, <1>13, <1>14, <1>15,
     <1>16, <1>17, <1>18, <1>19, <1>20, <1>21, <1>22, <1>23, <1>24, <1>25, <1>26, <1>27, <1>28, <1>29
  DEF Next, ExecStep, LockStep, DeleteStep


(* Initially no connection is open. *)
LEMMA AccountsInit == Init => Accounts
<1> SUFFICES ASSUME Init PROVE Accounts
  OBVIOUS
<1>1. ASSUME NEW c \in Conn PROVE AccountOf(c)
  <2>1. Users(c) = {}
    BY DEF Init, Users, Using
  <2>2. con[c].state = "new" /\ con[c].active = 0
    BY DEF Init, Unused
  <2>3. ~Held(pool, early, c)
    BY CachesAssumption DEF Init, Held
  <2> QED
    BY <2>1, <2>2, <2>3, FS_EmptySet DEF AccountOf
<1> QED
  BY <1>1 DEF Accounts, Init

(* The pool leaks no QUIC connection and closes none under a request: an   *)
(* open one is in a map, carries a request or is about to be released, and *)
(* neither the maps nor a request has one that was closed (StreamLease,    *)
(* to_close, PoolShared::released).                                        *)
THEOREM ConnectionsAreAccounted == Spec => []ConnectionsAccounted
<1>1. TypeOK /\ Accounts => ConnectionsAccounted
  <2> SUFFICES ASSUME TypeOK, Accounts, NEW c \in Conn
               PROVE  IF con[c].state = "open"
                      THEN \/ con[c].active > 0 \/ Held(pool, early, c)
                           \/ \E e \in Exec : pc[e] = "release" /\ cn[e] = c
                      ELSE ~Held(pool, early, c) /\ \A e \in Exec : pc[e] \in {"using", "drop"} => cn[e] # c
    BY DEF ConnectionsAccounted
  <2>1. AccountOf(c) /\ con[c].active \in Nat
    BY FS_CardinalityType DEF Accounts, AccountOf
  <2> QED
    BY <2>1 DEF AccountOf, Users, Using
<1> QED
  BY TypeInit, TypeStep, AccountsInit, AccountsStep, <1>1, PTL DEF Spec

-----------------------------------------------------------------------------
(* Two kinds of steps: executions and the pool work, which clears nothing; *)
(* locks, unlocks, deletes and restores, which move no execution.          *)

Working ==
  \/ \E e \in Exec : ExecStep(e)
  \/ \E c \in Conn : PeerDrains(c)
  \/ \E i \in Isolation : Sweep(i)
  \/ UNCHANGED vars

Clearing == (\E i \in Isolation : DeleteStep(i)) \/ LockStep

(* There is no third kind. *)
LEMMA TwoKinds == [Next]_vars => Working \/ Clearing
BY DEF Next, Working, Clearing

clearing == <<locked, session, present, inc, epoch, jarGen, gens, lockAt, delAt, ended, gone>>

(* Work leaves every fence and every account of what is dead alone. *)
LEMMA WorkClearsNothing ==
  ASSUME Working
  PROVE  UNCHANGED clearing /\ UNCHANGED iso
<1> USE DEF clearing, storage, fences, admin, execs
<1>1. ASSUME NEW e \in Exec, BuildBegins(e) PROVE UNCHANGED clearing /\ UNCHANGED iso
  BY <1>1 DEF BuildBegins
<1>2. ASSUME NEW e \in Exec, SnapReads(e) PROVE UNCHANGED clearing /\ UNCHANGED iso
  BY <1>2 DEF SnapReads
<1>3. ASSUME NEW e \in Exec, SnapEnds(e) PROVE UNCHANGED clearing /\ UNCHANGED iso
  BY <1>3 DEF SnapEnds
<1>4. ASSUME NEW e \in Exec, ReadWorkspace(e) PROVE UNCHANGED clearing /\ UNCHANGED iso
  BY <1>4 DEF ReadWorkspace
<1>5. ASSUME NEW e \in Exec, TicketContext(e) PROVE UNCHANGED clearing /\ UNCHANGED iso
  BY <1>5 DEF TicketContext
<1>6. ASSUME NEW e \in Exec, StoreCookies(e) PROVE UNCHANGED clearing /\ UNCHANGED iso
  BY <1>6 DEF StoreCookies
<1>7. ASSUME NEW e \in Exec, TakeEarly(e) PROVE UNCHANGED clearing /\ UNCHANGED iso
  BY <1>7 DEF TakeEarly
<1>8. ASSUME NEW e \in Exec, Checkout(e) PROVE UNCHANGED clearing /\ UNCHANGED iso
  BY <1>8 DEF Checkout
<1>9. ASSUME NEW e \in Exec, NoCheckout(e) PROVE UNCHANGED clearing /\ UNCHANGED iso
  BY <1>9 DEF NoCheckout
<1>10. ASSUME NEW e \in Exec, HandshakeFails(e) PROVE UNCHANGED clearing /\ UNCHANGED iso
  BY <1>10 DEF HandshakeFails
<1>11. ASSUME NEW e \in Exec, NEW c \in Conn, NEW k \in BOOLEAN, Checkin(e, c, k) PROVE UNCHANGED clearing /\ UNCHANGED iso
  BY <1>11 DEF Checkin
<1>12. ASSUME NEW e \in Exec, RequestFails(e) PROVE UNCHANGED clearing /\ UNCHANGED iso
  BY <1>12 DEF RequestFails
<1>13. ASSUME NEW e \in Exec, TooEarly(e) PROVE UNCHANGED clearing /\ UNCHANGED iso
  BY <1>13 DEF TooEarly
<1>14. ASSUME NEW e \in Exec, DropLease(e) PROVE UNCHANGED clearing /\ UNCHANGED iso
  BY <1>14 DEF DropLease
<1>15. ASSUME NEW e \in Exec, Release(e) PROVE UNCHANGED clearing /\ UNCHANGED iso
  BY <1>15 DEF Release
<1>16. ASSUME NEW c \in Conn, PeerDrains(c) PROVE UNCHANGED clearing /\ UNCHANGED iso
  BY <1>16 DEF PeerDrains
<1>17. ASSUME NEW i \in Isolation, Sweep(i) PROVE UNCHANGED clearing /\ UNCHANGED iso
  BY <1>17 DEF Sweep
<1>18. CASE UNCHANGED vars
  BY <1>18 DEF vars, storage, execs
<1> QED
  BY <1>1, <1>2, <1>3, <1>4, <1>5, <1>6, <1>7, <1>8, <1>9, <1>10, <1>11, <1>12,
     <1>13, <1>14, <1>15, <1>16, <1>17, <1>18
  DEF Working, ExecStep

(* Clearing moves no execution. *)
LEMMA ClearingMovesNobody ==
  ASSUME Clearing
  PROVE  UNCHANGED <<pc, iso, snap, tag, cn, ectx, again>>
<1> USE DEF execs
<1>1. CASE LockBegins
  BY <1>1 DEF LockBegins
<1>2. CASE AdvanceEpoch
  BY <1>2 DEF AdvanceEpoch
<1>3. CASE LockClearsPool
  BY <1>3 DEF LockClearsPool
<1>4. CASE LockClearsTickets
  BY <1>4 DEF LockClearsTickets
<1>5. CASE LockEnds
  BY <1>5 DEF LockEnds
<1>6. CASE Unlock
  BY <1>6 DEF Unlock
<1>7. ASSUME NEW i \in Isolation, DeleteCommits(i) PROVE UNCHANGED <<pc, iso, snap, tag, cn, ectx, again>>
  BY <1>7 DEF DeleteCommits
<1>8. ASSUME NEW i \in Isolation, DeleteClearsJar(i) PROVE UNCHANGED <<pc, iso, snap, tag, cn, ectx, again>>
  BY <1>8 DEF DeleteClearsJar
<1>9. ASSUME NEW i \in Isolation, DeleteClearsPool(i) PROVE UNCHANGED <<pc, iso, snap, tag, cn, ectx, again>>
  BY <1>9 DEF DeleteClearsPool
<1>10. ASSUME NEW i \in Isolation, DeleteEnds(i) PROVE UNCHANGED <<pc, iso, snap, tag, cn, ectx, again>>
  BY <1>10 DEF DeleteEnds
<1>11. ASSUME NEW i \in Isolation, RestoreWorkspace(i) PROVE UNCHANGED <<pc, iso, snap, tag, cn, ectx, again>>
  BY <1>11 DEF RestoreWorkspace
<1> QED
  BY <1>1, <1>2, <1>3, <1>4, <1>5, <1>6, <1>7, <1>8, <1>9, <1>10, <1>11
  DEF Clearing, LockStep, DeleteStep

(* So work leaves dead what is dead. *)
LEMMA WorkKillsNothing ==
  ASSUME Working
  PROVE  /\ UNCHANGED <<EpochDead, PoolDead, TicketsDead>>
         /\ \A i \in Isolation : UNCHANGED <<JarDeadInc(i), PoolDeadInc(i), TicketsDeadInc(i)>>
<1>1. UNCHANGED <<locked, session, present, inc, lockAt, delAt>>
  BY WorkClearsNothing DEF clearing
<1> QED
  BY <1>1
  DEF EpochDead, PoolDead, TicketsDead, DeadSession, JarDeadInc, PoolDeadInc, TicketsDeadInc,
      DeadInc, Deleted


-----------------------------------------------------------------------------
(* What work does to the executions. *)

(* The tag of an execution was just read, of what is there. *)
ReadsTag(e) ==
  /\ pc[e] = "read" /\ ~locked /\ present[iso[e]]
  /\ tag'[e] = [inc |-> inc[iso[e]], ses |-> session]

(* A snapshot stands once it was read again, and a tag once it was read.   *)
MovesOn(e) ==
  /\ pc'[e] \in Snapped => snap'[e] = snap[e] /\ (pc[e] \in Snapped \/ Current(e))
  /\ pc'[e] \in Tagged => (pc[e] \in Tagged /\ tag'[e] = tag[e]) \/ ReadsTag(e)

(* Every step of work moves an execution on like this. *)
LEMMA WorkMoves ==
  ASSUME TypeOK, Working, NEW d \in Exec
  PROVE  MovesOn(d)
<1>0. ExecType
  BY DEF TypeOK
<1> USE <1>0 DEF ExecType, execs, Goto, MovesOn, Snapped, Tagged
<1>1. ASSUME NEW e \in Exec, BuildBegins(e) PROVE MovesOn(d)
  BY <1>1 DEF BuildBegins
<1>2. ASSUME NEW e \in Exec, SnapReads(e) PROVE MovesOn(d)
  BY <1>2 DEF SnapReads
<1>3. ASSUME NEW e \in Exec, SnapEnds(e) PROVE MovesOn(d)
  BY <1>3 DEF SnapEnds
<1>4. ASSUME NEW e \in Exec, ReadWorkspace(e) PROVE MovesOn(d)
  <2>1. CASE d = e
    BY <1>4, <2>1 DEF ReadWorkspace, Finish, ReadsTag
  <2>2. CASE d # e
    BY <1>4, <2>2 DEF ReadWorkspace, Finish
  <2> QED
    BY <2>1, <2>2
<1>5. ASSUME NEW e \in Exec, TicketContext(e) PROVE MovesOn(d)
  BY <1>5 DEF TicketContext
<1>6. ASSUME NEW e \in Exec, StoreCookies(e) PROVE MovesOn(d)
  BY <1>6 DEF StoreCookies, Finish
<1>7. ASSUME NEW e \in Exec, TakeEarly(e) PROVE MovesOn(d)
  BY <1>7 DEF TakeEarly
<1>8. ASSUME NEW e \in Exec, Checkout(e) PROVE MovesOn(d)
  BY <1>8 DEF Checkout
<1>9. ASSUME NEW e \in Exec, NoCheckout(e) PROVE MovesOn(d)
  BY <1>9 DEF NoCheckout
<1>10. ASSUME NEW e \in Exec, HandshakeFails(e) PROVE MovesOn(d)
  BY <1>10 DEF HandshakeFails, Finish
<1>11. ASSUME NEW e \in Exec, NEW c \in Conn, NEW k \in BOOLEAN, Checkin(e, c, k) PROVE MovesOn(d)
  BY <1>11 DEF Checkin
<1>12. ASSUME NEW e \in Exec, RequestFails(e) PROVE MovesOn(d)
  BY <1>12 DEF RequestFails
<1>13. ASSUME NEW e \in Exec, TooEarly(e) PROVE MovesOn(d)
  BY <1>13 DEF TooEarly
<1>14. ASSUME NEW e \in Exec, DropLease(e) PROVE MovesOn(d)
  BY <1>14 DEF DropLease, Ended, Finish
<1>15. ASSUME NEW e \in Exec, Release(e) PROVE MovesOn(d)
  BY <1>15 DEF Release, Ended, Finish
<1>16. ASSUME NEW c \in Conn, PeerDrains(c) PROVE MovesOn(d)
  BY <1>16 DEF PeerDrains
<1>17. ASSUME NEW i \in Isolation, Sweep(i) PROVE MovesOn(d)
  BY <1>17 DEF Sweep
<1>18. CASE UNCHANGED vars
  BY <1>18 DEF vars
<1> QED
  BY <1>1, <1>2, <1>3, <1>4, <1>5, <1>6, <1>7, <1>8, <1>9, <1>10, <1>11, <1>12,
     <1>13, <1>14, <1>15, <1>16, <1>17, <1>18
  DEF Working, ExecStep

(* Stages. *)
LEMMA StagesStep ==
  ASSUME TypeOK, Stages, [Next]_vars
  PROVE  Stages'
<1>0. ExecType
  BY DEF TypeOK
<1>a. CASE Clearing
  <2>1. UNCHANGED <<pc, tag, ectx>>
    BY <1>a, ClearingMovesNobody
  <2> QED
    BY <2>1 DEF Stages
<1>b. ASSUME Working PROVE Stages'
  <2> SUFFICES ASSUME NEW d \in Exec
               PROVE  (tag'[d] # NoTag => pc'[d] \in Tagged) /\ (ectx'[d] # 0 => pc'[d] = "handshake")
    BY DEF Stages
  <2>0. (tag[d] # NoTag => pc[d] \in Tagged) /\ (ectx[d] # 0 => pc[d] = "handshake")
    BY DEF Stages
  <2> USE <1>0, <2>0 DEF ExecType, execs, Goto, Tagged, Snapped
  <2>1. ASSUME NEW e \in Exec, BuildBegins(e) PROVE (tag'[d] # NoTag => pc'[d] \in Tagged) /\ (ectx'[d] # 0 => pc'[d] = "handshake")
    BY <2>1 DEF BuildBegins
  <2>2. ASSUME NEW e \in Exec, SnapReads(e) PROVE (tag'[d] # NoTag => pc'[d] \in Tagged) /\ (ectx'[d] # 0 => pc'[d] = "handshake")
    BY <2>2 DEF SnapReads
  <2>3. ASSUME NEW e \in Exec, SnapEnds(e) PROVE (tag'[d] # NoTag => pc'[d] \in Tagged) /\ (ectx'[d] # 0 => pc'[d] = "handshake")
    BY <2>3 DEF SnapEnds
  <2>4. ASSUME NEW e \in Exec, ReadWorkspace(e) PROVE (tag'[d] # NoTag => pc'[d] \in Tagged) /\ (ectx'[d] # 0 => pc'[d] = "handshake")
    BY <2>4 DEF ReadWorkspace, Finish
  <2>5. ASSUME NEW e \in Exec, TicketContext(e) PROVE (tag'[d] # NoTag => pc'[d] \in Tagged) /\ (ectx'[d] # 0 => pc'[d] = "handshake")
    BY <2>5 DEF TicketContext
  <2>6. ASSUME NEW e \in Exec, StoreCookies(e) PROVE (tag'[d] # NoTag => pc'[d] \in Tagged) /\ (ectx'[d] # 0 => pc'[d] = "handshake")
    BY <2>6 DEF StoreCookies, Finish
  <2>7. ASSUME NEW e \in Exec, TakeEarly(e) PROVE (tag'[d] # NoTag => pc'[d] \in Tagged) /\ (ectx'[d] # 0 => pc'[d] = "handshake")
    BY <2>7 DEF TakeEarly
  <2>8. ASSUME NEW e \in Exec, Checkout(e) PROVE (tag'[d] # NoTag => pc'[d] \in Tagged) /\ (ectx'[d] # 0 => pc'[d] = "handshake")
    BY <2>8 DEF Checkout
  <2>9. ASSUME NEW e \in Exec, NoCheckout(e) PROVE (tag'[d] # NoTag => pc'[d] \in Tagged) /\ (ectx'[d] # 0 => pc'[d] = "handshake")
    BY <2>9 DEF NoCheckout
  <2>10. ASSUME NEW e \in Exec, HandshakeFails(e) PROVE (tag'[d] # NoTag => pc'[d] \in Tagged) /\ (ectx'[d] # 0 => pc'[d] = "handshake")
    BY <2>10 DEF HandshakeFails, Finish
  <2>11. ASSUME NEW e \in Exec, NEW c \in Conn, NEW k \in BOOLEAN, Checkin(e, c, k) PROVE (tag'[d] # NoTag => pc'[d] \in Tagged) /\ (ectx'[d] # 0 => pc'[d] = "handshake")
    BY <2>11 DEF Checkin
  <2>12. ASSUME NEW e \in Exec, RequestFails(e) PROVE (tag'[d] # NoTag => pc'[d] \in Tagged) /\ (ectx'[d] # 0 => pc'[d] = "handshake")
    BY <2>12 DEF RequestFails
  <2>13. ASSUME NEW e \in Exec, TooEarly(e) PROVE (tag'[d] # NoTag => pc'[d] \in Tagged) /\ (ectx'[d] # 0 => pc'[d] = "handshake")
    BY <2>13 DEF TooEarly
  <2>14. ASSUME NEW e \in Exec, DropLease(e) PROVE (tag'[d] # NoTag => pc'[d] \in Tagged) /\ (ectx'[d] # 0 => pc'[d] = "handshake")
    BY <2>14 DEF DropLease, Ended, Finish
  <2>15. ASSUME NEW e \in Exec, Release(e) PROVE (tag'[d] # NoTag => pc'[d] \in Tagged) /\ (ectx'[d] # 0 => pc'[d] = "handshake")
    BY <2>15 DEF Release, Ended, Finish
  <2>16. ASSUME NEW c \in Conn, PeerDrains(c) PROVE (tag'[d] # NoTag => pc'[d] \in Tagged) /\ (ectx'[d] # 0 => pc'[d] = "handshake")
    BY <2>16 DEF PeerDrains
  <2>17. ASSUME NEW i \in Isolation, Sweep(i) PROVE (tag'[d] # NoTag => pc'[d] \in Tagged) /\ (ectx'[d] # 0 => pc'[d] = "handshake")
    BY <2>17 DEF Sweep
  <2>18. CASE UNCHANGED vars
    BY <2>18 DEF vars
  <2> QED
    BY <1>b, <2>1, <2>2, <2>3, <2>4, <2>5, <2>6, <2>7, <2>8, <2>9, <2>10, <2>11, <2>12,
       <2>13, <2>14, <2>15, <2>16, <2>17, <2>18
    DEF Working, ExecStep
<1> QED
  BY <1>a, <1>b, TwoKinds

-----------------------------------------------------------------------------
(* What clearing does to the fences. *)

(* What the two clears leave of a cache's generations. *)
LEMMA ClearedGen ==
  ASSUME NEW g \in Gen, NEW i \in Isolation
  PROVE  /\ ClearAll(g).current = g.current + 1 /\ ClearAll(g).all = g.current + 1
         /\ \A j \in Isolation : ClearAll(g).iso[j] = 0
         /\ ClearIsolation(g, i).current = g.current + 1 /\ ClearIsolation(g, i).all = g.all
         /\ \A j \in Isolation : ClearIsolation(g, i).iso[j] = IF j = i THEN g.current + 1 ELSE g.iso[j]
<1>1. g = [current |-> g.current, all |-> g.all, iso |-> g.iso] /\ g.iso \in [Isolation -> Nat]
  BY DEF Gen
<1>2. ClearIsolation(g, i) = [g EXCEPT !.current = g.current + 1, !.iso = [g.iso EXCEPT ![i] = g.current + 1]]
  BY <1>1 DEF ClearIsolation
<1>3. ClearIsolation(g, i) = [current |-> g.current + 1, all |-> g.all, iso |-> [g.iso EXCEPT ![i] = g.current + 1]]
  BY <1>1, <1>2
<1>4. ClearAll(g) = [current |-> g.current + 1, all |-> g.current + 1, iso |-> [j \in Isolation |-> 0]]
  BY DEF ClearAll
<1> QED
  BY <1>1, <1>3, <1>4

(* A cache's generations at a step: left alone, or cleared, for all or for *)
(* one isolation.                                                          *)
Moves(c) ==
  \/ UNCHANGED gens[c]
  \/ c = "quic" /\ LockClearsPool /\ gens'[c] = ClearAll(gens[c])
  \/ c = "tickets" /\ LockClearsTickets /\ gens'[c] = ClearAll(gens[c])
  \/ \E i \in Isolation : /\ (c = "quic" /\ DeleteClearsPool(i)) \/ (c = "tickets" /\ DeleteEnds(i))
                          /\ gens'[c] = ClearIsolation(gens[c], i)

(* Every step of a lock or a delete moves the generations like this. *)
LEMMA GensMove ==
  ASSUME TypeOK, Clearing, NEW c \in Cache
  PROVE  Moves(c)
<1>0. FenceType
  BY DEF TypeOK
<1> USE <1>0 DEF FenceType, fences, Cache, Moves
<1>1. CASE LockBegins
  BY <1>1 DEF LockBegins
<1>2. CASE AdvanceEpoch
  BY <1>2 DEF AdvanceEpoch
<1>3. CASE LockClearsPool
  BY <1>3 DEF LockClearsPool, Fence
<1>4. CASE LockClearsTickets
  BY <1>4 DEF LockClearsTickets, Fence
<1>5. CASE LockEnds
  BY <1>5 DEF LockEnds
<1>6. CASE Unlock
  BY <1>6 DEF Unlock
<1>7. ASSUME NEW i \in Isolation, DeleteCommits(i) PROVE Moves(c)
  BY <1>7 DEF DeleteCommits
<1>8. ASSUME NEW i \in Isolation, DeleteClearsJar(i) PROVE Moves(c)
  BY <1>8 DEF DeleteClearsJar
<1>9. ASSUME NEW i \in Isolation, DeleteClearsPool(i) PROVE Moves(c)
  BY <1>9 DEF DeleteClearsPool, Fence
<1>10. ASSUME NEW i \in Isolation, DeleteEnds(i) PROVE Moves(c)
  BY <1>10 DEF DeleteEnds, Fence
<1>11. ASSUME NEW i \in Isolation, RestoreWorkspace(i) PROVE Moves(c)
  BY <1>11 DEF RestoreWorkspace
<1> QED
  BY <1>1, <1>2, <1>3, <1>4, <1>5, <1>6, <1>7, <1>8, <1>9, <1>10, <1>11
  DEF Clearing, LockStep, DeleteStep

(* No generation is ahead of its cache. *)
LEMMA GensAhead ==
  ASSUME TypeOK, Ahead, Clearing, NEW c \in Cache
  PROVE  /\ gens[c] \in Gen /\ gens'[c].current \in Nat /\ gens'[c].current >= gens[c].current
         /\ gens'[c].all <= gens'[c].current
         /\ \A i \in Isolation : gens'[c].iso[i] <= gens'[c].current
         /\ \A i \in Isolation, n \in Nat :
              /\ n <= gens[c].current
              /\ n >= gens'[c].all /\ n >= gens'[c].iso[i]
              => /\ n >= gens[c].all /\ n >= gens[c].iso[i]
                 /\ c = "quic" => ~LockClearsPool /\ ~DeleteClearsPool(i)
                 /\ c = "tickets" => ~LockClearsTickets /\ ~DeleteEnds(i)
<1>1. gens[c] \in Gen
  BY DEF TypeOK, FenceType
<1>2. /\ gens[c].current \in Nat /\ gens[c].all \in Nat /\ gens[c].iso \in [Isolation -> Nat]
      /\ gens[c].all <= gens[c].current /\ \A i \in Isolation : gens[c].iso[i] <= gens[c].current
  BY <1>1 DEF Gen, Ahead
<1>3. /\ c = "quic" => (LockClearsPool => gens'[c] = ClearAll(gens[c]))
                      /\ \A i \in Isolation : DeleteClearsPool(i) => gens'[c] = ClearIsolation(gens[c], i)
      /\ c = "tickets" => (LockClearsTickets => gens'[c] = ClearAll(gens[c]))
                         /\ \A i \in Isolation : DeleteEnds(i) => gens'[c] = ClearIsolation(gens[c], i)
  BY DEF LockClearsPool, DeleteClearsPool, LockClearsTickets, DeleteEnds, Fence, TypeOK, FenceType, Cache
<1>4. CASE UNCHANGED gens[c]
  <2>1. ASSUME gens'[c] = ClearAll(gens[c]) PROVE FALSE
    BY <1>1, <1>2, <1>4, <2>1, ClearedGen, CachesAssumption
  <2>2. ASSUME NEW i \in Isolation, gens'[c] = ClearIsolation(gens[c], i) PROVE FALSE
    BY <1>1, <1>2, <1>4, <2>2, ClearedGen
  <2> QED
    BY <1>1, <1>2, <1>3, <1>4, <2>1, <2>2
<1>5. CASE gens'[c] = ClearAll(gens[c])
  <2>1. /\ gens'[c].current = gens[c].current + 1 /\ gens'[c].all = gens[c].current + 1
        /\ \A j \in Isolation : gens'[c].iso[j] = 0
    BY <1>1, <1>5, ClearedGen, CachesAssumption
  <2> QED
    BY <1>1, <1>2, <2>1
<1>6. ASSUME NEW j \in Isolation, gens'[c] = ClearIsolation(gens[c], j),
             (c = "quic" /\ DeleteClearsPool(j)) \/ (c = "tickets" /\ DeleteEnds(j))
      PROVE  /\ gens'[c].current \in Nat /\ gens'[c].current >= gens[c].current
             /\ gens'[c].all <= gens'[c].current
             /\ \A i \in Isolation : gens'[c].iso[i] <= gens'[c].current
             /\ \A i \in Isolation, n \in Nat :
                  /\ n <= gens[c].current
                  /\ n >= gens'[c].all /\ n >= gens'[c].iso[i]
                  => /\ n >= gens[c].all /\ n >= gens[c].iso[i]
                     /\ c = "quic" => ~LockClearsPool /\ ~DeleteClearsPool(i)
                     /\ c = "tickets" => ~LockClearsTickets /\ ~DeleteEnds(i)
  <2>1. /\ gens'[c].current = gens[c].current + 1 /\ gens'[c].all = gens[c].all
        /\ \A i \in Isolation : gens'[c].iso[i] = IF i = j THEN gens[c].current + 1 ELSE gens[c].iso[i]
    BY <1>1, <1>6, ClearedGen
  <2>2. ASSUME NEW i \in Isolation, c = "quic", LockClearsPool \/ DeleteClearsPool(i)
        PROVE  gens'[c].all > gens[c].current \/ gens'[c].iso[i] > gens[c].current
    <3>1. gens'[c] = ClearAll(gens[c]) \/ gens'[c] = ClearIsolation(gens[c], i)
      BY <1>3, <2>2
    <3> QED
      BY <1>1, <1>2, <3>1, ClearedGen
  <2>3. ASSUME NEW i \in Isolation, c = "tickets", LockClearsTickets \/ DeleteEnds(i)
        PROVE  gens'[c].all > gens[c].current \/ gens'[c].iso[i] > gens[c].current
    <3>1. gens'[c] = ClearAll(gens[c]) \/ gens'[c] = ClearIsolation(gens[c], i)
      BY <1>3, <2>3
    <3> QED
      BY <1>1, <1>2, <3>1, ClearedGen
  <2>4. /\ gens'[c].current \in Nat /\ gens'[c].current >= gens[c].current
        /\ gens'[c].all <= gens'[c].current /\ gens'[c].all \in Nat
        /\ \A i \in Isolation : gens'[c].iso[i] <= gens'[c].current /\ gens'[c].iso[i] \in Nat
    BY <1>2, <2>1
  <2> QED
    BY <1>2, <2>1, <2>2, <2>3, <2>4
<1> QED
  BY <1>1, <1>4, <1>5, <1>6, GensMove DEF Moves

(* A snapshot is not ahead of the engine. *)
Behind(s, i) ==
  /\ s.epoch <= epoch /\ s.jar <= jarGen[i]
  /\ s.quic <= gens["quic"].current /\ s.tickets <= gens["tickets"].current

(* Work takes into a snapshot only what the engine has reached. *)
LEMMA WorkStaysBehind ==
  ASSUME TypeOK, Ahead, Working, NEW d \in Exec
  PROVE  Behind(snap'[d], iso[d])
<1>0. FenceType /\ ExecType
  BY DEF TypeOK
<1>a. Behind(snap[d], iso[d])
  BY DEF Ahead, Behind
<1>b. /\ epoch \in Nat /\ jarGen[iso[d]] \in Nat
      /\ gens["quic"].current \in Nat /\ gens["tickets"].current \in Nat /\ snap[d] \in Snap
  BY <1>0 DEF FenceType, ExecType, Gen, Cache
<1>c. Behind(NoSnap, iso[d])
  BY <1>b DEF Behind, NoSnap
<1>d. ASSUME NEW s \in Snap, Behind(s, iso[d])
      PROVE  /\ Behind([s EXCEPT !.epoch = epoch], iso[d])
             /\ Behind([s EXCEPT !.jar = jarGen[iso[d]]], iso[d])
             /\ Behind([s EXCEPT !.quic = gens["quic"].current], iso[d])
             /\ Behind([s EXCEPT !.tickets = gens["tickets"].current], iso[d])
  BY <1>b, <1>d DEF Behind, Snap
<1>e. ASSUME \/ UNCHANGED snap
             \/ \E e \in Exec : \E s : /\ snap' = [snap EXCEPT ![e] = s]
                                       /\ \/ s = NoSnap
                                          \/ s = [snap[e] EXCEPT !.epoch = epoch]
                                          \/ s = [snap[e] EXCEPT !.jar = jarGen[iso[e]]]
                                          \/ s = [snap[e] EXCEPT !.quic = gens["quic"].current]
                                          \/ s = [snap[e] EXCEPT !.tickets = gens["tickets"].current]
      PROVE  Behind(snap'[d], iso[d])
  <2>1. CASE UNCHANGED snap
    BY <1>a, <2>1
  <2>2. ASSUME NEW e \in Exec, NEW s, snap' = [snap EXCEPT ![e] = s],
               \/ s = NoSnap
               \/ s = [snap[e] EXCEPT !.epoch = epoch]
               \/ s = [snap[e] EXCEPT !.jar = jarGen[iso[e]]]
               \/ s = [snap[e] EXCEPT !.quic = gens["quic"].current]
               \/ s = [snap[e] EXCEPT !.tickets = gens["tickets"].current]
        PROVE  Behind(snap'[d], iso[d])
    <3>1. CASE d = e
      <4>1. snap'[d] = s
        BY <1>0, <2>2, <3>1 DEF ExecType
      <4> QED
        BY <1>a, <1>b, <1>c, <1>d, <2>2, <3>1, <4>1, ZenonT(60)
    <3>2. CASE d # e
      BY <1>0, <1>a, <2>2, <3>2 DEF ExecType
    <3> QED
      BY <3>1, <3>2
  <2> QED
    BY <1>e, <2>1, <2>2
<1>1. ASSUME NEW e \in Exec, BuildBegins(e) PROVE Behind(snap'[d], iso[d])
  BY <1>1, <1>e DEF BuildBegins, execs
<1>2. ASSUME NEW e \in Exec, SnapReads(e) PROVE Behind(snap'[d], iso[d])
  <2>1. \/ snap' = [snap EXCEPT ![e] = [snap[e] EXCEPT !.jar = jarGen[iso[e]]]]
        \/ snap' = [snap EXCEPT ![e] = [snap[e] EXCEPT !.quic = gens["quic"].current]]
        \/ snap' = [snap EXCEPT ![e] = [snap[e] EXCEPT !.tickets = gens["tickets"].current]]
    BY <1>2 DEF SnapReads
  <2> QED
    BY <1>e, <2>1
<1>3. ASSUME NEW e \in Exec, SnapEnds(e) PROVE Behind(snap'[d], iso[d])
  BY <1>3, <1>e DEF SnapEnds, execs
<1>4. ASSUME NEW e \in Exec, ReadWorkspace(e) PROVE Behind(snap'[d], iso[d])
  BY <1>4, <1>e DEF ReadWorkspace, Finish, execs
<1>5. ASSUME NEW e \in Exec, TicketContext(e) PROVE Behind(snap'[d], iso[d])
  BY <1>5, <1>e DEF TicketContext, execs
<1>6. ASSUME NEW e \in Exec, StoreCookies(e) PROVE Behind(snap'[d], iso[d])
  BY <1>6, <1>e DEF StoreCookies, Finish, execs
<1>7. ASSUME NEW e \in Exec, TakeEarly(e) PROVE Behind(snap'[d], iso[d])
  BY <1>7, <1>e DEF TakeEarly, execs
<1>8. ASSUME NEW e \in Exec, Checkout(e) PROVE Behind(snap'[d], iso[d])
  BY <1>8, <1>e DEF Checkout, execs
<1>9. ASSUME NEW e \in Exec, NoCheckout(e) PROVE Behind(snap'[d], iso[d])
  BY <1>9, <1>e DEF NoCheckout, execs
<1>10. ASSUME NEW e \in Exec, HandshakeFails(e) PROVE Behind(snap'[d], iso[d])
  BY <1>10, <1>e DEF HandshakeFails, Finish, execs
<1>11. ASSUME NEW e \in Exec, NEW c \in Conn, NEW k \in BOOLEAN, Checkin(e, c, k) PROVE Behind(snap'[d], iso[d])
  BY <1>11, <1>e DEF Checkin, execs
<1>12. ASSUME NEW e \in Exec, RequestFails(e) PROVE Behind(snap'[d], iso[d])
  BY <1>12, <1>e DEF RequestFails, execs
<1>13. ASSUME NEW e \in Exec, TooEarly(e) PROVE Behind(snap'[d], iso[d])
  BY <1>13, <1>e DEF TooEarly, execs
<1>14. ASSUME NEW e \in Exec, DropLease(e) PROVE Behind(snap'[d], iso[d])
  BY <1>14, <1>e DEF DropLease, Ended, Finish, execs
<1>15. ASSUME NEW e \in Exec, Release(e) PROVE Behind(snap'[d], iso[d])
  BY <1>15, <1>e DEF Release, Ended, Finish, execs
<1>16. ASSUME NEW c \in Conn, PeerDrains(c) PROVE Behind(snap'[d], iso[d])
  BY <1>16, <1>e DEF PeerDrains, execs
<1>17. ASSUME NEW i \in Isolation, Sweep(i) PROVE Behind(snap'[d], iso[d])
  BY <1>17, <1>e DEF Sweep, execs
<1>18. CASE UNCHANGED vars
  BY <1>18, <1>e DEF vars, execs
<1> QED
  BY <1>1, <1>2, <1>3, <1>4, <1>5, <1>6, <1>7, <1>8, <1>9, <1>10, <1>11, <1>12,
     <1>13, <1>14, <1>15, <1>16, <1>17, <1>18
  DEF Working, ExecStep

(* No step puts a generation ahead of its cache or a snapshot ahead of the engine. *)
LEMMA AheadStep ==
  ASSUME TypeOK, Ahead, [Next]_vars
  PROVE  Ahead'
<1>0. StorageType /\ FenceType /\ ExecType
  BY DEF TypeOK
<1>1. CASE Working
  <2>1. UNCHANGED <<epoch, jarGen, gens, iso>>
    BY <1>1, WorkClearsNothing DEF clearing
  <2>2. \A d \in Exec : Behind(snap'[d], iso[d])
    BY <1>1, WorkStaysBehind
  <2> QED
    BY <2>1, <2>2 DEF Ahead, Behind
<1>2. CASE Clearing
  <2>1. UNCHANGED <<iso, snap>>
    BY <1>2, ClearingMovesNobody
  <2>2. epoch' >= epoch /\ \A i \in Isolation : jarGen'[i] >= jarGen[i]
    <3> DEFINE Goal == epoch' >= epoch /\ \A i \in Isolation : jarGen'[i] >= jarGen[i]
    <3>0. epoch \in Nat /\ jarGen \in [Isolation -> Nat]
      BY <1>0 DEF FenceType
    <3>1. CASE LockBegins
      BY <3>1, <3>0 DEF LockBegins, fences
    <3>2. CASE AdvanceEpoch
      BY <3>2, <3>0 DEF AdvanceEpoch, fences
    <3>3. CASE LockClearsPool
      BY <3>3, <3>0 DEF LockClearsPool, fences
    <3>4. CASE LockClearsTickets
      BY <3>4, <3>0 DEF LockClearsTickets, fences
    <3>5. CASE LockEnds
      BY <3>5, <3>0 DEF LockEnds, fences
    <3>6. CASE Unlock
      BY <3>6, <3>0 DEF Unlock, fences
    <3>7. ASSUME NEW i \in Isolation, DeleteCommits(i) PROVE Goal
      BY <3>7, <3>0 DEF DeleteCommits, fences
    <3>8. ASSUME NEW i \in Isolation, DeleteClearsJar(i) PROVE Goal
      BY <3>8, <3>0 DEF DeleteClearsJar, fences
    <3>9. ASSUME NEW i \in Isolation, DeleteClearsPool(i) PROVE Goal
      BY <3>9, <3>0 DEF DeleteClearsPool, fences
    <3>10. ASSUME NEW i \in Isolation, DeleteEnds(i) PROVE Goal
      BY <3>10, <3>0 DEF DeleteEnds, fences
    <3>11. ASSUME NEW i \in Isolation, RestoreWorkspace(i) PROVE Goal
      BY <3>11, <3>0 DEF RestoreWorkspace, fences
    <3> QED
      BY <1>2, <3>1, <3>2, <3>3, <3>4, <3>5, <3>6, <3>7, <3>8, <3>9, <3>10, <3>11
      DEF Clearing, LockStep, DeleteStep
  <2>3. \A c \in Cache :
          /\ gens'[c].current \in Nat /\ gens'[c].current >= gens[c].current
          /\ gens'[c].all <= gens'[c].current
          /\ \A i \in Isolation : gens'[c].iso[i] <= gens'[c].current
    BY <1>2, GensAhead
  <2>4. ASSUME NEW e \in Exec
        PROVE  /\ snap[e].epoch <= epoch' /\ snap[e].jar <= jarGen'[iso[e]]
               /\ snap[e].quic <= gens'["quic"].current /\ snap[e].tickets <= gens'["tickets"].current
    <3>1. /\ snap[e].epoch <= epoch /\ snap[e].jar <= jarGen[iso[e]]
          /\ snap[e].quic <= gens["quic"].current /\ snap[e].tickets <= gens["tickets"].current
      BY DEF Ahead
    <3>2. /\ snap[e].epoch \in Nat /\ snap[e].jar \in Nat /\ snap[e].quic \in Nat /\ snap[e].tickets \in Nat
          /\ iso[e] \in Isolation /\ epoch \in Nat /\ jarGen[iso[e]] \in Nat
          /\ gens["quic"].current \in Nat /\ gens["tickets"].current \in Nat
      BY <1>0 DEF ExecType, Snap, FenceType, Gen, Cache
    <3>3. epoch' \in Nat /\ jarGen'[iso[e]] \in Nat
      BY <3>2, TypeStep DEF TypeOK, FenceType
    <3> QED
      BY <2>2, <2>3, <3>1, <3>2, <3>3 DEF Cache
  <2> QED
    BY <2>1, <2>3, <2>4 DEF Ahead
<1> QED
  BY <1>1, <1>2, TwoKinds

-----------------------------------------------------------------------------
(* What clearing leaves dead. *)

(* A step of a lock or a delete kills, in a cache, only when it clears     *)
(* that cache.                                                             *)
Kills ==
  /\ EpochDead' = EpochDead \/ AdvanceEpoch
  /\ PoolDead' = PoolDead \/ LockClearsPool
  /\ TicketsDead' = TicketsDead \/ LockClearsTickets
  /\ \A i \in Isolation :
       /\ JarDeadInc(i)' = JarDeadInc(i) \/ DeleteClearsJar(i)
       /\ PoolDeadInc(i)' = PoolDeadInc(i) \/ DeleteClearsPool(i)
       /\ TicketsDeadInc(i)' = TicketsDeadInc(i) \/ DeleteEnds(i)

(* What the step of a lock leaves alone. *)
LEMMA LockKills ==
  ASSUME TypeOK, History, LockStep
  PROVE  Kills
<1>0. session \in Nat /\ (lockAt # "none" => locked)
  BY DEF TypeOK, StorageType, History
<1>1. UNCHANGED <<present, inc, delAt>>
  BY DEF LockStep, LockBegins, AdvanceEpoch, LockClearsPool, LockClearsTickets, LockEnds,
     Unlock, storage, admin
<1>2. \A i \in Isolation : UNCHANGED <<JarDeadInc(i), PoolDeadInc(i), TicketsDeadInc(i)>>
  BY <1>1 DEF JarDeadInc, PoolDeadInc, TicketsDeadInc, DeadInc, Deleted
<1> DEFINE Goal == /\ EpochDead' = EpochDead \/ AdvanceEpoch
                   /\ PoolDead' = PoolDead \/ LockClearsPool
                   /\ TicketsDead' = TicketsDead \/ LockClearsTickets
<1>3. Goal
  <2> USE <1>0 DEF EpochDead, PoolDead, TicketsDead, DeadSession
  <2>1. CASE LockBegins
    BY <2>1 DEF LockBegins
  <2>2. CASE AdvanceEpoch
    BY <2>2 DEF AdvanceEpoch, storage
  <2>3. CASE LockClearsPool
    BY <2>3 DEF LockClearsPool, storage
  <2>4. CASE LockClearsTickets
    BY <2>4 DEF LockClearsTickets, storage
  <2>5. CASE LockEnds
    BY <2>5 DEF LockEnds, storage
  <2>6. CASE Unlock
    BY <2>6 DEF Unlock, admin
  <2> QED
    BY <2>1, <2>2, <2>3, <2>4, <2>5, <2>6 DEF LockStep
<1> QED
  BY <1>2, <1>3 DEF Kills

(* And the step of a delete. *)
LEMMA DeleteKills ==
  ASSUME TypeOK, History, NEW i \in Isolation, DeleteStep(i)
  PROVE  Kills
<1>0. /\ present \in [Isolation -> BOOLEAN] /\ \A j \in Isolation : inc[j] \in Nat
      /\ inc \in [Isolation -> Nat \ {0}] /\ DOMAIN delAt = Isolation /\ delAt \in [Isolation -> {"none", "jar", "quic", "tickets"}]
  BY DEF TypeOK, StorageType, AdminType
<1>1. UNCHANGED <<locked, session, lockAt>>
  BY DEF DeleteStep, DeleteCommits, DeleteClearsJar, DeleteClearsPool, DeleteEnds,
     RestoreWorkspace, storage, admin
<1>2. UNCHANGED <<EpochDead, PoolDead, TicketsDead>>
  BY <1>1 DEF EpochDead, PoolDead, TicketsDead, DeadSession
<1>3. ASSUME NEW j \in Isolation
      PROVE  /\ JarDeadInc(j)' = JarDeadInc(j) \/ DeleteClearsJar(j)
             /\ PoolDeadInc(j)' = PoolDeadInc(j) \/ DeleteClearsPool(j)
             /\ TicketsDeadInc(j)' = TicketsDeadInc(j) \/ DeleteEnds(j)
  <2> DEFINE Goal == /\ JarDeadInc(j)' = JarDeadInc(j) \/ DeleteClearsJar(j)
                     /\ PoolDeadInc(j)' = PoolDeadInc(j) \/ DeleteClearsPool(j)
                     /\ TicketsDeadInc(j)' = TicketsDeadInc(j) \/ DeleteEnds(j)
  <2>0. CASE j # i
    <3>1. present'[j] = present[j] /\ inc'[j] = inc[j] /\ delAt'[j] = delAt[j]
      BY <1>0, <2>0
      DEF DeleteStep, DeleteCommits, DeleteClearsJar, DeleteClearsPool, DeleteEnds,
          RestoreWorkspace, storage, admin
    <3> QED
      BY <3>1 DEF JarDeadInc, PoolDeadInc, TicketsDeadInc, DeadInc, Deleted
  <2>1. CASE j = i
    <3> USE <1>0, <2>1 DEF JarDeadInc, PoolDeadInc, TicketsDeadInc, DeadInc, Deleted
    <3>1. CASE DeleteCommits(i)
      <4>1. present[i] /\ ~present'[i] /\ inc'[i] = inc[i] /\ delAt[i] = "none" /\ delAt'[i] = "jar"
        BY <3>1 DEF DeleteCommits
      <4> QED
        BY <4>1
    <3>2. CASE DeleteClearsJar(i)
      <4>1. present'[i] = present[i] /\ inc'[i] = inc[i] /\ delAt[i] = "jar" /\ delAt'[i] = "quic"
        BY <3>2 DEF DeleteClearsJar, storage
      <4> QED
        BY <3>2, <4>1
    <3>3. CASE DeleteClearsPool(i)
      <4>1. present'[i] = present[i] /\ inc'[i] = inc[i] /\ delAt[i] = "quic" /\ delAt'[i] = "tickets"
        BY <3>3 DEF DeleteClearsPool, storage
      <4> QED
        BY <3>3, <4>1
    <3>4. CASE DeleteEnds(i)
      <4>1. present'[i] = present[i] /\ inc'[i] = inc[i] /\ delAt[i] = "tickets" /\ delAt'[i] = "none"
        BY <3>4 DEF DeleteEnds, storage
      <4> QED
        BY <3>4, <4>1
    <3>5. CASE RestoreWorkspace(i)
      <4>1. ~present[i] /\ present'[i] /\ inc'[i] = inc[i] + 1 /\ delAt'[i] = delAt[i]
        BY <3>5 DEF RestoreWorkspace, admin
      <4> QED
        BY <4>1
    <3> QED
      BY <3>1, <3>2, <3>3, <3>4, <3>5 DEF DeleteStep
  <2> QED
    BY <2>0, <2>1
<1> QED
  BY <1>2, <1>3 DEF Kills

(* So every clear kills only where it clears. *)
LEMMA ClearingKills ==
  ASSUME TypeOK, History, Clearing
  PROVE  Kills
BY LockKills, DeleteKills DEF Clearing

(* What has returned is what the last stages have cleared. *)
LEMMA HistoryStep ==
  ASSUME TypeOK, History, [Next]_vars
  PROVE  History'
<1> DEFINE Ended0 == DeadSession({"epoch", "quic", "tickets", "jars"})
<1>0. /\ session \in Nat /\ (lockAt # "none" => locked)
      /\ ended = Ended0 /\ \A i \in Isolation : gone[i] = TicketsDeadInc(i)
  BY DEF TypeOK, StorageType, History
<1>1. CASE Working
  <2>1. UNCHANGED <<locked, session, lockAt, ended, gone>>
    BY <1>1, WorkClearsNothing DEF clearing
  <2>2. \A i \in Isolation : UNCHANGED TicketsDeadInc(i)
    BY <1>1, WorkKillsNothing
  <2>3. UNCHANGED Ended0
    BY <2>1 DEF DeadSession
  <2> QED
    BY <1>0, <2>1, <2>2, <2>3 DEF History
<1>2. CASE LockStep
  <2>1. /\ lockAt' # "none" => locked'
        /\ ended' = Ended0'
    <3> USE <1>0 DEF DeadSession
    <3>1. CASE LockBegins
      BY <3>1 DEF LockBegins
    <3>2. CASE AdvanceEpoch
      BY <3>2 DEF AdvanceEpoch, storage
    <3>3. CASE LockClearsPool
      BY <3>3 DEF LockClearsPool, storage
    <3>4. CASE LockClearsTickets
      BY <3>4 DEF LockClearsTickets, storage
    <3>5. CASE LockEnds
      BY <3>5 DEF LockEnds, storage
    <3>6. CASE Unlock
      BY <3>6 DEF Unlock, admin
    <3> QED
      BY <1>2, <3>1, <3>2, <3>3, <3>4, <3>5, <3>6 DEF LockStep
  <2>2. UNCHANGED <<present, inc, delAt, gone>>
    BY <1>2
    DEF LockStep, LockBegins, AdvanceEpoch, LockClearsPool, LockClearsTickets, LockEnds,
        Unlock, storage, admin
  <2>3. \A i \in Isolation : UNCHANGED TicketsDeadInc(i)
    BY <2>2 DEF TicketsDeadInc, DeadInc, Deleted
  <2> QED
    BY <1>0, <2>1, <2>2, <2>3 DEF History
<1>3. ASSUME NEW i \in Isolation, DeleteStep(i) PROVE History'
  <2>1. UNCHANGED <<locked, session, lockAt, ended>>
    BY <1>3
    DEF DeleteStep, DeleteCommits, DeleteClearsJar, DeleteClearsPool, DeleteEnds,
        RestoreWorkspace, storage, admin
  <2>2. UNCHANGED Ended0
    BY <2>1 DEF DeadSession
  <2>3. ASSUME NEW j \in Isolation PROVE gone'[j] = TicketsDeadInc(j)'
    <3>0. gone \in [Isolation -> Nat] /\ delAt \in [Isolation -> {"none", "jar", "quic", "tickets"}]
      BY DEF TypeOK, AdminType
    <3>1. CASE DeleteEnds(i) /\ j = i
      <4>1. /\ gone'[j] = (IF present[j] THEN inc[j] - 1 ELSE inc[j]) /\ delAt'[j] = "none"
            /\ UNCHANGED <<present, inc>>
        BY <3>0, <3>1 DEF DeleteEnds, storage
      <4> QED
        BY <4>1 DEF TicketsDeadInc, DeadInc, Deleted
    <3>2. CASE ~DeleteEnds(i) \/ j # i
      <4>1. gone'[j] = gone[j]
        BY <1>3, <3>0, <3>2
        DEF DeleteStep, DeleteCommits, DeleteClearsJar, DeleteClearsPool, DeleteEnds,
            RestoreWorkspace, admin
      <4>2. TicketsDeadInc(j)' = TicketsDeadInc(j)
        <5>1. CASE j = i
          BY <1>3, <3>2, <5>1, DeleteKills DEF Kills
        <5>2. CASE j # i
          <6>0. present \in [Isolation -> BOOLEAN] /\ inc \in [Isolation -> Nat \ {0}]
            BY DEF TypeOK, StorageType
          <6>1. present'[j] = present[j] /\ inc'[j] = inc[j] /\ delAt'[j] = delAt[j]
            BY <1>3, <3>0, <5>2, <6>0
            DEF DeleteStep, DeleteCommits, DeleteClearsJar, DeleteClearsPool, DeleteEnds,
                RestoreWorkspace, storage, admin
          <6> QED
            BY <6>1 DEF TicketsDeadInc, DeadInc, Deleted
        <5> QED
          BY <5>1, <5>2
      <4> QED
        BY <1>0, <4>1, <4>2
    <3> QED
      BY <3>1, <3>2
  <2> QED
    BY <1>0, <2>1, <2>2, <2>3 DEF History
<1> QED
  BY <1>1, <1>2, <1>3, TwoKinds DEF Clearing

-----------------------------------------------------------------------------
(* Executions and the fences. *)

(* Work does not change what an execution may keep. *)
LEMMA WorkFences ==
  ASSUME Working, NEW d \in Exec, snap'[d] = snap[d]
  PROVE  /\ Current(d)' <=> Current(d)
         /\ Admits("quic", snap[d].quic, iso[d])' <=> Admits("quic", snap[d].quic, iso[d])
         /\ Admits("tickets", snap[d].tickets, iso[d])' <=> Admits("tickets", snap[d].tickets, iso[d])
<1>1. UNCHANGED <<epoch, jarGen, gens, iso>>
  BY WorkClearsNothing DEF clearing
<1> QED
  BY <1>1 DEF Current, Admits

(* A clear stops every execution whose snapshot it has passed by from      *)
(* keeping anything in what it has cleared.                                *)
LEMMA ClearingFences ==
  ASSUME TypeOK, Ahead, Clearing, NEW d \in Exec
  PROVE  /\ Current(d)' => Current(d) /\ ~AdvanceEpoch /\ ~DeleteClearsJar(iso[d])
         /\ Admits("quic", snap[d].quic, iso[d])' =>
              Admits("quic", snap[d].quic, iso[d]) /\ ~LockClearsPool /\ ~DeleteClearsPool(iso[d])
         /\ Admits("tickets", snap[d].tickets, iso[d])' =>
              Admits("tickets", snap[d].tickets, iso[d]) /\ ~LockClearsTickets /\ ~DeleteEnds(iso[d])
<1>0. FenceType /\ ExecType
  BY DEF TypeOK
<1>1. UNCHANGED <<iso, snap>> /\ iso[d] \in Isolation /\ iso \in [Exec -> Isolation]
  BY <1>0, ClearingMovesNobody DEF ExecType
<1>2. /\ snap[d].epoch \in Nat /\ snap[d].jar \in Nat /\ snap[d].quic \in Nat /\ snap[d].tickets \in Nat
      /\ snap[d].epoch <= epoch /\ snap[d].jar <= jarGen[iso[d]]
      /\ snap[d].quic <= gens["quic"].current /\ snap[d].tickets <= gens["tickets"].current
  BY <1>0 DEF ExecType, Snap, Ahead
<1>3. epoch \in Nat /\ jarGen \in [Isolation -> Nat] /\ jarGen[iso[d]] \in Nat
  BY <1>0, <1>1 DEF FenceType
<1>4. Current(d)' => Current(d) /\ ~AdvanceEpoch /\ ~DeleteClearsJar(iso[d])
  <2> DEFINE Same == epoch' = epoch /\ jarGen'[iso[d]] = jarGen[iso[d]]
             Passed == snap[d].epoch < epoch' \/ snap[d].jar < jarGen'[iso[d]]
  <2>1. Same \/ Passed
    <3>1. CASE LockBegins
      BY <3>1 DEF LockBegins, fences
    <3>2. CASE AdvanceEpoch
      BY <3>2, <1>2, <1>3 DEF AdvanceEpoch
    <3>3. CASE LockClearsPool
      BY <3>3 DEF LockClearsPool, fences
    <3>4. CASE LockClearsTickets
      BY <3>4 DEF LockClearsTickets, fences
    <3>5. CASE LockEnds
      BY <3>5 DEF LockEnds, fences
    <3>6. CASE Unlock
      BY <3>6 DEF Unlock, fences
    <3>7. ASSUME NEW i \in Isolation, DeleteCommits(i) PROVE Same \/ Passed
      BY <3>7 DEF DeleteCommits, fences
    <3>8. ASSUME NEW i \in Isolation, DeleteClearsJar(i) PROVE Same \/ Passed
      <4>1. epoch' = epoch /\ jarGen' = [jarGen EXCEPT ![i] = jarGen[i] + 1]
        BY <3>8 DEF DeleteClearsJar
      <4> QED
        BY <1>1, <1>2, <1>3, <4>1
    <3>9. ASSUME NEW i \in Isolation, DeleteClearsPool(i) PROVE Same \/ Passed
      BY <3>9 DEF DeleteClearsPool, fences
    <3>10. ASSUME NEW i \in Isolation, DeleteEnds(i) PROVE Same \/ Passed
      BY <3>10 DEF DeleteEnds, fences
    <3>11. ASSUME NEW i \in Isolation, RestoreWorkspace(i) PROVE Same \/ Passed
      BY <3>11 DEF RestoreWorkspace, fences
    <3> QED
      BY <3>1, <3>2, <3>3, <3>4, <3>5, <3>6, <3>7, <3>8, <3>9, <3>10, <3>11
      DEF Clearing, LockStep, DeleteStep
  <2>2. AdvanceEpoch \/ DeleteClearsJar(iso[d]) => Passed
    <3>1. CASE AdvanceEpoch
      BY <1>2, <1>3, <3>1 DEF AdvanceEpoch
    <3>2. CASE DeleteClearsJar(iso[d])
      <4>1. jarGen'[iso[d]] = jarGen[iso[d]] + 1
        BY <1>1, <1>3, <3>2 DEF DeleteClearsJar
      <4> QED
        BY <1>2, <1>3, <4>1
    <3> QED
      BY <3>1, <3>2
  <2>3. Current(d)' => ~Passed
    <3>1. epoch' \in Nat /\ jarGen'[iso[d]] \in Nat
      BY <1>1, TypeStep DEF TypeOK, FenceType, Clearing, Next
    <3> QED
      BY <1>1, <1>2, <3>1 DEF Current
  <2>4. Same /\ Current(d)' => Current(d)
    BY <1>1 DEF Current
  <2> HIDE DEF Same, Passed
  <2> QED
    BY <2>1, <2>2, <2>3, <2>4
<1>5. /\ Admits("quic", snap[d].quic, iso[d])' <=>
           snap[d].quic >= gens'["quic"].all /\ snap[d].quic >= gens'["quic"].iso[iso[d]]
      /\ Admits("tickets", snap[d].tickets, iso[d])' <=>
           snap[d].tickets >= gens'["tickets"].all /\ snap[d].tickets >= gens'["tickets"].iso[iso[d]]
  BY <1>1 DEF Admits
<1>6. "quic" \in Cache /\ "tickets" \in Cache
  BY DEF Cache
<1>7. ASSUME Admits("quic", snap[d].quic, iso[d])'
      PROVE  Admits("quic", snap[d].quic, iso[d]) /\ ~LockClearsPool /\ ~DeleteClearsPool(iso[d])
  BY <1>1, <1>2, <1>5, <1>6, <1>7, GensAhead DEF Admits
<1>8. ASSUME Admits("tickets", snap[d].tickets, iso[d])'
      PROVE  Admits("tickets", snap[d].tickets, iso[d]) /\ ~LockClearsTickets /\ ~DeleteEnds(iso[d])
  BY <1>1, <1>2, <1>5, <1>6, <1>8, GensAhead DEF Admits
<1> QED
  BY <1>4, <1>7, <1>8


(* An execution keeps only what is alive. *)
LEMMA KeepsAliveStep ==
  ASSUME TypeOK, History, Ahead, KeepsAlive, [Next]_vars
  PROVE  KeepsAlive'
<1> SUFFICES ASSUME NEW e \in Exec, pc'[e] \in Tagged
             PROVE  /\ Current(e)' => JarAlive(tag[e], iso[e])'
                    /\ Admits("quic", snap[e].quic, iso[e])' => PoolAlive(tag[e], iso[e])'
                    /\ Admits("tickets", snap[e].tickets, iso[e])' => TicketsAlive(tag[e], iso[e])'
  BY DEF KeepsAlive
<1>0. iso[e] \in Isolation /\ session \in Nat /\ inc[iso[e]] \in Nat
  BY DEF TypeOK, ExecType, StorageType
<1>1. CASE Working
  <2>1. snap'[e] = snap[e] /\ ((pc[e] \in Tagged /\ tag'[e] = tag[e]) \/ ReadsTag(e))
    BY <1>1, WorkMoves DEF MovesOn, Tagged
  <2>2. /\ UNCHANGED iso
        /\ UNCHANGED <<EpochDead, PoolDead, TicketsDead>>
        /\ UNCHANGED <<JarDeadInc(iso[e]), PoolDeadInc(iso[e]), TicketsDeadInc(iso[e])>>
    <3>1. UNCHANGED iso
      BY <1>1, WorkClearsNothing
    <3>2. UNCHANGED <<locked, session, present, inc, lockAt, delAt>>
      BY <1>1, WorkClearsNothing DEF clearing
    <3> QED
      BY <3>1, <3>2
      DEF EpochDead, PoolDead, TicketsDead, DeadSession, JarDeadInc, PoolDeadInc,
          TicketsDeadInc, DeadInc, Deleted
  <2>3. CASE pc[e] \in Tagged /\ tag'[e] = tag[e]
    <3>1. /\ Current(e) => JarAlive(tag[e], iso[e])
          /\ Admits("quic", snap[e].quic, iso[e]) => PoolAlive(tag[e], iso[e])
          /\ Admits("tickets", snap[e].tickets, iso[e]) => TicketsAlive(tag[e], iso[e])
      BY <2>3 DEF KeepsAlive
    <3>2. /\ JarAlive(tag[e], iso[e]) => JarAlive(tag[e], iso[e])'
          /\ PoolAlive(tag[e], iso[e]) => PoolAlive(tag[e], iso[e])'
          /\ TicketsAlive(tag[e], iso[e]) => TicketsAlive(tag[e], iso[e])'
      BY <2>2, <2>3 DEF JarAlive, PoolAlive, TicketsAlive
    <3> QED
      BY <1>1, <2>1, <3>1, <3>2, WorkFences
  <2>4. CASE ReadsTag(e)
    <3>1. /\ EpochDead = session - 1 /\ PoolDead = session - 1 /\ TicketsDead = session - 1
          /\ tag'[e].ses = session /\ tag'[e].inc = inc[iso[e]]
      BY <2>4 DEF ReadsTag, EpochDead, PoolDead, TicketsDead, DeadSession
    <3>2. /\ JarDeadInc(iso[e]) < inc[iso[e]] /\ PoolDeadInc(iso[e]) < inc[iso[e]]
          /\ TicketsDeadInc(iso[e]) < inc[iso[e]]
      BY <1>0, <2>4 DEF ReadsTag, JarDeadInc, PoolDeadInc, TicketsDeadInc, DeadInc, Deleted
    <3> QED
      BY <1>0, <2>2, <3>1, <3>2 DEF JarAlive, PoolAlive, TicketsAlive
  <2> QED
    BY <2>1, <2>3, <2>4
<1>2. CASE Clearing
  <2>1. UNCHANGED <<pc, iso, snap, tag>>
    BY <1>2, ClearingMovesNobody
  <2>2. Kills
    BY <1>2, ClearingKills
  <2>3. /\ Current(e) => JarAlive(tag[e], iso[e])
        /\ Admits("quic", snap[e].quic, iso[e]) => PoolAlive(tag[e], iso[e])
        /\ Admits("tickets", snap[e].tickets, iso[e]) => TicketsAlive(tag[e], iso[e])
    BY <2>1 DEF KeepsAlive
  <2>4. PICK i \in Isolation : i = iso[e] /\ i = iso'[e]
    BY <1>0, <2>1
  <2>5. ASSUME Current(e)' PROVE JarAlive(tag[e], iso[e])'
    <3>1. Current(e) /\ ~AdvanceEpoch /\ ~DeleteClearsJar(i)
      BY <1>2, <2>4, <2>5, ClearingFences
    <3>2. EpochDead' = EpochDead /\ JarDeadInc(i)' = JarDeadInc(i)
      BY <2>2, <3>1 DEF Kills
    <3>3. tag[e].ses > EpochDead /\ tag[e].inc > JarDeadInc(i)
      BY <2>3, <2>4, <3>1 DEF JarAlive
    <3>4. (tag[e].ses > EpochDead)' /\ (tag[e].inc > JarDeadInc(i))'
      BY <2>1, <3>2, <3>3
    <3> QED
      BY <2>4, <3>4 DEF JarAlive, JarDeadInc, DeadInc, Deleted
  <2>6. ASSUME Admits("quic", snap[e].quic, iso[e])' PROVE PoolAlive(tag[e], iso[e])'
    <3>1. Admits("quic", snap[e].quic, iso[e]) /\ ~LockClearsPool /\ ~DeleteClearsPool(i)
      BY <1>2, <2>4, <2>6, ClearingFences
    <3>2. PoolDead' = PoolDead /\ PoolDeadInc(i)' = PoolDeadInc(i)
      BY <2>2, <3>1 DEF Kills
    <3>3. tag[e].ses > PoolDead /\ tag[e].inc > PoolDeadInc(i)
      BY <2>3, <2>4, <3>1 DEF PoolAlive
    <3>4. (tag[e].ses > PoolDead)' /\ (tag[e].inc > PoolDeadInc(i))'
      BY <2>1, <3>2, <3>3
    <3> QED
      BY <2>4, <3>4 DEF PoolAlive, PoolDeadInc, DeadInc, Deleted
  <2>7. ASSUME Admits("tickets", snap[e].tickets, iso[e])' PROVE TicketsAlive(tag[e], iso[e])'
    <3>1. Admits("tickets", snap[e].tickets, iso[e]) /\ ~LockClearsTickets /\ ~DeleteEnds(i)
      BY <1>2, <2>4, <2>7, ClearingFences
    <3>2. TicketsDead' = TicketsDead /\ TicketsDeadInc(i)' = TicketsDeadInc(i)
      BY <2>2, <3>1 DEF Kills
    <3>3. tag[e].ses > TicketsDead /\ tag[e].inc > TicketsDeadInc(i)
      BY <2>3, <2>4, <3>1 DEF TicketsAlive
    <3>4. (tag[e].ses > TicketsDead)' /\ (tag[e].inc > TicketsDeadInc(i))'
      BY <2>1, <3>2, <3>3
    <3> QED
      BY <2>4, <3>4 DEF TicketsAlive, TicketsDeadInc, DeadInc, Deleted
  <2> QED
    BY <2>5, <2>6, <2>7
<1> QED
  BY <1>1, <1>2, TwoKinds

(* A snapshot that a clear has passed by is refused by what it cleared.    *)
RefusedAt(e) ==
  /\ snap[e].epoch # epoch =>
       /\ lockAt = "quic" \/ ~Admits("quic", snap[e].quic, iso[e])
       /\ lockAt \in {"quic", "tickets"} \/ ~Admits("tickets", snap[e].tickets, iso[e])
  /\ snap[e].jar # jarGen[iso[e]] =>
       /\ delAt[iso[e]] = "quic" \/ ~Admits("quic", snap[e].quic, iso[e])
       /\ delAt[iso[e]] \in {"quic", "tickets"} \/ ~Admits("tickets", snap[e].tickets, iso[e])

(* No step leaves a snapshot that mixes the two sides of a clear. *)
LEMMA ConsistentStep ==
  ASSUME TypeOK, Ahead, Consistent, [Next]_vars
  PROVE  Consistent'
<1> SUFFICES ASSUME NEW d \in Exec, pc'[d] \in Snapped PROVE RefusedAt(d)'
  BY DEF Consistent, RefusedAt
<1>0. /\ iso[d] \in Isolation /\ epoch \in Nat /\ jarGen \in [Isolation -> Nat]
      /\ delAt \in [Isolation -> {"none", "jar", "quic", "tickets"}]
  BY DEF TypeOK, ExecType, FenceType, AdminType
<1>a. CASE Working
  <2>1. snap'[d] = snap[d] /\ (pc[d] \in Snapped \/ Current(d))
    BY <1>a, WorkMoves DEF MovesOn
  <2>2. RefusedAt(d)
    BY <2>1 DEF Consistent, RefusedAt, Current
  <2>3. UNCHANGED <<epoch, jarGen, gens, iso, lockAt, delAt>>
    BY <1>a, WorkClearsNothing DEF clearing
  <2> QED
    BY <2>1, <2>2, <2>3 DEF RefusedAt, Admits
<1>b. CASE Clearing
  <2> DEFINE Quic == Admits("quic", snap[d].quic, iso[d])
             Tick == Admits("tickets", snap[d].tickets, iso[d])
  <2>a. UNCHANGED <<pc, iso, snap>>
    BY <1>b, ClearingMovesNobody
  <2>b. RefusedAt(d)
    BY <2>a DEF Consistent, RefusedAt
  <2>c. /\ Quic' => Quic /\ ~LockClearsPool /\ ~DeleteClearsPool(iso[d])
        /\ Tick' => Tick /\ ~LockClearsTickets /\ ~DeleteEnds(iso[d])
    BY <1>b, ClearingFences
  <2>d. /\ snap[d].epoch # epoch => (lockAt = "quic" \/ ~Quic) /\ (lockAt \in {"quic", "tickets"} \/ ~Tick)
        /\ snap[d].jar # jarGen[iso[d]] =>
             (delAt[iso[d]] = "quic" \/ ~Quic) /\ (delAt[iso[d]] \in {"quic", "tickets"} \/ ~Tick)
    BY <2>b DEF RefusedAt
  <2> HIDE DEF Quic, Tick
  <2> DEFINE Goal ==
        /\ snap[d].epoch # epoch' => (lockAt' = "quic" \/ ~Quic') /\ (lockAt' \in {"quic", "tickets"} \/ ~Tick')
        /\ snap[d].jar # jarGen'[iso[d]] =>
             (delAt'[iso[d]] = "quic" \/ ~Quic') /\ (delAt'[iso[d]] \in {"quic", "tickets"} \/ ~Tick')
  <2>e. Goal
    <3>1. CASE LockBegins
      BY <1>0, <2>c, <2>d, <3>1 DEF LockBegins, fences, admin
    <3>2. CASE AdvanceEpoch
      BY <1>0, <2>c, <2>d, <3>2 DEF AdvanceEpoch, fences, admin
    <3>3. CASE LockClearsPool
      BY <1>0, <2>c, <2>d, <3>3 DEF LockClearsPool, fences, admin
    <3>4. CASE LockClearsTickets
      BY <1>0, <2>c, <2>d, <3>4 DEF LockClearsTickets, fences, admin
    <3>5. CASE LockEnds
      BY <1>0, <2>c, <2>d, <3>5 DEF LockEnds, fences, admin
    <3>6. CASE Unlock
      BY <1>0, <2>c, <2>d, <3>6 DEF Unlock, fences, admin
    <3>7. ASSUME NEW i \in Isolation, DeleteCommits(i) PROVE Goal
      BY <1>0, <2>c, <2>d, <3>7 DEF DeleteCommits, fences, admin
    <3>8. ASSUME NEW i \in Isolation, DeleteClearsJar(i) PROVE Goal
      BY <1>0, <2>c, <2>d, <3>8 DEF DeleteClearsJar, fences, admin
    <3>9. ASSUME NEW i \in Isolation, DeleteClearsPool(i) PROVE Goal
      BY <1>0, <2>c, <2>d, <3>9 DEF DeleteClearsPool, fences, admin
    <3>10. ASSUME NEW i \in Isolation, DeleteEnds(i) PROVE Goal
      BY <1>0, <2>c, <2>d, <3>10 DEF DeleteEnds, fences, admin
    <3>11. ASSUME NEW i \in Isolation, RestoreWorkspace(i) PROVE Goal
      BY <1>0, <2>c, <2>d, <3>11 DEF RestoreWorkspace, fences, admin
    <3> QED
      BY <1>b, <3>1, <3>2, <3>3, <3>4, <3>5, <3>6, <3>7, <3>8, <3>9, <3>10, <3>11
      DEF Clearing, LockStep, DeleteStep
  <2> QED
    BY <2>a, <2>e DEF RefusedAt, Quic, Tick
<1> QED
  BY <1>a, <1>b, TwoKinds


-----------------------------------------------------------------------------
(* Cookies. *)

(* Cookies come from an execution that nothing has cleared. *)
LEMMA WorkStores ==
  ASSUME TypeOK, Working, NEW j \in Isolation, NEW t \in jars'[j]
  PROVE  \/ t \in jars[j]
         \/ \E e \in Exec : iso[e] = j /\ pc[e] = "store" /\ Current(e) /\ t = tag[e]
<1>0. jars \in [Isolation -> SUBSET Tag] /\ iso \in [Exec -> Isolation]
  BY DEF TypeOK, FenceType, ExecType
<1> DEFINE Goal == \/ t \in jars[j]
                   \/ \E e \in Exec : iso[e] = j /\ pc[e] = "store" /\ Current(e) /\ t = tag[e]
<1>1. ASSUME NEW e \in Exec, BuildBegins(e) PROVE Goal
  BY <1>1 DEF BuildBegins, kept
<1>2. ASSUME NEW e \in Exec, SnapReads(e) PROVE Goal
  BY <1>2 DEF SnapReads, kept
<1>3. ASSUME NEW e \in Exec, SnapEnds(e) PROVE Goal
  BY <1>3 DEF SnapEnds, kept
<1>4. ASSUME NEW e \in Exec, ReadWorkspace(e) PROVE Goal
  BY <1>4 DEF ReadWorkspace, kept
<1>5. ASSUME NEW e \in Exec, TicketContext(e) PROVE Goal
  BY <1>5 DEF TicketContext, kept
<1>6. ASSUME NEW e \in Exec, StoreCookies(e) PROVE Goal
  <2>1. pc[e] = "store" /\ jars' = IF Current(e) THEN [jars EXCEPT ![iso[e]] = jars[iso[e]] \cup {tag[e]}] ELSE jars
    BY <1>6 DEF StoreCookies
  <2> QED
    BY <1>0, <2>1
<1>7. ASSUME NEW e \in Exec, TakeEarly(e) PROVE Goal
  BY <1>7 DEF TakeEarly, kept
<1>8. ASSUME NEW e \in Exec, Checkout(e) PROVE Goal
  BY <1>8 DEF Checkout, kept
<1>9. ASSUME NEW e \in Exec, NoCheckout(e) PROVE Goal
  BY <1>9 DEF NoCheckout, kept
<1>10. ASSUME NEW e \in Exec, HandshakeFails(e) PROVE Goal
  BY <1>10 DEF HandshakeFails, kept
<1>11. ASSUME NEW e \in Exec, NEW c \in Conn, NEW k \in BOOLEAN, Checkin(e, c, k) PROVE Goal
  BY <1>11 DEF Checkin, kept
<1>12. ASSUME NEW e \in Exec, RequestFails(e) PROVE Goal
  BY <1>12 DEF RequestFails, kept
<1>13. ASSUME NEW e \in Exec, TooEarly(e) PROVE Goal
  BY <1>13 DEF TooEarly, kept
<1>14. ASSUME NEW e \in Exec, DropLease(e) PROVE Goal
  BY <1>14 DEF DropLease, kept
<1>15. ASSUME NEW e \in Exec, Release(e) PROVE Goal
  BY <1>15 DEF Release, kept
<1>16. ASSUME NEW c \in Conn, PeerDrains(c) PROVE Goal
  BY <1>16 DEF PeerDrains, kept
<1>17. ASSUME NEW i \in Isolation, Sweep(i) PROVE Goal
  BY <1>17 DEF Sweep, kept
<1>18. CASE UNCHANGED vars
  BY <1>18 DEF vars, kept
<1> QED
  BY <1>1, <1>2, <1>3, <1>4, <1>5, <1>6, <1>7, <1>8, <1>9, <1>10, <1>11, <1>12,
     <1>13, <1>14, <1>15, <1>16, <1>17, <1>18
  DEF Working, ExecStep

(* The cookies of an isolation are of a session and an incarnation that    *)
(* are alive.                                                              *)
LEMMA JarsAliveStep ==
  ASSUME TypeOK, History, Ahead, KeepsAlive, JarsAlive, [Next]_vars
  PROVE  JarsAlive'
<1> SUFFICES ASSUME NEW i \in Isolation, NEW t \in jars'[i]
             PROVE  t.ses > ended' /\ t.inc > JarDeadInc(i)'
  BY DEF JarsAlive
<1>0. /\ session \in Nat /\ ended \in Nat /\ EpochDead >= ended /\ EpochDead \in Int
      /\ \A e \in Exec : tag[e].ses \in Nat
  BY DEF TypeOK, StorageType, AdminType, History, EpochDead, DeadSession, ExecType, Tag
<1>1. CASE Working
  <2>1. ended' = ended /\ JarDeadInc(i)' = JarDeadInc(i)
    BY <1>1, WorkClearsNothing, WorkKillsNothing DEF clearing
  <2>2. CASE t \in jars[i]
    BY <2>1, <2>2 DEF JarsAlive
  <2>3. ASSUME NEW e \in Exec, iso[e] = i, pc[e] = "store", Current(e), t = tag[e]
        PROVE  t.ses > ended' /\ t.inc > JarDeadInc(i)'
    <3>1. JarAlive(t, i)
      BY <2>3 DEF KeepsAlive, Tagged, Snapped
    <3> QED
      BY <1>0, <2>1, <2>3, <3>1 DEF JarAlive
  <2> QED
    BY <1>1, <2>2, <2>3, WorkStores
<1>2. CASE Clearing
  <2>0. jars \in [Isolation -> SUBSET Tag]
    BY DEF TypeOK, FenceType
  <2> DEFINE Goal == t \in jars[i] /\ ended' = ended
  <2>1. Goal
    <3>1. CASE LockBegins
      BY <2>0, <3>1 DEF LockBegins, kept, admin
    <3>2. CASE AdvanceEpoch
      BY <2>0, <3>2 DEF AdvanceEpoch, kept, admin
    <3>3. CASE LockClearsPool
      BY <2>0, <3>3 DEF LockClearsPool, kept, admin
    <3>4. CASE LockClearsTickets
      BY <2>0, <3>4 DEF LockClearsTickets, kept, admin
    <3>5. CASE LockEnds
      BY <2>0, <3>5 DEF LockEnds, kept, admin
    <3>6. CASE Unlock
      BY <2>0, <3>6 DEF Unlock, kept, admin
    <3>7. ASSUME NEW j \in Isolation, DeleteCommits(j) PROVE Goal
      BY <2>0, <3>7 DEF DeleteCommits, kept, admin
    <3>8. ASSUME NEW j \in Isolation, DeleteClearsJar(j) PROVE Goal
      BY <2>0, <3>8 DEF DeleteClearsJar, kept, admin
    <3>9. ASSUME NEW j \in Isolation, DeleteClearsPool(j) PROVE Goal
      BY <2>0, <3>9 DEF DeleteClearsPool, kept, admin
    <3>10. ASSUME NEW j \in Isolation, DeleteEnds(j) PROVE Goal
      BY <2>0, <3>10 DEF DeleteEnds, kept, admin
    <3>11. ASSUME NEW j \in Isolation, RestoreWorkspace(j) PROVE Goal
      BY <2>0, <3>11 DEF RestoreWorkspace, kept, admin
    <3> QED
      BY <1>2, <3>1, <3>2, <3>3, <3>4, <3>5, <3>6, <3>7, <3>8, <3>9, <3>10, <3>11
      DEF Clearing, LockStep, DeleteStep
  <2>2. ~DeleteClearsJar(i)
    BY <2>0 DEF DeleteClearsJar
  <2>3. JarDeadInc(i)' = JarDeadInc(i)
    BY <1>2, <2>2, ClearingKills DEF Kills
  <2> QED
    BY <2>1, <2>3 DEF JarsAlive
<1> QED
  BY <1>1, <1>2, TwoKinds

-----------------------------------------------------------------------------
(* What work does to the connections and the maps that hold them. *)

(* A connection keeps whose it is, is closed, or was just opened. *)
MadeBy(e, x) ==
  /\ con[x].state = "new" /\ pc[e] = "handshake"
  /\ con'[x].home = iso[e] /\ con'[x].origin = tag[e] /\ con'[x].ctx = ectx[e]

Becomes(x) ==
  \/ con'[x].home = con[x].home /\ con'[x].origin = con[x].origin /\ con'[x].ctx = con[x].ctx
  \/ con'[x] = Unused("closed")
  \/ \E e \in Exec : MadeBy(e, x)

(* Giving up is all that happens to the connections. *)
LEMMA GiveUpBecomes ==
  ASSUME NEW x \in Conn, NEW p, NEW w, NEW removed, con' = GiveUp(con, p, w, removed)
  PROVE  Becomes(x)
<1>1. con'[x] = con[x] \/ con'[x] = Unused("closed")
  BY GivenUp
<1> QED
  BY <1>1 DEF Becomes

(* What opening a connection does. *)
LEMMA CheckinMakes ==
  ASSUME TypeOK, NEW e \in Exec, NEW c \in Conn, NEW k \in BOOLEAN, Checkin(e, c, k)
  PROVE  /\ MadeBy(e, c)
         /\ \A x \in Conn \ {c} : con'[x] = con[x] \/ con'[x] = Unused("closed")
         /\ \A j \in Isolation : \/ pool'[j] \in {pool[j], None}
                                 \/ j = iso[e] /\ pool'[j] = c /\ Admits("quic", snap[e].quic, j)
<1> DEFINE new == [state |-> "open", usable |-> TRUE, active |-> 1,
                   home |-> iso[e], origin |-> tag[e], ctx |-> ectx[e]]
           kk == [con EXCEPT ![c] = new]
           pp == [pool EXCEPT ![iso[e]] = c]
<1>0. con \in [Conn -> ConnState] /\ pool \in [Isolation -> Conn \cup {None}] /\ iso[e] \in Isolation
  BY DEF TypeOK, PoolType, ExecType
<1>1. pc[e] = "handshake" /\ con[c].state = "new"
  BY DEF Checkin
<1>2. \/ /\ Admits("quic", snap[e].quic, iso[e])
         /\ \E r \in OverCap(kk, pp) :
              /\ pool' = Without(pp, r)
              /\ con' = GiveUp(kk, pool', early, At(pool, {iso[e]}) \cup At(pp, r))
      \/ con' = kk /\ UNCHANGED pool
  BY DEF Checkin
<1>3. /\ new.home = iso[e] /\ new.origin = tag[e] /\ new.ctx = ectx[e] /\ new.active = 1
      /\ kk[c] = new /\ \A x \in Conn \ {c} : kk[x] = con[x]
  BY <1>0
<1>4. \A j \in Isolation : pp[j] = IF j = iso[e] THEN c ELSE pool[j]
  BY <1>0
<1> HIDE DEF new, kk, pp
<1>5. con'[c] = new /\ \A x \in Conn \ {c} : con'[x] = con[x] \/ con'[x] = Unused("closed")
  <2>1. ASSUME NEW r, NEW q, NEW removed, con' = GiveUp(kk, q, r, removed), NEW x \in Conn
        PROVE  con'[x] = IF x \in removed /\ kk[x].active = 0 /\ ~Held(q, r, x) THEN Unused("closed") ELSE kk[x]
    BY <2>1, GivenUp
  <2>2. ASSUME NEW r, NEW q, NEW removed, con' = GiveUp(kk, q, r, removed)
        PROVE  con'[c] = new /\ \A x \in Conn \ {c} : con'[x] = con[x] \/ con'[x] = Unused("closed")
    BY <1>3, <2>1, <2>2
  <2> QED
    BY <1>2, <1>3, <2>2
<1>6. ASSUME NEW j \in Isolation
      PROVE  \/ pool'[j] \in {pool[j], None}
             \/ j = iso[e] /\ pool'[j] = c /\ Admits("quic", snap[e].quic, j)
  BY <1>2, <1>4 DEF Without
<1> QED
  BY <1>1, <1>3, <1>5, <1>6 DEF MadeBy

(* Every step of work leaves each connection like this. *)
LEMMA WorkConnects ==
  ASSUME TypeOK, Working, NEW x \in Conn
  PROVE  Becomes(x)
<1>0. con \in [Conn -> ConnState] /\ con[x] \in ConnState
  BY DEF TypeOK, PoolType
<1>a. ASSUME UNCHANGED con PROVE Becomes(x)
  BY <1>a DEF Becomes
<1>c. ASSUME NEW y \in Conn, con' = Lease(y) PROVE Becomes(x)
  <2>1. con' = [con EXCEPT ![y] = [con[y] EXCEPT !.active = con[y].active + 1]] /\ con[y] \in ConnState
    BY <1>0, <1>c DEF Lease
  <2>2. con'[x] = con[x] \/ con'[x] = [con[x] EXCEPT !.active = con[x].active + 1]
    BY <1>0, <2>1
  <2> QED
    BY <1>0, <2>2 DEF Becomes, ConnState
<1>1. ASSUME NEW e \in Exec, BuildBegins(e) PROVE Becomes(x)
  BY <1>1, <1>a DEF BuildBegins, conns
<1>2. ASSUME NEW e \in Exec, SnapReads(e) PROVE Becomes(x)
  BY <1>2, <1>a DEF SnapReads, conns
<1>3. ASSUME NEW e \in Exec, SnapEnds(e) PROVE Becomes(x)
  BY <1>3, <1>a DEF SnapEnds, conns
<1>4. ASSUME NEW e \in Exec, ReadWorkspace(e) PROVE Becomes(x)
  BY <1>4, <1>a DEF ReadWorkspace, conns
<1>5. ASSUME NEW e \in Exec, TicketContext(e) PROVE Becomes(x)
  BY <1>5, <1>a DEF TicketContext, conns
<1>6. ASSUME NEW e \in Exec, StoreCookies(e) PROVE Becomes(x)
  BY <1>6, <1>a DEF StoreCookies, conns
<1>7. ASSUME NEW e \in Exec, TakeEarly(e) PROVE Becomes(x)
  <2>1. early[iso[e]] \in Conn
    BY <1>7, CachesAssumption DEF TakeEarly, TypeOK, PoolType, ExecType
  <2> QED
    BY <1>7, <2>1, <1>c, GiveUpBecomes DEF TakeEarly
<1>8. ASSUME NEW e \in Exec, Checkout(e) PROVE Becomes(x)
  <2>1. pool[iso[e]] \in Conn
    BY <1>8, CachesAssumption DEF Checkout, TypeOK, PoolType, ExecType
  <2> QED
    BY <1>8, <2>1, <1>c, GiveUpBecomes DEF Checkout
<1>9. ASSUME NEW e \in Exec, NoCheckout(e) PROVE Becomes(x)
  BY <1>9, <1>a DEF NoCheckout, conns
<1>10. ASSUME NEW e \in Exec, HandshakeFails(e) PROVE Becomes(x)
  BY <1>10, <1>a DEF HandshakeFails, conns
<1>11. ASSUME NEW e \in Exec, NEW c \in Conn, NEW k \in BOOLEAN, Checkin(e, c, k) PROVE Becomes(x)
  BY <1>11, CheckinMakes DEF Becomes
<1>12. ASSUME NEW e \in Exec, RequestFails(e) PROVE Becomes(x)
  BY <1>12, GiveUpBecomes DEF RequestFails
<1>13. ASSUME NEW e \in Exec, TooEarly(e) PROVE Becomes(x)
  BY <1>13, <1>a, GiveUpBecomes DEF TooEarly
<1>14. ASSUME NEW e \in Exec, DropLease(e) PROVE Becomes(x)
  <2>1. con' = [con EXCEPT ![cn[e]] = [con[cn[e]] EXCEPT !.active = con[cn[e]].active - 1]]
    BY <1>14 DEF DropLease
  <2>2. con'[x] = con[x] \/ con'[x] = [con[x] EXCEPT !.active = con[x].active - 1]
    BY <1>0, <2>1
  <2> QED
    BY <1>0, <2>2 DEF Becomes, ConnState
<1>15. ASSUME NEW e \in Exec, Release(e) PROVE Becomes(x)
  BY <1>15, GiveUpBecomes DEF Release
<1>16. ASSUME NEW c \in Conn, PeerDrains(c) PROVE Becomes(x)
  <2>1. con' = [con EXCEPT ![c] = [con[c] EXCEPT !.usable = FALSE]]
    BY <1>16 DEF PeerDrains
  <2>2. con'[x] = con[x] \/ con'[x] = [con[x] EXCEPT !.usable = FALSE]
    BY <1>0, <2>1
  <2> QED
    BY <1>0, <2>2 DEF Becomes, ConnState
<1>17. ASSUME NEW i \in Isolation, Sweep(i) PROVE Becomes(x)
  BY <1>17, GiveUpBecomes DEF Sweep
<1>18. CASE UNCHANGED vars
  BY <1>18, <1>a DEF vars, conns
<1> QED
  BY <1>1, <1>2, <1>3, <1>4, <1>5, <1>6, <1>7, <1>8, <1>9, <1>10, <1>11, <1>12,
     <1>13, <1>14, <1>15, <1>16, <1>17, <1>18
  DEF Working, ExecStep


(* The maps keep what they hold, lose it, or take what an execution that   *)
(* the fence admits has opened or has been answered 425 on.                *)
Pools(j) ==
  /\ \/ pool'[j] \in {pool[j], None}
     \/ \E e \in Exec : /\ iso[e] = j /\ pc[e] = "handshake" /\ Admits("quic", snap[e].quic, j)
                        /\ con'[pool'[j]].origin = tag[e]
  /\ \/ early'[j] \in {early[j], None}
     \/ \E e \in Exec : /\ iso[e] = j /\ pc[e] = "using" /\ Admits("quic", snap[e].quic, j)
                        /\ early'[j] = cn[e]

(* Every step of work leaves the maps like this. *)
LEMMA WorkPools ==
  ASSUME TypeOK, Working, NEW j \in Isolation
  PROVE  Pools(j)
<1>0. /\ pool \in [Isolation -> Conn \cup {None}] /\ early \in [Isolation -> Conn \cup {None}]
      /\ iso \in [Exec -> Isolation]
  BY DEF TypeOK, PoolType, ExecType
<1>a. ASSUME pool'[j] \in {pool[j], None}, early'[j] \in {early[j], None} PROVE Pools(j)
  BY <1>a DEF Pools
<1>1. ASSUME NEW e \in Exec, BuildBegins(e) PROVE Pools(j)
  BY <1>1, <1>0, <1>a DEF BuildBegins, Without, conns
<1>2. ASSUME NEW e \in Exec, SnapReads(e) PROVE Pools(j)
  BY <1>2, <1>0, <1>a DEF SnapReads, Without, conns
<1>3. ASSUME NEW e \in Exec, SnapEnds(e) PROVE Pools(j)
  BY <1>3, <1>0, <1>a DEF SnapEnds, Without, conns
<1>4. ASSUME NEW e \in Exec, ReadWorkspace(e) PROVE Pools(j)
  BY <1>4, <1>0, <1>a DEF ReadWorkspace, Without, conns
<1>5. ASSUME NEW e \in Exec, TicketContext(e) PROVE Pools(j)
  BY <1>5, <1>0, <1>a DEF TicketContext, Without, conns
<1>6. ASSUME NEW e \in Exec, StoreCookies(e) PROVE Pools(j)
  BY <1>6, <1>0, <1>a DEF StoreCookies, Without, conns
<1>7. ASSUME NEW e \in Exec, TakeEarly(e) PROVE Pools(j)
  BY <1>7, <1>0, <1>a DEF TakeEarly, Without, conns
<1>8. ASSUME NEW e \in Exec, Checkout(e) PROVE Pools(j)
  BY <1>8, <1>0, <1>a DEF Checkout, Without, conns
<1>9. ASSUME NEW e \in Exec, NoCheckout(e) PROVE Pools(j)
  BY <1>9, <1>0, <1>a DEF NoCheckout, Without, conns
<1>10. ASSUME NEW e \in Exec, HandshakeFails(e) PROVE Pools(j)
  BY <1>10, <1>0, <1>a DEF HandshakeFails, Without, conns
<1>11. ASSUME NEW e \in Exec, NEW c \in Conn, NEW k \in BOOLEAN, Checkin(e, c, k) PROVE Pools(j)
  BY <1>11, CheckinMakes, ZenonT(60) DEF Pools, MadeBy, Checkin
<1>12. ASSUME NEW e \in Exec, RequestFails(e) PROVE Pools(j)
  BY <1>12, <1>0, <1>a DEF RequestFails, Without, conns
<1>13. ASSUME NEW e \in Exec, TooEarly(e) PROVE Pools(j)
  <2>1. /\ UNCHANGED pool /\ pc[e] = "using"
        /\ \/ /\ Admits("quic", snap[e].quic, iso[e])
              /\ early' = [early EXCEPT ![iso[e]] = cn[e]]
           \/ UNCHANGED early
    BY <1>13 DEF TooEarly
  <2> QED
    BY <1>0, <2>1 DEF Pools
<1>14. ASSUME NEW e \in Exec, DropLease(e) PROVE Pools(j)
  BY <1>14, <1>0, <1>a DEF DropLease, Without, conns
<1>15. ASSUME NEW e \in Exec, Release(e) PROVE Pools(j)
  BY <1>15, <1>0, <1>a DEF Release, Without, conns
<1>16. ASSUME NEW c \in Conn, PeerDrains(c) PROVE Pools(j)
  BY <1>16, <1>0, <1>a DEF PeerDrains, Without, conns
<1>17. ASSUME NEW i \in Isolation, Sweep(i) PROVE Pools(j)
  BY <1>17, <1>0, <1>a DEF Sweep, Without, conns
<1>18. CASE UNCHANGED vars
  BY <1>18, <1>a DEF vars, conns
<1> QED
  BY <1>1, <1>2, <1>3, <1>4, <1>5, <1>6, <1>7, <1>8, <1>9, <1>10, <1>11, <1>12,
     <1>13, <1>14, <1>15, <1>16, <1>17, <1>18
  DEF Working, ExecStep

(* A request keeps its connection, or takes one of its isolation's, or the *)
(* one it has opened.                                                      *)
Uses(d) ==
  pc'[d] \in {"using", "drop"} =>
    \/ pc[d] \in {"using", "drop"} /\ cn'[d] = cn[d]
    \/ pc[d] = "acquire" /\ cn'[d] \in At(pool, {iso[d]}) \cup At(early, {iso[d]})
    \/ pc[d] = "handshake" /\ con'[cn'[d]].origin = tag[d]

(* Every step of work gives requests their connections like this. *)
LEMMA WorkUses ==
  ASSUME TypeOK, Working, NEW d \in Exec
  PROVE  Uses(d)
<1>0. ExecType
  BY DEF TypeOK
<1> USE <1>0 DEF ExecType, execs, Goto, Uses
<1>1. ASSUME NEW e \in Exec, BuildBegins(e) PROVE Uses(d)
  BY <1>1 DEF BuildBegins
<1>2. ASSUME NEW e \in Exec, SnapReads(e) PROVE Uses(d)
  BY <1>2 DEF SnapReads
<1>3. ASSUME NEW e \in Exec, SnapEnds(e) PROVE Uses(d)
  BY <1>3 DEF SnapEnds
<1>4. ASSUME NEW e \in Exec, ReadWorkspace(e) PROVE Uses(d)
  BY <1>4 DEF ReadWorkspace, Finish
<1>5. ASSUME NEW e \in Exec, TicketContext(e) PROVE Uses(d)
  BY <1>5 DEF TicketContext
<1>6. ASSUME NEW e \in Exec, StoreCookies(e) PROVE Uses(d)
  BY <1>6 DEF StoreCookies, Finish
<1>7. ASSUME NEW e \in Exec, TakeEarly(e) PROVE Uses(d)
  BY <1>7 DEF TakeEarly, At
<1>8. ASSUME NEW e \in Exec, Checkout(e) PROVE Uses(d)
  BY <1>8 DEF Checkout, At
<1>9. ASSUME NEW e \in Exec, NoCheckout(e) PROVE Uses(d)
  BY <1>9 DEF NoCheckout
<1>10. ASSUME NEW e \in Exec, HandshakeFails(e) PROVE Uses(d)
  BY <1>10 DEF HandshakeFails, Finish
<1>11. ASSUME NEW e \in Exec, NEW c \in Conn, NEW k \in BOOLEAN, Checkin(e, c, k) PROVE Uses(d)
  <2>1. pc[e] = "handshake" /\ cn' = [cn EXCEPT ![e] = c] /\ pc' = [pc EXCEPT ![e] = "using"]
    BY <1>11 DEF Checkin
  <2>2. con'[c].origin = tag[e]
    BY <1>11, CheckinMakes DEF MadeBy
  <2>3. CASE d = e
    BY <2>1, <2>2, <2>3
  <2>4. CASE d # e
    BY <2>1, <2>4
  <2> QED
    BY <2>3, <2>4
<1>12. ASSUME NEW e \in Exec, RequestFails(e) PROVE Uses(d)
  BY <1>12 DEF RequestFails
<1>13. ASSUME NEW e \in Exec, TooEarly(e) PROVE Uses(d)
  BY <1>13 DEF TooEarly
<1>14. ASSUME NEW e \in Exec, DropLease(e) PROVE Uses(d)
  BY <1>14 DEF DropLease, Ended, Finish
<1>15. ASSUME NEW e \in Exec, Release(e) PROVE Uses(d)
  BY <1>15 DEF Release, Ended, Finish
<1>16. ASSUME NEW c \in Conn, PeerDrains(c) PROVE Uses(d)
  BY <1>16 DEF PeerDrains
<1>17. ASSUME NEW i \in Isolation, Sweep(i) PROVE Uses(d)
  BY <1>17 DEF Sweep
<1>18. CASE UNCHANGED vars
  BY <1>18 DEF vars
<1> QED
  BY <1>1, <1>2, <1>3, <1>4, <1>5, <1>6, <1>7, <1>8, <1>9, <1>10, <1>11, <1>12,
     <1>13, <1>14, <1>15, <1>16, <1>17, <1>18
  DEF Working, ExecStep

(* Clearing takes connections out of the maps and closes the idle ones. *)
LEMMA ClearingConnects ==
  ASSUME Clearing, NEW x \in Conn
  PROVE  con'[x] = con[x] \/ con'[x] = Unused("closed")
<1>1. CASE LockBegins
  BY <1>1 DEF LockBegins, conns
<1>2. CASE AdvanceEpoch
  BY <1>2 DEF AdvanceEpoch, conns
<1>3. CASE LockClearsPool
  BY <1>3, GivenUp DEF LockClearsPool, ClearPool
<1>4. CASE LockClearsTickets
  BY <1>4 DEF LockClearsTickets, conns
<1>5. CASE LockEnds
  BY <1>5 DEF LockEnds, conns
<1>6. CASE Unlock
  BY <1>6 DEF Unlock, conns
<1>7. ASSUME NEW i \in Isolation, DeleteCommits(i) PROVE con'[x] = con[x] \/ con'[x] = Unused("closed")
  BY <1>7 DEF DeleteCommits, conns
<1>8. ASSUME NEW i \in Isolation, DeleteClearsJar(i) PROVE con'[x] = con[x] \/ con'[x] = Unused("closed")
  BY <1>8 DEF DeleteClearsJar, conns
<1>9. ASSUME NEW i \in Isolation, DeleteClearsPool(i) PROVE con'[x] = con[x] \/ con'[x] = Unused("closed")
  BY <1>9, GivenUp DEF DeleteClearsPool, ClearPool
<1>10. ASSUME NEW i \in Isolation, DeleteEnds(i) PROVE con'[x] = con[x] \/ con'[x] = Unused("closed")
  BY <1>10 DEF DeleteEnds, conns
<1>11. ASSUME NEW i \in Isolation, RestoreWorkspace(i) PROVE con'[x] = con[x] \/ con'[x] = Unused("closed")
  BY <1>11 DEF RestoreWorkspace, conns
<1> QED
  BY <1>1, <1>2, <1>3, <1>4, <1>5, <1>6, <1>7, <1>8, <1>9, <1>10, <1>11
  DEF Clearing, LockStep, DeleteStep

(* Clearing puts nothing into a map, and empties what it clears. *)
LEMMA ClearingPools ==
  ASSUME Clearing, NEW j \in Isolation
  PROVE  /\ pool'[j] \in {pool[j], None} /\ early'[j] \in {early[j], None}
         /\ LockClearsPool \/ DeleteClearsPool(j) => pool'[j] = None /\ early'[j] = None
<1> DEFINE Goal == pool'[j] \in {pool[j], None} /\ early'[j] \in {early[j], None}
<1>a. LockClearsPool \/ DeleteClearsPool(j) => pool'[j] = None /\ early'[j] = None
  BY DEF LockClearsPool, DeleteClearsPool, ClearPool, Without
<1>b. Goal
  <2>1. CASE LockBegins
    BY <2>1 DEF LockBegins, conns, ClearPool, Without
  <2>2. CASE AdvanceEpoch
    BY <2>2 DEF AdvanceEpoch, conns, ClearPool, Without
  <2>3. CASE LockClearsPool
    BY <2>3 DEF LockClearsPool, conns, ClearPool, Without
  <2>4. CASE LockClearsTickets
    BY <2>4 DEF LockClearsTickets, conns, ClearPool, Without
  <2>5. CASE LockEnds
    BY <2>5 DEF LockEnds, conns, ClearPool, Without
  <2>6. CASE Unlock
    BY <2>6 DEF Unlock, conns, ClearPool, Without
  <2>7. ASSUME NEW i \in Isolation, DeleteCommits(i) PROVE Goal
    BY <2>7 DEF DeleteCommits, conns, ClearPool, Without
  <2>8. ASSUME NEW i \in Isolation, DeleteClearsJar(i) PROVE Goal
    BY <2>8 DEF DeleteClearsJar, conns, ClearPool, Without
  <2>9. ASSUME NEW i \in Isolation, DeleteClearsPool(i) PROVE Goal
    BY <2>9 DEF DeleteClearsPool, conns, ClearPool, Without
  <2>10. ASSUME NEW i \in Isolation, DeleteEnds(i) PROVE Goal
    BY <2>10 DEF DeleteEnds, conns, ClearPool, Without
  <2>11. ASSUME NEW i \in Isolation, RestoreWorkspace(i) PROVE Goal
    BY <2>11 DEF RestoreWorkspace, conns, ClearPool, Without
  <2> QED
    BY <2>1, <2>2, <2>3, <2>4, <2>5, <2>6, <2>7, <2>8, <2>9, <2>10, <2>11
    DEF Clearing, LockStep, DeleteStep
<1> QED
  BY <1>a, <1>b

(* A connection in use, or in a map, before and after a step is the same   *)
(* one.                                                                    *)
InReach(x) == Held(pool, early, x) \/ Users(x) # {}

(* So it still belongs to whoever opened it. *)
LEMMA OriginKept ==
  ASSUME TypeOK, Accounts, Accounts', [Next]_vars, NEW x \in Conn, InReach(x), InReach(x)'
  PROVE  con'[x].origin = con[x].origin
<1>1. con[x].state = "open" /\ con'[x].state = "open"
  BY DEF Accounts, AccountOf, InReach
<1>2. Unused("closed").state = "closed"
  BY DEF Unused
<1>3. CASE Working
  BY <1>1, <1>2, <1>3, WorkConnects DEF Becomes, MadeBy
<1>4. CASE Clearing
  BY <1>1, <1>2, <1>4, ClearingConnects
<1> QED
  BY <1>3, <1>4, TwoKinds

(* The pooled connections are alive, and those that may come back. *)
LEMMA PoolIsAliveStep ==
  ASSUME TypeOK, Accounts, History, Ahead, KeepsAlive, PoolIsAlive, [Next]_vars
  PROVE  PoolIsAlive'
<1>0. /\ pool \in [Isolation -> Conn \cup {None}] /\ early \in [Isolation -> Conn \cup {None}]
      /\ iso \in [Exec -> Isolation]
  BY DEF TypeOK, PoolType, ExecType
<1>1. TypeOK' /\ Accounts'
  BY TypeStep, AccountsStep
<1>2. /\ pool' \in [Isolation -> Conn \cup {None}] /\ early' \in [Isolation -> Conn \cup {None}]
      /\ cn' \in [Exec -> Conn \cup {None}] /\ UNCHANGED iso
  <2>1. UNCHANGED iso
    BY TwoKinds, WorkClearsNothing, ClearingMovesNobody
  <2> QED
    BY <1>1, <2>1 DEF TypeOK, PoolType, ExecType
<1>3. ASSUME NEW e \in Exec, pc[e] \in {"using", "drop"} PROVE cn[e] \in Conn /\ InReach(cn[e])
  BY <1>3 DEF Accounts, InReach, Users, Using
<1>4. ASSUME NEW e \in Exec, pc'[e] \in {"using", "drop"}, NEW c, c = cn'[e] PROVE c \in Conn /\ InReach(c)'
  <2>1. c \in Conn
    BY <1>1, <1>4 DEF Accounts
  <2>2. Users(c)' # {}
    BY <1>4 DEF Users, Using
  <2> QED
    BY <2>1, <2>2 DEF InReach
<1> DEFINE Lives(t, i) == t.ses > PoolDead' /\ t.inc > PoolDeadInc(i)'
<1>5. ASSUME NEW i \in Isolation, NEW c, c # None, c = pool'[i] \/ c = early'[i]
      PROVE  Lives(con'[c].origin, i)
  <2>1. c \in Conn /\ InReach(c)'
    BY <1>2, <1>5 DEF InReach, Held
  <2>2. ASSUME c = pool[i] \/ c = early[i]
        PROVE  PoolAlive(con'[c].origin, i)
    <3>1. InReach(c) /\ c \in At(pool, {i}) \cup At(early, {i})
      BY <1>5, <2>2 DEF InReach, Held, At
    <3>2. con'[c].origin = con[c].origin
      BY <1>1, <2>1, <3>1, OriginKept
    <3> QED
      BY <3>1, <3>2 DEF PoolIsAlive
  <2>3. CASE Working
    <3>1. UNCHANGED <<PoolDead, PoolDeadInc(i)>>
      BY <2>3, WorkKillsNothing
    <3>2. PoolAlive(con'[c].origin, i)
      <4>1. ASSUME NEW e \in Exec, iso[e] = i, pc[e] = "handshake", Admits("quic", snap[e].quic, i),
                   con'[c].origin = tag[e]
            PROVE  PoolAlive(con'[c].origin, i)
        BY <4>1 DEF KeepsAlive, Tagged, Snapped
      <4>2. ASSUME NEW e \in Exec, iso[e] = i, pc[e] = "using", Admits("quic", snap[e].quic, i), c = cn[e]
            PROVE  PoolAlive(con'[c].origin, i)
        <5>1. InReach(c)
          BY <1>3, <4>2
        <5>2. con'[c].origin = con[c].origin
          BY <1>1, <2>1, <5>1, OriginKept
        <5> QED
          BY <4>2, <5>2 DEF PoolIsAlive
      <4>3. Pools(i)
        BY <2>3, WorkPools
      <4> QED
        BY <1>5, <2>2, <4>1, <4>2, <4>3 DEF Pools
    <3> QED
      BY <3>1, <3>2 DEF PoolAlive
  <2>4. CASE Clearing
    <3>1. (c = pool[i] \/ c = early[i]) /\ ~LockClearsPool /\ ~DeleteClearsPool(i)
      BY <1>5, <2>4, ClearingPools
    <3>2. PoolDead' = PoolDead /\ PoolDeadInc(i)' = PoolDeadInc(i)
      BY <2>4, <3>1, ClearingKills DEF Kills
    <3> QED
      BY <2>2, <3>1, <3>2 DEF PoolAlive
  <2> QED
    BY <2>3, <2>4, TwoKinds
<1>6. ASSUME NEW e \in Exec, pc'[e] \in {"using", "drop"}, Admits("quic", snap[e].quic, iso[e])',
             NEW i, i = iso[e]
      PROVE  Lives(con'[cn'[e]].origin, i)
  <2>0. PICK c \in Conn : c = cn'[e]
    BY <1>4, <1>6
  <2>1. InReach(c)' /\ i \in Isolation
    BY <1>0, <1>4, <1>6, <2>0
  <2>2. CASE Working
    <3>1. UNCHANGED <<PoolDead, PoolDeadInc(i)>>
      BY <2>1, <2>2, WorkKillsNothing
    <3>2. snap'[e] = snap[e]
      BY <1>6, <2>2, WorkMoves DEF MovesOn, Snapped
    <3>3. Admits("quic", snap[e].quic, i)
      BY <1>6, <2>2, <3>2, WorkFences
    <3>4. CASE pc[e] \in {"using", "drop"} /\ cn'[e] = cn[e]
      <4>1. InReach(c)
        BY <1>3, <2>0, <3>4
      <4>2. con'[c].origin = con[c].origin
        BY <1>1, <2>1, <4>1, OriginKept
      <4> QED
        BY <1>6, <2>0, <3>1, <3>3, <3>4, <4>2 DEF PoolIsAlive, PoolAlive
    <3>5. CASE c \in At(pool, {i}) \cup At(early, {i})
      <4>1. InReach(c)
        BY <2>1, <3>5 DEF InReach, Held, At
      <4>2. con'[c].origin = con[c].origin
        BY <1>1, <2>1, <4>1, OriginKept
      <4> QED
        BY <2>0, <2>1, <3>1, <3>5, <4>2 DEF PoolIsAlive, PoolAlive
    <3>6. CASE pc[e] = "handshake" /\ con'[c].origin = tag[e]
      <4>1. PoolAlive(tag[e], i)
        BY <1>6, <3>3, <3>6 DEF KeepsAlive, Tagged, Snapped
      <4> QED
        BY <2>0, <3>1, <3>6, <4>1 DEF PoolAlive
    <3>7. Uses(e)
      BY <2>2, WorkUses
    <3> QED
      BY <1>6, <2>0, <3>4, <3>5, <3>6, <3>7 DEF Uses
  <2>3. CASE Clearing
    <3>1. UNCHANGED <<pc, cn, snap>>
      BY <2>3, ClearingMovesNobody
    <3>2. Admits("quic", snap[e].quic, i) /\ ~LockClearsPool /\ ~DeleteClearsPool(i)
      BY <1>6, <2>3, ClearingFences
    <3>3. PoolDead' = PoolDead /\ PoolDeadInc(i)' = PoolDeadInc(i)
      BY <2>1, <2>3, <3>2, ClearingKills DEF Kills
    <3>4. InReach(c)
      BY <1>3, <1>6, <2>0, <3>1
    <3>5. con'[c].origin = con[c].origin
      BY <1>1, <2>1, <3>4, OriginKept
    <3> QED
      BY <1>6, <2>0, <3>1, <3>2, <3>3, <3>5 DEF PoolIsAlive, PoolAlive
  <2> QED
    BY <2>2, <2>3, TwoKinds
<1>7. (\A i \in Isolation : \A c \in At(pool, {i}) \cup At(early, {i}) : PoolAlive(con[c].origin, i))'
  <2> SUFFICES ASSUME NEW i \in Isolation, NEW c \in At(pool', {i}) \cup At(early', {i})
               PROVE  Lives(con'[c].origin, i)
    BY DEF PoolAlive, At
  <2>1. c # None /\ (c = pool'[i] \/ c = early'[i])
    BY DEF At
  <2> QED
    BY <1>5, <2>1
<1>8. (\A e \in Exec : /\ pc[e] \in {"using", "drop"} /\ Admits("quic", snap[e].quic, iso[e])
                       => PoolAlive(con[cn[e]].origin, iso[e]))'
  <2> SUFFICES ASSUME NEW e \in Exec, pc'[e] \in {"using", "drop"}, Admits("quic", snap[e].quic, iso[e])'
               PROVE  PoolAlive(con[cn[e]].origin, iso[e])'
    OBVIOUS
  <2>1. PICK i \in Isolation : i = iso[e] /\ i = iso'[e]
    BY <1>0, <1>2
  <2>2. Lives(con'[cn'[e]].origin, i)
    BY <1>6, <2>1
  <2> QED
    BY <2>1, <2>2 DEF PoolAlive, PoolDeadInc, DeadInc, Deleted
<1> QED
  BY <1>7, <1>8 DEF PoolIsAlive

-----------------------------------------------------------------------------
(* Tickets. *)

(* An isolation's context is kept, or a new one is created where there was *)
(* none.                                                                   *)
LEMMA WorkContexts ==
  ASSUME TypeOK, Working, NEW j \in Isolation
  PROVE  ctx'[j] = ctx[j] \/ (ctx[j] = 0 /\ ctx'[j] = gens["tickets"].current + 1)
<1>0. ctx \in [Isolation -> Nat] /\ iso \in [Exec -> Isolation]
  BY DEF TypeOK, FenceType, ExecType
<1> DEFINE Goal == ctx'[j] = ctx[j] \/ (ctx[j] = 0 /\ ctx'[j] = gens["tickets"].current + 1)
<1>1. ASSUME NEW e \in Exec, BuildBegins(e) PROVE Goal
  BY <1>1 DEF BuildBegins, kept
<1>2. ASSUME NEW e \in Exec, SnapReads(e) PROVE Goal
  BY <1>2 DEF SnapReads, kept
<1>3. ASSUME NEW e \in Exec, SnapEnds(e) PROVE Goal
  BY <1>3 DEF SnapEnds, kept
<1>4. ASSUME NEW e \in Exec, ReadWorkspace(e) PROVE Goal
  BY <1>4 DEF ReadWorkspace, kept
<1>5. ASSUME NEW e \in Exec, TicketContext(e) PROVE Goal
  <2>1. \/ UNCHANGED ctx
        \/ ctx' = [ctx EXCEPT ![iso[e]] = IF ctx[iso[e]] # 0 THEN ctx[iso[e]] ELSE gens["tickets"].current + 1]
    BY <1>5 DEF TicketContext
  <2> QED
    BY <1>0, <2>1
<1>6. ASSUME NEW e \in Exec, StoreCookies(e) PROVE Goal
  BY <1>6 DEF StoreCookies, kept
<1>7. ASSUME NEW e \in Exec, TakeEarly(e) PROVE Goal
  BY <1>7 DEF TakeEarly, kept
<1>8. ASSUME NEW e \in Exec, Checkout(e) PROVE Goal
  BY <1>8 DEF Checkout, kept
<1>9. ASSUME NEW e \in Exec, NoCheckout(e) PROVE Goal
  BY <1>9 DEF NoCheckout, kept
<1>10. ASSUME NEW e \in Exec, HandshakeFails(e) PROVE Goal
  BY <1>10 DEF HandshakeFails, kept
<1>11. ASSUME NEW e \in Exec, NEW c \in Conn, NEW k \in BOOLEAN, Checkin(e, c, k) PROVE Goal
  BY <1>11 DEF Checkin, kept
<1>12. ASSUME NEW e \in Exec, RequestFails(e) PROVE Goal
  BY <1>12 DEF RequestFails, kept
<1>13. ASSUME NEW e \in Exec, TooEarly(e) PROVE Goal
  BY <1>13 DEF TooEarly, kept
<1>14. ASSUME NEW e \in Exec, DropLease(e) PROVE Goal
  BY <1>14 DEF DropLease, kept
<1>15. ASSUME NEW e \in Exec, Release(e) PROVE Goal
  BY <1>15 DEF Release, kept
<1>16. ASSUME NEW c \in Conn, PeerDrains(c) PROVE Goal
  BY <1>16 DEF PeerDrains, kept
<1>17. ASSUME NEW i \in Isolation, Sweep(i) PROVE Goal
  BY <1>17 DEF Sweep, kept
<1>18. CASE UNCHANGED vars
  BY <1>18 DEF vars, kept
<1> QED
  BY <1>1, <1>2, <1>3, <1>4, <1>5, <1>6, <1>7, <1>8, <1>9, <1>10, <1>11, <1>12,
     <1>13, <1>14, <1>15, <1>16, <1>17, <1>18
  DEF Working, ExecStep

(* An execution keeps the context it has, or takes the isolation's.        *)
TakesContext(d) ==
  ectx'[d] # 0 =>
    \/ ectx'[d] = ectx[d] /\ tag'[d] = tag[d]
    \/ /\ pc[d] = "connect" /\ Admits("tickets", snap[d].tickets, iso[d])
       /\ ectx'[d] = ctx'[iso[d]] /\ tag'[d] = tag[d]

(* Every step of work gives executions their contexts like this. *)
LEMMA WorkTakesContext ==
  ASSUME TypeOK, Stages, Working, NEW d \in Exec
  PROVE  TakesContext(d)
<1>0. ExecType /\ ctx \in [Isolation -> Nat] /\ (ectx[d] # 0 => pc[d] = "handshake")
  BY DEF TypeOK, FenceType, Stages
<1> USE <1>0 DEF ExecType, execs, Goto, TakesContext
<1>1. ASSUME NEW e \in Exec, BuildBegins(e) PROVE TakesContext(d)
  BY <1>1 DEF BuildBegins
<1>2. ASSUME NEW e \in Exec, SnapReads(e) PROVE TakesContext(d)
  BY <1>2 DEF SnapReads
<1>3. ASSUME NEW e \in Exec, SnapEnds(e) PROVE TakesContext(d)
  BY <1>3 DEF SnapEnds
<1>4. ASSUME NEW e \in Exec, ReadWorkspace(e) PROVE TakesContext(d)
  BY <1>4 DEF ReadWorkspace, Finish
<1>5. ASSUME NEW e \in Exec, TicketContext(e) PROVE TakesContext(d)
  BY <1>5 DEF TicketContext
<1>6. ASSUME NEW e \in Exec, StoreCookies(e) PROVE TakesContext(d)
  BY <1>6 DEF StoreCookies, Finish
<1>7. ASSUME NEW e \in Exec, TakeEarly(e) PROVE TakesContext(d)
  BY <1>7 DEF TakeEarly
<1>8. ASSUME NEW e \in Exec, Checkout(e) PROVE TakesContext(d)
  BY <1>8 DEF Checkout
<1>9. ASSUME NEW e \in Exec, NoCheckout(e) PROVE TakesContext(d)
  BY <1>9 DEF NoCheckout
<1>10. ASSUME NEW e \in Exec, HandshakeFails(e) PROVE TakesContext(d)
  BY <1>10 DEF HandshakeFails, Finish
<1>11. ASSUME NEW e \in Exec, NEW c \in Conn, NEW k \in BOOLEAN, Checkin(e, c, k) PROVE TakesContext(d)
  BY <1>11 DEF Checkin
<1>12. ASSUME NEW e \in Exec, RequestFails(e) PROVE TakesContext(d)
  BY <1>12 DEF RequestFails
<1>13. ASSUME NEW e \in Exec, TooEarly(e) PROVE TakesContext(d)
  BY <1>13 DEF TooEarly
<1>14. ASSUME NEW e \in Exec, DropLease(e) PROVE TakesContext(d)
  BY <1>14 DEF DropLease, Ended, Finish
<1>15. ASSUME NEW e \in Exec, Release(e) PROVE TakesContext(d)
  BY <1>15 DEF Release, Ended, Finish
<1>16. ASSUME NEW c \in Conn, PeerDrains(c) PROVE TakesContext(d)
  BY <1>16 DEF PeerDrains
<1>17. ASSUME NEW i \in Isolation, Sweep(i) PROVE TakesContext(d)
  BY <1>17 DEF Sweep
<1>18. CASE UNCHANGED vars
  BY <1>18 DEF vars
<1> QED
  BY <1>1, <1>2, <1>3, <1>4, <1>5, <1>6, <1>7, <1>8, <1>9, <1>10, <1>11, <1>12,
     <1>13, <1>14, <1>15, <1>16, <1>17, <1>18
  DEF Working, ExecStep

(* Clearing empties contexts, all or those of an isolation, and moves the  *)
(* generation of the tickets on.                                           *)
LEMMA ClearingContexts ==
  ASSUME TypeOK, Ahead, Clearing, NEW j \in Isolation
  PROVE  /\ gens'["tickets"].current \in Nat /\ gens'["tickets"].current >= gens["tickets"].current
         /\ ctx'[j] = ctx[j] \/ (ctx'[j] = 0 /\ gens'["tickets"].current = gens["tickets"].current + 1)
         /\ LockClearsTickets \/ DeleteEnds(j) => ctx'[j] = 0
<1>0. /\ gens["tickets"] \in Gen /\ "tickets" \in Cache /\ DOMAIN gens = Cache /\ gens \in [Cache -> Gen]
      /\ ctx \in [Isolation -> Nat]
  BY DEF TypeOK, FenceType, Cache
<1>a. gens'["tickets"].current \in Nat /\ gens'["tickets"].current >= gens["tickets"].current
  BY <1>0, GensAhead
<1>b. LockClearsTickets \/ DeleteEnds(j) => ctx'[j] = 0
  BY DEF LockClearsTickets, DeleteEnds, ClearTickets
<1> DEFINE Goal == ctx'[j] = ctx[j] \/ (ctx'[j] = 0 /\ gens'["tickets"].current = gens["tickets"].current + 1)
<1>c. Goal
  <2>1. CASE LockBegins
    BY <2>1 DEF LockBegins, kept
  <2>2. CASE AdvanceEpoch
    BY <2>2 DEF AdvanceEpoch, kept
  <2>3. CASE LockClearsPool
    BY <2>3 DEF LockClearsPool, kept
  <2>4. CASE LockClearsTickets
    <3>1. gens'["tickets"] = ClearAll(gens["tickets"]) /\ ctx'[j] = 0
      BY <2>4, <1>0 DEF LockClearsTickets, Fence, ClearTickets
    <3> QED
      BY <1>0, <3>1, ClearedGen
  <2>5. CASE LockEnds
    BY <2>5 DEF LockEnds, kept
  <2>6. CASE Unlock
    BY <2>6 DEF Unlock, kept
  <2>7. ASSUME NEW i \in Isolation, DeleteCommits(i) PROVE Goal
    BY <2>7 DEF DeleteCommits, kept
  <2>8. ASSUME NEW i \in Isolation, DeleteClearsJar(i) PROVE Goal
    BY <2>8 DEF DeleteClearsJar, kept
  <2>9. ASSUME NEW i \in Isolation, DeleteClearsPool(i) PROVE Goal
    BY <2>9 DEF DeleteClearsPool, kept
  <2>10. ASSUME NEW i \in Isolation, DeleteEnds(i) PROVE Goal
    <3>1. /\ gens'["tickets"] = ClearIsolation(gens["tickets"], i)
          /\ ctx'[j] = IF j = i THEN 0 ELSE ctx[j]
      BY <2>10, <1>0 DEF DeleteEnds, Fence, ClearTickets
    <3> QED
      BY <1>0, <3>1, ClearedGen
  <2>11. ASSUME NEW i \in Isolation, RestoreWorkspace(i) PROVE Goal
    BY <2>11 DEF RestoreWorkspace, kept
  <2> QED
    BY <2>1, <2>2, <2>3, <2>4, <2>5, <2>6, <2>7, <2>8, <2>9, <2>10, <2>11
    DEF Clearing, LockStep, DeleteStep
<1> QED
  BY <1>a, <1>b, <1>c

(* What a step leaves of a connection: not more than what work does.       *)
LEMMA ConnBecomes ==
  ASSUME TypeOK, [Next]_vars, NEW x \in Conn
  PROVE  Becomes(x)
<1>1. CASE Working
  BY <1>1, WorkConnects
<1>2. CASE Clearing
  BY <1>2, ClearingConnects DEF Becomes
<1> QED
  BY <1>1, <1>2, TwoKinds

(* No context in use is one that the cache could still create. *)
LEMMA FreshContextsStep ==
  ASSUME TypeOK, Ahead, Stages, FreshContexts, [Next]_vars
  PROVE  FreshContexts'
<1> SUFFICES ASSUME NEW i \in Isolation,
                    NEW b0, b0 = gens["tickets"].current + (IF ctx[i] = 0 THEN 0 ELSE 1),
                    NEW b1, b1 = gens'["tickets"].current + (IF ctx'[i] = 0 THEN 0 ELSE 1)
             PROVE  /\ ctx'[i] <= b1
                    /\ \A c \in Conn : con'[c].home = i => con'[c].ctx <= b1
                    /\ \A e \in Exec : iso'[e] = i => ectx'[e] <= b1
  BY DEF FreshContexts
<1>0. /\ gens["tickets"].current \in Nat /\ ctx[i] \in Nat /\ ctx'[i] \in Nat /\ gens'["tickets"].current \in Nat
  <2>1. TypeOK'
    BY TypeStep
  <2> QED
    BY <2>1 DEF TypeOK, FenceType, Gen, Cache
<1>1. /\ ctx[i] <= b0
      /\ \A c \in Conn : con[c].home = i => con[c].ctx <= b0
      /\ \A e \in Exec : iso[e] = i => ectx[e] <= b0
  BY DEF FreshContexts
<1>2. b0 \in Nat /\ b1 \in Nat /\ b0 <= b1 /\ ctx'[i] <= b1
  <2>1. CASE Working
    <3>1. gens' = gens
      BY <2>1, WorkClearsNothing DEF clearing
    <3>2. ctx'[i] = ctx[i] \/ (ctx[i] = 0 /\ ctx'[i] = gens["tickets"].current + 1)
      BY <2>1, WorkContexts
    <3> QED
      BY <1>0, <1>1, <3>1, <3>2
  <2>2. CASE Clearing
    BY <1>0, <1>1, <2>2, ClearingContexts
  <2> QED
    BY <2>1, <2>2, TwoKinds
<1>3. \A e \in Exec : ectx[e] \in Nat
  BY DEF TypeOK, ExecType
<1>4. ASSUME NEW c \in Conn, con'[c].home = i PROVE con'[c].ctx <= b1
  <2>0. con[c].ctx \in Nat
    BY DEF TypeOK, PoolType, ConnState
  <2>1. CASE con'[c].home = con[c].home /\ con'[c].origin = con[c].origin /\ con'[c].ctx = con[c].ctx
    BY <1>1, <1>2, <1>4, <2>0, <2>1
  <2>2. CASE con'[c] = Unused("closed")
    <3>1. con'[c].ctx = 0
      BY <2>2 DEF Unused
    <3> QED
      BY <1>2, <3>1
  <2>3. ASSUME NEW e \in Exec, MadeBy(e, c) PROVE con'[c].ctx <= b1
    <3>1. iso[e] = i /\ con'[c].ctx = ectx[e]
      BY <1>4, <2>3 DEF MadeBy
    <3> QED
      BY <1>1, <1>2, <1>3, <3>1
  <2> QED
    BY <2>1, <2>2, <2>3, ConnBecomes DEF Becomes
<1>5. ASSUME NEW e \in Exec, iso'[e] = i PROVE ectx'[e] <= b1
  <2>1. CASE Working
    <3>1. iso[e] = i
      BY <1>5, <2>1, WorkClearsNothing
    <3>2. TakesContext(e)
      BY <2>1, WorkTakesContext
    <3>3. CASE ectx'[e] = 0
      BY <1>2, <3>3
    <3>4. CASE ectx'[e] = ectx[e]
      BY <1>1, <1>2, <1>3, <3>1, <3>4
    <3>5. CASE ectx'[e] = ctx'[i]
      BY <1>2, <3>5
    <3> QED
      BY <3>1, <3>2, <3>3, <3>4, <3>5 DEF TakesContext
  <2>2. CASE Clearing
    <3>1. UNCHANGED <<iso, ectx>>
      BY <2>2, ClearingMovesNobody
    <3> QED
      BY <1>1, <1>2, <1>3, <1>5, <3>1
  <2> QED
    BY <2>1, <2>2, TwoKinds
<1> QED
  BY <1>2, <1>4, <1>5


(* The tickets that may arrive in a context the cache holds are alive. *)
LEMMA TicketsAreAliveStep ==
  ASSUME TypeOK, History, Ahead, Stages, KeepsAlive, FreshContexts, TicketsAreAlive, [Next]_vars
  PROVE  TicketsAreAlive'
<1> DEFINE Lives(t, i) == t.ses > TicketsDead' /\ t.inc > TicketsDeadInc(i)'
<1>0. /\ ctx \in [Isolation -> Nat] /\ gens["tickets"].current \in Nat /\ iso \in [Exec -> Isolation]
      /\ \A c \in Conn : con[c].ctx \in Nat
      /\ \A e \in Exec : ectx[e] \in Nat
  BY DEF TypeOK, FenceType, Gen, Cache, ExecType, PoolType, ConnState
<1>1. UNCHANGED iso
  BY TwoKinds, WorkClearsNothing, ClearingMovesNobody
(* A context that was in use before the step is held only if it was held.  *)
<1>2. ASSUME NEW i \in Isolation, NEW n \in Nat, n # 0, n = ctx'[i],
             n <= gens["tickets"].current + (IF ctx[i] = 0 THEN 0 ELSE 1)
      PROVE  n = ctx[i] /\ \A t : TicketsAlive(t, i) => Lives(t, i)
  <2>1. CASE Working
    <3>1. ctx'[i] = ctx[i] \/ (ctx[i] = 0 /\ ctx'[i] = gens["tickets"].current + 1)
      BY <2>1, WorkContexts
    <3>2. UNCHANGED <<TicketsDead, TicketsDeadInc(i)>>
      BY <2>1, WorkKillsNothing
    <3>3. n = ctx[i]
      BY <1>0, <1>2, <3>1
    <3> QED
      BY <3>2, <3>3 DEF TicketsAlive
  <2>2. CASE Clearing
    <3>1. n = ctx[i] /\ ~LockClearsTickets /\ ~DeleteEnds(i)
      BY <1>2, <2>2, ClearingContexts
    <3>2. TicketsDead' = TicketsDead /\ TicketsDeadInc(i)' = TicketsDeadInc(i)
      BY <2>2, <3>1, ClearingKills DEF Kills
    <3> QED
      BY <3>1, <3>2 DEF TicketsAlive
  <2> QED
    BY <2>1, <2>2, TwoKinds
<1>3. ASSUME NEW i \in Isolation
      PROVE  /\ \A c \in Conn : con[c].home = i => con[c].ctx <= gens["tickets"].current + (IF ctx[i] = 0 THEN 0 ELSE 1)
             /\ \A e \in Exec : iso[e] = i => ectx[e] <= gens["tickets"].current + (IF ctx[i] = 0 THEN 0 ELSE 1)
  BY <1>3 DEF FreshContexts
<1>4. ASSUME NEW c \in Conn, NEW i \in Isolation, con'[c].home = i, con'[c].ctx # 0, con'[c].ctx = ctx'[i]
      PROVE  Lives(con'[c].origin, i)
  <2>1. CASE con'[c].home = con[c].home /\ con'[c].origin = con[c].origin /\ con'[c].ctx = con[c].ctx
    <3>1. con[c].ctx <= gens["tickets"].current + (IF ctx[i] = 0 THEN 0 ELSE 1)
      BY <1>3, <1>4, <2>1
    <3>2. con[c].ctx = ctx[i] /\ (TicketsAlive(con[c].origin, i) => Lives(con[c].origin, i))
      BY <1>0, <1>2, <1>4, <2>1, <3>1
    <3>3. TicketsAlive(con[c].origin, i)
      BY <1>4, <2>1, <3>2 DEF TicketsAreAlive
    <3> QED
      BY <2>1, <3>2, <3>3
  <2>2. CASE con'[c] = Unused("closed")
    BY <1>4, <2>2 DEF Unused
  <2>3. ASSUME NEW e \in Exec, MadeBy(e, c) PROVE Lives(con'[c].origin, i)
    <3>1. iso[e] = i /\ con'[c].ctx = ectx[e] /\ con'[c].origin = tag[e]
      BY <1>4, <2>3 DEF MadeBy
    <3>2. ectx[e] <= gens["tickets"].current + (IF ctx[i] = 0 THEN 0 ELSE 1)
      BY <1>3, <3>1
    <3>3. ectx[e] = ctx[i] /\ (TicketsAlive(tag[e], i) => Lives(tag[e], i))
      BY <1>0, <1>2, <1>4, <3>1, <3>2
    <3>4. TicketsAlive(tag[e], i)
      BY <1>4, <3>1, <3>3 DEF TicketsAreAlive
    <3> QED
      BY <3>1, <3>3, <3>4
  <2> QED
    BY <2>1, <2>2, <2>3, ConnBecomes DEF Becomes
<1>5. ASSUME NEW e \in Exec, NEW i \in Isolation, i = iso[e], ectx'[e] # 0, ectx'[e] = ctx'[i]
      PROVE  Lives(tag'[e], i)
  <2>1. ASSUME ectx'[e] = ectx[e], tag'[e] = tag[e] PROVE Lives(tag'[e], i)
    <3>0. ectx[e] <= gens["tickets"].current + (IF ctx[i] = 0 THEN 0 ELSE 1)
      BY <1>3, <1>5
    <3>1. ectx[e] = ctx[i] /\ (TicketsAlive(tag[e], i) => Lives(tag[e], i))
      BY <1>0, <1>2, <1>5, <2>1, <3>0
    <3>2. TicketsAlive(tag[e], i)
      BY <1>5, <2>1, <3>1 DEF TicketsAreAlive
    <3> QED
      BY <2>1, <3>1, <3>2
  <2>2. CASE Working
    <3>1. TakesContext(e)
      BY <2>2, WorkTakesContext
    <3>2. ASSUME pc[e] = "connect", Admits("tickets", snap[e].tickets, i), tag'[e] = tag[e]
          PROVE  Lives(tag'[e], i)
      <4>1. TicketsAlive(tag[e], i)
        BY <1>5, <3>2 DEF KeepsAlive, Tagged, Snapped
      <4>2. UNCHANGED <<TicketsDead, TicketsDeadInc(i)>>
        BY <2>2, WorkKillsNothing
      <4> QED
        BY <3>2, <4>1, <4>2 DEF TicketsAlive
    <3> QED
      BY <1>5, <2>1, <3>1, <3>2 DEF TakesContext
  <2>3. CASE Clearing
    BY <2>1, <2>3, ClearingMovesNobody
  <2> QED
    BY <2>2, <2>3, TwoKinds
<1>6. (\A c \in Conn, i \in Isolation :
         con[c].home = i /\ con[c].ctx # 0 /\ con[c].ctx = ctx[i] => TicketsAlive(con[c].origin, i))'
  BY <1>4 DEF TicketsAlive
<1>7. (\A e \in Exec : ectx[e] # 0 /\ ectx[e] = ctx[iso[e]] => TicketsAlive(tag[e], iso[e]))'
  <2> SUFFICES ASSUME NEW e \in Exec, ectx'[e] # 0, ectx'[e] = ctx'[iso'[e]]
               PROVE  TicketsAlive(tag[e], iso[e])'
    OBVIOUS
  <2>1. PICK i \in Isolation : i = iso[e] /\ i = iso'[e]
    BY <1>0, <1>1
  <2>2. Lives(tag'[e], i)
    BY <1>5, <2>1
  <2> QED
    BY <2>1, <2>2 DEF TicketsAlive, TicketsDeadInc, DeadInc, Deleted
<1> QED
  BY <1>6, <1>7 DEF TicketsAreAlive


-----------------------------------------------------------------------------
(* The results. *)

(* The invariant holds initially. *)
LEMMA CachesInit == Init => CachesInv
<1> SUFFICES ASSUME Init PROVE CachesInv
  OBVIOUS
<1>1. TypeOK /\ Accounts
  BY TypeInit, AccountsInit
<1>2. History
  BY DEF Init, History, DeadSession, TicketsDeadInc, DeadInc, Deleted
<1>3. Ahead
  BY DEF Init, Ahead, NoGen, NoSnap, Cache
<1>4. Stages /\ KeepsAlive /\ JarsAlive /\ Consistent
  BY DEF Init, Stages, KeepsAlive, JarsAlive, Consistent, Tagged, Snapped
<1>5. PoolIsAlive
  BY DEF Init, PoolIsAlive, At
<1>6. FreshContexts
  BY DEF Init, FreshContexts, Unused, NoGen, Cache
<1>7. TicketsAreAlive
  BY DEF Init, TicketsAreAlive, Unused
<1> QED
  BY <1>1, <1>2, <1>3, <1>4, <1>5, <1>6, <1>7 DEF CachesInv

(* Every step keeps the invariant. *)
LEMMA CachesStep == CachesInv /\ [Next]_vars => CachesInv'
BY TypeStep, AccountsStep, HistoryStep, AheadStep, StagesStep, KeepsAliveStep, JarsAliveStep,
   PoolIsAliveStep, FreshContextsStep, TicketsAreAliveStep, ConsistentStep
DEF CachesInv

(* Once a lock or the delete of a workspace has returned, no cookie jar,   *)
(* no connection pool and no ticket context holds anything of an execution *)
(* whose context was read before it, however late that execution ends and  *)
(* however often the vault was unlocked or the workspace restored since    *)
(* (Engine::clear_sensitive_state, clear_isolation, Generations::admits,   *)
(* CookieJars::store).                                                     *)
THEOREM NothingOutlivesItsClear == Spec => []NothingOutlives
<1>1. CachesInv => NothingOutlives
  <2> SUFFICES ASSUME CachesInv, NEW i \in Isolation, NEW t \in KeptFor(i)
               PROVE  t.inc > gone[i] /\ t.ses > ended
    BY DEF NothingOutlives
  <2>0. /\ session \in Nat /\ inc[i] \in Nat /\ present[i] \in BOOLEAN
        /\ jars[i] \subseteq Tag /\ \A c \in Conn : con[c].origin \in Tag
        /\ pool[i] \in Conn \cup {None} /\ early[i] \in Conn \cup {None}
    BY DEF CachesInv, TypeOK, StorageType, FenceType, PoolType, ConnState
  <2>1. gone[i] = TicketsDeadInc(i) /\ ended = DeadSession({"epoch", "quic", "tickets", "jars"})
    BY DEF CachesInv, History
  <2>2. /\ TicketsDeadInc(i) \in Int /\ PoolDeadInc(i) \in Int /\ JarDeadInc(i) \in Int
        /\ TicketsDeadInc(i) <= PoolDeadInc(i) /\ TicketsDeadInc(i) <= JarDeadInc(i)
    <3>1. Deleted(i) \in Int
      BY <2>0 DEF Deleted
    <3> QED
      BY <3>1 DEF TicketsDeadInc, PoolDeadInc, JarDeadInc, DeadInc
  <2>3. /\ ended \in Int /\ PoolDead \in Int /\ TicketsDead \in Int
        /\ ended <= PoolDead /\ ended <= TicketsDead
    BY <2>0, <2>1 DEF PoolDead, TicketsDead, DeadSession
  <2>4. CASE t \in jars[i]
    <3>1. t.ses > ended /\ t.inc > JarDeadInc(i) /\ t.inc \in Nat
      BY <2>0, <2>4 DEF CachesInv, JarsAlive, Tag
    <3> QED
      BY <2>1, <2>2, <3>1
  <2>5. CASE t \in TicketsOf(i)
    <3>1. PICK c \in Conn : t = con[c].origin /\ con[c].home = i /\ con[c].ctx # 0 /\ con[c].ctx = ctx[i]
      BY <2>5 DEF TicketsOf
    <3>2. t.ses > TicketsDead /\ t.inc > TicketsDeadInc(i) /\ t.ses \in Nat /\ t.inc \in Nat
      BY <2>0, <3>1 DEF CachesInv, TicketsAreAlive, TicketsAlive, Tag
    <3> QED
      BY <2>1, <2>2, <2>3, <3>2
  <2>6. CASE t \in {con[c].origin : c \in At(pool, {i}) \cup At(early, {i})}
    <3>1. PICK c \in At(pool, {i}) \cup At(early, {i}) : t = con[c].origin
      BY <2>6
    <3>2. c \in Conn
      BY <2>0 DEF At
    <3>3. t.ses > PoolDead /\ t.inc > PoolDeadInc(i) /\ t.ses \in Nat /\ t.inc \in Nat
      BY <2>0, <3>1, <3>2 DEF CachesInv, PoolIsAlive, PoolAlive, Tag
    <3> QED
      BY <2>1, <2>2, <2>3, <3>3
  <2> QED
    BY <2>4, <2>5, <2>6 DEF KeptFor
<1> QED
  BY CachesInit, CachesStep, <1>1, PTL DEF Spec

(* With no clear under way, an execution that may still pool a connection  *)
(* or keep a ticket may also keep cookies: a snapshot never mixes          *)
(* generations from both sides of a lock or a delete (Engine::snapshot     *)
(* reads the epoch and the jar generation again).                          *)
THEOREM SnapshotsKeepTogether == Spec => []KeepsTogether
<1>1. CachesInv => KeepsTogether
  BY DEF CachesInv, Stages, Consistent, KeepsTogether, Current, Tagged
<1> QED
  BY CachesInit, CachesStep, <1>1, PTL DEF Spec
=============================================================================
