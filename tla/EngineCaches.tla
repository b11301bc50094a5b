---------------------------- MODULE EngineCaches ----------------------------
(***************************************************************************)
(* What the execution engine keeps between requests, and the two events    *)
(* that must empty it: a lock of the vault (Engine::clear_sensitive_state) *)
(* and the delete of a workspace (Engine::clear_isolation).  An execution  *)
(* takes a snapshot of every cache's generation when its context is built  *)
(* and may keep something only while no clear since then covers it         *)
(* (anvil-engine lib.rs, anvil-transport fence.rs, h3.rs and tickets.rs,   *)
(* anvil-app workspace.rs and exec.rs).                                    *)
(*                                                                         *)
(* Of the transports' caches the QUIC connection pool and the QUIC ticket  *)
(* cache are modelled.  The TCP pool, the TCP tickets and the gRPC         *)
(* channels carry the same Generations and are read and cleared next to    *)
(* them; prepared TLS configurations are admitted by the same two values   *)
(* as the cookies.  A pool key is reduced to its isolation, one            *)
(* destination each.                                                       *)
(***************************************************************************)
EXTENDS Integers, FiniteSets

CONSTANTS Exec,        \* executions
          Isolation,   \* workspace ids
          Conn,        \* QUIC connections that may be opened
          MaxLock,     \* bound: locks of a behaviour
          MaxDelete    \* bound: deletes of each workspace

None == "none"

ASSUME CachesAssumption ==
  /\ Exec # {} /\ Isolation # {} /\ None \notin Exec \cup Conn
  /\ MaxLock \in Nat /\ MaxDelete \in Nat

Cache == {"quic", "tickets"}

VARIABLES
  locked, session,     \* the store: no key held; unlocks so far
  conn,                \* the store's connection: the execution that holds it
  present, inc,        \* of a workspace id: stored; how often it was created
  epoch, jarGen, gens, \* the engine's epoch, jar generations, cache Generations
  jars,                \* of an isolation: whose cookies
  ctx,                 \* of an isolation: its ticket context (0: none)
  pool, early,         \* of an isolation: the pooled connection, the one kept after 425
  con,                 \* the connections
  pc, iso, snap, tag, cn, ectx, again,  \* of an execution
  lockAt, delAt,       \* the next step of the lock, of an isolation's delete
  ended, gone          \* history: the last session locked, the last incarnation deleted

storage == <<locked, session, conn, present, inc>>
fences == <<epoch, jarGen, gens>>
kept == <<jars, ctx>>
conns == <<pool, early, con>>
execs == <<pc, iso, snap, tag, cn, ectx, again>>
admin == <<lockAt, delAt, ended, gone>>
vars == <<storage, fences, kept, conns, execs, admin>>

(* What an execution's context was read from: an incarnation of the        *)
(* workspace, in a session of the vault.                                   *)
Tag == [inc : Nat, ses : Nat]
NoTag == [inc |-> 0, ses |-> 0]

(* A connection: whether it is open, whether the peer still takes requests *)
(* on it, how many it carries, whose it is, and its ticket context.        *)
Unused(state) ==
  [state |-> state, usable |-> TRUE, active |-> 0, home |-> None, origin |-> NoTag, ctx |-> 0]

-----------------------------------------------------------------------------
(* fence.rs: Generations. *)

NoGen == [current |-> 0, all |-> 0, iso |-> [i \in Isolation |-> 0]]

NoSnap == [epoch |-> 0, jar |-> 0, quic |-> 0, tickets |-> 0]

ClearAll(g) == [current |-> g.current + 1, all |-> g.current + 1,
                iso |-> [i \in Isolation |-> 0]]

ClearIsolation(g, i) == [g EXCEPT !.current = @ + 1, !.iso[i] = g.current + 1]

Admits(c, generation, i) ==
  generation >= gens[c].all /\ generation >= gens[c].iso[i]

(* Of an execution's attempt: the retry after 425, whether its connection  *)
(* is a reused one, and whether the request could not be sent on it.       *)
FirstTry == [early |-> "no", reused |-> FALSE, failed |-> FALSE]

Init ==
  /\ locked = FALSE /\ session = 1 /\ conn = None
  /\ present = [i \in Isolation |-> TRUE]
  /\ inc = [i \in Isolation |-> 1]
  /\ epoch = 0
  /\ jarGen = [i \in Isolation |-> 0]
  /\ gens = [c \in Cache |-> NoGen]
  /\ jars = [i \in Isolation |-> {}]
  /\ ctx = [i \in Isolation |-> 0]
  /\ pool = [i \in Isolation |-> None] /\ early = [i \in Isolation |-> None]
  /\ con = [c \in Conn |-> Unused("new")]
  /\ pc = [e \in Exec |-> "idle"]
  /\ iso \in [Exec -> Isolation]
  /\ snap = [e \in Exec |-> NoSnap]
  /\ tag = [e \in Exec |-> NoTag]
  /\ cn = [e \in Exec |-> None]
  /\ ectx = [e \in Exec |-> 0]
  /\ again = [e \in Exec |-> FirstTry]
  /\ lockAt = "none" /\ delAt = [i \in Isolation |-> "none"]
  /\ ended = 0 /\ gone = [i \in Isolation |-> 0]

Goto(e, s) == pc' = [pc EXCEPT ![e] = s]

(* The execution is over. *)
Finish(e) ==
  /\ Goto(e, "done")
  /\ snap' = [snap EXCEPT ![e] = NoSnap]
  /\ tag' = [tag EXCEPT ![e] = NoTag]
  /\ cn' = [cn EXCEPT ![e] = None]
  /\ ectx' = [ectx EXCEPT ![e] = 0]
  /\ again' = [again EXCEPT ![e] = FirstTry]

-----------------------------------------------------------------------------
(* Building a context: build_context holds the store's connection while it *)
(* takes the snapshot of Engine::snapshot, value by value, and then reads  *)
(* the workspace.                                                          *)

BuildBegins(e) ==
  /\ pc[e] = "idle"
  /\ ~locked /\ conn = None
  /\ conn' = e
  /\ snap' = [snap EXCEPT ![e].epoch = epoch]
  /\ Goto(e, "jar")
  /\ UNCHANGED <<locked, session, present, inc, fences, kept, conns,
                 iso, tag, cn, ectx, again, admin>>

SnapReads(e) ==
  /\ \/ /\ pc[e] = "jar"
        /\ snap' = [snap EXCEPT ![e].jar = jarGen[iso[e]]]
        /\ Goto(e, "quic")
     \/ /\ pc[e] = "quic"
        /\ snap' = [snap EXCEPT ![e].quic = gens["quic"].current]
        /\ Goto(e, "tickets")
     \/ /\ pc[e] = "tickets"
        /\ snap' = [snap EXCEPT ![e].tickets = gens["tickets"].current]
        /\ Goto(e, "recheck")
  /\ UNCHANGED <<storage, fences, kept, conns, iso, tag, cn, ectx, again, admin>>

(* No lock and no delete of the isolation since the snapshot's epoch was   *)
(* taken.                                                                  *)
Current(e) == snap[e].epoch = epoch /\ snap[e].jar = jarGen[iso[e]]

(* Mutant: the values of the snapshot are not read again. *)
SnapEnds_Unchecked(e) ==
  /\ pc[e] = "recheck"
  /\ Goto(e, "read")
  /\ UNCHANGED <<storage, fences, kept, conns, iso, snap, tag, cn, ectx, again, admin>>

(* The snapshot stands only if nothing began to clear meanwhile.           *)
SnapEnds(e) ==
  /\ pc[e] = "recheck"
  /\ IF Current(e)
     THEN Goto(e, "read") /\ UNCHANGED snap
     ELSE /\ snap' = [snap EXCEPT ![e].epoch = epoch]
          /\ Goto(e, "jar")
  /\ UNCHANGED <<storage, fences, kept, conns, iso, tag, cn, ectx, again, admin>>

ReadWorkspace(e) ==
  /\ pc[e] = "read"
  /\ conn' = None
  /\ IF ~locked /\ present[iso[e]]
     THEN /\ tag' = [tag EXCEPT ![e] = [inc |-> inc[iso[e]], ses |-> session]]
          /\ Goto(e, "acquire")
          /\ UNCHANGED <<snap, cn, ectx, again>>
     ELSE Finish(e)
  /\ UNCHANGED <<locked, session, present, inc, fences, kept, conns, iso, admin>>

-----------------------------------------------------------------------------
(* What an execution may keep. *)

(* CookieJars::store, under the lock of the jars; then the one retry after *)
(* 425 on the connection that answered it, or the end.                     *)
StoreCookies(e) ==
  /\ pc[e] = "store"
  /\ jars' = IF Current(e) THEN [jars EXCEPT ![iso[e]] = @ \cup {tag[e]}] ELSE jars
  /\ IF again[e].early = "wanted"
     THEN /\ again' = [again EXCEPT ![e].early = "retry", ![e].reused = FALSE]
          /\ Goto(e, "acquire")
          /\ UNCHANGED <<snap, tag, cn, ectx>>
     ELSE Finish(e)
  /\ UNCHANGED <<storage, fences, ctx, conns, iso, admin>>

(* TicketCache::context: the isolation's context, created on first use; an *)
(* execution the fence does not admit gets one the cache does not hold.    *)
TicketContext(e) ==
  /\ pc[e] = "connect"
  /\ IF ~Admits("tickets", snap[e].tickets, iso[e])
     THEN ectx' = [ectx EXCEPT ![e] = 0] /\ UNCHANGED ctx
     ELSE LET n == IF ctx[iso[e]] # 0 THEN ctx[iso[e]] ELSE gens["tickets"].current + 1
          IN ctx' = [ctx EXCEPT ![iso[e]] = n] /\ ectx' = [ectx EXCEPT ![e] = n]
  /\ Goto(e, "handshake")
  /\ UNCHANGED <<storage, fences, jars, conns,
                 iso, snap, tag, cn, again, admin>>

(* The server may send a ticket on an open connection at any time, into    *)
(* the context the connection was opened with: these are the executions    *)
(* whose tickets the cache may hold, because it still holds that context.  *)
(* (A context is never put back, so one that holds a ticket of an earlier  *)
(* connection was held when that ticket arrived.)                          *)
TicketsOf(i) ==
  {con[c].origin : c \in {d \in Conn :
     con[d].state = "open" /\ con[d].home = i /\ con[d].ctx # 0 /\ con[d].ctx = ctx[i]}}

-----------------------------------------------------------------------------
(* h3.rs: the pool.  Removing connections and closing those nobody uses is *)
(* one step: what was removed while idle is out of everyone's reach.  k    *)
(* stands for the connections, p for the pool, w for the ones kept after   *)
(* 425, as they are at that point of a step.                               *)

Held(p, w, c) == \E i \in Isolation : p[i] = c \/ w[i] = c

(* Mutant: a connection removed from one map may still be in the other. *)
ToClose_StillHeld(k, p, w, removed) == {c \in removed : k[c].active = 0}

(* to_close: of the connections removed, those idle and no longer held.    *)
ToClose(k, p, w, removed) == {c \in removed : k[c].active = 0 /\ ~Held(p, w, c)}

GiveUp(k, p, w, removed) ==
  LET closing == ToClose(k, p, w, removed)
  IN [c \in Conn |-> IF c \in closing THEN Unused("closed") ELSE k[c]]

Lease(c) == [con EXCEPT ![c].active = @ + 1]

(* evict_over_cap: the longest idle connections go while the pool holds    *)
(* more than max_idle_total.  The cap counts every destination, of which   *)
(* an isolation has one here, so any of the idle ones may have to go.      *)
OverCap(k, p) == SUBSET {i \in Isolation : p[i] # None /\ k[p[i]].active = 0}

Without(p, r) == [i \in Isolation |-> IF i \in r THEN None ELSE p[i]]
At(p, r) == {p[i] : i \in r} \ {None}

(* take_too_early: the connection that answered 425, for the retry; one    *)
(* that is no longer usable is given up.                                   *)
TakeEarly(e) ==
  LET i == iso[e]  c == early[i]
  IN /\ pc[e] = "acquire" /\ again[e].early = "retry" /\ c # None
     /\ early' = Without(early, {i})
     /\ IF con[c].usable
        THEN /\ con' = Lease(c)
             /\ cn' = [cn EXCEPT ![e] = c]
             /\ again' = [again EXCEPT ![e].reused = TRUE]
             /\ Goto(e, "using")
        ELSE /\ con' = GiveUp(con, pool, early', {c})
             /\ UNCHANGED <<cn, pc, again>>
     /\ UNCHANGED <<storage, fences, kept, pool, iso, snap, tag, ectx, admin>>

(* checkout: the pooled connection, leased, unless it is no longer usable. *)
Checkout(e) ==
  LET i == iso[e]  c == pool[i]
  IN /\ pc[e] = "acquire" /\ c # None
     /\ again[e].early = "retry" => early[i] = None
     /\ IF con[c].usable
        THEN /\ con' = Lease(c)
             /\ cn' = [cn EXCEPT ![e] = c]
             /\ again' = [again EXCEPT ![e].reused = TRUE]
             /\ Goto(e, "using")
             /\ UNCHANGED pool
        ELSE /\ pool' = Without(pool, {i})
             /\ con' = GiveUp(con, pool', early, {c})
             /\ Goto(e, "connect")
             /\ UNCHANGED <<cn, again>>
     /\ UNCHANGED <<storage, fences, kept, early, iso, snap, tag, ectx, admin>>

(* Nothing to reuse, or connection reuse is off. *)
NoCheckout(e) ==
  /\ pc[e] = "acquire"
  /\ again[e].early = "retry" => early[iso[e]] = None
  /\ Goto(e, "connect")
  /\ UNCHANGED <<storage, fences, kept, conns, iso, snap, tag, cn, ectx, again, admin>>

HandshakeFails(e) ==
  /\ pc[e] = "handshake"
  /\ Finish(e)
  /\ UNCHANGED <<storage, fences, kept, conns, iso, admin>>

(* checkin: the new connection is leased, and pooled if the fence admits   *)
(* the execution; it replaces the isolation's connection.  With connection *)
(* reuse off it is only leased.                                            *)
Checkin(e, c, keepalive) ==
  LET i == iso[e]
      k == [con EXCEPT ![c] = [state |-> "open", usable |-> TRUE, active |-> 1,
                               home |-> i, origin |-> tag[e], ctx |-> ectx[e]]]
      pools == keepalive /\ Admits("quic", snap[e].quic, i)
      p == [pool EXCEPT ![i] = c]
  IN /\ pc[e] = "handshake" /\ con[c].state = "new"
     /\ \/ /\ pools
           /\ \E r \in OverCap(k, p) :
                /\ pool' = Without(p, r)
                /\ con' = GiveUp(k, pool', early, At(pool, {i}) \cup At(p, r))
        \/ ~pools /\ con' = k /\ UNCHANGED pool
     /\ cn' = [cn EXCEPT ![e] = c]
     /\ ectx' = [ectx EXCEPT ![e] = 0]
     /\ again' = [again EXCEPT ![e].reused = FALSE]
     /\ Goto(e, "using")
     /\ UNCHANGED <<storage, fences, kept, early, iso, snap, tag, admin>>

(* A request that could not be opened on its connection takes it out of    *)
(* the pool (evict).  One that is answered 425 keeps it for the retry      *)
(* (keep_too_early).                                                       *)
RequestFails(e) ==
  LET mine == {j \in {iso[e]} : pool[j] = cn[e]}
  IN /\ pc[e] = "using"
     /\ again' = [again EXCEPT ![e].failed = TRUE]
     /\ pool' = Without(pool, mine)
     /\ con' = GiveUp(con, pool', early, At(pool, mine))
     /\ Goto(e, "drop")
     /\ UNCHANGED <<storage, fences, kept, early, iso, snap, tag, cn, ectx, admin>>

(* Mutant: the connection is kept whatever was cleared meanwhile. *)
TooEarly_Unfenced(e) ==
  /\ pc[e] = "using" /\ again[e].early = "no"
  /\ again' = [again EXCEPT ![e].early = "wanted"]
  /\ early' = [early EXCEPT ![iso[e]] = cn[e]]
  /\ con' = GiveUp(con, pool, early', At(early, {iso[e]}))
  /\ Goto(e, "drop")
  /\ UNCHANGED <<storage, fences, kept, pool, iso, snap, tag, cn, ectx, admin>>

TooEarly(e) ==
  LET i == iso[e]
  IN /\ pc[e] = "using" /\ again[e].early = "no"
     /\ again' = [again EXCEPT ![e].early = "wanted"]
     /\ IF Admits("quic", snap[e].quic, i)
        THEN /\ early' = [early EXCEPT ![i] = cn[e]]
             /\ con' = GiveUp(con, pool, early', At(early, {i}))
        ELSE UNCHANGED <<early, con>>
     /\ Goto(e, "drop")
     /\ UNCHANGED <<storage, fences, kept, pool, iso, snap, tag, cn, ectx, admin>>

(* The attempt is over: answered, or failed, canceled or timed out.  A     *)
(* reused connection that failed the request before any response lets it   *)
(* be sent once more, on a new connection, with the same snapshot.         *)
Ended(e) ==
  \/ Finish(e)
  \/ /\ ~again[e].failed
     /\ Goto(e, "store")
     /\ cn' = [cn EXCEPT ![e] = None]
     /\ UNCHANGED <<snap, tag, ectx, again>>
  \/ /\ again[e].reused /\ again[e].early # "wanted"
     /\ Goto(e, "connect")
     /\ cn' = [cn EXCEPT ![e] = None]
     /\ again' = [again EXCEPT ![e].reused = FALSE, ![e].failed = FALSE]
     /\ UNCHANGED <<snap, tag, ectx>>

(* StreamLease::drop: the count, and then, for the last one, the pool.     *)
DropLease(e) ==
  /\ pc[e] \in {"using", "drop"}
  /\ con' = [con EXCEPT ![cn[e]].active = @ - 1]
  /\ IF con[cn[e]].active = 1
     THEN Goto(e, "release") /\ UNCHANGED <<snap, tag, cn, ectx, again>>
     ELSE Ended(e)
  /\ UNCHANGED <<storage, fences, kept, pool, early, iso, admin>>

Release(e) ==
  LET c == cn[e]
  IN /\ pc[e] = "release"
     /\ IF Held(pool, early, c)
        THEN \E r \in OverCap(con, pool) :
               /\ pool' = Without(pool, r)
               /\ con' = GiveUp(con, pool', early, At(pool, r))
        ELSE con' = GiveUp(con, pool, early, {c}) /\ UNCHANGED pool
     /\ Ended(e)
     /\ UNCHANGED <<storage, fences, kept, early, iso, admin>>

(* The peer closes the connection or announces that it will (GOAWAY).      *)
(* Only of one the pool holds does anybody ask.                            *)
PeerDrains(c) ==
  /\ Held(pool, early, c) /\ con[c].usable
  /\ con' = [con EXCEPT ![c].usable = FALSE]
  /\ UNCHANGED <<storage, fences, kept, pool, early, execs, admin>>

(* The sweep gives up connections that expired: idle too long, or not      *)
(* usable, busy or not.                                                    *)
Sweep(i) ==
  LET expired(c) == c # None /\ (con[c].active = 0 \/ ~con[c].usable)
  IN /\ \/ /\ expired(pool[i])
           /\ pool' = Without(pool, {i})
           /\ con' = GiveUp(con, pool', early, {pool[i]})
           /\ UNCHANGED early
        \/ /\ expired(early[i])
           /\ early' = Without(early, {i})
           /\ con' = GiveUp(con, pool, early', {early[i]})
           /\ UNCHANGED pool
     /\ UNCHANGED <<storage, fences, kept, execs, admin>>

-----------------------------------------------------------------------------
(* Clearing the QUIC pool and the tickets of some isolations.              *)
ClearPool(is) ==
  /\ pool' = Without(pool, is) /\ early' = Without(early, is)
  /\ con' = GiveUp(con, pool', early', At(pool, is) \cup At(early, is))

ClearTickets(is) ==
  ctx' = [i \in Isolation |-> IF i \in is THEN 0 ELSE ctx[i]]

Fence(c, g) == gens' = [gens EXCEPT ![c] = g]

(* App::lock: the key first, then clear_sensitive_state, the epoch before  *)
(* any cache.                                                              *)
LockBegins ==
  /\ lockAt = "none" /\ ~locked /\ session <= MaxLock
  /\ locked' = TRUE
  /\ lockAt' = "epoch"
  /\ UNCHANGED <<session, conn, present, inc, fences, kept, conns, execs, delAt, ended, gone>>

AdvanceEpoch ==
  /\ lockAt = "epoch"
  /\ epoch' = epoch + 1
  /\ lockAt' = "quic"
  /\ UNCHANGED <<storage, jarGen, gens, kept, conns, execs, delAt, ended, gone>>

LockClearsPool ==
  /\ lockAt = "quic"
  /\ Fence("quic", ClearAll(gens["quic"]))
  /\ ClearPool(Isolation)
  /\ lockAt' = "tickets"
  /\ UNCHANGED <<storage, epoch, jarGen, kept, execs, delAt, ended, gone>>

LockClearsTickets ==
  /\ lockAt = "tickets"
  /\ Fence("tickets", ClearAll(gens["tickets"]))
  /\ ClearTickets(Isolation)
  /\ lockAt' = "jars"
  /\ UNCHANGED <<storage, epoch, jarGen, jars, conns, execs, delAt, ended, gone>>

LockEnds ==
  /\ lockAt = "jars"
  /\ jars' = [i \in Isolation |-> {}]
  /\ lockAt' = "none"
  /\ ended' = session
  /\ UNCHANGED <<storage, fences, ctx, conns, execs, delAt, gone>>

(* Store::unlock_if waits for the connection; the desktop lets no unlock   *)
(* begin before the lock has returned.                                     *)
Unlock ==
  /\ locked /\ conn = None /\ lockAt = "none"
  /\ locked' = FALSE
  /\ session' = session + 1
  /\ UNCHANGED <<conn, present, inc, fences, kept, conns, execs, admin>>

(* App::delete_workspace: the storage commit first, then clear_isolation,  *)
(* the jar before the rest.                                                *)
DeleteCommits(i) ==
  /\ delAt[i] = "none" /\ present[i] /\ inc[i] <= MaxDelete
  /\ ~locked /\ conn = None
  /\ present' = [present EXCEPT ![i] = FALSE]
  /\ delAt' = [delAt EXCEPT ![i] = "jar"]
  /\ UNCHANGED <<locked, session, conn, inc, fences, kept, conns, execs, lockAt, ended, gone>>

DeleteClearsJar(i) ==
  /\ delAt[i] = "jar"
  /\ jars' = [jars EXCEPT ![i] = {}]
  /\ jarGen' = [jarGen EXCEPT ![i] = @ + 1]
  /\ delAt' = [delAt EXCEPT ![i] = "quic"]
  /\ UNCHANGED <<storage, epoch, gens, ctx, conns, execs, lockAt, ended, gone>>

DeleteClearsPool(i) ==
  /\ delAt[i] = "quic"
  /\ Fence("quic", ClearIsolation(gens["quic"], i))
  /\ ClearPool({i})
  /\ delAt' = [delAt EXCEPT ![i] = "tickets"]
  /\ UNCHANGED <<storage, epoch, jarGen, kept, execs, lockAt, ended, gone>>

DeleteEnds(i) ==
  /\ delAt[i] = "tickets"
  /\ Fence("tickets", ClearIsolation(gens["tickets"], i))
  /\ ClearTickets({i})
  /\ delAt' = [delAt EXCEPT ![i] = "none"]
  /\ gone' = [gone EXCEPT ![i] = IF present[i] THEN inc[i] - 1 ELSE inc[i]]
  /\ UNCHANGED <<storage, epoch, jarGen, jars, conns, execs, lockAt, ended>>

(* A backup is restored: the workspace exists again under its id.          *)
RestoreWorkspace(i) ==
  /\ ~present[i] /\ ~locked /\ conn = None
  /\ present' = [present EXCEPT ![i] = TRUE]
  /\ inc' = [inc EXCEPT ![i] = @ + 1]
  /\ UNCHANGED <<locked, session, conn, fences, kept, conns, execs, admin>>

-----------------------------------------------------------------------------
ExecStep(e) ==
  \/ BuildBegins(e) \/ SnapReads(e) \/ SnapEnds(e) \/ ReadWorkspace(e)
  \/ TicketContext(e) \/ StoreCookies(e)
  \/ TakeEarly(e) \/ Checkout(e) \/ NoCheckout(e) \/ HandshakeFails(e)
  \/ \E c \in Conn, k \in BOOLEAN : Checkin(e, c, k)
  \/ RequestFails(e) \/ TooEarly(e) \/ DropLease(e) \/ Release(e)

LockStep ==
  \/ LockBegins \/ AdvanceEpoch \/ LockClearsPool \/ LockClearsTickets
  \/ LockEnds \/ Unlock

DeleteStep(i) ==
  \/ DeleteCommits(i) \/ DeleteClearsJar(i)
  \/ DeleteClearsPool(i) \/ DeleteEnds(i) \/ RestoreWorkspace(i)

Next ==
  \/ \E e \in Exec : ExecStep(e)
  \/ \E c \in Conn : PeerDrains(c)
  \/ \E i \in Isolation : Sweep(i) \/ DeleteStep(i)
  \/ LockStep

Spec == Init /\ [][Next]_vars

-----------------------------------------------------------------------------
(* Types.  The leases of a connection are counted, so not yet a Nat. *)
Gen == [current : Nat, all : Nat, iso : [Isolation -> Nat]]
Snap == [epoch : Nat, jar : Nat, quic : Nat, tickets : Nat]
ConnState == [state : {"new", "open", "closed"}, usable : BOOLEAN, active : Int,
              home : Isolation \cup {None}, origin : Tag, ctx : Nat]
ExecPc == {"idle", "jar", "quic", "tickets", "recheck", "read", "acquire", "connect",
           "handshake", "using", "drop", "release", "store", "done"}
Try == [early : {"no", "wanted", "retry"}, reused : BOOLEAN, failed : BOOLEAN]
StorageType ==
  /\ locked \in BOOLEAN /\ session \in Nat \ {0} /\ conn \in Exec \cup {None}
  /\ present \in [Isolation -> BOOLEAN] /\ inc \in [Isolation -> Nat \ {0}]
FenceType ==
  /\ epoch \in Nat /\ jarGen \in [Isolation -> Nat] /\ gens \in [Cache -> Gen]
  /\ jars \in [Isolation -> SUBSET Tag] /\ ctx \in [Isolation -> Nat]
PoolType ==
  /\ pool \in [Isolation -> Conn \cup {None}] /\ early \in [Isolation -> Conn \cup {None}]
  /\ con \in [Conn -> ConnState]
ExecType ==
  /\ pc \in [Exec -> ExecPc] /\ iso \in [Exec -> Isolation] /\ snap \in [Exec -> Snap]
  /\ tag \in [Exec -> Tag] /\ cn \in [Exec -> Conn \cup {None}] /\ ectx \in [Exec -> Nat]
  /\ again \in [Exec -> Try]
AdminType ==
  /\ lockAt \in {"none", "epoch", "quic", "tickets", "jars"}
  /\ delAt \in [Isolation -> {"none", "jar", "quic", "tickets"}]
  /\ ended \in Nat /\ gone \in [Isolation -> Nat]
TypeOK == StorageType /\ FenceType /\ PoolType /\ ExecType /\ AdminType

-----------------------------------------------------------------------------
(* The tags of everything the caches hold for an isolation. *)
KeptFor(i) ==
  jars[i] \cup TicketsOf(i) \cup {con[c].origin : c \in At(pool, {i}) \cup At(early, {i})}

(* Once a lock or the delete of a workspace has returned, no cache holds   *)
(* anything of an execution whose context was read before it, even when    *)
(* that execution ends after an unlock or after the workspace was restored *)
(* under the same id (Engine::clear_sensitive_state and clear_isolation,   *)
(* against Generations::admits and the checks of CookieJars::store).       *)
NothingOutlives ==
  \A i \in Isolation : \A t \in KeptFor(i) : t.inc > gone[i] /\ t.ses > ended

(* With no clear under way, an execution that may still pool a connection  *)
(* or keep a ticket may also keep cookies: its snapshot                    *)
(* never mixes generations from both sides of a lock or a delete           *)
(* (Engine::snapshot).                                                     *)
KeepsTogether ==
  \A e \in Exec :
    /\ tag[e] # NoTag /\ lockAt = "none" /\ delAt[iso[e]] = "none"
    /\ Admits("quic", snap[e].quic, iso[e]) \/ Admits("tickets", snap[e].tickets, iso[e])
    => Current(e)

(* No connection leaks and none is closed under a request: an open one is  *)
(* held by the pool, carries a request, or is about to be released; and    *)
(* neither the pool nor a request has one that was closed (StreamLease,    *)
(* to_close, PoolShared::released).                                        *)
ConnectionsAccounted ==
  \A c \in Conn :
    IF con[c].state = "open"
    THEN \/ con[c].active > 0 \/ Held(pool, early, c)
         \/ \E e \in Exec : pc[e] = "release" /\ cn[e] = c
    ELSE ~Held(pool, early, c) /\ \A e \in Exec : pc[e] \in {"using", "drop"} => cn[e] # c
=============================================================================
