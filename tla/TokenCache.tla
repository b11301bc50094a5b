----------------------------- MODULE TokenCache -----------------------------
(***************************************************************************)
(* The OAuth token cache: TokenCache in crates/anvil-auth/src/oauth.rs,    *)
(* with the sends (acquire), sign-ins (redeem_authorization_code),         *)
(* sign-outs, locks and workspace deletes of anvil-engine that use it.     *)
(*                                                                         *)
(* A Call is one acquire of a send.  It takes its generation, queues on    *)
(* the single-flight mutex of its key, and either requests a token itself  *)
(* or spawns a refresh task, which takes the mutex guard along and         *)
(* outlives a caller that stops waiting.  A step is what runs under one    *)
(* hold of the state mutex or between two awaits.                          *)
(*                                                                         *)
(* A token is what the properties tell apart: whether it is usable, its    *)
(* refresh token, and, as history, the session it was requested in.  A     *)
(* refresh token is named by the call or sign-in that obtained it.  A call *)
(* makes at most one refresh, so its own name stands for the refresh id.   *)
(***************************************************************************)
EXTENDS Naturals, FiniteSets

CONSTANTS
    Key, Partition,
    PartitionOf,   \* PartitionOf[k]: the workspace a key belongs to
    Interactive,   \* the keys of interactive grants
    Call, SignIn,  \* sends and browser sign-ins, each made once
    None,
    MaxEvents      \* bound: locks, sign-outs and workspace deletes

ASSUME TokenAssumption ==
    /\ PartitionOf \in [Key -> Partition] /\ Interactive \subseteq Key
    /\ None \notin Call \cup SignIn \cup Key /\ Call \cap SignIn = {}
    /\ MaxEvents \in Nat

VARIABLES
    entries,       \* CacheState::entries
    gen,           \* CacheState::generation
    partitions, removals, signIns,  \* the counters of the partitions and keys
    refreshes,     \* CacheState::refreshes: the call whose refresh is registered
    locks,         \* locks[k]: the identity of the mutex in TokenCache::locks
    jars,          \* jars[p]: the workspace's generation (CookieJars)
    stored,        \* the workspaces in the store
    deleting,      \* what is left of a workspace delete
    call, task, signing,
    owns,          \* the calls that, themselves or through their task, own a guard
    got,           \* got[c]: the token the cache answered c with
    rotated,       \* refresh tokens the issuer has replaced
    lost,          \* those whose successor was in an answer that did not arrive
    past, signed,  \* history: per key, the clears and the sign-ins so far
    overlapped,    \* history: workspaces restored before their delete had cleared
    events

counters == <<gen, partitions, removals, signIns>>
history == <<past, signed>>
cache == <<entries, counters, refreshes, history>>
workspace == <<locks, jars, stored, deleting, events, overlapped>>
vars == <<cache, workspace, call, task, signing, owns, got, rotated, lost>>

Source == Call \cup SignIn
CallPc == {"idle", "built", "since", "look", "locking", "queued", "holding",
           "register", "awaiting", "request", "own", "superseded", "done"}
TaskPc == {"none", "requesting", "answered", "finishing", "done", "aborted"}
Answer == {"token", "invalid_grant", "failed"}
Result == {"none", "token", "superseded", "interaction", "failed", "fallback"}

Generation(k) ==
    [cache |-> gen, partition |-> partitions[PartitionOf[k]], removal |-> removals[k], signIn |-> signIns[k]]

NoGeneration == [cache |-> 0, partition |-> 0, removal |-> 0, signIn |-> 0]
NoCallYet == [pc |-> "idle", key |-> None, jar |-> 0, since |-> NoGeneration, past |-> 0, signed |-> 0,
              lock |-> 0, rt |-> None]
NoTask == [pc |-> "none", caller |-> FALSE, abort |-> FALSE, answer |-> "none", newRt |-> None,
           result |-> "none", token |-> {}]
NoSignIn == [pc |-> "idle", key |-> None, jar |-> 0, since |-> NoGeneration, past |-> 0]

\* A token of call c; a usable one may stop being so at any time (Expire).
TokenOf(c, rt) ==
    [usable |-> TRUE, rt |-> rt, past |-> call[c].past, signed |-> call[c].signed, jar |-> call[c].jar]

\* An entry, as a set of at most one token.
Usable(k) == \E t \in entries[k] : t.usable

Live(c) == task[c].pc \in {"requesting", "answered", "finishing"}

----------------------------------------------------------------------------
(* CacheState, under its mutex.                                            *)

\* insert_if_current: what k holds after t was offered by an acquisition of
\* generation `since`.
Current(k, since) == Generation(k) = since
Insert(k, t) == entries' = [entries EXCEPT ![k] = {t}]

\* superseded_answer: the tokens an overtaken acquisition may be given.
SupersededAnswer_AnySession(k, since) == {t \in entries[k] : t.usable}
SupersededAnswer(k, since) ==
    {t \in entries[k] : t.usable /\ [Generation(k) EXCEPT !.signIn = since.signIn] = since}

\* Aborts of the refreshes registered under the keys ks.
Abort(ks) ==
    /\ refreshes' = [k \in Key |-> IF k \in ks THEN None ELSE refreshes[k]]
    /\ task' = [c \in Call |-> IF \E k \in ks : refreshes[k] = c THEN [task[c] EXCEPT !.abort = TRUE] ELSE task[c]]
Passed(ks) == past' = [k \in Key |-> IF k \in ks THEN past[k] + 1 ELSE past[k]]
Zero(f, ks) == [k \in Key |-> IF k \in ks THEN 0 ELSE f[k]]

\* A lock: clear_sensitive_state clears the whole cache.
Clear_KeepsGeneration ==
    /\ events < MaxEvents /\ events' = events + 1
    /\ entries' = [k \in Key |-> {}]
    /\ partitions' = [p \in Partition |-> 0] /\ removals' = Zero(removals, Key) /\ signIns' = Zero(signIns, Key)
    /\ Abort(Key) /\ Passed(Key)
    /\ UNCHANGED <<gen, locks, jars, stored, deleting, overlapped, call, signing, owns, got, rotated, lost, signed>>
Clear ==
    /\ events < MaxEvents /\ events' = events + 1
    /\ entries' = [k \in Key |-> {}]
    /\ partitions' = [p \in Partition |-> 0] /\ removals' = Zero(removals, Key) /\ signIns' = Zero(signIns, Key)
    /\ gen' = gen + 1
    /\ Abort(Key) /\ Passed(Key)
    /\ UNCHANGED <<locks, jars, stored, deleting, overlapped, call, signing, owns, got, rotated, lost, signed>>

\* A sign-out: forget_token.
Remove(k) ==
    /\ events < MaxEvents /\ events' = events + 1
    /\ removals' = [removals EXCEPT ![k] = @ + 1]
    /\ entries' = [entries EXCEPT ![k] = {}]
    /\ Abort({k}) /\ Passed({k})
    /\ UNCHANGED <<gen, partitions, signIns, locks, jars, stored, deleting, overlapped, call, signing,
                   owns, got, rotated, lost, signed>>

\* A workspace delete: the storage delete commits, then clear_isolation moves
\* the jar's generation, clears the cache's state and drops its mutexes.  A
\* bound of the model: a restored workspace is deleted again only when the
\* clears of its first delete are over.
KeysOf(p) == {k \in Key : PartitionOf[k] = p}

DeleteWorkspace(p) ==
    /\ deleting[p] = "no" /\ p \in stored
    /\ events < MaxEvents /\ events' = events + 1
    /\ stored' = stored \ {p}
    /\ deleting' = [deleting EXCEPT ![p] = "jar"]
    /\ UNCHANGED <<cache, locks, jars, overlapped, call, task, signing, owns, got, rotated, lost>>

\* A backup restores the workspace with the same id.  Nothing in the code
\* makes the restore wait for the clears of the delete.
RestoreWorkspace(p) ==
    /\ p \notin stored
    /\ stored' = stored \cup {p}
    /\ overlapped' = IF deleting[p] = "no" THEN overlapped ELSE overlapped \cup {p}
    /\ UNCHANGED <<cache, locks, jars, deleting, events, call, task, signing, owns, got, rotated, lost>>

ClearJar(p) ==
    /\ deleting[p] = "jar"
    /\ jars' = [jars EXCEPT ![p] = @ + 1]
    /\ deleting' = [deleting EXCEPT ![p] = "tokens"]
    /\ UNCHANGED <<cache, locks, stored, events, overlapped, call, task, signing, owns, got, rotated, lost>>

ClearPartition(p) ==
    /\ deleting[p] = "tokens"
    /\ deleting' = [deleting EXCEPT ![p] = "locks"]
    /\ partitions' = [partitions EXCEPT ![p] = @ + 1]
    /\ entries' = [k \in Key |-> IF k \in KeysOf(p) THEN {} ELSE entries[k]]
    /\ removals' = Zero(removals, KeysOf(p)) /\ signIns' = Zero(signIns, KeysOf(p))
    /\ Abort(KeysOf(p)) /\ Passed(KeysOf(p))
    /\ UNCHANGED <<gen, locks, jars, stored, events, overlapped, call, signing, owns, got, rotated, lost, signed>>

DropLocks(p) ==
    /\ deleting[p] = "locks"
    /\ deleting' = [deleting EXCEPT ![p] = "no"]
    /\ locks' = [k \in Key |-> IF k \in KeysOf(p) THEN locks[k] + 1 ELSE locks[k]]
    /\ UNCHANGED <<cache, jars, stored, events, overlapped, call, task, signing, owns, got, rotated, lost>>

\* Time passes.
Expire(k) ==
    /\ Usable(k)
    /\ entries' = [entries EXCEPT ![k] = {[t EXCEPT !.usable = FALSE] : t \in entries[k]}]
    /\ UNCHANGED <<counters, refreshes, history, workspace, call, task, signing, owns, got, rotated, lost>>

----------------------------------------------------------------------------
(* A send: acquire in oauth_http.rs, acquire_in and refresh_detached.      *)

Goto(c, pc) == call' = [call EXCEPT ![c].pc = pc]

\* The call returns: its guard, if it still has one, is dropped.
Returns(c, tokens) ==
    /\ Goto(c, "done")
    /\ got' = [got EXCEPT ![c] = tokens]
    /\ owns' = owns \ {c}

\* build_context takes the epoch, with the workspace's generation, and reads
\* the workspace in one transaction of the store.
BuildContext(c, k) ==
    /\ call[c].pc = "idle"
    /\ PartitionOf[k] \in stored
    /\ call' = [call EXCEPT ![c].pc = "built", ![c].key = k, ![c].jar = jars[PartitionOf[k]]]
    /\ UNCHANGED <<cache, workspace, task, signing, owns, got, rotated, lost>>

TakeSince(c) ==
    /\ call[c].pc = "built"
    /\ LET k == call[c].key IN
       call' = [call EXCEPT ![c].pc = "since", ![c].since = Generation(k), ![c].past = past[k], ![c].signed = signed[k]]
    /\ UNCHANGED <<cache, workspace, task, signing, owns, got, rotated, lost>>

\* workspace_deleted_since.  A send of a deleted workspace uses a cache of
\* its own, where an interactive grant finds no token.
CheckWorkspace(c) ==
    /\ call[c].pc = "since"
    /\ LET k == call[c].key IN
       Goto(c, IF jars[PartitionOf[k]] = call[c].jar THEN "look" ELSE IF k \in Interactive THEN "done" ELSE "own")
    /\ UNCHANGED <<cache, workspace, task, signing, owns, got, rotated, lost>>

\* get_or_acquire_since: the cached token, without asking for the mutex.
Look_OwnGeneration(c) ==
    /\ call[c].pc = "look"
    /\ LET k == call[c].key IN
       \/ Usable(k) /\ Returns(c, entries[k])
       \/ /\ ~Usable(k)
          /\ call' = [call EXCEPT ![c].pc = "locking", ![c].since = Generation(k),
                                  ![c].past = past[k], ![c].signed = signed[k]]
          /\ UNCHANGED <<owns, got>>
    /\ UNCHANGED <<cache, workspace, task, signing, rotated, lost>>
Look(c) ==
    /\ call[c].pc = "look"
    /\ LET k == call[c].key IN
       \/ ~Current(k, call[c].since) /\ Goto(c, "superseded") /\ UNCHANGED <<owns, got>>
       \/ Current(k, call[c].since) /\ Usable(k) /\ Returns(c, entries[k])
       \/ Current(k, call[c].since) /\ ~Usable(k) /\ Goto(c, "locking") /\ UNCHANGED <<owns, got>>
    /\ UNCHANGED <<cache, workspace, task, signing, rotated, lost>>

\* The second hold of the state mutex, after a snapshot that was not current.
Superseded(c) ==
    /\ call[c].pc = "superseded"
    /\ Returns(c, SupersededAnswer(call[c].key, call[c].since))
    /\ UNCHANGED <<cache, workspace, task, signing, rotated, lost>>

LockFor_Fresh(c) ==
    /\ call[c].pc = "locking"
    /\ locks' = [locks EXCEPT ![call[c].key] = @ + 1]
    /\ call' = [call EXCEPT ![c].pc = "queued", ![c].lock = locks[call[c].key]]
    /\ UNCHANGED <<cache, jars, stored, deleting, events, overlapped, task, signing, owns, got, rotated, lost>>
LockFor(c) ==
    /\ call[c].pc = "locking"
    /\ call' = [call EXCEPT ![c].pc = "queued", ![c].lock = locks[call[c].key]]
    /\ UNCHANGED <<cache, workspace, task, signing, owns, got, rotated, lost>>

Lock(c) ==
    /\ call[c].pc = "queued"
    /\ \A d \in owns : <<call[d].key, call[d].lock>> # <<call[c].key, call[c].lock>>
    /\ owns' = owns \cup {c}
    /\ Goto(c, "holding")
    /\ UNCHANGED <<cache, workspace, task, signing, got, rotated, lost>>

\* The second snapshot, with the mutex held.
Reread(c) ==
    /\ call[c].pc = "holding"
    /\ LET k == call[c].key
           rts == {t.rt : t \in entries[k]} \ {None}
       IN \/ ~Current(k, call[c].since) /\ Goto(c, "superseded") /\ UNCHANGED <<owns, got>>
          \/ Current(k, call[c].since) /\ Usable(k) /\ Returns(c, entries[k])
          \/ /\ Current(k, call[c].since) /\ ~Usable(k)
             /\ \/ \E rt \in rts : call' = [call EXCEPT ![c].pc = "register", ![c].rt = rt] /\ UNCHANGED <<owns, got>>
                \/ rts = {} /\ k \in Interactive /\ Returns(c, {})
                \/ rts = {} /\ k \notin Interactive /\ Goto(c, "request") /\ UNCHANGED <<owns, got>>
    /\ UNCHANGED <<cache, workspace, task, signing, rotated, lost>>

\* The answer to a client-credentials request, which may carry a refresh token.
Requested(c) ==
    /\ call[c].pc = "request"
    /\ LET k == call[c].key IN
       \/ Returns(c, {}) /\ UNCHANGED entries
       \/ \E rt \in {c, None} :
            IF Current(k, call[c].since)
            THEN Insert(k, TokenOf(c, rt)) /\ Returns(c, {TokenOf(c, rt)})
            ELSE Returns(c, SupersededAnswer(k, call[c].since)) /\ UNCHANGED entries
    /\ UNCHANGED <<counters, refreshes, history, workspace, task, signing, rotated, lost>>

\* The same request in a cache of its own.
OwnRequest(c) ==
    /\ call[c].pc = "own"
    /\ Goto(c, "done")
    /\ UNCHANGED <<cache, workspace, task, signing, owns, got, rotated, lost>>

\* refresh_detached, up to the spawn.
RefreshDetached_KeepsGuard(c) ==
    /\ call[c].pc = "register"
    /\ Current(call[c].key, call[c].since)
    /\ refreshes' = [refreshes EXCEPT ![call[c].key] = c]
    /\ task' = [task EXCEPT ![c].pc = "requesting", ![c].caller = TRUE]
    /\ owns' = owns \ {c}
    /\ Goto(c, "awaiting")
    /\ UNCHANGED <<entries, counters, history, workspace, signing, got, rotated, lost>>
RefreshDetached(c) ==
    /\ call[c].pc = "register"
    /\ LET k == call[c].key IN
       \/ /\ ~Current(k, call[c].since)
          /\ Returns(c, SupersededAnswer(k, call[c].since))
          /\ UNCHANGED <<refreshes, task>>
       \/ /\ Current(k, call[c].since)
          /\ refreshes' = [refreshes EXCEPT ![k] = c]
          /\ task' = [task EXCEPT ![c].pc = "requesting", ![c].caller = TRUE]
          /\ Goto(c, "awaiting")
          /\ UNCHANGED <<owns, got>>
    /\ UNCHANGED <<entries, counters, history, workspace, signing, rotated, lost>>

\* The caller takes what its task handed back.
Awaited(c) ==
    /\ call[c].pc = "awaiting"
    /\ task[c].pc \in {"done", "aborted"}
    /\ task' = [task EXCEPT ![c].caller = FALSE]
    /\ \/ task[c].result = "fallback" /\ Goto(c, "request") /\ UNCHANGED <<owns, got>>
       \/ task[c].result # "fallback" /\ Returns(c, task[c].token)
    /\ UNCHANGED <<cache, workspace, signing, rotated, lost>>

\* The execution is canceled before or while it awaits.  The guard is dropped with the
\* future, unless the task has it; what a detached task hands back is dropped.
Dropped_AbortsRefresh(c) ==
    /\ call[c].pc \in {"since", "queued", "request", "own", "awaiting"}
    /\ Goto(c, "done")
    /\ task' = [task EXCEPT ![c].caller = FALSE, ![c].pc = IF Live(c) THEN "aborted" ELSE @]
    /\ owns' = owns \ {c}
    /\ UNCHANGED <<cache, workspace, signing, got, rotated, lost>>
Dropped_KeepsGuard(c) ==
    /\ call[c].pc \in {"since", "queued", "request", "own", "awaiting"}
    /\ Goto(c, "done")
    /\ task' = [task EXCEPT ![c].caller = FALSE]
    /\ UNCHANGED <<cache, workspace, signing, owns, got, rotated, lost>>
Dropped(c) ==
    /\ call[c].pc \in {"since", "queued", "request", "own", "awaiting"}
    /\ Goto(c, "done")
    /\ task' = [task EXCEPT ![c].caller = FALSE]
    /\ owns' = IF Live(c) THEN owns ELSE owns \ {c}
    /\ UNCHANGED <<cache, workspace, signing, got, rotated, lost>>

----------------------------------------------------------------------------
(* The refresh task.                                                       *)

\* External: the issuer handles the refresh request, once.  A success may
\* replace the refresh token, and the answer that says so may be lost on the
\* way or be one that cannot be read, which for the task is a failed request.
IssuerHandles(c) ==
    /\ task[c].pc = "requesting" /\ task[c].answer = "none"
    /\ \/ /\ \E a \in Answer \ {"token"} : task' = [task EXCEPT ![c].answer = a]
          /\ UNCHANGED <<rotated, lost>>
       \/ /\ task' = [task EXCEPT ![c].answer = "token", ![c].newRt = call[c].rt]
          /\ UNCHANGED <<rotated, lost>>
       \/ /\ task' = [task EXCEPT ![c].answer = "token", ![c].newRt = c]
          /\ rotated' = rotated \cup {call[c].rt} /\ lost' = lost \ {call[c].rt}
       \/ /\ task' = [task EXCEPT ![c].answer = "failed"]
          /\ rotated' = rotated \cup {call[c].rt} /\ lost' = lost \cup {call[c].rt}
    /\ UNCHANGED <<cache, workspace, call, signing, owns, got>>

\* The response arrives; an abort that lands during this poll comes too late.
TaskAnswered(c) ==
    /\ task[c].pc = "requesting" /\ task[c].answer # "none"
    /\ task' = [task EXCEPT ![c].pc = "answered"]
    /\ UNCHANGED <<cache, workspace, call, signing, owns, got, rotated, lost>>

\* An aborted task is dropped at its await, with its guard.
TaskAborted(c) ==
    /\ task[c].pc = "requesting" /\ task[c].abort
    /\ task' = [task EXCEPT ![c].pc = "aborted", ![c].result = "superseded"]
    /\ owns' = owns \ {c}
    /\ UNCHANGED <<cache, workspace, call, signing, got, rotated, lost>>

RefreshFinished(c) ==
    /\ task[c].pc = "answered"
    /\ refreshes' = [refreshes EXCEPT ![call[c].key] = IF @ = c THEN None ELSE @]
    /\ task' = [task EXCEPT ![c].pc = "finishing"]
    /\ UNCHANGED <<entries, counters, history, workspace, call, signing, owns, got, rotated, lost>>

\* The task ends; its guard goes with it, or to a caller that falls back.
TaskEnds(c, result, token) ==
    /\ task' = [task EXCEPT ![c].pc = "done", ![c].result = result, ![c].token = token]
    /\ owns' = IF result = "fallback" /\ task[c].caller THEN owns ELSE owns \ {c}

TaskStores(c) ==
    /\ task[c].pc = "finishing" /\ task[c].answer = "token"
    /\ LET k == call[c].key
           t == TokenOf(c, task[c].newRt)
       IN \/ Current(k, call[c].since) /\ Insert(k, t) /\ TaskEnds(c, "token", {t})
          \/ /\ ~Current(k, call[c].since)
             /\ TaskEnds(c, "superseded", SupersededAnswer(k, call[c].since))
             /\ UNCHANGED entries
    /\ UNCHANGED <<counters, refreshes, history, workspace, call, signing, got, rotated, lost>>

\* forget_rejected_refresh, or nothing to store.
TaskFails(c) ==
    /\ task[c].pc = "finishing" /\ task[c].answer # "token"
    /\ LET k == call[c].key IN
       \/ k \notin Interactive /\ TaskEnds(c, "fallback", {}) /\ UNCHANGED entries
       \/ /\ k \in Interactive /\ task[c].answer = "invalid_grant"
          /\ entries' = IF Current(k, call[c].since)
                        THEN [entries EXCEPT ![k] = {t \in @ : t.rt # call[c].rt}] ELSE entries
          /\ TaskEnds(c, "interaction", {})
       \/ k \in Interactive /\ task[c].answer = "failed" /\ TaskEnds(c, "failed", {}) /\ UNCHANGED entries
    /\ UNCHANGED <<counters, refreshes, history, workspace, call, signing, got, rotated, lost>>

----------------------------------------------------------------------------
(* A browser sign-in: sign_in_generation and redeem_authorization_code.    *)

SignInBuilds(s, k) ==
    /\ signing[s].pc = "idle" /\ k \in Interactive
    /\ PartitionOf[k] \in stored
    /\ signing' = [signing EXCEPT ![s].pc = "built", ![s].key = k, ![s].jar = jars[PartitionOf[k]]]
    /\ UNCHANGED <<cache, workspace, call, task, owns, got, rotated, lost>>

SignInStarts(s) ==
    /\ signing[s].pc = "built"
    /\ LET k == signing[s].key IN
       signing' = [signing EXCEPT ![s].pc = "browser", ![s].since = Generation(k), ![s].past = past[k]]
    /\ UNCHANGED <<cache, workspace, call, task, owns, got, rotated, lost>>

\* The browser came back with a code, or the user gave up.
Redeem(s) ==
    /\ signing[s].pc = "browser"
    /\ \/ jars[PartitionOf[signing[s].key]] = signing[s].jar /\ signing' = [signing EXCEPT ![s].pc = "redeeming"]
       \/ signing' = [signing EXCEPT ![s].pc = "done"]
    /\ UNCHANGED <<cache, workspace, call, task, owns, got, rotated, lost>>

\* store_sign_in, or a redemption that failed or was canceled.
StoreSignIn(s) ==
    /\ signing[s].pc = "redeeming"
    /\ LET k == signing[s].key IN
       \/ /\ Current(k, signing[s].since)
          /\ signIns' = [signIns EXCEPT ![k] = @ + 1]
          /\ signed' = [signed EXCEPT ![k] = @ + 1]
          /\ entries' = [entries EXCEPT ![k] = {[usable |-> TRUE, rt |-> s, past |-> signing[s].past,
                                                 signed |-> signed[k] + 1, jar |-> signing[s].jar]}]
       \/ UNCHANGED <<signIns, signed, entries>>
    /\ signing' = [signing EXCEPT ![s].pc = "done"]
    /\ UNCHANGED <<gen, partitions, removals, past, refreshes, workspace, call, task, owns, got, rotated, lost>>

----------------------------------------------------------------------------
Init ==
    /\ entries = [k \in Key |-> {}]
    /\ gen = 0 /\ partitions = [p \in Partition |-> 0]
    /\ removals = [k \in Key |-> 0] /\ signIns = [k \in Key |-> 0]
    /\ refreshes = [k \in Key |-> None]
    /\ locks = [k \in Key |-> 0] /\ jars = [p \in Partition |-> 0]
    /\ stored = Partition /\ deleting = [p \in Partition |-> "no"] /\ events = 0
    /\ call = [c \in Call |-> NoCallYet] /\ task = [c \in Call |-> NoTask]
    /\ signing = [s \in SignIn |-> NoSignIn]
    /\ owns = {} /\ got = [c \in Call |-> {}] /\ rotated = {} /\ lost = {}
    /\ past = [k \in Key |-> 0] /\ signed = [k \in Key |-> 0] /\ overlapped = {}

Deletes(p) == ClearJar(p) \/ ClearPartition(p) \/ DropLocks(p)
CallSteps(c) ==
    \/ TakeSince(c) \/ CheckWorkspace(c) \/ Look(c) \/ Superseded(c) \/ LockFor(c)
    \/ Reread(c) \/ RefreshDetached(c) \/ Requested(c) \/ OwnRequest(c) \/ Awaited(c)
TaskSteps(c) ==
    \/ IssuerHandles(c) \/ TaskAnswered(c) \/ TaskAborted(c)
    \/ RefreshFinished(c) \/ TaskStores(c) \/ TaskFails(c)
SignInSteps(s) == SignInStarts(s) \/ Redeem(s) \/ StoreSignIn(s)

Next ==
    \/ Clear
    \/ \E k \in Key : Remove(k) \/ Expire(k)
    \/ \E p \in Partition : DeleteWorkspace(p) \/ RestoreWorkspace(p) \/ Deletes(p)
    \/ \E c \in Call : (\E k \in Key : BuildContext(c, k)) \/ CallSteps(c) \/ Lock(c) \/ Dropped(c) \/ TaskSteps(c)
    \/ \E s \in SignIn : (\E k \in Key : SignInBuilds(s, k)) \/ SignInSteps(s)

Spec == Init /\ [][Next]_vars

\* Tasks run, requests end by their timeout, and the single-flight mutex is
\* tokio's, which serves its waiters in order.
FairSpec ==
    /\ Spec
    /\ \A c \in Call : WF_vars(CallSteps(c)) /\ WF_vars(TaskSteps(c)) /\ SF_vars(Lock(c))

----------------------------------------------------------------------------
Token == [usable : BOOLEAN, rt : Source \cup {None}, past : Nat, signed : Nat, jar : Nat]
Counts == [cache : Nat, partition : Nat, removal : Nat, signIn : Nat]
CallState == [pc : CallPc, key : Key \cup {None}, jar : Nat, since : Counts, past : Nat, signed : Nat,
              lock : Nat, rt : Source \cup {None}]
TaskState == [pc : TaskPc, caller : BOOLEAN, abort : BOOLEAN, answer : Answer \cup {"none"},
              newRt : Source \cup {None}, result : Result, token : SUBSET Token]
SignInState == [pc : {"idle", "built", "browser", "redeeming", "done"}, key : Key \cup {None},
                jar : Nat, since : Counts, past : Nat]

CacheType ==
    /\ entries \in [Key -> SUBSET Token] /\ \A k \in Key : \A t, u \in entries[k] : t = u
    /\ gen \in Nat /\ partitions \in [Partition -> Nat]
    /\ removals \in [Key -> Nat] /\ signIns \in [Key -> Nat]
    /\ refreshes \in [Key -> Call \cup {None}]
    /\ past \in [Key -> Nat] /\ signed \in [Key -> Nat]
WorkspaceType ==
    /\ locks \in [Key -> Nat] /\ jars \in [Partition -> Nat]
    /\ deleting \in [Partition -> {"no", "jar", "tokens", "locks"}]
    /\ stored \in SUBSET Partition /\ overlapped \in SUBSET Partition /\ events \in Nat
SendType ==
    /\ call \in [Call -> CallState] /\ task \in [Call -> TaskState]
    /\ signing \in [SignIn -> SignInState]
    /\ owns \in SUBSET Call /\ got \in [Call -> SUBSET Token]
    /\ rotated \in SUBSET Source /\ lost \in SUBSET Source

\* Types; an entry is one token.
TypeOK == CacheType /\ WorkspaceType /\ SendType

\* No late answer survives: what is cached for a key was requested after the
\* last lock, workspace delete or sign-out, and after the last sign-in unless
\* it is that sign-in's token (insert_if_current, store_sign_in), although a
\* clear resets the counters the generations are compared by.
EntryCurrent ==
    \A k \in Key : \A t \in entries[k] : t.past = past[k] /\ t.signed = signed[k]

\* A send is answered with a token of the session it began in, never with one
\* cached before or after a lock, a delete or a sign-out that crossed it, and
\* never with one older than the sign-in it began under (superseded_answer).
AnswerOfItsSession ==
    \A c \in Call : \A t \in got[c] : t.past = call[c].past /\ t.signed >= call[c].signed

\* Once a delete has cleared its tokens, nothing a send or sign-in of the
\* deleted workspace obtained, however late, is cached, also for a workspace
\* restored with the same id meanwhile: `since` is taken before the jar's
\* generation is compared, and a delete moves the jar before it clears the
\* tokens (acquire, redeem_authorization_code, clear_isolation).
DeletedApart ==
    \A k \in Key : \A t \in entries[k] :
        deleting[PartitionOf[k]] # "tokens" => t.jar = jars[PartitionOf[k]]

\* The documentation's claim: a workspace restored with the same id never gets
\* a token from before the delete.
RestoredStartsAfresh == \A c \in Call : \A t \in got[c] : t.jar >= call[c].jar

\* The comment of get_or_acquire: concurrent callers refresh or acquire at most
\* once.  Of the calls that still belong to the current generation of a key,
\* at most one has a request with the issuer.
OneRequest ==
    \A c, d \in Call :
        /\ call[c].pc = "request" \/ task[c].pc = "requesting"
        /\ call[d].pc = "request" \/ task[d].pc = "requesting"
        /\ call[c].key = call[d].key
        /\ Current(call[c].key, call[c].since) /\ Current(call[d].key, call[d].since)
        => c = d

\* Concurrent sends share one token request, unless a workspace was restored
\* between the two holds in which clear_partition drops tokens and mutexes.
SingleFlight == overlapped = {} => OneRequest

\* The replaced refresh tokens whose successor the issuer's answer carries.
Renewed == rotated \ lost

\* A refresh token is in one request at a time, and one the issuer has replaced
\* is sent again only if the answer with its successor was lost: a task keeps
\* the guard until its outcome is stored (refresh_detached).
NeverResent ==
    [][\A c \in Call :
         overlapped' = {} /\ task[c].pc = "none" /\ task'[c].pc = "requesting" =>
           /\ call[c].rt \notin Renewed
           /\ \A d \in Call \ {c} : Live(d) => call[d].rt # call[c].rt]_vars

\* A rotation whose answer arrives is never lost: while the replaced refresh
\* token is still cached, the task that will store its successor is running,
\* also when the send that started it was canceled.
RotationKept ==
    overlapped = {} =>
      \A k \in Key : \A t \in entries[k] :
        t.rt \in Renewed => \E c \in Call : Live(c) /\ ~task[c].abort /\ call[c].key = k /\ call[c].rt = t.rt

\* Every send ends: no abort, cancel or fallback leaves a single-flight mutex
\* locked for the calls queued on it.
CallEnds == \A c \in Call : call[c].pc = "queued" ~> call[c].pc = "done"
=============================================================================
