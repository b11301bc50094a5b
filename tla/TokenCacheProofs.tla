-------------------------- MODULE TokenCacheProofs --------------------------
(***************************************************************************)
(* What TokenCache promises for every number of keys, workspaces, sends    *)
(* and sign-ins, and for any number of locks, sign-outs and deletes: that  *)
(* no late answer survives, that a send gets a token of its own session,   *)
(* that concurrent sends share one request, and that a rotated refresh     *)
(* token whose successor was answered is neither lost nor sent again.      *)
(***************************************************************************)
EXTENDS TokenCache, TLAPS

-----------------------------------------------------------------------------
(* The inductive invariant, in layers.  The first two hold always, the     *)
(* others as long as every restore has waited for the delete to clear.     *)

\* The snapshot g of key k's generation says the same as now but for sign-ins.
Agrees(k, g) ==
  g.cache = gen /\ g.partition = partitions[PartitionOf[k]] /\ g.removal = removals[k]

\* It was taken before a clear: the counters a clear resets are under one it moves.
Earlier(k, g) ==
  \/ g.cache < gen
  \/ g.cache = gen /\ g.partition < partitions[PartitionOf[k]]
  \/ g.cache = gen /\ g.partition = partitions[PartitionOf[k]] /\ g.removal < removals[k]

Begun(c) == call[c].pc \notin {"idle", "built"}
Opened(s) == signing[s].pc \notin {"idle", "built"}

\* What the history counters say of a snapshot.
CallSince(c) ==
  /\ call[c].pc # "idle" => call[c].key \in Key
  /\ Begun(c) =>
       LET k == call[c].key  g == call[c].since IN
       \/ Earlier(k, g)
       \/ /\ Agrees(k, g)
          /\ call[c].past = past[k] /\ g.signIn <= signIns[k] /\ call[c].signed <= signed[k]
          /\ g.signIn = signIns[k] => call[c].signed = signed[k]
SignInSince(s) ==
  /\ signing[s].pc # "idle" => signing[s].key \in Key
  /\ Opened(s) =>
       LET k == signing[s].key  g == signing[s].since IN
       \/ Earlier(k, g)
       \/ Agrees(k, g) /\ signing[s].past = past[k]

\* What a call was answered with, or will be by its task.
AnswerInv(c) ==
  /\ \A t \in got[c] \cup task[c].token : t.past = call[c].past /\ t.signed >= call[c].signed
  /\ ~Begun(c) => got[c] = {} /\ task[c] = NoTask
  /\ call[c].pc = "register" \/ task[c].pc # "none" => call[c].rt \in Source

\* A registered refresh is of its key.
Registered(k) == refreshes[k] # None => call[refreshes[k]].key = k /\ Begun(refreshes[k])

SessionInv ==
  /\ EntryCurrent
  /\ \A k \in Key : Registered(k)
  /\ \A c \in Call : CallSince(c) /\ AnswerInv(c)
  /\ \A s \in SignIn : SignInSince(s)

-----------------------------------------------------------------------------
\* The calls that passed workspace_deleted_since.
Admitted(c) ==
  \/ call[c].pc \in {"look", "superseded", "locking", "queued", "holding", "register", "awaiting", "request"}
  \/ task[c].pc # "none"

\* Between the clear of its tokens and the next move of its jar, a workspace
\* has tokens, sends and sign-ins of one generation only.
CallApart(c) ==
  Admitted(c) /\ Agrees(call[c].key, call[c].since) /\ deleting[PartitionOf[call[c].key]] # "tokens" =>
    call[c].jar = jars[PartitionOf[call[c].key]]
SignInApart(s) ==
  /\ signing[s].pc = "redeeming" /\ Agrees(signing[s].key, signing[s].since)
  /\ deleting[PartitionOf[signing[s].key]] # "tokens"
  => signing[s].jar = jars[PartitionOf[signing[s].key]]
ApartInv ==
  DeletedApart /\ (\A c \in Call : CallApart(c)) /\ (\A s \in SignIn : SignInApart(s))

\* The generation of the workspace that the tokens cached for it belong to.
Jar(p) == IF deleting[p] = "tokens" THEN jars[p] - 1 ELSE jars[p]

\* A deleted workspace is not stored, and what was built for it is older than
\* what is built next.
BuiltInv(p, key, jar) ==
  PartitionOf[key] = p => jar <= Jar(p) /\ (deleting[p] = "locks" => jar < Jar(p))

JarInv ==
  \A p \in Partition : (deleting[p] # "no" => p \notin stored) /\ (deleting[p] = "tokens" => jars[p] > 0)
CallJar(c) ==
  /\ call[c].pc # "idle" => \A p \in Partition : BuiltInv(p, call[c].key, call[c].jar)
  /\ Admitted(c) /\ Agrees(call[c].key, call[c].since) => call[c].jar = Jar(PartitionOf[call[c].key])

WorkspaceInv == JarInv /\ \A c \in Call : CallJar(c)

-----------------------------------------------------------------------------
\* A call has asked for the mutex of its key.
Queued(c) ==
  call[c].pc \in {"queued", "holding", "register", "awaiting", "request"} \/ Live(c)

\* The guard: who has it, and whose mutex it is.
GuardInv(c) ==
  /\ call[c].pc \in {"holding", "register", "request"} => c \in owns
  /\ Live(c) => c \in owns /\ call[c].pc \in {"awaiting", "done"}
  /\ call[c].pc = "awaiting" =>
       /\ task[c].caller = TRUE /\ task[c].pc # "none"
       /\ task[c].pc \in {"done", "aborted"} /\ task[c].result = "fallback" => c \in owns
  /\ task[c].pc # "none" => call[c].pc \in {"awaiting", "request", "done"}
  /\ task[c].pc = "none" => task[c].answer = "none"
  /\ c \in owns => call[c].pc \in {"holding", "superseded", "register", "awaiting", "request", "done"}
  /\ Queued(c) /\ Agrees(call[c].key, call[c].since) => call[c].lock = locks[call[c].key]

GuardsInv ==
  /\ \A c, d \in owns : call[c].key = call[d].key /\ call[c].lock = call[d].lock => c = d
  /\ \A c \in Call : GuardInv(c)

-----------------------------------------------------------------------------
\* A call that may still obtain a token, and its own refresh token with it.
MayObtain(c) ==
  \/ call[c].pc \notin {"awaiting", "done"} \/ Live(c)
  \/ call[c].pc = "awaiting" /\ task[c].result = "fallback"

\* The refresh tokens in use: cached, about to be sent, or replaced.
Used(x) ==
  \/ \E k \in Key : \E t \in entries[k] : t.rt = x
  \/ \E c \in Call : call[c].rt = x
  \/ x \in rotated

\* A call that has a refresh token to send or to replace.
Holder(c) == call[c].pc = "register" \/ Live(c)
Overtaken(c) == ~Current(call[c].key, call[c].since)

\* The refresh token a current holder has is the cached one; one that was
\* overtaken has a token that no key holds any more.
HolderInv(c) ==
  /\ Holder(c) =>
       /\ \A k \in Key : \A t \in entries[k] : t.rt = call[c].rt => k = call[c].key /\ ~Overtaken(c)
       /\ ~Overtaken(c) => /\ entries[call[c].key] # {}
                           /\ \A t \in entries[call[c].key] : t.rt = call[c].rt
                           /\ call[c].rt \in Renewed => task[c].answer = "token" /\ task[c].newRt = c
  /\ task[c].answer = "token" => task[c].newRt \in {c, call[c].rt}
  /\ task[c].abort => Earlier(call[c].key, call[c].since)
  /\ MayObtain(c) => ~Used(c)

RefreshInv ==
  /\ \A j, k \in Key : \A t \in entries[j], u \in entries[k] : t.rt = u.rt /\ t.rt # None => j = k
  /\ \A k \in Key : \A t \in entries[k] :
       t.rt \in Renewed => \E c \in Call : Live(c) /\ call[c].key = k /\ call[c].rt = t.rt /\ ~Overtaken(c)
  /\ \A c \in Call : HolderInv(c)
  /\ \A s \in SignIn : signing[s].pc # "done" => ~Used(s)

-----------------------------------------------------------------------------
(* The records, field by field.                                            *)

\* The fields of the record of a call.
LEMMA CallRecord ==
  ASSUME NEW r \in CallState
  PROVE  /\ r.pc \in CallPc /\ r.key \in Key \cup {None} /\ r.jar \in Nat /\ r.since \in Counts
         /\ r.past \in Nat /\ r.signed \in Nat /\ r.lock \in Nat /\ r.rt \in Source \cup {None}
  BY DEF CallState

\* The fields of the record of a refresh task.
LEMMA TaskRecord ==
  ASSUME NEW r \in TaskState
  PROVE  /\ r.pc \in TaskPc /\ r.caller \in BOOLEAN /\ r.abort \in BOOLEAN /\ r.result \in Result
         /\ r.answer \in Answer \cup {"none"} /\ r.newRt \in Source \cup {None} /\ r.token \in SUBSET Token
  BY DEF TaskState

\* The fields of the record of a sign-in.
LEMMA SignInRecord ==
  ASSUME NEW r \in SignInState
  PROVE  r.key \in Key \cup {None} /\ r.jar \in Nat /\ r.since \in Counts /\ r.past \in Nat
  BY DEF SignInState

\* A generation is four counters, and an entry or an answer is made of tokens.
LEMMA Parts ==
  ASSUME TypeOK
  PROVE  /\ \A k \in Key : Generation(k) \in Counts /\ PartitionOf[k] \in Partition
         /\ \A k \in Key, g \in Counts : SupersededAnswer(k, g) \in SUBSET Token
         /\ \A c \in Call, rt \in Source \cup {None} : TokenOf(c, rt) \in Token
  <1> USE TokenAssumption
  <1>1. \A k \in Key : Generation(k) \in Counts /\ PartitionOf[k] \in Partition
    BY DEF TypeOK, CacheType, Generation, Counts
  <1>2. \A k \in Key, g \in Counts : SupersededAnswer(k, g) \in SUBSET Token
    BY DEF TypeOK, CacheType, SupersededAnswer
  <1>3. ASSUME NEW c \in Call, NEW rt \in Source \cup {None}
        PROVE  TokenOf(c, rt) \in Token
    BY CallRecord DEF TypeOK, SendType, TokenOf, Token
  <1> QED BY <1>1, <1>2, <1>3

\* What moving a call on changes.
LEMMA GotoMoves ==
  ASSUME call \in [Call -> CallState], NEW c \in Call, NEW x \in CallPc, Goto(c, x)
  PROVE  /\ call' \in [Call -> CallState] /\ call'[c].pc = x
         /\ call'[c].key = call[c].key /\ call'[c].jar = call[c].jar /\ call'[c].since = call[c].since
         /\ call'[c].past = call[c].past /\ call'[c].signed = call[c].signed
         /\ call'[c].lock = call[c].lock /\ call'[c].rt = call[c].rt
         /\ \A d \in Call : d # c => call'[d] = call[d]
  <1>1. call[c] \in CallState
    OBVIOUS
  <1>2. [call[c] EXCEPT !.pc = x] \in CallState
    BY <1>1 DEF CallState
  <1>3. call' = [call EXCEPT ![c] = [call[c] EXCEPT !.pc = x]]
    BY DEF Goto
  <1> QED BY <1>1, <1>2, <1>3 DEF CallState

\* The steps of a send that only move it on, and where to.
LEMMA CallGoes ==
  ASSUME NEW c \in Call
  PROVE  /\ CheckWorkspace(c) => \E x \in {"look", "done", "own"} : Goto(c, x)
         /\ Look(c) => \E x \in {"superseded", "done", "locking"} : Goto(c, x)
         /\ Superseded(c) => Goto(c, "done")
         /\ RefreshDetached(c) => \E x \in {"done", "awaiting"} : Goto(c, x)
         /\ Requested(c) => Goto(c, "done")
         /\ OwnRequest(c) => Goto(c, "done")
         /\ Awaited(c) => \E x \in {"request", "done"} : Goto(c, x)
         /\ Lock(c) => Goto(c, "holding")
         /\ Dropped(c) => Goto(c, "done")
  BY DEF CheckWorkspace, Look, Superseded, RefreshDetached, Requested, OwnRequest, Awaited,
     Lock, Dropped, Returns

\* The second look at the cache moves the call on, or notes the refresh token
\* it found.
LEMMA RereadMoves ==
  ASSUME TypeOK, NEW c \in Call, Reread(c)
  PROVE  \/ \E x \in {"superseded", "done", "request"} : Goto(c, x)
         \/ /\ call'[c].pc = "register" /\ call'[c].rt # None
            /\ \E t \in entries[call[c].key] : t.rt = call'[c].rt
            /\ Current(call[c].key, call[c].since)
            /\ call'[c].key = call[c].key /\ call'[c].jar = call[c].jar /\ call'[c].since = call[c].since
            /\ call'[c].past = call[c].past /\ call'[c].signed = call[c].signed /\ call'[c].lock = call[c].lock
            /\ owns' = owns /\ got' = got
            /\ \A d \in Call : d # c => call'[d] = call[d]
  <1>1. CASE \E x \in {"superseded", "done", "request"} : Goto(c, x)
    BY <1>1
  <1>2. CASE ~\E x \in {"superseded", "done", "request"} : Goto(c, x)
    <2>1. PICK rt \in {t.rt : t \in entries[call[c].key]} \ {None} :
             /\ call' = [call EXCEPT ![c] = [call[c] EXCEPT !.pc = "register", !.rt = rt]]
             /\ owns' = owns /\ got' = got
      BY <1>2 DEF Reread, Returns
    <2>2. Current(call[c].key, call[c].since)
      BY <1>2 DEF Reread, Returns
    <2>3. call \in [Call -> CallState] /\ call[c] \in CallState
      BY DEF TypeOK, SendType
    <2>4. \A d \in Call : d # c => call'[d] = call[d]
      BY <2>1, <2>3
    <2>5. call'[c] = [call[c] EXCEPT !.pc = "register", !.rt = rt]
      BY <2>1, <2>3
    <2>6. /\ call'[c].pc = "register" /\ call'[c].rt = rt
          /\ call'[c].key = call[c].key /\ call'[c].jar = call[c].jar /\ call'[c].since = call[c].since
          /\ call'[c].past = call[c].past /\ call'[c].signed = call[c].signed /\ call'[c].lock = call[c].lock
      BY <2>3, <2>5 DEF CallState
    <2>7. \E t \in entries[call[c].key] : t.rt = rt
      BY <2>1
    <2> QED BY <2>1, <2>2, <2>4, <2>6, <2>7
  <1> QED BY <1>1, <1>2

-----------------------------------------------------------------------------
(* Types.                                                                  *)

\* The steps that change the record of a call keep its type.
LEMMA CallTyped ==
  ASSUME TypeOK, SessionInv, NEW c \in Call,
         (\E k \in Key : BuildContext(c, k)) \/ CallSteps(c) \/ Lock(c) \/ Dropped(c)
  PROVE  call' \in [Call -> CallState]
  <1>0. /\ call \in [Call -> CallState] /\ call[c] \in CallState
        /\ call[c].pc # "idle" => call[c].key \in Key
    BY DEF TypeOK, SendType, SessionInv, CallSince
  <1>1. ASSUME NEW k \in Key, BuildContext(c, k)
        PROVE  call' \in [Call -> CallState]
    <2> DEFINE r == [call[c] EXCEPT !.pc = "built", !.key = k, !.jar = jars[PartitionOf[k]]]
    <2>1. jars[PartitionOf[k]] \in Nat
      BY Parts DEF TypeOK, WorkspaceType
    <2>2. r \in CallState
      BY <1>0, <2>1 DEF CallState, CallPc
    <2>3. call' = [call EXCEPT ![c] = r]
      BY <1>1 DEF BuildContext
    <2> QED BY <1>0, <2>2, <2>3
  <1>2. CASE TakeSince(c)
    <2> DEFINE k == call[c].key
               r == [call[c] EXCEPT !.pc = "since", !.since = Generation(k), !.past = past[k], !.signed = signed[k]]
    <2>1. Generation(k) \in Counts /\ past[k] \in Nat /\ signed[k] \in Nat
      BY <1>0, <1>2, Parts DEF TypeOK, CacheType, TakeSince
    <2> HIDE DEF k
    <2>2. r \in CallState
      BY <1>0, <2>1 DEF CallState, CallPc
    <2>3. call' = [call EXCEPT ![c] = r]
      BY <1>2 DEF TakeSince, k
    <2> QED BY <1>0, <2>2, <2>3
  <1>3. CASE LockFor(c)
    <2> DEFINE r == [call[c] EXCEPT !.pc = "queued", !.lock = locks[call[c].key]]
    <2>1. locks[call[c].key] \in Nat
      BY <1>0, <1>3 DEF TypeOK, WorkspaceType, LockFor
    <2>2. r \in CallState
      BY <1>0, <2>1 DEF CallState, CallPc
    <2>3. call' = [call EXCEPT ![c] = r]
      BY <1>3 DEF LockFor
    <2> QED BY <1>0, <2>2, <2>3
  <1>4. CASE Reread(c)
    <2>1. CASE \E x \in CallPc : Goto(c, x)
      BY <1>0, <2>1, GotoMoves
    <2>2. CASE ~\E x \in CallPc : Goto(c, x)
      <3>1. PICK rt \in {t.rt : t \in entries[call[c].key]} \ {None} :
              call' = [call EXCEPT ![c].pc = "register", ![c].rt = rt]
        BY <1>4, <2>2 DEF Reread, Returns, CallPc
      <3>a. call[c].key \in Key
        BY <1>0, <1>4 DEF Reread
      <3>b. PICK t \in entries[call[c].key] : rt = t.rt
        BY <3>1
      <3>c. t \in Token
        BY <3>a, <3>b DEF TypeOK, CacheType
      <3>2. rt \in Source \cup {None}
        BY <3>b, <3>c DEF Token
      <3>3. [call[c] EXCEPT !.pc = "register", !.rt = rt] \in CallState
        BY <1>0, <3>2 DEF CallState, CallPc
      <3> QED BY <1>0, <3>1, <3>3
    <2> QED BY <2>1, <2>2
  <1>5. CASE CheckWorkspace(c) \/ Look(c) \/ Superseded(c) \/ RefreshDetached(c) \/ Requested(c)
             \/ OwnRequest(c) \/ Awaited(c) \/ Lock(c) \/ Dropped(c)
    <2>1. \E x \in CallPc : Goto(c, x)
      BY <1>5, CallGoes DEF CallPc
    <2> QED BY <1>0, <2>1, GotoMoves
  <1> QED BY <1>1, <1>2, <1>3, <1>4, <1>5 DEF CallSteps

\* An abort marks tasks and takes their registrations.
LEMMA AbortTyped ==
  ASSUME TypeOK, NEW ks \in SUBSET Key, Abort(ks)
  PROVE  task' \in [Call -> TaskState] /\ refreshes' \in [Key -> Call \cup {None}]
  <1>1. \A r \in TaskState : [r EXCEPT !.abort = TRUE] \in TaskState
    BY DEF TaskState
  <1> QED BY <1>1 DEF TypeOK, SendType, CacheType, Abort

\* The steps that change the record of a refresh task keep its type.
LEMMA TaskTyped ==
  ASSUME TypeOK, SessionInv, NEW c \in Call,
         RefreshDetached(c) \/ Awaited(c) \/ Dropped(c) \/ TaskSteps(c)
  PROVE  task' \in [Call -> TaskState]
  <1>0. /\ task \in [Call -> TaskState] /\ task[c] \in TaskState /\ call[c] \in CallState
        /\ call[c].pc # "idle" => call[c].key \in Key
    BY DEF TypeOK, SendType, SessionInv, CallSince
  <1>r. call[c].rt \in Source \cup {None} /\ c \in Source
    BY <1>0, CallRecord DEF Source
  <1> SUFFICES ASSUME task' # task
               PROVE  \E r \in TaskState : task' = [task EXCEPT ![c] = r]
    BY <1>0
  <1>1. CASE RefreshDetached(c)
    <2>1. [task[c] EXCEPT !.pc = "requesting", !.caller = TRUE] \in TaskState
      BY <1>0 DEF TaskState, TaskPc
    <2> QED BY <1>1, <2>1, ZenonT(60) DEF RefreshDetached
  <1>2. CASE Awaited(c) \/ Dropped(c)
    <2>1. [task[c] EXCEPT !.caller = FALSE] \in TaskState
      BY <1>0 DEF TaskState
    <2> QED BY <1>2, <2>1 DEF Awaited, Dropped
  <1>3. CASE IssuerHandles(c)
    <2>1. \A a \in Answer : [task[c] EXCEPT !.answer = a] \in TaskState
      BY <1>0 DEF TaskState
    <2>2. /\ [task[c] EXCEPT !.answer = "token", !.newRt = call[c].rt] \in TaskState
          /\ [task[c] EXCEPT !.answer = "token", !.newRt = c] \in TaskState
      BY <1>0, <1>r DEF TaskState, Answer
    <2>3. \/ \E a \in Answer : task' = [task EXCEPT ![c] = [task[c] EXCEPT !.answer = a]]
          \/ task' = [task EXCEPT ![c] = [task[c] EXCEPT !.answer = "token", !.newRt = call[c].rt]]
          \/ task' = [task EXCEPT ![c] = [task[c] EXCEPT !.answer = "token", !.newRt = c]]
      <3>1. CASE \E a \in Answer \ {"token"} : task' = [task EXCEPT ![c].answer = a]
        BY <3>1
      <3>2. CASE task' = [task EXCEPT ![c].answer = "failed"]
        BY <3>2 DEF Answer
      <3>3. CASE \/ task' = [task EXCEPT ![c].answer = "token", ![c].newRt = call[c].rt]
                 \/ task' = [task EXCEPT ![c].answer = "token", ![c].newRt = c]
        BY <3>3
      <3> QED BY <1>3, <3>1, <3>2, <3>3 DEF IssuerHandles
    <2> QED BY <2>1, <2>2, <2>3
  <1>4. CASE TaskAnswered(c)
    <2>1. [task[c] EXCEPT !.pc = "answered"] \in TaskState
      BY <1>0 DEF TaskState, TaskPc
    <2> QED BY <1>4, <2>1 DEF TaskAnswered
  <1>5. CASE TaskAborted(c)
    <2>1. [task[c] EXCEPT !.pc = "aborted", !.result = "superseded"] \in TaskState
      BY <1>0 DEF TaskState, TaskPc, Result
    <2> QED BY <1>5, <2>1 DEF TaskAborted
  <1>6. CASE RefreshFinished(c)
    <2>1. [task[c] EXCEPT !.pc = "finishing"] \in TaskState
      BY <1>0 DEF TaskState, TaskPc
    <2> QED BY <1>6, <2>1 DEF RefreshFinished
  <1>7. CASE TaskStores(c) \/ TaskFails(c)
    <2>1. \A y \in Result, z \in SUBSET Token :
            [task[c] EXCEPT !.pc = "done", !.result = y, !.token = z] \in TaskState
      BY <1>0 DEF TaskState, TaskPc
    <2>2. PICK y \in Result,
               z \in {{}, {TokenOf(c, task[c].newRt)}, SupersededAnswer(call[c].key, call[c].since)} :
               TaskEnds(c, y, z)
      BY <1>7 DEF TaskStores, TaskFails, Result
    <2>3. z \in SUBSET Token
      <3>1. call[c].pc # "idle"
        BY <1>7, TaskRecord DEF TaskStores, TaskFails, SessionInv, AnswerInv, Begun, NoTask
      <3>2. task[c].newRt \in Source \cup {None} /\ call[c].since \in Counts /\ call[c].key \in Key
        BY <1>0, <3>1, TaskRecord, CallRecord
      <3> QED BY <2>2, <3>2, Parts
    <2> QED BY <2>1, <2>2, <2>3 DEF TaskEnds
  <1> QED BY <1>1, <1>2, <1>3, <1>4, <1>5, <1>6, <1>7 DEF TaskSteps

\* The steps of a sign-in keep the type of its record.
LEMMA SignInTyped ==
  ASSUME TypeOK, SessionInv, NEW s \in SignIn, (\E k \in Key : SignInBuilds(s, k)) \/ SignInSteps(s)
  PROVE  signing' \in [SignIn -> SignInState]
  <1>0. /\ signing \in [SignIn -> SignInState] /\ signing[s] \in SignInState
        /\ signing[s].pc # "idle" => signing[s].key \in Key
    BY DEF TypeOK, SendType, SessionInv, SignInSince
  <1>1. ASSUME NEW k \in Key, SignInBuilds(s, k)
        PROVE  signing' \in [SignIn -> SignInState]
    <2>1. jars[PartitionOf[k]] \in Nat
      BY Parts DEF TypeOK, WorkspaceType
    <2>2. [signing[s] EXCEPT !.pc = "built", !.key = k, !.jar = jars[PartitionOf[k]]] \in SignInState
      BY <1>0, <2>1 DEF SignInState
    <2> QED BY <1>0, <1>1, <2>2 DEF SignInBuilds
  <1>2. CASE SignInStarts(s)
    <2>1. Generation(signing[s].key) \in Counts /\ past[signing[s].key] \in Nat
      BY <1>0, <1>2, Parts DEF TypeOK, CacheType, SignInStarts
    <2>2. [signing[s] EXCEPT !.pc = "browser", !.since = Generation(signing[s].key), !.past = past[signing[s].key]]
            \in SignInState
      BY <1>0, <2>1 DEF SignInState
    <2> QED BY <1>0, <1>2, <2>2 DEF SignInStarts
  <1>3. CASE Redeem(s) \/ StoreSignIn(s)
    <2>1. \A x \in {"redeeming", "done"} : [signing[s] EXCEPT !.pc = x] \in SignInState
      BY <1>0 DEF SignInState
    <2> QED BY <1>0, <1>3, <2>1 DEF Redeem, StoreSignIn
  <1> QED BY <1>1, <1>2, <1>3 DEF SignInSteps

\* What may be put into the cache, and what a call may be answered with.
LEMMA EntriesTyped ==
  ASSUME TypeOK, SessionInv
  PROVE  /\ \A k \in Key, x \in Token : Insert(k, x) => entries' \in [Key -> SUBSET Token] /\ entries' = [entries EXCEPT ![k] = {x}]
         /\ \A c \in Call : call[c].pc # "idle" => call[c].key \in Key /\ entries[call[c].key] \in SUBSET Token
         /\ \A c \in Call : task[c].token \in SUBSET Token /\ (task[c].pc # "none" => call[c].pc # "idle")
         /\ \A c \in Call : TokenOf(c, c) \in Token /\ TokenOf(c, None) \in Token /\ TokenOf(c, task[c].newRt) \in Token
         /\ \A c \in Call : call[c].pc # "idle" => SupersededAnswer(call[c].key, call[c].since) \in SUBSET Token
  <1>1. \A k \in Key, x \in Token : Insert(k, x) => entries' \in [Key -> SUBSET Token] /\ entries' = [entries EXCEPT ![k] = {x}]
    BY DEF TypeOK, CacheType, Insert
  <1>2. ASSUME NEW c \in Call
        PROVE  /\ call[c] \in CallState /\ task[c] \in TaskState
               /\ call[c].pc # "idle" => call[c].key \in Key
               /\ task[c].pc # "none" => call[c].pc # "idle"
    BY DEF TypeOK, SendType, SessionInv, CallSince, AnswerInv, Begun, NoTask
  <1>3. \A c \in Call : call[c].since \in Counts /\ task[c].newRt \in Source \cup {None} /\ task[c].token \in SUBSET Token
    BY <1>2, CallRecord, TaskRecord
  <1>4. \A k \in Key : entries[k] \in SUBSET Token
    BY DEF TypeOK, CacheType
  <1> QED BY <1>1, <1>2, <1>3, <1>4, Parts DEF Source

\* Every step keeps the types.
LEMMA StepTyped ==
  ASSUME TypeOK, SessionInv, Next
  PROVE  TypeOK'
  <1> USE TokenAssumption
  <1>0. CacheType /\ WorkspaceType /\ SendType /\ SessionInv
    BY DEF TypeOK
  <1>1. CASE Clear
    <2>a. task' \in [Call -> TaskState] /\ refreshes' \in [Key -> Call \cup {None}]
      BY <1>1, AbortTyped DEF Clear
    <2>b. entries' \in [Key -> SUBSET Token] /\ \A j \in Key : \A x, y \in entries'[j] : x = y
      BY <1>0, <1>1 DEF CacheType, Clear
    <2>1. CacheType'
      BY <1>0, <1>1, <2>a, <2>b DEF CacheType, Clear, Zero, Passed
    <2>2. WorkspaceType'
      BY <1>0, <1>1 DEF WorkspaceType, Clear, workspace
    <2>7. SendType'
      BY <1>0, <1>1, <2>a DEF SendType, Clear, cache, workspace
    <2> QED BY <2>1, <2>2, <2>7 DEF TypeOK
  <1>2. ASSUME NEW k \in Key, Remove(k)
         PROVE  TypeOK'
    <2>a. task' \in [Call -> TaskState] /\ refreshes' \in [Key -> Call \cup {None}]
      BY <1>2, AbortTyped DEF Remove
    <2>b. entries' \in [Key -> SUBSET Token] /\ \A j \in Key : \A x, y \in entries'[j] : x = y
      BY <1>0, <1>2 DEF CacheType, Remove
    <2>1. CacheType'
      BY <1>0, <1>2, <2>a, <2>b DEF CacheType, Remove, Passed
    <2>2. WorkspaceType'
      BY <1>0, <1>2 DEF WorkspaceType, Remove, workspace
    <2>7. SendType'
      BY <1>0, <1>2, <2>a DEF SendType, Remove, cache, workspace
    <2> QED BY <2>1, <2>2, <2>7 DEF TypeOK
  <1>3. ASSUME NEW k \in Key, Expire(k)
         PROVE  TypeOK'
    <2>a. \A u \in Token : [u EXCEPT !.usable = FALSE] \in Token
      BY DEF Token
    <2>b. \A j \in Key : \A x \in entries'[j] :
            IF j = k THEN \E u \in entries[k] : x = [u EXCEPT !.usable = FALSE] ELSE x \in entries[j]
      BY <1>0, <1>3 DEF CacheType, Expire
    <2>c. entries' \in [Key -> SUBSET Token]
      BY <1>0, <1>3, <2>a DEF CacheType, Expire
    <2>d. ASSUME NEW j \in Key, NEW x \in entries'[j], NEW y \in entries'[j]
          PROVE  x = y
      <3>1. \A u, v \in entries[j] : u = v
        BY <1>0 DEF CacheType
      <3>2. CASE j = k
        <4>1. PICK u \in entries[k] : x = [u EXCEPT !.usable = FALSE]
          BY <2>b, <2>d, <3>2
        <4>2. PICK v \in entries[k] : y = [v EXCEPT !.usable = FALSE]
          BY <2>b, <2>d, <3>2
        <4> QED BY <3>1, <3>2, <4>1, <4>2
      <3>3. CASE j # k
        BY <2>b, <2>d, <3>1, <3>3
      <3> QED BY <3>2, <3>3
    <2>1. CacheType'
      BY <1>0, <1>3, <2>c, <2>d DEF CacheType, Expire, counters, history
    <2>2. WorkspaceType'
      BY <1>0, <1>3 DEF WorkspaceType, Expire, workspace
    <2>7. SendType'
      BY <1>0, <1>3 DEF SendType, Expire, cache, workspace
    <2> QED BY <2>1, <2>2, <2>7 DEF TypeOK
  <1>4. ASSUME NEW p \in Partition, DeleteWorkspace(p)
         PROVE  TypeOK'
    <2>1. CacheType'
      BY <1>0, <1>4 DEF CacheType, DeleteWorkspace, cache, counters, history
    <2>2. WorkspaceType'
      BY <1>0, <1>4 DEF WorkspaceType, DeleteWorkspace, workspace
    <2>7. SendType'
      BY <1>0, <1>4 DEF SendType, DeleteWorkspace, cache, workspace
    <2> QED BY <2>1, <2>2, <2>7 DEF TypeOK
  <1>5. ASSUME NEW p \in Partition, RestoreWorkspace(p)
         PROVE  TypeOK'
    <2>1. CacheType'
      BY <1>0, <1>5 DEF CacheType, RestoreWorkspace, cache, counters, history
    <2>2. WorkspaceType'
      BY <1>0, <1>5 DEF WorkspaceType, RestoreWorkspace, workspace
    <2>7. SendType'
      BY <1>0, <1>5 DEF SendType, RestoreWorkspace, cache, workspace
    <2> QED BY <2>1, <2>2, <2>7 DEF TypeOK
  <1>6. ASSUME NEW p \in Partition, ClearJar(p)
         PROVE  TypeOK'
    <2>1. CacheType'
      BY <1>0, <1>6 DEF CacheType, ClearJar, cache, counters, history
    <2>2. WorkspaceType'
      BY <1>0, <1>6 DEF WorkspaceType, ClearJar, workspace
    <2>7. SendType'
      BY <1>0, <1>6 DEF SendType, ClearJar, cache, workspace
    <2> QED BY <2>1, <2>2, <2>7 DEF TypeOK
  <1>7. ASSUME NEW p \in Partition, ClearPartition(p)
         PROVE  TypeOK'
    <2>a. task' \in [Call -> TaskState] /\ refreshes' \in [Key -> Call \cup {None}]
      BY <1>7, AbortTyped DEF ClearPartition, KeysOf
    <2>b. entries' \in [Key -> SUBSET Token] /\ \A j \in Key : \A x, y \in entries'[j] : x = y
      BY <1>0, <1>7 DEF CacheType, ClearPartition
    <2>1. CacheType'
      BY <1>0, <1>7, <2>a, <2>b DEF CacheType, ClearPartition, Zero, Passed, KeysOf
    <2>2. WorkspaceType'
      BY <1>0, <1>7 DEF WorkspaceType, ClearPartition, KeysOf, workspace
    <2>7. SendType'
      BY <1>0, <1>7, <2>a DEF SendType, ClearPartition, cache, workspace
    <2> QED BY <2>1, <2>2, <2>7 DEF TypeOK
  <1>8. ASSUME NEW p \in Partition, DropLocks(p)
         PROVE  TypeOK'
    <2>1. CacheType'
      BY <1>0, <1>8 DEF CacheType, DropLocks, cache, counters, history
    <2>2. WorkspaceType'
      BY <1>0, <1>8 DEF WorkspaceType, DropLocks, KeysOf, workspace
    <2>7. SendType'
      BY <1>0, <1>8 DEF SendType, DropLocks, cache, workspace
    <2> QED BY <2>1, <2>2, <2>7 DEF TypeOK
  <1>9. ASSUME NEW c \in Call, NEW k \in Key, BuildContext(c, k)
         PROVE  TypeOK'
    <2>1. CacheType'
      BY <1>0, <1>9 DEF CacheType, BuildContext, cache, counters, history
    <2>2. WorkspaceType'
      BY <1>0, <1>9 DEF WorkspaceType, BuildContext, workspace
    <2>3. call' \in [Call -> CallState]
      BY <1>9, CallTyped DEF CallSteps
    <2>7. SendType'
      BY <1>0, <1>9, <2>3 DEF SendType, BuildContext, cache, workspace
    <2> QED BY <2>1, <2>2, <2>7 DEF TypeOK
  <1>10. ASSUME NEW c \in Call, TakeSince(c)
         PROVE  TypeOK'
    <2>1. CacheType'
      BY <1>0, <1>10 DEF CacheType, TakeSince, cache, counters, history
    <2>2. WorkspaceType'
      BY <1>0, <1>10 DEF WorkspaceType, TakeSince, workspace
    <2>3. call' \in [Call -> CallState]
      BY <1>10, CallTyped DEF CallSteps
    <2>7. SendType'
      BY <1>0, <1>10, <2>3 DEF SendType, TakeSince, cache, workspace
    <2> QED BY <2>1, <2>2, <2>7 DEF TypeOK
  <1>11. ASSUME NEW c \in Call, CheckWorkspace(c)
         PROVE  TypeOK'
    <2>1. CacheType'
      BY <1>0, <1>11 DEF CacheType, CheckWorkspace, cache, counters, history
    <2>2. WorkspaceType'
      BY <1>0, <1>11 DEF WorkspaceType, CheckWorkspace, workspace
    <2>3. call' \in [Call -> CallState]
      BY <1>11, CallTyped DEF CallSteps
    <2>7. SendType'
      BY <1>0, <1>11, <2>3 DEF SendType, CheckWorkspace, cache, workspace
    <2> QED BY <2>1, <2>2, <2>7 DEF TypeOK
  <1>12. ASSUME NEW c \in Call, Look(c)
         PROVE  TypeOK'
    <2>1. CacheType'
      BY <1>0, <1>12 DEF CacheType, Look, cache, counters, history
    <2>2. WorkspaceType'
      BY <1>0, <1>12 DEF WorkspaceType, Look, workspace
    <2>3. call' \in [Call -> CallState]
      BY <1>12, CallTyped DEF CallSteps
    <2>6. got' \in [Call -> SUBSET Token]
      BY <1>0, <1>12, EntriesTyped DEF SendType, Look, Returns
    <2>7. SendType'
      BY <1>0, <1>12, <2>3, <2>6 DEF SendType, Look, Returns, cache, workspace
    <2> QED BY <2>1, <2>2, <2>7 DEF TypeOK
  <1>13. ASSUME NEW c \in Call, Superseded(c)
         PROVE  TypeOK'
    <2>1. CacheType'
      BY <1>0, <1>13 DEF CacheType, Superseded, cache, counters, history
    <2>2. WorkspaceType'
      BY <1>0, <1>13 DEF WorkspaceType, Superseded, workspace
    <2>3. call' \in [Call -> CallState]
      BY <1>13, CallTyped DEF CallSteps
    <2>6. got' \in [Call -> SUBSET Token]
      BY <1>0, <1>13, EntriesTyped DEF SendType, Superseded, Returns
    <2>7. SendType'
      BY <1>0, <1>13, <2>3, <2>6 DEF SendType, Superseded, Returns, cache, workspace
    <2> QED BY <2>1, <2>2, <2>7 DEF TypeOK
  <1>14. ASSUME NEW c \in Call, LockFor(c)
         PROVE  TypeOK'
    <2>1. CacheType'
      BY <1>0, <1>14 DEF CacheType, LockFor, cache, counters, history
    <2>2. WorkspaceType'
      BY <1>0, <1>14 DEF WorkspaceType, LockFor, workspace
    <2>3. call' \in [Call -> CallState]
      BY <1>14, CallTyped DEF CallSteps
    <2>7. SendType'
      BY <1>0, <1>14, <2>3 DEF SendType, LockFor, cache, workspace
    <2> QED BY <2>1, <2>2, <2>7 DEF TypeOK
  <1>15. ASSUME NEW c \in Call, Reread(c)
         PROVE  TypeOK'
    <2>1. CacheType'
      BY <1>0, <1>15 DEF CacheType, Reread, cache, counters, history
    <2>2. WorkspaceType'
      BY <1>0, <1>15 DEF WorkspaceType, Reread, workspace
    <2>3. call' \in [Call -> CallState]
      BY <1>15, CallTyped DEF CallSteps
    <2>6. got' \in [Call -> SUBSET Token]
      BY <1>0, <1>15, EntriesTyped DEF SendType, Reread, Returns
    <2>7. SendType'
      BY <1>0, <1>15, <2>3, <2>6 DEF SendType, Reread, Returns, cache, workspace
    <2> QED BY <2>1, <2>2, <2>7 DEF TypeOK
  <1>16. ASSUME NEW c \in Call, RefreshDetached(c)
         PROVE  TypeOK'
    <2>a. call[c].key \in Key
      BY <1>16, EntriesTyped DEF RefreshDetached
    <2>1. CacheType'
      BY <1>0, <1>16, <2>a DEF CacheType, RefreshDetached, counters, history
    <2>2. WorkspaceType'
      BY <1>0, <1>16 DEF WorkspaceType, RefreshDetached, workspace
    <2>3. call' \in [Call -> CallState]
      BY <1>16, CallTyped DEF CallSteps
    <2>4. task' \in [Call -> TaskState]
      BY <1>16, TaskTyped DEF TaskSteps
    <2>6. got' \in [Call -> SUBSET Token]
      BY <1>0, <1>16, EntriesTyped DEF SendType, RefreshDetached, Returns
    <2>7. SendType'
      BY <1>0, <1>16, <2>3, <2>4, <2>6 DEF SendType, RefreshDetached, Returns, cache, workspace
    <2> QED BY <2>1, <2>2, <2>7 DEF TypeOK
  <1>17. ASSUME NEW c \in Call, Requested(c)
         PROVE  TypeOK'
    <2>a. entries' = entries \/ \E x \in Token : Insert(call[c].key, x)
      BY <1>17, EntriesTyped DEF Requested
    <2>b. call[c].key \in Key
      BY <1>17, EntriesTyped DEF Requested
    <2>c. entries' \in [Key -> SUBSET Token] /\ \A j \in Key : \A x, y \in entries'[j] : x = y
      BY <1>0, <2>a, <2>b, EntriesTyped DEF CacheType
    <2>1. CacheType'
      BY <1>0, <1>17, <2>c DEF CacheType, Requested, counters, history
    <2>2. WorkspaceType'
      BY <1>0, <1>17 DEF WorkspaceType, Requested, workspace
    <2>3. call' \in [Call -> CallState]
      BY <1>17, CallTyped DEF CallSteps
    <2>6. got' \in [Call -> SUBSET Token]
      BY <1>0, <1>17, EntriesTyped DEF SendType, Requested, Returns
    <2>7. SendType'
      BY <1>0, <1>17, <2>3, <2>6 DEF SendType, Requested, Returns, cache, workspace
    <2> QED BY <2>1, <2>2, <2>7 DEF TypeOK
  <1>18. ASSUME NEW c \in Call, OwnRequest(c)
         PROVE  TypeOK'
    <2>1. CacheType'
      BY <1>0, <1>18 DEF CacheType, OwnRequest, cache, counters, history
    <2>2. WorkspaceType'
      BY <1>0, <1>18 DEF WorkspaceType, OwnRequest, workspace
    <2>3. call' \in [Call -> CallState]
      BY <1>18, CallTyped DEF CallSteps
    <2>7. SendType'
      BY <1>0, <1>18, <2>3 DEF SendType, OwnRequest, cache, workspace
    <2> QED BY <2>1, <2>2, <2>7 DEF TypeOK
  <1>19. ASSUME NEW c \in Call, Awaited(c)
         PROVE  TypeOK'
    <2>1. CacheType'
      BY <1>0, <1>19 DEF CacheType, Awaited, cache, counters, history
    <2>2. WorkspaceType'
      BY <1>0, <1>19 DEF WorkspaceType, Awaited, workspace
    <2>3. call' \in [Call -> CallState]
      BY <1>19, CallTyped DEF CallSteps
    <2>4. task' \in [Call -> TaskState]
      BY <1>19, TaskTyped DEF TaskSteps
    <2>6. got' \in [Call -> SUBSET Token]
      BY <1>0, <1>19, EntriesTyped DEF SendType, Awaited, Returns
    <2>7. SendType'
      BY <1>0, <1>19, <2>3, <2>4, <2>6 DEF SendType, Awaited, Returns, cache, workspace
    <2> QED BY <2>1, <2>2, <2>7 DEF TypeOK
  <1>20. ASSUME NEW c \in Call, Lock(c)
         PROVE  TypeOK'
    <2>1. CacheType'
      BY <1>0, <1>20 DEF CacheType, Lock, cache, counters, history
    <2>2. WorkspaceType'
      BY <1>0, <1>20 DEF WorkspaceType, Lock, workspace
    <2>3. call' \in [Call -> CallState]
      BY <1>20, CallTyped DEF CallSteps
    <2>7. SendType'
      BY <1>0, <1>20, <2>3 DEF SendType, Lock, cache, workspace
    <2> QED BY <2>1, <2>2, <2>7 DEF TypeOK
  <1>21. ASSUME NEW c \in Call, Dropped(c)
         PROVE  TypeOK'
    <2>1. CacheType'
      BY <1>0, <1>21 DEF CacheType, Dropped, cache, counters, history
    <2>2. WorkspaceType'
      BY <1>0, <1>21 DEF WorkspaceType, Dropped, workspace
    <2>3. call' \in [Call -> CallState]
      BY <1>21, CallTyped DEF CallSteps
    <2>4. task' \in [Call -> TaskState]
      BY <1>21, TaskTyped DEF TaskSteps
    <2>7. SendType'
      BY <1>0, <1>21, <2>3, <2>4 DEF SendType, Dropped, cache, workspace
    <2> QED BY <2>1, <2>2, <2>7 DEF TypeOK
  <1>22. ASSUME NEW c \in Call, IssuerHandles(c)
         PROVE  TypeOK'
    <2>1. CacheType'
      BY <1>0, <1>22 DEF CacheType, IssuerHandles, cache, counters, history
    <2>2. WorkspaceType'
      BY <1>0, <1>22 DEF WorkspaceType, IssuerHandles, workspace
    <2>4. task' \in [Call -> TaskState]
      BY <1>22, TaskTyped DEF TaskSteps
    <2>6. rotated' \in SUBSET Source /\ lost' \in SUBSET Source
      <3>1. task[c] \in TaskState /\ call[c].rt \in Source
        BY <1>0, <1>22 DEF SendType, IssuerHandles, SessionInv, AnswerInv
      <3> QED BY <1>0, <1>22, <3>1 DEF SendType, IssuerHandles
    <2>7. SendType'
      BY <1>0, <1>22, <2>4, <2>6 DEF SendType, IssuerHandles, cache, workspace
    <2> QED BY <2>1, <2>2, <2>7 DEF TypeOK
  <1>23. ASSUME NEW c \in Call, TaskAnswered(c)
         PROVE  TypeOK'
    <2>1. CacheType'
      BY <1>0, <1>23 DEF CacheType, TaskAnswered, cache, counters, history
    <2>2. WorkspaceType'
      BY <1>0, <1>23 DEF WorkspaceType, TaskAnswered, workspace
    <2>4. task' \in [Call -> TaskState]
      BY <1>23, TaskTyped DEF TaskSteps
    <2>7. SendType'
      BY <1>0, <1>23, <2>4 DEF SendType, TaskAnswered, cache, workspace
    <2> QED BY <2>1, <2>2, <2>7 DEF TypeOK
  <1>24. ASSUME NEW c \in Call, TaskAborted(c)
         PROVE  TypeOK'
    <2>1. CacheType'
      BY <1>0, <1>24 DEF CacheType, TaskAborted, cache, counters, history
    <2>2. WorkspaceType'
      BY <1>0, <1>24 DEF WorkspaceType, TaskAborted, workspace
    <2>4. task' \in [Call -> TaskState]
      BY <1>24, TaskTyped DEF TaskSteps
    <2>7. SendType'
      BY <1>0, <1>24, <2>4 DEF SendType, TaskAborted, cache, workspace
    <2> QED BY <2>1, <2>2, <2>7 DEF TypeOK
  <1>25. ASSUME NEW c \in Call, RefreshFinished(c)
         PROVE  TypeOK'
    <2>a. call[c].key \in Key
      BY <1>25, EntriesTyped DEF RefreshFinished
    <2>1. CacheType'
      BY <1>0, <1>25, <2>a DEF CacheType, RefreshFinished, counters, history
    <2>2. WorkspaceType'
      BY <1>0, <1>25 DEF WorkspaceType, RefreshFinished, workspace
    <2>4. task' \in [Call -> TaskState]
      BY <1>25, TaskTyped DEF TaskSteps
    <2>7. SendType'
      BY <1>0, <1>25, <2>4 DEF SendType, RefreshFinished, cache, workspace
    <2> QED BY <2>1, <2>2, <2>7 DEF TypeOK
  <1>26. ASSUME NEW c \in Call, TaskStores(c)
         PROVE  TypeOK'
    <2>a. entries' = entries \/ \E x \in Token : Insert(call[c].key, x)
      BY <1>26, EntriesTyped DEF TaskStores
    <2>b. call[c].key \in Key
      BY <1>26, EntriesTyped DEF TaskStores
    <2>c. entries' \in [Key -> SUBSET Token] /\ \A j \in Key : \A x, y \in entries'[j] : x = y
      BY <1>0, <2>a, <2>b, EntriesTyped DEF CacheType
    <2>1. CacheType'
      BY <1>0, <1>26, <2>c DEF CacheType, TaskStores, counters, history
    <2>2. WorkspaceType'
      BY <1>0, <1>26 DEF WorkspaceType, TaskStores, workspace
    <2>4. task' \in [Call -> TaskState]
      BY <1>26, TaskTyped DEF TaskSteps
    <2>7. SendType'
      BY <1>0, <1>26, <2>4 DEF SendType, TaskStores, TaskEnds, cache, workspace
    <2> QED BY <2>1, <2>2, <2>7 DEF TypeOK
  <1>27. ASSUME NEW c \in Call, TaskFails(c)
         PROVE  TypeOK'
    <2>a. call[c].key \in Key
      BY <1>27, EntriesTyped DEF TaskFails
    <2>b. entries' = entries \/ entries' = [entries EXCEPT ![call[c].key] = {t \in @ : t.rt # call[c].rt}]
      BY <1>27 DEF TaskFails
    <2>c. entries' \in [Key -> SUBSET Token] /\ \A j \in Key : \A x, y \in entries'[j] : x = y
      BY <1>0, <2>a, <2>b DEF CacheType
    <2>1. CacheType'
      BY <1>0, <1>27, <2>c DEF CacheType, TaskFails, counters, history
    <2>2. WorkspaceType'
      BY <1>0, <1>27 DEF WorkspaceType, TaskFails, workspace
    <2>4. task' \in [Call -> TaskState]
      BY <1>27, TaskTyped DEF TaskSteps
    <2>7. SendType'
      BY <1>0, <1>27, <2>4 DEF SendType, TaskFails, TaskEnds, cache, workspace
    <2> QED BY <2>1, <2>2, <2>7 DEF TypeOK
  <1>28. ASSUME NEW s \in SignIn, NEW k \in Key, SignInBuilds(s, k)
         PROVE  TypeOK'
    <2>1. CacheType'
      BY <1>0, <1>28 DEF CacheType, SignInBuilds, cache, counters, history
    <2>2. WorkspaceType'
      BY <1>0, <1>28 DEF WorkspaceType, SignInBuilds, workspace
    <2>5. signing' \in [SignIn -> SignInState]
      BY <1>28, SignInTyped DEF SignInSteps
    <2>7. SendType'
      BY <1>0, <1>28, <2>5 DEF SendType, SignInBuilds, cache, workspace
    <2> QED BY <2>1, <2>2, <2>7 DEF TypeOK
  <1>29. ASSUME NEW s \in SignIn, SignInStarts(s)
         PROVE  TypeOK'
    <2>1. CacheType'
      BY <1>0, <1>29 DEF CacheType, SignInStarts, cache, counters, history
    <2>2. WorkspaceType'
      BY <1>0, <1>29 DEF WorkspaceType, SignInStarts, workspace
    <2>5. signing' \in [SignIn -> SignInState]
      BY <1>29, SignInTyped DEF SignInSteps
    <2>7. SendType'
      BY <1>0, <1>29, <2>5 DEF SendType, SignInStarts, cache, workspace
    <2> QED BY <2>1, <2>2, <2>7 DEF TypeOK
  <1>30. ASSUME NEW s \in SignIn, Redeem(s)
         PROVE  TypeOK'
    <2>1. CacheType'
      BY <1>0, <1>30 DEF CacheType, Redeem, cache, counters, history
    <2>2. WorkspaceType'
      BY <1>0, <1>30 DEF WorkspaceType, Redeem, workspace
    <2>5. signing' \in [SignIn -> SignInState]
      BY <1>30, SignInTyped DEF SignInSteps
    <2>7. SendType'
      BY <1>0, <1>30, <2>5 DEF SendType, Redeem, cache, workspace
    <2> QED BY <2>1, <2>2, <2>7 DEF TypeOK
  <1>31. ASSUME NEW s \in SignIn, StoreSignIn(s)
         PROVE  TypeOK'
    <2>a. signing[s] \in SignInState /\ signing[s].key \in Key /\ s \in Source
      BY <1>0, <1>31 DEF SendType, SessionInv, SignInSince, StoreSignIn, Source
    <2>d. [usable |-> TRUE, rt |-> s, past |-> signing[s].past, signed |-> signed[signing[s].key] + 1, jar |-> signing[s].jar] \in Token
      BY <1>0, <2>a, SignInRecord DEF Token, CacheType
    <2>b. \/ entries' = entries
          \/ \E x \in Token : entries' = [entries EXCEPT ![signing[s].key] = {x}]
      BY <1>31, <2>d DEF StoreSignIn
    <2>c. entries' \in [Key -> SUBSET Token] /\ \A j \in Key : \A x, y \in entries'[j] : x = y
      BY <1>0, <2>a, <2>b DEF CacheType
    <2>1. CacheType'
      BY <1>0, <1>31, <2>a, <2>c DEF CacheType, StoreSignIn
    <2>2. WorkspaceType'
      BY <1>0, <1>31 DEF WorkspaceType, StoreSignIn, workspace
    <2>5. signing' \in [SignIn -> SignInState]
      BY <1>31, SignInTyped DEF SignInSteps
    <2>7. SendType'
      BY <1>0, <1>31, <2>5 DEF SendType, StoreSignIn, cache, workspace
    <2> QED BY <2>1, <2>2, <2>7 DEF TypeOK
  <1> QED BY <1>1, <1>2, <1>3, <1>4, <1>5, <1>6, <1>7, <1>8, <1>9, <1>10, <1>11, <1>12, <1>13, <1>14,
             <1>15, <1>16, <1>17, <1>18, <1>19, <1>20, <1>21, <1>22, <1>23, <1>24, <1>25, <1>26, <1>27, <1>28,
             <1>29, <1>30, <1>31
            DEF Next, Deletes, CallSteps, TaskSteps, SignInSteps

-----------------------------------------------------------------------------
(* Sessions: what is answered late is dropped.                             *)

\* What a call or a sign-in noted when it began stays as it was.
NotedCall(c) ==
  /\ call[c].pc # "idle" => call'[c].pc # "idle" /\ call'[c].key = call[c].key /\ call'[c].jar = call[c].jar
  /\ Begun(c) => /\ call'[c].pc \notin {"idle", "built"} /\ call'[c].since = call[c].since
                 /\ call'[c].past = call[c].past /\ call'[c].signed = call[c].signed
NotedSignIn(s) ==
  /\ signing[s].pc # "idle" =>
       signing'[s].pc # "idle" /\ signing'[s].key = signing[s].key /\ signing'[s].jar = signing[s].jar
  /\ Opened(s) => /\ signing'[s].pc \notin {"idle", "built"} /\ signing'[s].since = signing[s].since
                  /\ signing'[s].past = signing[s].past

\* No step changes what a call noted.
LEMMA CallsNoted ==
  ASSUME TypeOK, Next, NEW d \in Call
  PROVE  NotedCall(d)
  <1>0. call \in [Call -> CallState] /\ call[d] \in CallState
    BY DEF TypeOK, SendType
  <1>1. ASSUME NEW c \in Call, NEW k \in Key, BuildContext(c, k) PROVE NotedCall(d)
    BY <1>0, <1>1 DEF BuildContext, NotedCall, Begun, CallState
  <1>2. ASSUME NEW c \in Call, TakeSince(c) \/ LockFor(c) PROVE NotedCall(d)
    BY <1>0, <1>2 DEF TakeSince, LockFor, NotedCall, Begun, CallState
  <1>3. ASSUME NEW c \in Call, Reread(c) PROVE NotedCall(d)
    <2>1. CASE \E x \in {"superseded", "done", "request"} : Goto(c, x)
      <3>1. PICK x \in CallPc \ {"idle", "built"} : Goto(c, x)
        BY <2>1 DEF CallPc
      <3> QED BY <1>0, <3>1, GotoMoves DEF NotedCall, Begun
    <2>2. CASE ~\E x \in {"superseded", "done", "request"} : Goto(c, x)
      BY <1>3, <2>2, RereadMoves DEF NotedCall, Begun
    <2> QED BY <2>1, <2>2
  <1>4. ASSUME NEW c \in Call,
               CheckWorkspace(c) \/ Look(c) \/ Superseded(c) \/ RefreshDetached(c) \/ Requested(c)
                 \/ OwnRequest(c) \/ Awaited(c) \/ Lock(c) \/ Dropped(c)
        PROVE  NotedCall(d)
    <2>1. PICK x \in CallPc \ {"idle", "built"} : Goto(c, x)
      BY <1>4, CallGoes DEF CallPc
    <2> QED BY <1>0, <2>1, GotoMoves DEF NotedCall, Begun
  <1>5. ASSUME call' = call PROVE NotedCall(d)
    BY <1>5 DEF NotedCall, Begun
  <1> QED
    <2>1. ASSUME ~\E c \in Call : (\E k \in Key : BuildContext(c, k)) \/ CallSteps(c) \/ Lock(c) \/ Dropped(c)
          PROVE  call' = call
      BY <2>1
      DEF Next, Deletes, TaskSteps, SignInSteps, Clear, Remove, Expire, DeleteWorkspace,
          RestoreWorkspace,
                  ClearJar, ClearPartition, DropLocks, IssuerHandles, TaskAnswered, TaskAborted, RefreshFinished,
                  TaskStores, TaskFails, SignInBuilds, SignInStarts, Redeem, StoreSignIn
    <2> QED BY <1>1, <1>2, <1>3, <1>4, <1>5, <2>1 DEF CallSteps

\* Only its own steps change a sign-in.
LEMMA SignInsStand ==
  ASSUME Next, ~\E s \in SignIn : (\E k \in Key : SignInBuilds(s, k)) \/ SignInSteps(s)
  PROVE  signing' = signing
  <1> DEFINE Stand == signing' = signing
  <1>1. ASSUME Clear \/ \E k \in Key : Remove(k) \/ Expire(k) PROVE Stand
    BY <1>1 DEF Clear, Remove, Expire
  <1>2. ASSUME NEW p \in Partition, DeleteWorkspace(p) \/ RestoreWorkspace(p) \/ ClearJar(p) \/ ClearPartition(p) \/ DropLocks(p)
        PROVE  Stand
    BY <1>2 DEF DeleteWorkspace, RestoreWorkspace, ClearJar, ClearPartition, DropLocks
  <1>3. ASSUME NEW c \in Call, \/ (\E k \in Key : BuildContext(c, k))
                              \/ TakeSince(c) \/ CheckWorkspace(c) \/ Look(c) \/ Superseded(c) PROVE Stand
    BY <1>3 DEF BuildContext, TakeSince, CheckWorkspace, Look, Superseded
  <1>4. ASSUME NEW c \in Call, LockFor(c) \/ Lock(c) \/ Reread(c) \/ RefreshDetached(c)
        PROVE  Stand
    BY <1>4 DEF LockFor, Lock, Reread, RefreshDetached
  <1>5. ASSUME NEW c \in Call, Requested(c) \/ OwnRequest(c) \/ Awaited(c) \/ Dropped(c)
        PROVE  Stand
    BY <1>5 DEF Requested, OwnRequest, Awaited, Dropped
  <1>6. ASSUME NEW c \in Call, IssuerHandles(c) \/ TaskAnswered(c) \/ TaskAborted(c) \/ RefreshFinished(c) \/ TaskStores(c) \/ TaskFails(c)
        PROVE  Stand
    BY <1>6 DEF IssuerHandles, TaskAnswered, TaskAborted, RefreshFinished, TaskStores, TaskFails
  <1> HIDE DEF Stand
  <1>7. Stand
    BY <1>1, <1>2, <1>3, <1>4, <1>5, <1>6 DEF Next, Deletes, CallSteps, TaskSteps
  <1> QED BY <1>7 DEF Stand

\* No step changes what a sign-in noted.
LEMMA SignInsNoted ==
  ASSUME TypeOK, Next, NEW r \in SignIn
  PROVE  NotedSignIn(r)
  <1>0. signing \in [SignIn -> SignInState] /\ signing[r] \in SignInState
    BY DEF TypeOK, SendType
  <1>1. ASSUME NEW s \in SignIn, (\E k \in Key : SignInBuilds(s, k)) \/ SignInSteps(s) PROVE NotedSignIn(r)
    <2>1. ASSUME NEW k \in Key, SignInBuilds(s, k) PROVE NotedSignIn(r)
      BY <1>0, <2>1 DEF SignInBuilds, NotedSignIn, Opened, SignInState
    <2>2. CASE SignInStarts(s)
      BY <1>0, <2>2 DEF SignInStarts, NotedSignIn, Opened, SignInState
    <2>3. CASE Redeem(s) \/ StoreSignIn(s)
      <3>1. PICK x \in {"redeeming", "done"} : signing' = [signing EXCEPT ![s] = [signing[s] EXCEPT !.pc = x]]
        BY <2>3 DEF Redeem, StoreSignIn
      <3> QED BY <1>0, <3>1 DEF NotedSignIn, Opened, SignInState
    <2> QED BY <1>1, <2>1, <2>2, <2>3 DEF SignInSteps
  <1>2. ASSUME signing' = signing PROVE NotedSignIn(r)
    BY <1>2 DEF NotedSignIn, Opened
  <1> QED
    <2>1. ASSUME ~\E s \in SignIn : (\E k \in Key : SignInBuilds(s, k)) \/ SignInSteps(s)
          PROVE  signing' = signing
      BY <2>1, SignInsStand
    <2> QED BY <1>1, <1>2, <2>1

\* The steps that move a counter or a history.
Clears == Clear \/ (\E k \in Key : Remove(k)) \/ (\E p \in Partition : ClearPartition(p))
Moves == Clears \/ \E s \in SignIn : StoreSignIn(s)

\* No other step does.
LEMMA CountersStand ==
  ASSUME Next, ~Moves
  PROVE  /\ gen' = gen /\ partitions' = partitions /\ removals' = removals /\ signIns' = signIns
         /\ past' = past /\ signed' = signed
  <1> DEFINE Stand == gen' = gen /\ partitions' = partitions /\ removals' = removals /\ signIns' = signIns
                     /\ past' = past /\ signed' = signed
  <1>1. ASSUME NEW k \in Key, Expire(k) PROVE Stand
    BY <1>1 DEF Expire, cache, counters, history
  <1>2. ASSUME NEW p \in Partition, DeleteWorkspace(p) \/ RestoreWorkspace(p) \/ ClearJar(p) \/ DropLocks(p)
        PROVE  Stand
    BY <1>2 DEF DeleteWorkspace, RestoreWorkspace, ClearJar, DropLocks, cache, counters, history
  <1>3. ASSUME NEW c \in Call, \/ (\E k \in Key : BuildContext(c, k))
                              \/ TakeSince(c) \/ CheckWorkspace(c) \/ Look(c) \/ Superseded(c) PROVE Stand
    BY <1>3 DEF BuildContext, TakeSince, CheckWorkspace, Look, Superseded, cache, counters, history
  <1>4. ASSUME NEW c \in Call, LockFor(c) \/ Lock(c) \/ Reread(c) \/ RefreshDetached(c)
        PROVE  Stand
    BY <1>4 DEF LockFor, Lock, Reread, RefreshDetached, cache, counters, history
  <1>5. ASSUME NEW c \in Call, Requested(c) \/ OwnRequest(c) \/ Awaited(c) \/ Dropped(c)
        PROVE  Stand
    BY <1>5 DEF Requested, OwnRequest, Awaited, Dropped, cache, counters, history
  <1>6. ASSUME NEW c \in Call, IssuerHandles(c) \/ TaskAnswered(c) \/ TaskAborted(c) \/ RefreshFinished(c) \/ TaskStores(c) \/ TaskFails(c)
        PROVE  Stand
    BY <1>6 DEF IssuerHandles, TaskAnswered, TaskAborted, RefreshFinished, TaskStores, TaskFails, cache, counters, history
  <1>7. ASSUME NEW s \in SignIn, (\E k \in Key : SignInBuilds(s, k)) \/ SignInStarts(s) \/ Redeem(s)
        PROVE  Stand
    BY <1>7 DEF SignInBuilds, SignInStarts, Redeem, cache, counters, history
  <1> HIDE DEF Stand
  <1>8. Stand
    BY <1>1, <1>2, <1>3, <1>4, <1>5, <1>6, <1>7 DEF Next, Moves, Clears, Deletes, CallSteps, TaskSteps, SignInSteps
  <1> QED BY <1>8 DEF Stand

\* The cached tokens change in the clears, and where a token is stored or spent.
LEMMA EntriesStand ==
  ASSUME Next
  PROVE  \/ Clears \/ entries' = entries
         \/ \E j \in Key : Expire(j)
         \/ \E c \in Call : Requested(c) \/ TaskStores(c) \/ TaskFails(c)
         \/ \E s \in SignIn : StoreSignIn(s)
  <1> SUFFICES ASSUME ~Clears, ~\E j \in Key : Expire(j), ~\E s \in SignIn : StoreSignIn(s),
                      ~\E c \in Call : Requested(c) \/ TaskStores(c) \/ TaskFails(c)
               PROVE  entries' = entries
    OBVIOUS
  <1> DEFINE Stand == entries' = entries
  <1>1. ASSUME NEW p \in Partition, DeleteWorkspace(p) \/ RestoreWorkspace(p) \/ ClearJar(p) \/ DropLocks(p)
        PROVE  Stand
    BY <1>1 DEF DeleteWorkspace, RestoreWorkspace, ClearJar, DropLocks, cache
  <1>2. ASSUME NEW c \in Call, \/ (\E k \in Key : BuildContext(c, k))
                              \/ TakeSince(c) \/ CheckWorkspace(c) \/ Look(c) \/ Superseded(c) PROVE Stand
    BY <1>2 DEF BuildContext, TakeSince, CheckWorkspace, Look, Superseded, cache
  <1>3. ASSUME NEW c \in Call, LockFor(c) \/ Lock(c) \/ Reread(c) \/ RefreshDetached(c)
        PROVE  Stand
    BY <1>3 DEF LockFor, Lock, Reread, RefreshDetached, cache
  <1>4. ASSUME NEW c \in Call, OwnRequest(c) \/ Awaited(c) \/ Dropped(c)
        PROVE  Stand
    BY <1>4 DEF OwnRequest, Awaited, Dropped, cache
  <1>5. ASSUME NEW c \in Call, IssuerHandles(c) \/ TaskAnswered(c) \/ TaskAborted(c) \/ RefreshFinished(c)
        PROVE  Stand
    BY <1>5 DEF IssuerHandles, TaskAnswered, TaskAborted, RefreshFinished, cache
  <1>6. ASSUME NEW s \in SignIn, (\E k \in Key : SignInBuilds(s, k)) \/ SignInStarts(s) \/ Redeem(s)
        PROVE  Stand
    BY <1>6 DEF SignInBuilds, SignInStarts, Redeem, cache
  <1> HIDE DEF Stand
  <1>7. Stand
    BY <1>1, <1>2, <1>3, <1>4, <1>5, <1>6 DEF Next, Clears, Deletes, CallSteps, TaskSteps, SignInSteps
  <1> QED BY <1>7 DEF Stand

\* A clear moves one counter of a key's generation up and resets only those
\* under it; a sign-in moves the last one.
LEMMA CountersMove ==
  ASSUME TypeOK, SessionInv, Next, NEW k \in Key
  PROVE  \/ /\ gen' = gen /\ partitions'[PartitionOf[k]] = partitions[PartitionOf[k]] /\ removals'[k] = removals[k]
            /\ signIns'[k] = signIns[k] /\ past'[k] = past[k] /\ signed'[k] = signed[k]
         \/ /\ gen' = gen /\ partitions'[PartitionOf[k]] = partitions[PartitionOf[k]] /\ removals'[k] = removals[k]
            /\ signIns'[k] = signIns[k] + 1 /\ past'[k] = past[k] /\ signed'[k] = signed[k] + 1
            /\ ~Clears
         \/ /\ gen' = gen /\ partitions'[PartitionOf[k]] = partitions[PartitionOf[k]] /\ removals'[k] = removals[k] + 1
            /\ entries'[k] = {}
         \/ /\ gen' = gen /\ partitions'[PartitionOf[k]] = partitions[PartitionOf[k]] + 1
            /\ entries'[k] = {}
         \/ gen' = gen + 1 /\ entries'[k] = {}
  <1>0. PartitionOf[k] \in Partition
    BY Parts
  <1>1. CASE Clear
    BY <1>1 DEF Clear
  <1>2. ASSUME NEW j \in Key, Remove(j)
        PROVE  /\ gen' = gen /\ partitions' = partitions /\ past' = [i \in Key |-> IF i = j THEN past[i] + 1 ELSE past[i]]
               /\ removals' = [removals EXCEPT ![j] = @ + 1] /\ signIns' = signIns /\ signed' = signed
               /\ entries' = [entries EXCEPT ![j] = {}]
    BY <1>2 DEF Remove, Passed
  <1>3. ASSUME NEW p \in Partition, ClearPartition(p)
        PROVE  /\ gen' = gen /\ partitions' = [partitions EXCEPT ![p] = @ + 1] /\ signed' = signed
               /\ PartitionOf[k] = p => entries'[k] = {}
               /\ PartitionOf[k] # p => removals'[k] = removals[k] /\ signIns'[k] = signIns[k] /\ past'[k] = past[k]
    BY <1>3 DEF ClearPartition, Passed, Zero, KeysOf
  <1>4. ASSUME NEW s \in SignIn, StoreSignIn(s)
        PROVE  /\ gen' = gen /\ partitions' = partitions /\ removals' = removals /\ past' = past
               /\ \/ signIns' = signIns /\ signed' = signed
                  \/ /\ signIns' = [signIns EXCEPT ![signing[s].key] = @ + 1]
                     /\ signed' = [signed EXCEPT ![signing[s].key] = @ + 1]
               /\ ~Clears
    <2>1. ~Clears
      <3>1. signing' # signing
        BY <1>4 DEF StoreSignIn, TypeOK, SendType, SignInState
      <3> QED BY <3>1 DEF Clears, Clear, Remove, ClearPartition
    <2> QED BY <1>4, <2>1 DEF StoreSignIn
  <1>5. CASE ~Moves
    BY <1>5, CountersStand
  <1>6. CASE \E j \in Key : Remove(j)
    BY <1>2, <1>6 DEF TypeOK, CacheType
  <1>7. CASE \E p \in Partition : ClearPartition(p)
    BY <1>0, <1>3, <1>7 DEF TypeOK, CacheType
  <1>8. CASE \E s \in SignIn : StoreSignIn(s)
    BY <1>4, <1>8 DEF TypeOK, CacheType
  <1> QED BY <1>1, <1>5, <1>6, <1>7, <1>8 DEF Moves, Clears
\* Comparing generations, and reading what overtook a call.
LEMMA CurrentAgrees ==
  ASSUME NEW k \in Key, NEW g \in Counts
  PROVE  /\ Current(k, g) <=> Agrees(k, g) /\ g.signIn = signIns[k]
         /\ \A t \in SupersededAnswer(k, g) : t \in entries[k] /\ Agrees(k, g)
  BY DEF Current, Generation, Agrees, Counts, SupersededAnswer

\* The generation of a key stands still in a step.
Stands(k) ==
  /\ gen' = gen /\ partitions'[PartitionOf[k]] = partitions[PartitionOf[k]] /\ removals'[k] = removals[k]
  /\ signIns'[k] = signIns[k] /\ past'[k] = past[k] /\ signed'[k] = signed[k]

\* Where the token comes from that a key holds after a step.
SameToken(t, u) == t.rt = u.rt /\ t.past = u.past /\ t.signed = u.signed /\ t.jar = u.jar
OfCall(t, c, k) ==
  /\ call[c].key = k /\ Current(k, call[c].since) /\ Begun(c)
  /\ t.past = call[c].past /\ t.signed = call[c].signed /\ t.jar = call[c].jar
  /\ \/ Requested(c) /\ t.rt \in {c, None}
     \/ TaskStores(c) /\ t.rt = task[c].newRt
OfSignIn(t, s, k) ==
  /\ StoreSignIn(s) /\ signing[s].key = k /\ Current(k, signing[s].since)
  /\ t.past = signing[s].past /\ t.signed = signed[k] + 1 /\ t.jar = signing[s].jar /\ t.rt = s
  /\ gen' = gen /\ partitions' = partitions /\ removals'[k] = removals[k]
  /\ past'[k] = past[k] /\ signed'[k] = signed[k] + 1 /\ signIns'[k] = signIns[k] + 1

\* It was there, or a call of this generation stored it, or a sign-in did.
LEMMA EntryOrigin ==
  ASSUME TypeOK, SessionInv, Next, NEW k \in Key, NEW t \in entries'[k]
  PROVE  \/ Stands(k) /\ \E u \in entries[k] : SameToken(t, u)
         \/ Stands(k) /\ \E c \in Call : OfCall(t, c, k)
         \/ \E s \in SignIn : OfSignIn(t, s, k)
  <1>0. CacheType /\ SendType
    BY DEF TypeOK
  <1>k. \A c \in Call : /\ call[c].pc # "idle" => call[c].key \in Key
                        /\ ~Begun(c) => task[c] = NoTask
    BY DEF SessionInv, CallSince, AnswerInv
  <1>1. CASE Clears
    <2>1. Stands(k) /\ t \in entries[k]
      <3>1. CASE Clear
        BY <3>1 DEF Clear
      <3>2. ASSUME NEW j \in Key, Remove(j) PROVE Stands(k) /\ t \in entries[k]
        BY <1>0, <3>2 DEF Remove, Passed, Stands, CacheType
      <3>3. ASSUME NEW p \in Partition, ClearPartition(p) PROVE Stands(k) /\ t \in entries[k]
        BY <1>0, <3>3, Parts DEF ClearPartition, Passed, Zero, KeysOf, Stands, CacheType
      <3> QED BY <1>1, <3>1, <3>2, <3>3 DEF Clears
    <2> QED BY <2>1 DEF SameToken
  <1>2. ASSUME NEW s \in SignIn, StoreSignIn(s)
        PROVE  (Stands(k) /\ t \in entries[k]) \/ OfSignIn(t, s, k)
    <2>1. signing[s].key \in Key
      BY <1>2 DEF SessionInv, SignInSince, StoreSignIn
    <2>2. CASE entries' = entries /\ signIns' = signIns /\ signed' = signed
      BY <1>2, <2>2 DEF StoreSignIn, Stands
    <2>3. CASE ~(entries' = entries /\ signIns' = signIns /\ signed' = signed)
      <3> DEFINE j == signing[s].key
                 x == [usable |-> TRUE, rt |-> s, past |-> signing[s].past, signed |-> signed[j] + 1,
                       jar |-> signing[s].jar]
      <3>1. /\ Current(j, signing[s].since) /\ entries' = [entries EXCEPT ![j] = {x}]
            /\ signIns' = [signIns EXCEPT ![j] = @ + 1] /\ signed' = [signed EXCEPT ![j] = @ + 1]
        BY <1>2, <2>3 DEF StoreSignIn
      <3>2. gen' = gen /\ partitions' = partitions /\ removals' = removals /\ past' = past
        BY <1>2 DEF StoreSignIn
      <3>3. CASE k = j
        <4>1. t = x
          BY <1>0, <3>1, <3>3 DEF CacheType
        <4> QED BY <1>0, <1>2, <2>1, <3>1, <3>2, <3>3, <4>1 DEF OfSignIn, CacheType
      <3>4. CASE k # j
        BY <1>0, <2>1, <3>1, <3>2, <3>4 DEF Stands, CacheType
      <3> QED BY <3>3, <3>4
    <2> QED BY <2>2, <2>3
  <1>3. ASSUME NEW c \in Call, Requested(c), Stands(k)
        PROVE  t \in entries[k] \/ OfCall(t, c, k)
    <2>1. CASE t \in entries[k]
      BY <2>1
    <2>2. CASE t \notin entries[k]
      <3>1. entries' # entries
        BY <2>2
      <3>2. PICK rt \in {c, None} : Current(call[c].key, call[c].since) /\ Insert(call[c].key, TokenOf(c, rt))
        BY <1>3, <3>1 DEF Requested
      <3>3. call[c].key = k /\ t = TokenOf(c, rt)
        BY <1>0, <1>3, <1>k, <2>2, <3>2 DEF Insert, CacheType, Requested
      <3> QED BY <1>3, <3>2, <3>3 DEF OfCall, TokenOf, Begun, Requested
    <2> QED BY <2>1, <2>2
  <1>4. ASSUME NEW c \in Call, TaskStores(c), Stands(k)
        PROVE  t \in entries[k] \/ OfCall(t, c, k)
    <2>1. CASE t \in entries[k]
      BY <2>1
    <2>2. CASE t \notin entries[k]
      <3>1. entries' # entries
        BY <2>2
      <3>2. Current(call[c].key, call[c].since) /\ Insert(call[c].key, TokenOf(c, task[c].newRt))
        BY <1>4, <3>1 DEF TaskStores
      <3>3. Begun(c) /\ call[c].key \in Key
        BY <1>4, <1>k DEF TaskStores, NoTask, Begun
      <3>4. call[c].key = k /\ t = TokenOf(c, task[c].newRt)
        BY <1>0, <2>2, <3>2, <3>3 DEF Insert, CacheType
      <3> QED BY <1>4, <3>2, <3>3, <3>4 DEF OfCall, TokenOf
    <2> QED BY <2>1, <2>2
  <1>5. ASSUME NEW c \in Call, TaskFails(c)
        PROVE  t \in entries[k]
    <2>1. entries' = entries \/ entries' = [entries EXCEPT ![call[c].key] = {u \in @ : u.rt # call[c].rt}]
      BY <1>5 DEF TaskFails
    <2> QED BY <1>0, <2>1 DEF CacheType
  <1>6. ASSUME NEW j \in Key, Expire(j)
        PROVE  \E u \in entries[k] : SameToken(t, u)
    <2>1. \/ t \in entries[k]
          \/ \E u \in entries[k] : t = [u EXCEPT !.usable = FALSE]
      BY <1>0, <1>6 DEF Expire, CacheType
    <2>2. \A u \in entries[k] : u \in Token
      BY <1>0 DEF CacheType
    <2>3. \A u \in Token : SameToken([u EXCEPT !.usable = FALSE], u) /\ SameToken(u, u)
      BY DEF Token, SameToken
    <2> QED BY <2>1, <2>2, <2>3
  <1>7. CASE ~Moves
    <2>1. Stands(k)
      BY <1>7, CountersStand DEF Stands
    <2>2. CASE entries' = entries
      BY <2>1, <2>2 DEF SameToken
    <2>3. CASE entries' # entries
      <3>1. \/ \E c \in Call : Requested(c) \/ TaskStores(c) \/ TaskFails(c)
            \/ \E j \in Key : Expire(j)
        BY <1>7, <2>3, EntriesStand DEF Moves
      <3> QED BY <1>3, <1>4, <1>5, <1>6, <2>1, <3>1 DEF SameToken
    <2> QED BY <2>2, <2>3
  <1> QED BY <1>1, <1>2, <1>7 DEF Moves, SameToken
\* Where the tokens come from that a call has after a step.
Answers(c) == got[c] \cup task[c].token
FromCache(t, c) == t \in entries[call[c].key] /\ Agrees(call[c].key, call[c].since)
OfItself(t, c) == t.past = call[c].past /\ t.signed = call[c].signed /\ t.jar = call[c].jar

\* A call has them already, finds them in the cache while its snapshot agrees,
\* or obtained them itself; one that has not begun has none.
LEMMA AnswerOrigin ==
  ASSUME TypeOK, SessionInv, Next, NEW d \in Call
  PROVE  /\ \A t \in got'[d] \cup task'[d].token :
               t \in Answers(d) \/ (Begun(d) /\ (FromCache(t, d) \/ OfItself(t, d)))
         /\ call'[d].pc \in {"idle", "built"} => got'[d] = {} /\ task'[d] = NoTask
  <1>0. /\ call \in [Call -> CallState] /\ task \in [Call -> TaskState] /\ got \in [Call -> SUBSET Token]
        /\ entries \in [Key -> SUBSET Token]
    BY DEF TypeOK, SendType, CacheType
  <1>k. \A c \in Call : /\ call[c].pc # "idle" => call[c].key \in Key
                        /\ ~Begun(c) => got[c] = {} /\ task[c] = NoTask
                        /\ call[c].since \in Counts
    BY <1>0, CallRecord DEF SessionInv, CallSince, AnswerInv
  <1> DEFINE Ok(c) == \A t \in got'[c] \cup task'[c].token :
                        t \in Answers(c) \/ (Begun(c) /\ (FromCache(t, c) \/ OfItself(t, c)))
             Same(c) == got'[c] = got[c] /\ task'[c].token = task[c].token
             Alone(c) == \A e \in Call : e # c => got'[e] = got[e] /\ task'[e] = task[e]
  <1>s. \A c \in Call : Same(c) => Ok(c)
    BY DEF Answers
  <1>1. ASSUME NEW c \in Call, Look(c) \/ Reread(c)
        PROVE  Begun(c) /\ Ok(c) /\ Alone(c)
    <2>1. task' = task
      BY <1>1 DEF Look, Reread
    <2>2. \/ got' = got
          \/ /\ Current(call[c].key, call[c].since)
             /\ got' = [got EXCEPT ![c] = entries[call[c].key]] \/ got' = [got EXCEPT ![c] = {}]
      BY <1>1 DEF Look, Reread, Returns
    <2>3. Begun(c) /\ call[c].key \in Key
      BY <1>1, <1>k DEF Begun, Look, Reread
    <2>4. Current(call[c].key, call[c].since) => Agrees(call[c].key, call[c].since)
      BY <1>k, <2>3, CurrentAgrees
    <2> QED BY <1>0, <2>1, <2>2, <2>3, <2>4 DEF Answers, FromCache
  <1>2. ASSUME NEW c \in Call, Superseded(c) \/ RefreshDetached(c)
        PROVE  Begun(c) /\ Ok(c) /\ Alone(c)
    <2>1. task'[c].token = task[c].token /\ \A e \in Call : e # c => task'[e] = task[e]
      BY <1>0, <1>2 DEF Superseded, RefreshDetached, TaskState
    <2>2. got' = got \/ got' = [got EXCEPT ![c] = SupersededAnswer(call[c].key, call[c].since)]
      BY <1>2 DEF Superseded, RefreshDetached, Returns
    <2>3. Begun(c) /\ call[c].key \in Key
      BY <1>2, <1>k DEF Begun, Superseded, RefreshDetached
    <2>4. \A t \in SupersededAnswer(call[c].key, call[c].since) : FromCache(t, c)
      BY <1>k, <2>3, CurrentAgrees DEF FromCache
    <2> QED BY <1>0, <2>1, <2>2, <2>3, <2>4 DEF Answers
  <1>3. ASSUME NEW c \in Call, Requested(c)
        PROVE  Begun(c) /\ Ok(c) /\ Alone(c)
    <2>1. task' = task
      BY <1>3 DEF Requested
    <2>2. \E z \in {{}, {TokenOf(c, c)}, {TokenOf(c, None)}, SupersededAnswer(call[c].key, call[c].since)} :
            got' = [got EXCEPT ![c] = z]
      BY <1>3 DEF Requested, Returns
    <2>3. Begun(c) /\ call[c].key \in Key
      BY <1>3, <1>k DEF Begun, Requested
    <2>4. \A t \in SupersededAnswer(call[c].key, call[c].since) : FromCache(t, c)
      BY <1>k, <2>3, CurrentAgrees DEF FromCache
    <2>5. OfItself(TokenOf(c, c), c) /\ OfItself(TokenOf(c, None), c)
      BY DEF OfItself, TokenOf
    <2> QED BY <1>0, <2>1, <2>2, <2>3, <2>4, <2>5 DEF Answers
  <1>4. ASSUME NEW c \in Call, Awaited(c)
        PROVE  Begun(c) /\ Ok(c) /\ Alone(c)
    <2>1. task'[c].token = task[c].token /\ \A e \in Call : e # c => task'[e] = task[e]
      BY <1>0, <1>4 DEF Awaited, TaskState
    <2>2. got' = got \/ got' = [got EXCEPT ![c] = task[c].token]
      BY <1>4 DEF Awaited, Returns
    <2>3. Begun(c)
      BY <1>4 DEF Awaited, Begun
    <2> QED BY <1>0, <2>1, <2>2, <2>3 DEF Answers
  <1>5. ASSUME NEW c \in Call, TaskStores(c) \/ TaskFails(c)
        PROVE  Begun(c) /\ Ok(c) /\ Alone(c)
    <2>1. got' = got
      BY <1>5 DEF TaskStores, TaskFails
    <2>2. PICK y \in Result,
               z \in {{}, {TokenOf(c, task[c].newRt)}, SupersededAnswer(call[c].key, call[c].since)} :
               task' = [task EXCEPT ![c] = [task[c] EXCEPT !.pc = "done", !.result = y, !.token = z]]
      BY <1>5, ZenonT(60) DEF TaskStores, TaskFails, TaskEnds, Result
    <2>3. Begun(c) /\ call[c].key \in Key
      BY <1>5, <1>k DEF Begun, TaskStores, TaskFails, NoTask
    <2>4. \A t \in SupersededAnswer(call[c].key, call[c].since) : FromCache(t, c)
      BY <1>k, <2>3, CurrentAgrees DEF FromCache
    <2>5. OfItself(TokenOf(c, task[c].newRt), c)
      BY DEF OfItself, TokenOf
    <2>6. task'[c].token = z /\ \A e \in Call : e # c => task'[e] = task[e]
      BY <1>0, <2>2 DEF TaskState
    <2> QED BY <1>0, <2>1, <2>3, <2>4, <2>5, <2>6 DEF Answers
  <1>6. ASSUME NEW c \in Call, IssuerHandles(c) \/ TaskAnswered(c) \/ TaskAborted(c) \/ RefreshFinished(c) \/ Dropped(c)
        PROVE  Begun(c) /\ Ok(c) /\ Alone(c)
    <2>1. task'[c].token = task[c].token /\ \A e \in Call : e # c => task'[e] = task[e]
      BY <1>0, <1>6 DEF IssuerHandles, TaskAnswered, TaskAborted, RefreshFinished, Dropped, TaskState
    <2>2. got' = got
      BY <1>6 DEF IssuerHandles, TaskAnswered, TaskAborted, RefreshFinished, Dropped
    <2>3. Begun(c)
      BY <1>6, <1>k DEF IssuerHandles, TaskAnswered, TaskAborted, RefreshFinished, Dropped, Begun, NoTask
    <2> QED BY <1>s, <2>1, <2>2, <2>3
  <1>7. ASSUME Clears
        PROVE  /\ \A e \in Call : Ok(e)
               /\ \A e \in Call : ~Begun(e) => got'[e] = got[e] /\ task'[e] = task[e]
    <2>1. got' = got
      BY <1>7 DEF Clears, Clear, Remove, ClearPartition
    <2>2. PICK ks \in SUBSET Key : Abort(ks)
      BY <1>7 DEF Clears, Clear, Remove, ClearPartition, KeysOf
    <2>3. \A e \in Call : task'[e].token = task[e].token
      BY <1>0, <2>2 DEF Abort, TaskState
    <2>4. \A e \in Call : ~Begun(e) => task'[e] = task[e]
      <3>1. \A e \in Call : \A k \in Key : refreshes[k] = e => Begun(e)
        BY TokenAssumption DEF SessionInv, Registered
      <3> QED BY <1>0, <2>2, <3>1 DEF Abort
    <2> QED BY <1>s, <2>1, <2>3, <2>4
  <1> DEFINE Acts == \/ Clears
                     \/ \E c \in Call : \/ Look(c) \/ Reread(c) \/ Superseded(c) \/ RefreshDetached(c) \/ Requested(c)
                                        \/ Awaited(c) \/ TaskStores(c) \/ TaskFails(c) \/ IssuerHandles(c)
                                        \/ TaskAnswered(c) \/ TaskAborted(c) \/ RefreshFinished(c) \/ Dropped(c)
  <1>8. ASSUME ~Acts PROVE got' = got /\ task' = task
    BY <1>8 DEF Clears, Next, Deletes, CallSteps, TaskSteps, SignInSteps, Expire, DeleteWorkspace,
         RestoreWorkspace, ClearJar, DropLocks, BuildContext, TakeSince, CheckWorkspace, LockFor,
         OwnRequest, Lock, SignInBuilds, SignInStarts, Redeem, StoreSignIn
  <1>a. \A c \in Call : Alone(c) => (c # d => Ok(d) /\ got'[d] = got[d] /\ task'[d] = task[d])
    BY <1>s
  <1>9. Ok(d) /\ (~Begun(d) => got'[d] = got[d] /\ task'[d] = task[d])
    <2>1. CASE Acts
      <3>1. CASE Clears
        BY <1>7, <3>1
      <3>2. CASE ~Clears
        <4> HIDE DEF Ok, Alone
        <4>1. PICK c \in Call : Begun(c) /\ Ok(c) /\ Alone(c)
          BY <1>1, <1>2, <1>3, <1>4, <1>5, <1>6, <2>1, <3>2
        <4> QED BY <1>a, <4>1
      <3> QED BY <3>1, <3>2
    <2>2. CASE ~Acts
      BY <1>s, <1>8, <2>2
    <2> QED BY <2>1, <2>2
  <1>b. call'[d].pc \in {"idle", "built"} => ~Begun(d)
    BY CallsNoted DEF NotedCall
  <1> QED BY <1>9, <1>b, <1>k

\* How a call and a sign-in begin.
LEMMA CallStarts ==
  ASSUME TypeOK, Next, NEW d \in Call, ~Begun(d)
  PROVE  call'[d] = call[d] \/ (\E k \in Key : BuildContext(d, k)) \/ TakeSince(d)
  <1>0. call \in [Call -> CallState]
    BY DEF TypeOK, SendType
  <1>1. ASSUME NEW c \in Call, (\E k \in Key : BuildContext(c, k)) \/ TakeSince(c) \/ LockFor(c), c # d
        PROVE  call'[d] = call[d]
    BY <1>0, <1>1 DEF BuildContext, TakeSince, LockFor
  <1>2. ASSUME NEW c \in Call, Reread(c), c # d PROVE call'[d] = call[d]
    <2>1. CASE \E x \in {"superseded", "done", "request"} : Goto(c, x)
      BY <1>0, <1>2, <2>1, GotoMoves DEF CallPc
    <2>2. CASE ~\E x \in {"superseded", "done", "request"} : Goto(c, x)
      BY <1>2, <2>2, RereadMoves
    <2> QED BY <2>1, <2>2
  <1>3. ASSUME NEW c \in Call, c # d,
               CheckWorkspace(c) \/ Look(c) \/ Superseded(c) \/ RefreshDetached(c) \/ Requested(c)
                 \/ OwnRequest(c) \/ Awaited(c) \/ Lock(c) \/ Dropped(c)
        PROVE  call'[d] = call[d]
    <2>1. PICK x \in CallPc : Goto(c, x)
      BY <1>3, CallGoes DEF CallPc
    <2> QED BY <1>0, <1>3, <2>1, GotoMoves
  <1>4. ~(LockFor(d) \/ Reread(d) \/ CheckWorkspace(d) \/ Look(d) \/ Superseded(d) \/ RefreshDetached(d)
          \/ Requested(d) \/ OwnRequest(d) \/ Awaited(d) \/ Lock(d) \/ Dropped(d))
    BY DEF Begun, LockFor, Reread, CheckWorkspace, Look, Superseded, RefreshDetached,
       Requested, OwnRequest,
           Awaited, Lock, Dropped
  <1>5. ASSUME ~\E c \in Call : (\E k \in Key : BuildContext(c, k)) \/ CallSteps(c) \/ Lock(c) \/ Dropped(c)
        PROVE  call' = call
    BY <1>5
    DEF Next, Deletes, TaskSteps, SignInSteps, Clear, Remove, Expire, DeleteWorkspace,
        RestoreWorkspace,
                ClearJar, ClearPartition, DropLocks, IssuerHandles, TaskAnswered, TaskAborted, RefreshFinished,
                TaskStores, TaskFails, SignInBuilds, SignInStarts, Redeem, StoreSignIn
  <1> QED BY <1>1, <1>2, <1>3, <1>4, <1>5 DEF CallSteps

\* As for calls.
LEMMA SignInStartsOnce ==
  ASSUME TypeOK, Next, NEW r \in SignIn, ~Opened(r)
  PROVE  signing'[r] = signing[r] \/ (\E k \in Key : SignInBuilds(r, k)) \/ SignInStarts(r)
  <1>0. signing \in [SignIn -> SignInState]
    BY DEF TypeOK, SendType
  <1>1. ASSUME NEW s \in SignIn, (\E k \in Key : SignInBuilds(s, k)) \/ SignInSteps(s), s # r
        PROVE  signing'[r] = signing[r]
    BY <1>0, <1>1 DEF SignInSteps, SignInBuilds, SignInStarts, Redeem, StoreSignIn
  <1>2. ~(Redeem(r) \/ StoreSignIn(r))
    BY DEF Opened, Redeem, StoreSignIn
  <1>3. ASSUME ~\E s \in SignIn : (\E k \in Key : SignInBuilds(s, k)) \/ SignInSteps(s)
        PROVE  signing' = signing
    BY <1>3, SignInsStand
  <1> QED BY <1>1, <1>2, <1>3 DEF SignInSteps

\* A snapshot that still agrees says what it said, one that was overtaken by a
\* clear stays so: the counters never come back to it.
LEMMA SinceStep ==
  ASSUME TypeOK, SessionInv, Next, NEW c \in Call
  PROVE  CallSince(c)'
  <1>0. call \in [Call -> CallState] /\ call[c] \in CallState /\ CallSince(c) /\ NotedCall(c)
    BY CallsNoted DEF TypeOK, SendType, SessionInv
  <1>2. CASE Begun(c)
    <2>1. PICK k \in Key, g \in Counts : k = call[c].key /\ g = call[c].since
      BY <1>0, <1>2, CallRecord DEF CallSince, Begun
    <2>2. /\ g.cache \in Nat /\ g.partition \in Nat /\ g.removal \in Nat /\ g.signIn \in Nat
          /\ gen \in Nat /\ partitions[PartitionOf[k]] \in Nat /\ removals[k] \in Nat /\ signIns[k] \in Nat
          /\ past[k] \in Nat /\ signed[k] \in Nat /\ call[c].signed \in Nat
      BY <1>0, CallRecord, Parts DEF Counts, TypeOK, CacheType
    <2>3. /\ call'[c].pc \notin {"idle", "built"} /\ call'[c].key = k /\ call'[c].since = g
          /\ call'[c].past = call[c].past /\ call'[c].signed = call[c].signed
      BY <1>0, <1>2, <2>1 DEF NotedCall, Begun
    <2>4. \/ Earlier(k, g)
          \/ /\ Agrees(k, g)
             /\ call[c].past = past[k] /\ g.signIn <= signIns[k] /\ call[c].signed <= signed[k]
             /\ g.signIn = signIns[k] => call[c].signed = signed[k]
      BY <1>0, <1>2, <2>1 DEF CallSince
    <2>5. \/ Earlier(k, g)'
          \/ /\ Agrees(k, g)'
             /\ call[c].past = past'[k] /\ g.signIn <= signIns'[k] /\ call[c].signed <= signed'[k]
             /\ g.signIn = signIns'[k] => call[c].signed = signed'[k]
      BY <2>2, <2>4, CountersMove DEF Earlier, Agrees
    <2> QED BY <2>3, <2>5 DEF CallSince, Earlier, Agrees
  <1>3. CASE ~Begun(c)
    <2>1. CASE call'[c] = call[c]
      BY <1>0, <1>3, <2>1 DEF CallSince, Begun
    <2>2. ASSUME NEW k \in Key, BuildContext(c, k) PROVE CallSince(c)'
      <3>1. call'[c].pc = "built" /\ call'[c].key = k
        BY <1>0, <2>2 DEF BuildContext, CallState
      <3> QED BY <3>1 DEF CallSince, Begun
    <2>3. CASE TakeSince(c)
      <3>1. PICK k \in Key : k = call[c].key
        BY <1>0, <2>3 DEF CallSince, TakeSince
      <3>2. /\ call'[c].pc = "since" /\ call'[c].key = k /\ call'[c].since = Generation(k)
            /\ call'[c].past = past[k] /\ call'[c].signed = signed[k]
        BY <1>0, <2>3, <3>1 DEF TakeSince, CallState
      <3>3. /\ gen' = gen /\ partitions' = partitions /\ removals' = removals /\ signIns' = signIns
            /\ past' = past /\ signed' = signed
        BY <2>3 DEF TakeSince, cache, counters, history
      <3>4. signIns[k] \in Nat /\ signed[k] \in Nat
        BY DEF TypeOK, CacheType
      <3> QED BY <3>2, <3>3, <3>4 DEF CallSince, Generation, Agrees
    <2> QED BY <1>3, <2>1, <2>2, <2>3, CallStarts
  <1> QED BY <1>2, <1>3

\* The same of a sign-in's snapshot.
LEMMA SignInSinceStep ==
  ASSUME TypeOK, SessionInv, Next, NEW s \in SignIn
  PROVE  SignInSince(s)'
  <1>0. signing \in [SignIn -> SignInState] /\ signing[s] \in SignInState /\ SignInSince(s) /\ NotedSignIn(s)
    BY SignInsNoted DEF TypeOK, SendType, SessionInv
  <1>2. CASE Opened(s)
    <2>1. PICK k \in Key, g \in Counts : k = signing[s].key /\ g = signing[s].since
      BY <1>0, <1>2, SignInRecord DEF SignInSince, Opened
    <2>2. /\ g.cache \in Nat /\ g.partition \in Nat /\ g.removal \in Nat
          /\ gen \in Nat /\ partitions[PartitionOf[k]] \in Nat /\ removals[k] \in Nat
      BY Parts DEF Counts, TypeOK, CacheType
    <2>3. /\ signing'[s].pc \notin {"idle", "built"} /\ signing'[s].key = k /\ signing'[s].since = g
          /\ signing'[s].past = signing[s].past
      BY <1>0, <1>2, <2>1 DEF NotedSignIn, Opened
    <2>4. Earlier(k, g) \/ (Agrees(k, g) /\ signing[s].past = past[k])
      BY <1>0, <1>2, <2>1 DEF SignInSince
    <2>5. Earlier(k, g)' \/ (Agrees(k, g)' /\ signing[s].past = past'[k])
      BY <2>2, <2>4, CountersMove DEF Earlier, Agrees
    <2> QED BY <2>3, <2>5 DEF SignInSince, Earlier, Agrees
  <1>3. CASE ~Opened(s)
    <2>1. CASE signing'[s] = signing[s]
      BY <1>0, <1>3, <2>1 DEF SignInSince, Opened
    <2>2. ASSUME NEW k \in Key, SignInBuilds(s, k) PROVE SignInSince(s)'
      <3>1. signing'[s].pc = "built" /\ signing'[s].key = k
        BY <1>0, <2>2 DEF SignInBuilds, SignInState
      <3> QED BY <3>1 DEF SignInSince, Opened
    <2>3. CASE SignInStarts(s)
      <3>1. PICK k \in Key : k = signing[s].key
        BY <1>0, <2>3 DEF SignInSince, SignInStarts
      <3>2. /\ signing'[s].pc = "browser" /\ signing'[s].key = k /\ signing'[s].since = Generation(k)
            /\ signing'[s].past = past[k]
        BY <1>0, <2>3, <3>1 DEF SignInStarts, SignInState
      <3>3. gen' = gen /\ partitions' = partitions /\ removals' = removals /\ past' = past
        BY <2>3 DEF SignInStarts, cache, counters, history
      <3> QED BY <3>2, <3>3 DEF SignInSince, Generation, Agrees
    <2> QED BY <1>3, <2>1, <2>2, <2>3, SignInStartsOnce
  <1> QED BY <1>2, <1>3
\* The steps of one call and of its refresh task; all others leave calls alone.
Own(c) == (\E k \in Key : BuildContext(c, k)) \/ CallSteps(c) \/ Lock(c) \/ Dropped(c) \/ TaskSteps(c)

\* What a step of one call leaves to the others.
LEMMA OthersKeep ==
  ASSUME TypeOK, NEW c \in Call, NEW d \in Call, d # c, Own(c)
  PROVE  call'[d] = call[d] /\ task'[d] = task[d] /\ got'[d] = got[d] /\ (d \in owns' <=> d \in owns)
  <1>0. call \in [Call -> CallState] /\ task \in [Call -> TaskState] /\ got \in [Call -> SUBSET Token]
    BY DEF TypeOK, SendType
  <1> DEFINE Kept == call'[d] = call[d] /\ task'[d] = task[d] /\ got'[d] = got[d] /\ (d \in owns' <=> d \in owns)
  <1>1. ASSUME NEW k \in Key, BuildContext(c, k) PROVE Kept
    BY <1>0, <1>1 DEF BuildContext
  <1>2. CASE TakeSince(c)
    BY <1>0, <1>2 DEF TakeSince
  <1>3. CASE CheckWorkspace(c)
    BY <1>0, <1>3 DEF CheckWorkspace, Goto
  <1>4. CASE Look(c)
    BY <1>0, <1>4 DEF Look, Goto, Returns
  <1>5. CASE Superseded(c)
    BY <1>0, <1>5 DEF Superseded, Goto, Returns
  <1>6. CASE LockFor(c)
    BY <1>0, <1>6 DEF LockFor
  <1>7. CASE Reread(c)
    BY <1>0, <1>7 DEF Reread, Goto, Returns
  <1>8. CASE RefreshDetached(c)
    BY <1>0, <1>8 DEF RefreshDetached, Goto, Returns
  <1>9. CASE Requested(c)
    BY <1>0, <1>9 DEF Requested, Goto, Returns
  <1>10. CASE OwnRequest(c)
    BY <1>0, <1>10 DEF OwnRequest, Goto
  <1>11. CASE Awaited(c)
    BY <1>0, <1>11 DEF Awaited, Goto, Returns
  <1>12. CASE Lock(c)
    BY <1>0, <1>12 DEF Lock, Goto
  <1>13. CASE Dropped(c)
    BY <1>0, <1>13 DEF Dropped, Goto
  <1>14. CASE IssuerHandles(c)
    BY <1>0, <1>14 DEF IssuerHandles
  <1>15. CASE TaskAnswered(c)
    BY <1>0, <1>15 DEF TaskAnswered
  <1>16. CASE TaskAborted(c)
    BY <1>0, <1>16 DEF TaskAborted
  <1>17. CASE RefreshFinished(c)
    BY <1>0, <1>17 DEF RefreshFinished
  <1>18. CASE TaskStores(c)
    BY <1>0, <1>18 DEF TaskStores, TaskEnds
  <1>19. CASE TaskFails(c)
    BY <1>0, <1>19 DEF TaskFails, TaskEnds
  <1> QED
    BY <1>1, <1>2, <1>3, <1>4, <1>5, <1>6, <1>7, <1>8, <1>9, <1>10, <1>11, <1>12, <1>13, <1>14,
       <1>15, <1>16, <1>17, <1>18, <1>19
    DEF Own, CallSteps, TaskSteps

\* What the locks, the clears and the sign-ins leave of a call.
LEMMA AdminKeeps ==
  ASSUME TypeOK, Next, ~\E c \in Call : Own(c)
  PROVE  /\ call' = call /\ owns' = owns /\ got' = got /\ rotated' = rotated /\ lost' = lost
         /\ ~Clears => task' = task /\ refreshes' = refreshes
         /\ \A d \in Call :
              /\ task'[d].pc = task[d].pc /\ task'[d].caller = task[d].caller /\ task'[d].answer = task[d].answer
              /\ task'[d].newRt = task[d].newRt /\ task'[d].result = task[d].result /\ task'[d].token = task[d].token
              /\ task'[d].abort # task[d].abort => \E k \in Key : refreshes[k] = d
  <1>0. task \in [Call -> TaskState]
    BY DEF TypeOK, SendType
  <1>1. call' = call /\ owns' = owns /\ got' = got /\ rotated' = rotated /\ lost' = lost
    BY DEF Own, Next, Deletes, SignInSteps, Clear, Remove, Expire, DeleteWorkspace,
       RestoreWorkspace, ClearJar,
           ClearPartition, DropLocks, SignInBuilds, SignInStarts, Redeem, StoreSignIn
  <1>2. ~Clears => task' = task /\ refreshes' = refreshes
    BY DEF Own, Next, Clears, Deletes, SignInSteps, Expire, DeleteWorkspace, RestoreWorkspace, ClearJar,
           DropLocks, SignInBuilds, SignInStarts, Redeem, StoreSignIn, cache
  <1>3. ASSUME Clears, NEW d \in Call
        PROVE  task'[d] = task[d] \/ (task'[d] = [task[d] EXCEPT !.abort = TRUE] /\ \E k \in Key : refreshes[k] = d)
    <2>1. PICK ks \in SUBSET Key : Abort(ks)
      BY <1>3 DEF Clears, Clear, Remove, ClearPartition, KeysOf
    <2> QED BY <2>1 DEF Abort
  <1>4. \A r \in TaskState :
          /\ [r EXCEPT !.abort = TRUE].pc = r.pc /\ [r EXCEPT !.abort = TRUE].caller = r.caller
          /\ [r EXCEPT !.abort = TRUE].answer = r.answer /\ [r EXCEPT !.abort = TRUE].newRt = r.newRt
          /\ [r EXCEPT !.abort = TRUE].result = r.result /\ [r EXCEPT !.abort = TRUE].token = r.token
    BY DEF TaskState
  <1> QED BY <1>0, <1>1, <1>2, <1>3, <1>4, ZenonT(60)

\* The refresh token a call noted stays, and only the second look notes one.
LEMMA RefreshTokenNoted ==
  ASSUME TypeOK, Next, NEW d \in Call
  PROVE  /\ Reread(d) \/ (call'[d].rt = call[d].rt /\ (call'[d].pc = "register" => call[d].pc = "register"))
         /\ RefreshDetached(d) \/ (task'[d].pc # "none" => task[d].pc # "none")
  <1>0. call \in [Call -> CallState] /\ task \in [Call -> TaskState]
    BY DEF TypeOK, SendType
  <1> DEFINE Ok == /\ Reread(d) \/ (call'[d].rt = call[d].rt /\ (call'[d].pc = "register" => call[d].pc = "register"))
                   /\ RefreshDetached(d) \/ (task'[d].pc # "none" => task[d].pc # "none")
  <1>1. CASE ~\E c \in Call : Own(c)
    BY <1>1, AdminKeeps
  <1>2. ASSUME NEW c \in Call, Own(c), c # d PROVE Ok
    BY <1>2, OthersKeep
  <1>3. CASE (\E k \in Key : BuildContext(d, k)) \/ TakeSince(d) \/ LockFor(d)
    <2>1. call[d] \in CallState
      BY <1>0
    <2>2. ASSUME NEW k \in Key, BuildContext(d, k) PROVE call'[d].rt = call[d].rt /\ call'[d].pc = "built" /\ task' = task
      BY <1>0, <2>1, <2>2 DEF BuildContext, CallState
    <2>3. ASSUME TakeSince(d) PROVE call'[d].rt = call[d].rt /\ call'[d].pc = "since" /\ task' = task
      BY <1>0, <2>1, <2>3 DEF TakeSince, CallState
    <2>4. ASSUME LockFor(d) PROVE call'[d].rt = call[d].rt /\ call'[d].pc = "queued" /\ task' = task
      BY <1>0, <2>1, <2>4 DEF LockFor, CallState
    <2> QED BY <1>3, <2>2, <2>3, <2>4
  <1>4. CASE CheckWorkspace(d) \/ Look(d) \/ Superseded(d) \/ Requested(d) \/ OwnRequest(d) \/ Awaited(d) \/ Lock(d)
             \/ Dropped(d)
    <2>1. \E x \in CallPc \ {"register"} : Goto(d, x)
      BY <1>4, CallGoes DEF CallPc
    <2>2. call'[d].rt = call[d].rt /\ call'[d].pc # "register"
      BY <1>0, <2>1, GotoMoves
    <2>3. task'[d].pc = task[d].pc
      BY <1>0, <1>4
      DEF CheckWorkspace, Look, Superseded, Requested, OwnRequest, Awaited, Lock, Dropped,
          TaskState
    <2> QED BY <2>2, <2>3
  <1>5. CASE RefreshDetached(d)
    <2>1. \E x \in CallPc \ {"register"} : Goto(d, x)
      BY <1>5, CallGoes DEF CallPc
    <2> QED BY <1>0, <1>5, <2>1, GotoMoves
  <1>6. CASE Reread(d)
    BY <1>6 DEF Reread
  <1>7. CASE TaskSteps(d)
    <2>1. call' = call /\ task[d].pc # "none"
      BY <1>7
      DEF TaskSteps, IssuerHandles, TaskAnswered, TaskAborted, RefreshFinished, TaskStores,
          TaskFails
    <2> QED BY <2>1
  <1> QED BY <1>1, <1>2, <1>3, <1>4, <1>5, <1>6, <1>7 DEF Own, CallSteps

\* What is cached stays of the last session and of the last sign-in.
LEMMA EntryStep ==
  ASSUME TypeOK, SessionInv, Next
  PROVE  EntryCurrent'
  <1> SUFFICES ASSUME NEW k \in Key, NEW t \in entries'[k]
               PROVE  t.past = past'[k] /\ t.signed = signed'[k]
    BY DEF EntryCurrent
  <1>1. ASSUME Stands(k), NEW u \in entries[k], SameToken(t, u)
        PROVE  t.past = past'[k] /\ t.signed = signed'[k]
    BY <1>1 DEF Stands, SameToken, SessionInv, EntryCurrent
  <1>2. ASSUME Stands(k), NEW c \in Call, OfCall(t, c, k)
        PROVE  t.past = past'[k] /\ t.signed = signed'[k]
    <2>1. call[c].since \in Counts
      BY CallRecord DEF TypeOK, SendType
    <2>2. Agrees(k, call[c].since) /\ call[c].since.signIn = signIns[k] /\ call[c].key = k
      BY <1>2, <2>1, CurrentAgrees DEF OfCall
    <2>3. ~Earlier(k, call[c].since)
      BY <2>1, <2>2, Parts DEF Agrees, Earlier, Counts, TypeOK, CacheType
    <2> QED BY <1>2, <2>2, <2>3 DEF OfCall, Stands, SessionInv, CallSince
  <1>3. ASSUME NEW s \in SignIn, OfSignIn(t, s, k)
        PROVE  t.past = past'[k] /\ t.signed = signed'[k]
    <2>1. signing[s].since \in Counts
      BY SignInRecord DEF TypeOK, SendType
    <2>2. Agrees(k, signing[s].since) /\ signing[s].key = k
      BY <1>3, <2>1, CurrentAgrees DEF OfSignIn
    <2>3. ~Earlier(k, signing[s].since)
      BY <2>1, <2>2, Parts DEF Agrees, Earlier, Counts, TypeOK, CacheType
    <2> QED BY <1>3, <2>2, <2>3 DEF OfSignIn, SessionInv, SignInSince, StoreSignIn, Opened
  <1> QED BY <1>1, <1>2, <1>3, EntryOrigin

\* What a call is answered with stays of its session.
LEMMA AnswerStep ==
  ASSUME TypeOK, SessionInv, Next, NEW c \in Call
  PROVE  AnswerInv(c)'
  <1>0. call[c] \in CallState /\ AnswerInv(c) /\ CallSince(c) /\ NotedCall(c) /\ EntryCurrent
    BY CallsNoted DEF TypeOK, SendType, SessionInv
  <1>1. ASSUME NEW t \in got'[c] \cup task'[c].token
        PROVE  t.past = call'[c].past /\ t.signed >= call'[c].signed
    <2>1. t \in Answers(c) \/ (Begun(c) /\ (FromCache(t, c) \/ OfItself(t, c)))
      BY <1>1, AnswerOrigin
    <2>2. Begun(c)
      BY <1>0, <2>1 DEF AnswerInv, Answers, NoTask
    <2>3. call'[c].past = call[c].past /\ call'[c].signed = call[c].signed /\ call[c].signed \in Nat
      BY <1>0, <2>2, CallRecord DEF NotedCall
    <2>4. CASE t \in Answers(c)
      BY <1>0, <2>3, <2>4 DEF AnswerInv, Answers
    <2>5. CASE FromCache(t, c)
      <3>1. call[c].key \in Key /\ call[c].since \in Counts
        BY <1>0, <2>2, CallRecord DEF CallSince, Begun
      <3>2. ~Earlier(call[c].key, call[c].since)
        BY <2>5, <3>1, Parts DEF FromCache, Agrees, Earlier, Counts, TypeOK, CacheType
      <3>3. call[c].past = past[call[c].key] /\ call[c].signed <= signed[call[c].key]
        BY <1>0, <2>2, <3>2 DEF CallSince
      <3>4. t.past = past[call[c].key] /\ t.signed = signed[call[c].key] /\ signed[call[c].key] \in Nat
        BY <1>0, <2>5, <3>1 DEF FromCache, EntryCurrent, TypeOK, CacheType
      <3> QED BY <2>3, <3>3, <3>4
    <2>6. CASE OfItself(t, c)
      BY <2>3, <2>6 DEF OfItself
    <2> QED BY <2>1, <2>4, <2>5, <2>6
  <1>2. call'[c].pc \in {"idle", "built"} => got'[c] = {} /\ task'[c] = NoTask
    BY AnswerOrigin
  <1>3. call'[c].pc = "register" \/ task'[c].pc # "none" => call'[c].rt \in Source
    <2>1. CASE Reread(c)
      <3>1. CASE \E x \in {"superseded", "done", "request"} : Goto(c, x)
        <4>1. call'[c].pc # "register" /\ call'[c].rt = call[c].rt
          BY <3>1, GotoMoves DEF CallPc, TypeOK, SendType
        <4>2. task' = task
          BY <2>1 DEF Reread
        <4> QED BY <1>0, <4>1, <4>2 DEF AnswerInv
      <3>2. CASE ~\E x \in {"superseded", "done", "request"} : Goto(c, x)
        <4>1. PICK t \in entries[call[c].key] : t.rt = call'[c].rt /\ t.rt # None
          BY <2>1, <3>2, RereadMoves
        <4>2. t \in Token
          BY <1>0, <2>1, <4>1 DEF CallSince, Reread, TypeOK, CacheType
        <4> QED BY <4>1, <4>2 DEF Token
      <3> QED BY <3>1, <3>2
    <2>2. CASE ~Reread(c)
      <3>1. call'[c].rt = call[c].rt /\ (call'[c].pc = "register" => call[c].pc = "register")
        BY <2>2, RefreshTokenNoted
      <3>2. task'[c].pc # "none" => task[c].pc # "none" \/ call[c].pc = "register"
        BY RefreshTokenNoted DEF RefreshDetached
      <3> QED BY <1>0, <3>1, <3>2 DEF AnswerInv
    <2> QED BY <2>1, <2>2
  <1> QED BY <1>1, <1>2, <1>3 DEF AnswerInv, Begun

\* A refresh stays registered under its own key.
LEMMA RegisteredStep ==
  ASSUME TypeOK, SessionInv, Next, NEW k \in Key
  PROVE  Registered(k)'
  <1>0. refreshes \in [Key -> Call \cup {None}] /\ Registered(k)
    BY DEF TypeOK, CacheType, SessionInv
  <1>1. \/ refreshes'[k] \in {refreshes[k], None}
        \/ \E c \in Call : RefreshDetached(c) /\ refreshes'[k] = c /\ call[c].key = k
    <2>1. ASSUME NEW c \in Call, RefreshDetached(c)
          PROVE  refreshes'[k] = refreshes[k] \/ (refreshes'[k] = c /\ call[c].key = k)
      BY <1>0, <2>1 DEF RefreshDetached
    <2>2. ASSUME NEW c \in Call, RefreshFinished(c)
          PROVE  refreshes'[k] \in {refreshes[k], None}
      BY <1>0, <2>2 DEF RefreshFinished
    <2>3. ASSUME NEW c \in Call, Own(c), ~RefreshDetached(c), ~RefreshFinished(c)
          PROVE  refreshes' = refreshes
      BY <2>3
      DEF Own, CallSteps, TaskSteps, BuildContext, TakeSince, CheckWorkspace, Look, Superseded,
          LockFor, Reread,
                  Requested, OwnRequest, Awaited, Lock, Dropped, IssuerHandles, TaskAnswered, TaskAborted, TaskStores,
                  TaskFails, cache
    <2>4. ASSUME Clears PROVE refreshes'[k] \in {refreshes[k], None}
      BY <2>4 DEF Clears, Clear, Remove, ClearPartition, Abort
    <2> QED BY <2>1, <2>2, <2>3, <2>4, AdminKeeps
  <1>2. \A c \in Call : Begun(c) => call'[c].key = call[c].key /\ call'[c].pc \notin {"idle", "built"}
    BY CallsNoted DEF NotedCall, Begun
  <1>3. \A c \in Call : RefreshDetached(c) => Begun(c)
    BY DEF RefreshDetached, Begun
  <1> QED BY <1>0, <1>1, <1>2, <1>3 DEF Registered, Begun

\* The first layers are inductive.
LEMMA SessionStep ==
  ASSUME TypeOK, SessionInv, [Next]_vars
  PROVE  TypeOK' /\ SessionInv'
  <1>1. CASE Next
    BY <1>1, StepTyped, EntryStep, SinceStep, SignInSinceStep, AnswerStep, RegisteredStep DEF SessionInv
  <1>2. CASE UNCHANGED vars
    <2> USE <1>2 DEF vars, cache, counters, history, workspace
    <2>1. TypeOK'
      BY DEF TypeOK, CacheType, WorkspaceType, SendType
    <2>2. EntryCurrent' /\ \A k \in Key : Registered(k)'
      BY DEF SessionInv, EntryCurrent, Registered, Begun
    <2>3. ASSUME NEW c \in Call PROVE CallSince(c)' /\ AnswerInv(c)'
      BY DEF SessionInv, CallSince, AnswerInv, Begun, Agrees, Earlier
    <2>4. ASSUME NEW s \in SignIn PROVE SignInSince(s)'
      BY DEF SessionInv, SignInSince, Opened, Agrees, Earlier
    <2> QED BY <2>1, <2>2, <2>3, <2>4 DEF SessionInv
  <1> QED BY <1>1, <1>2

\* An empty cache satisfies them.
LEMMA SessionInit ==
  ASSUME Init
  PROVE  TypeOK /\ SessionInv
  <1> USE TokenAssumption
  <1>1. NoGeneration \in Counts
    BY DEF NoGeneration, Counts
  <1>2. NoCallYet \in CallState /\ NoTask \in TaskState /\ NoSignIn \in SignInState
    BY <1>1 DEF NoCallYet, NoTask, NoSignIn, CallState, TaskState, SignInState, CallPc, TaskPc, Result
  <1>3. TypeOK
    BY <1>2 DEF Init, TypeOK, CacheType, WorkspaceType, SendType
  <1>4. SessionInv
    BY DEF Init, SessionInv, EntryCurrent, Registered, CallSince, AnswerInv, SignInSince,
       Begun, Opened, NoCallYet, NoTask,
           NoSignIn
  <1> QED BY <1>3, <1>4

\* The types of the cache, of the sends and of the sign-ins hold always.
THEOREM TokensTyped == Spec => []TypeOK
  BY SessionInit, SessionStep, PTL DEF Spec

\* No late answer survives: whatever a lock, a sign-out, a workspace delete or
\* a sign-in overtook, what is cached for a key is of its last session, even
\* though clear and clear_partition reset the counters the generations are
\* compared by.
THEOREM CachedTokensAreCurrent == Spec => []EntryCurrent
  <1>1. SessionInv => EntryCurrent
    BY DEF SessionInv
  <1> QED BY <1>1, SessionInit, SessionStep, PTL DEF Spec

\* A send is answered with a token of the session it began in, and of no
\* earlier sign-in, whether it reads the cache, requests a token itself or
\* awaits a refresh.
THEOREM AnswersAreOfTheirSession == Spec => []AnswerOfItsSession
  <1>1. SessionInv => AnswerOfItsSession
    BY DEF SessionInv, AnswerInv, AnswerOfItsSession
  <1> QED BY <1>1, SessionInit, SessionStep, PTL DEF Spec

-----------------------------------------------------------------------------
(* Workspaces: what was built for a deleted one stays apart.               *)

Deletion == \E p \in Partition : DeleteWorkspace(p) \/ RestoreWorkspace(p) \/ Deletes(p)

\* Only deletes and restores change the workspaces.
LEMMA WorkspacesStand ==
  ASSUME Next, ~Deletion
  PROVE  jars' = jars /\ stored' = stored /\ deleting' = deleting /\ locks' = locks /\ overlapped' = overlapped
  <1> DEFINE Stand == /\ jars' = jars /\ stored' = stored /\ deleting' = deleting /\ locks' = locks
                      /\ overlapped' = overlapped
  <1>1. Clear => Stand
    BY DEF Clear, workspace
  <1>2. ASSUME NEW k \in Key, Remove(k) \/ Expire(k) PROVE Stand
    BY <1>2 DEF Remove, Expire, workspace
  <1>3. ASSUME NEW c \in Call, \/ \E k \in Key : BuildContext(c, k)
                              \/ CallSteps(c) \/ Lock(c) \/ Dropped(c) PROVE Stand
    <2>1. (\E k \in Key : BuildContext(c, k)) \/ TakeSince(c) \/ CheckWorkspace(c) \/ Look(c) \/ Superseded(c) => Stand
      BY DEF BuildContext, TakeSince, CheckWorkspace, Look, Superseded, workspace
    <2>2. LockFor(c) \/ Lock(c) \/ Reread(c) \/ RefreshDetached(c) => Stand
      BY DEF LockFor, Lock, Reread, RefreshDetached, workspace
    <2>3. Requested(c) \/ OwnRequest(c) \/ Awaited(c) \/ Dropped(c) => Stand
      BY DEF Requested, OwnRequest, Awaited, Dropped, workspace
    <2> QED BY <1>3, <2>1, <2>2, <2>3 DEF CallSteps
  <1>4. ASSUME NEW c \in Call, TaskSteps(c) PROVE Stand
    BY <1>4 DEF TaskSteps, IssuerHandles, TaskAnswered, TaskAborted, RefreshFinished, TaskStores, TaskFails, workspace
  <1>5. ASSUME NEW s \in SignIn, (\E k \in Key : SignInBuilds(s, k)) \/ SignInSteps(s) PROVE Stand
    BY <1>5 DEF SignInSteps, SignInBuilds, SignInStarts, Redeem, StoreSignIn, workspace
  <1> HIDE DEF Stand
  <1>6. Stand
    BY <1>1, <1>2, <1>3, <1>4, <1>5 DEF Next, Deletion
  <1> QED BY <1>6 DEF Stand

\* The jar of a workspace moves only into the clear of its tokens.
LEMMA JarStands ==
  ASSUME TypeOK, Next, NEW p \in Partition, deleting'[p] # "tokens"
  PROVE  jars'[p] = jars[p] /\ (deleting[p] # "tokens" \/ ClearPartition(p))
  <1>0. jars \in [Partition -> Nat] /\ deleting \in [Partition -> {"no", "jar", "tokens", "locks"}]
    BY DEF TypeOK, WorkspaceType
  <1>1. CASE ~Deletion
    BY <1>1, WorkspacesStand
  <1>2. ASSUME NEW q \in Partition, DeleteWorkspace(q)
        PROVE  jars' = jars /\ deleting' = [deleting EXCEPT ![q] = "jar"] /\ deleting[q] = "no"
    BY <1>2 DEF DeleteWorkspace
  <1>3. ASSUME NEW q \in Partition, RestoreWorkspace(q)
        PROVE  jars' = jars /\ deleting' = deleting
    BY <1>3 DEF RestoreWorkspace
  <1>4. ASSUME NEW q \in Partition, ClearJar(q)
        PROVE  jars' = [jars EXCEPT ![q] = @ + 1] /\ deleting' = [deleting EXCEPT ![q] = "tokens"]
    BY <1>4 DEF ClearJar
  <1>5. ASSUME NEW q \in Partition, ClearPartition(q)
        PROVE  jars' = jars /\ deleting' = [deleting EXCEPT ![q] = "locks"]
    BY <1>5 DEF ClearPartition
  <1>6. ASSUME NEW q \in Partition, DropLocks(q)
        PROVE  jars' = jars /\ deleting' = [deleting EXCEPT ![q] = "no"] /\ deleting[q] = "locks"
    BY <1>6 DEF DropLocks
  <1>7. CASE \E q \in Partition : DeleteWorkspace(q) \/ DropLocks(q)
    BY <1>0, <1>2, <1>6, <1>7
  <1>8. CASE \E q \in Partition : RestoreWorkspace(q)
    BY <1>3, <1>8
  <1>9. CASE \E q \in Partition : ClearJar(q)
    BY <1>0, <1>4, <1>9
  <1>10. CASE \E q \in Partition : ClearPartition(q)
    BY <1>0, <1>5, <1>10
  <1> QED BY <1>1, <1>7, <1>8, <1>9, <1>10 DEF Deletion, Deletes

\* A restore that did not wait is not forgotten.
LEMMA OverlapStays ==
  ASSUME [Next]_vars, overlapped' = {}
  PROVE  overlapped = {}
  <1>1. CASE Next /\ ~Deletion
    BY <1>1, WorkspacesStand
  <1>2. CASE Deletion
    BY <1>2
    DEF Deletion, Deletes, DeleteWorkspace, RestoreWorkspace, ClearJar, ClearPartition, DropLocks
  <1>3. CASE UNCHANGED vars
    BY <1>3 DEF vars, workspace
  <1> QED BY <1>1, <1>2, <1>3

\* A snapshot that agrees after a step agreed before it, and no clear of its
\* workspace came between.
LEMMA AgreedBefore ==
  ASSUME TypeOK, SessionInv, Next, NEW k \in Key, NEW g \in Counts, Earlier(k, g) \/ Agrees(k, g), Agrees(k, g)'
  PROVE  Agrees(k, g) /\ ~ClearPartition(PartitionOf[k])
  <1>1. /\ g.cache \in Nat /\ g.partition \in Nat /\ g.removal \in Nat
        /\ gen \in Nat /\ partitions[PartitionOf[k]] \in Nat /\ removals[k] \in Nat /\ PartitionOf[k] \in Partition
    BY Parts DEF Counts, TypeOK, CacheType
  <1>2. Agrees(k, g)
    BY <1>1, CountersMove DEF Earlier, Agrees
  <1>3. ClearPartition(PartitionOf[k]) => partitions'[PartitionOf[k]] = partitions[PartitionOf[k]] + 1
    BY <1>1 DEF ClearPartition, TypeOK, CacheType
  <1> QED BY <1>1, <1>2, <1>3 DEF Agrees

\* A call is admitted by workspace_deleted_since only.
LEMMA Admission ==
  ASSUME TypeOK, Next, NEW c \in Call, ~Admitted(c)
  PROVE  /\ Admitted(c)' => CheckWorkspace(c) /\ jars[PartitionOf[call[c].key]] = call[c].jar
         /\ got'[c] = got[c] /\ task'[c].token = task[c].token
  <1>0. /\ call \in [Call -> CallState] /\ task \in [Call -> TaskState] /\ call[c] \in CallState
        /\ task[c] \in TaskState
    BY DEF TypeOK, SendType
  <1> DEFINE Ok == /\ Admitted(c)' => CheckWorkspace(c) /\ jars[PartitionOf[call[c].key]] = call[c].jar
                   /\ got'[c] = got[c] /\ task'[c].token = task[c].token
  <1>1. CASE ~\E d \in Call : Own(d)
    BY <1>1, AdminKeeps DEF Admitted
  <1>2. ASSUME NEW d \in Call, Own(d), d # c PROVE Ok
    BY <1>2, OthersKeep DEF Admitted
  <1>3. ASSUME NEW k \in Key, BuildContext(c, k) PROVE Ok
    <2>1. call'[c].pc = "built" /\ task' = task /\ got' = got
      BY <1>0, <1>3 DEF BuildContext, CallState
    <2> QED BY <2>1 DEF Admitted
  <1>4. CASE TakeSince(c)
    <2>1. call'[c].pc = "since" /\ task' = task /\ got' = got
      BY <1>0, <1>4 DEF TakeSince, CallState
    <2> QED BY <2>1 DEF Admitted
  <1>5. CASE CheckWorkspace(c)
    <2>1. CASE jars[PartitionOf[call[c].key]] = call[c].jar
      BY <1>5, <2>1 DEF CheckWorkspace
    <2>2. CASE jars[PartitionOf[call[c].key]] # call[c].jar
      <3>1. PICK x \in {"done", "own"} : Goto(c, x)
        BY <1>5, <2>2 DEF CheckWorkspace
      <3>2. call'[c].pc = x
        BY <1>0, <3>1, GotoMoves DEF CallPc
      <3> QED BY <1>5, <3>2 DEF CheckWorkspace, Admitted
    <2> QED BY <2>1, <2>2
  <1>6. CASE OwnRequest(c)
    <2>1. call'[c].pc = "done" /\ task' = task /\ got' = got
      BY <1>0, <1>6, GotoMoves DEF OwnRequest, CallPc
    <2> QED BY <2>1 DEF Admitted
  <1>7. CASE Dropped(c)
    <2>1. call'[c].pc = "done" /\ got' = got
      BY <1>0, <1>7, GotoMoves DEF Dropped, CallPc
    <2>2. task'[c].pc = task[c].pc /\ task'[c].token = task[c].token
      BY <1>0, <1>7 DEF Dropped, TaskState
    <2> QED BY <2>1, <2>2 DEF Admitted
  <1>8. ~(Look(c) \/ Superseded(c) \/ LockFor(c) \/ Reread(c) \/ RefreshDetached(c) \/ Requested(c) \/ Awaited(c)
          \/ Lock(c) \/ TaskSteps(c))
    BY DEF Admitted, Look, Superseded, LockFor, Reread, RefreshDetached, Requested, Awaited,
       Lock, TaskSteps,
           IssuerHandles, TaskAnswered, TaskAborted, RefreshFinished, TaskStores, TaskFails
  <1> QED BY <1>1, <1>2, <1>3, <1>4, <1>5, <1>6, <1>7, <1>8 DEF Own, CallSteps

\* A sign-in is redeemed only if its workspace was not deleted before.
LEMMA Redemption ==
  ASSUME TypeOK, Next, NEW s \in SignIn, signing'[s].pc = "redeeming"
  PROVE  /\ Opened(s)
         /\ signing[s].pc = "redeeming" \/ jars[PartitionOf[signing[s].key]] = signing[s].jar
  <1>0. signing[s] \in SignInState /\ signing \in [SignIn -> SignInState]
    BY DEF TypeOK, SendType
  <1>1. CASE signing'[s] = signing[s]
    BY <1>1 DEF Opened
  <1>2. CASE signing'[s] # signing[s]
    <2>1. PICK r \in SignIn : (\E k \in Key : SignInBuilds(r, k)) \/ SignInSteps(r)
      BY <1>2, SignInsStand
    <2>2. r = s
      BY <1>0, <1>2, <2>1 DEF SignInSteps, SignInBuilds, SignInStarts, Redeem, StoreSignIn
    <2>3. ~(\E k \in Key : SignInBuilds(s, k)) /\ ~SignInStarts(s) /\ ~StoreSignIn(s)
      <3>1. ASSUME NEW k \in Key, SignInBuilds(s, k) PROVE FALSE
        BY <1>0, <3>1 DEF SignInBuilds, SignInState
      <3>2. ASSUME SignInStarts(s) PROVE FALSE
        BY <1>0, <3>2 DEF SignInStarts, SignInState
      <3>3. ASSUME StoreSignIn(s) PROVE FALSE
        BY <1>0, <3>3 DEF StoreSignIn, SignInState
      <3> QED BY <3>1, <3>2, <3>3
    <2>4. Redeem(s)
      BY <2>1, <2>2, <2>3 DEF SignInSteps
    <2>5. signing' # [signing EXCEPT ![s].pc = "done"]
      BY <1>0 DEF SignInState
    <2> QED BY <2>4, <2>5 DEF Redeem, Opened
  <1> QED BY <1>1, <1>2

\* What is cached after the clear is of the workspace as it is.
LEMMA EntriesApart ==
  ASSUME TypeOK, SessionInv, ApartInv, Next
  PROVE  DeletedApart'
  <1> SUFFICES ASSUME NEW k \in Key, NEW t \in entries'[k], deleting'[PartitionOf[k]] # "tokens"
               PROVE  t.jar = jars'[PartitionOf[k]]
    BY DEF DeletedApart
  <1>1. PICK p \in Partition : p = PartitionOf[k]
    BY Parts
  <1>2. jars'[p] = jars[p] /\ (deleting[p] # "tokens" \/ ClearPartition(p))
    BY <1>1, JarStands
  <1>3. ASSUME Stands(k) PROVE deleting[p] # "tokens"
    <2>1. ClearPartition(p) => partitions'[p] = partitions[p] + 1 /\ partitions[p] \in Nat
      BY DEF ClearPartition, TypeOK, CacheType
    <2> QED BY <1>1, <1>2, <1>3, <2>1 DEF Stands
  <1>4. ASSUME Stands(k), NEW u \in entries[k], SameToken(t, u) PROVE t.jar = jars'[p]
    BY <1>1, <1>2, <1>3, <1>4 DEF SameToken, ApartInv, DeletedApart
  <1>5. ASSUME Stands(k), NEW c \in Call, OfCall(t, c, k) PROVE t.jar = jars'[p]
    <2>1. call[c].since \in Counts
      BY CallRecord DEF TypeOK, SendType
    <2>2. Agrees(k, call[c].since) /\ call[c].key = k
      BY <1>5, <2>1, CurrentAgrees DEF OfCall
    <2>3. Admitted(c)
      BY <1>5 DEF OfCall, Requested, TaskStores, Admitted
    <2>4. call[c].jar = jars[p]
      BY <1>1, <1>3, <1>5, <2>2, <2>3 DEF ApartInv, CallApart
    <2> QED BY <1>2, <1>5, <2>4 DEF OfCall
  <1>6. ASSUME NEW s \in SignIn, OfSignIn(t, s, k) PROVE t.jar = jars'[p]
    <2>1. signing[s].since \in Counts
      BY SignInRecord DEF TypeOK, SendType
    <2>2. Agrees(k, signing[s].since) /\ signing[s].key = k
      BY <1>6, <2>1, CurrentAgrees DEF OfSignIn
    <2>3. deleting' = deleting /\ signing[s].pc = "redeeming"
      BY <1>6 DEF OfSignIn, StoreSignIn, workspace
    <2>4. signing[s].jar = jars[p]
      BY <1>1, <2>2, <2>3 DEF ApartInv, SignInApart
    <2> QED BY <1>2, <1>6, <2>4 DEF OfSignIn
  <1> QED BY <1>1, <1>4, <1>5, <1>6, EntryOrigin

\* A send that is still current after the clear was built after the jar moved.
LEMMA CallApartStep ==
  ASSUME TypeOK, SessionInv, ApartInv, Next, NEW c \in Call
  PROVE  CallApart(c)'
  <1>0. CallApart(c) /\ CallSince(c) /\ AnswerInv(c) /\ NotedCall(c) /\ call[c] \in CallState
    BY CallsNoted DEF ApartInv, SessionInv, TypeOK, SendType
  <1> SUFFICES ASSUME Admitted(c)', Agrees(call[c].key, call[c].since)',
                      deleting'[PartitionOf[call'[c].key]] # "tokens"
               PROVE  call'[c].jar = jars'[PartitionOf[call'[c].key]]
    BY DEF CallApart, Agrees
  <1>1. Begun(c)
    <2>1. CASE Admitted(c)
      BY <1>0, <2>1 DEF Admitted, Begun, AnswerInv, NoTask
    <2>2. CASE ~Admitted(c)
      BY <2>2, Admission DEF CheckWorkspace, Begun
    <2> QED BY <2>1, <2>2
  <1>2. PICK k \in Key, g \in Counts, p \in Partition : k = call[c].key /\ g = call[c].since /\ p = PartitionOf[k]
    BY <1>0, <1>1, CallRecord, Parts DEF CallSince, Begun
  <1>3. call'[c].key = k /\ call'[c].since = g /\ call'[c].jar = call[c].jar
    BY <1>0, <1>1, <1>2 DEF NotedCall, Begun
  <1>4. Agrees(k, g)' /\ (Earlier(k, g) \/ Agrees(k, g))
    BY <1>0, <1>1, <1>2, <1>3 DEF Agrees, CallSince
  <1>5. Agrees(k, g) /\ ~ClearPartition(p)
    BY <1>2, <1>4, AgreedBefore
  <1>6. jars'[p] = jars[p] /\ deleting[p] # "tokens"
    BY <1>2, <1>3, <1>5, JarStands
  <1>7. CASE Admitted(c)
    BY <1>0, <1>2, <1>3, <1>5, <1>6, <1>7 DEF CallApart
  <1>8. CASE ~Admitted(c)
    BY <1>2, <1>3, <1>6, <1>8, Admission
  <1> QED BY <1>7, <1>8

\* The same of a sign-in.
LEMMA SignInApartStep ==
  ASSUME TypeOK, SessionInv, ApartInv, Next, NEW s \in SignIn
  PROVE  SignInApart(s)'
  <1>0. SignInApart(s) /\ SignInSince(s) /\ NotedSignIn(s) /\ signing[s] \in SignInState
    BY SignInsNoted DEF ApartInv, SessionInv, TypeOK, SendType
  <1> SUFFICES ASSUME signing'[s].pc = "redeeming", Agrees(signing[s].key, signing[s].since)',
                      deleting'[PartitionOf[signing'[s].key]] # "tokens"
               PROVE  signing'[s].jar = jars'[PartitionOf[signing'[s].key]]
    BY DEF SignInApart, Agrees
  <1>1. Opened(s) /\ (signing[s].pc = "redeeming" \/ jars[PartitionOf[signing[s].key]] = signing[s].jar)
    BY Redemption
  <1>2. PICK k \in Key, g \in Counts, p \in Partition :
           k = signing[s].key /\ g = signing[s].since /\ p = PartitionOf[k]
    BY <1>0, <1>1, SignInRecord, Parts DEF SignInSince, Opened
  <1>3. signing'[s].key = k /\ signing'[s].since = g /\ signing'[s].jar = signing[s].jar
    BY <1>0, <1>1, <1>2 DEF NotedSignIn, Opened
  <1>4. Agrees(k, g)' /\ (Earlier(k, g) \/ Agrees(k, g))
    BY <1>0, <1>1, <1>2, <1>3 DEF Agrees, SignInSince
  <1>5. Agrees(k, g) /\ ~ClearPartition(p)
    BY <1>2, <1>4, AgreedBefore
  <1>6. jars'[p] = jars[p] /\ deleting[p] # "tokens"
    BY <1>2, <1>3, <1>5, JarStands
  <1> QED BY <1>0, <1>1, <1>2, <1>3, <1>5, <1>6 DEF SignInApart

\* Once a delete has cleared its tokens, nothing that was obtained for the
\* deleted workspace is cached, whether a workspace is restored with the same
\* id before, while or after the delete clears (acquire,
\* redeem_authorization_code, clear_isolation).
THEOREM DeletedWorkspacesStayApart == Spec => []DeletedApart
  <1>1. Init => ApartInv
    BY DEF Init, ApartInv, DeletedApart, CallApart, SignInApart, Admitted, NoCallYet, NoTask, NoSignIn
  <1>2. ASSUME TypeOK, SessionInv, ApartInv, [Next]_vars PROVE ApartInv'
    <2>1. CASE Next
      BY <1>2, <2>1, EntriesApart, CallApartStep, SignInApartStep DEF ApartInv
    <2>2. CASE UNCHANGED vars
      BY <1>2, <2>2
      DEF ApartInv, DeletedApart, CallApart, SignInApart, Admitted, Agrees, vars, cache, counters, workspace
    <2> QED BY <1>2, <2>1, <2>2
  <1>3. ApartInv => DeletedApart
    BY DEF ApartInv
  <1> QED BY <1>1, <1>2, <1>3, SessionInit, SessionStep, PTL DEF Spec

-----------------------------------------------------------------------------
(* Workspaces that are not restored before their delete has cleared: what  *)
(* was built for the deleted one is told apart from what is built next.    *)

\* A delete clears the tokens in the step that moves the generation they belong to.
LEMMA JarMoves ==
  ASSUME overlapped' = {}, TypeOK, JarInv, Next, NEW p \in Partition
  PROVE  /\ Jar(p) \in Nat /\ Jar(p)' \in Nat
         /\ \/ Jar(p)' = Jar(p) /\ (deleting'[p] = "locks" => deleting[p] = "locks")
            \/ Jar(p)' = Jar(p) + 1 /\ ClearPartition(p)
         /\ (deleting'[p] # "no" => p \notin stored') /\ (deleting'[p] = "tokens" => jars'[p] > 0)
  <1>0. /\ jars \in [Partition -> Nat] /\ deleting \in [Partition -> {"no", "jar", "tokens", "locks"}]
        /\ (deleting[p] # "no" => p \notin stored) /\ (deleting[p] = "tokens" => jars[p] > 0)
    BY DEF TypeOK, WorkspaceType, JarInv
  <1>1. CASE ~Deletion
    BY <1>0, <1>1, WorkspacesStand DEF Jar
  <1>2. ASSUME NEW q \in Partition, DeleteWorkspace(q)
        PROVE  /\ jars' = jars /\ deleting' = [deleting EXCEPT ![q] = "jar"] /\ stored' = stored \ {q}
               /\ deleting[q] = "no"
    BY <1>2 DEF DeleteWorkspace
  <1>3. ASSUME NEW q \in Partition, RestoreWorkspace(q)
        PROVE  jars' = jars /\ deleting' = deleting /\ stored' = stored \cup {q} /\ deleting[q] = "no"
    BY <1>3 DEF RestoreWorkspace
  <1>4. ASSUME NEW q \in Partition, ClearJar(q)
        PROVE  /\ jars' = [jars EXCEPT ![q] = @ + 1] /\ deleting' = [deleting EXCEPT ![q] = "tokens"]
               /\ stored' = stored /\ deleting[q] = "jar"
    BY <1>4 DEF ClearJar
  <1>5. ASSUME NEW q \in Partition, ClearPartition(q)
        PROVE  /\ jars' = jars /\ deleting' = [deleting EXCEPT ![q] = "locks"]
               /\ stored' = stored /\ deleting[q] = "tokens"
    BY <1>5 DEF ClearPartition
  <1>6. ASSUME NEW q \in Partition, DropLocks(q)
        PROVE  /\ jars' = jars /\ deleting' = [deleting EXCEPT ![q] = "no"]
               /\ stored' = stored /\ deleting[q] = "locks"
    BY <1>6 DEF DropLocks
  <1>7. CASE \E q \in Partition : DeleteWorkspace(q)
    BY <1>0, <1>2, <1>7 DEF Jar
  <1>8. CASE \E q \in Partition : RestoreWorkspace(q)
    BY <1>0, <1>3, <1>8 DEF Jar
  <1>9. CASE \E q \in Partition : ClearJar(q)
    BY <1>0, <1>4, <1>9 DEF Jar
  <1>10. CASE \E q \in Partition : ClearPartition(q)
    BY <1>0, <1>5, <1>10 DEF Jar
  <1>11. CASE \E q \in Partition : DropLocks(q)
    BY <1>0, <1>6, <1>11 DEF Jar
  <1> QED BY <1>1, <1>7, <1>8, <1>9, <1>10, <1>11 DEF Deletion, Deletes

\* What a call built with is not newer than the workspace, and the same once
\* it was admitted and nothing was cleared.
LEMMA CallJarStep ==
  ASSUME overlapped' = {}, TypeOK, SessionInv, WorkspaceInv, Next, NEW c \in Call
  PROVE  CallJar(c)'
  <1>0. /\ JarInv /\ CallJar(c) /\ CallSince(c) /\ AnswerInv(c) /\ NotedCall(c) /\ call[c] \in CallState
        /\ call \in [Call -> CallState]
    BY CallsNoted DEF WorkspaceInv, SessionInv, TypeOK, SendType
  <1>1. ASSUME NEW p \in Partition, call'[c].pc # "idle" PROVE BuiltInv(p, call[c].key, call[c].jar)'
    <2>1. CASE call[c].pc # "idle"
      <3>1. PICK k \in Key, j \in Nat : k = call[c].key /\ j = call[c].jar
        BY <1>0, <2>1, CallRecord DEF CallSince
      <3>2. call'[c].key = k /\ call'[c].jar = j
        BY <1>0, <2>1, <3>1 DEF NotedCall
      <3>3. PartitionOf[k] = p => j <= Jar(p) /\ (deleting[p] = "locks" => j < Jar(p))
        BY <1>0, <2>1, <3>1 DEF CallJar, BuiltInv
      <3>4. PartitionOf[k] = p => j <= Jar(p)' /\ (deleting'[p] = "locks" => j < Jar(p)')
        <4>1. /\ Jar(p) \in Nat /\ Jar(p)' \in Nat
              /\ \/ Jar(p)' = Jar(p) /\ (deleting'[p] = "locks" => deleting[p] = "locks")
                 \/ Jar(p)' = Jar(p) + 1
          BY <1>0, JarMoves
        <4> QED BY <3>3, <4>1
      <3> QED BY <3>2, <3>4 DEF BuiltInv, Jar
    <2>2. CASE call[c].pc = "idle"
      <3>1. call'[c] # call[c] /\ ~TakeSince(c)
        BY <1>1, <2>2 DEF TakeSince
      <3>2. PICK k \in Key : BuildContext(c, k)
        BY <2>2, <3>1, CallStarts DEF Begun
      <3>3. call'[c].key = k /\ call'[c].jar = jars[PartitionOf[k]]
        BY <1>0, <3>2 DEF BuildContext, CallState
      <3>4. PartitionOf[k] \in stored /\ jars' = jars /\ deleting' = deleting
        BY <3>2 DEF BuildContext, workspace
      <3>5. deleting[PartitionOf[k]] = "no" /\ jars[PartitionOf[k]] \in Nat
        BY <1>0, <3>4, Parts DEF JarInv, TypeOK, WorkspaceType
      <3> QED BY <3>3, <3>4, <3>5 DEF BuiltInv, Jar
    <2> QED BY <2>1, <2>2
  <1>2. ASSUME Admitted(c)', Agrees(call[c].key, call[c].since)'
        PROVE  call'[c].jar = Jar(PartitionOf[call[c].key])'
    <2>1. Begun(c)
      <3>1. CASE Admitted(c)
        BY <1>0, <3>1 DEF Admitted, Begun, AnswerInv, NoTask
      <3>2. CASE ~Admitted(c)
        BY <1>2, <3>2, Admission DEF CheckWorkspace, Begun
      <3> QED BY <3>1, <3>2
    <2>2. PICK k \in Key, g \in Counts, p \in Partition : k = call[c].key /\ g = call[c].since /\ p = PartitionOf[k]
      BY <1>0, <2>1, CallRecord, Parts DEF CallSince, Begun
    <2>3. call'[c].key = k /\ call'[c].since = g /\ call'[c].jar = call[c].jar
      BY <1>0, <2>1, <2>2 DEF NotedCall, Begun
    <2>4. Agrees(k, g)' /\ (Earlier(k, g) \/ Agrees(k, g))
      BY <1>0, <1>2, <2>1, <2>2, <2>3 DEF Agrees, CallSince
    <2>5. Agrees(k, g) /\ ~ClearPartition(p)
      BY <2>2, <2>4, AgreedBefore
    <2>6. Jar(p)' = Jar(p)
      BY <1>0, <2>5, JarMoves
    <2>7. CASE Admitted(c)
      BY <1>0, <2>2, <2>3, <2>5, <2>6, <2>7 DEF CallJar, Jar
    <2>8. CASE ~Admitted(c)
      <3>1. jars[p] = call[c].jar /\ jars[p] \in Nat
        BY <1>2, <2>2, <2>8, Admission DEF TypeOK, WorkspaceType
      <3>2. call[c].jar <= Jar(p)
        BY <1>0, <2>1, <2>2 DEF CallJar, BuiltInv, Begun
      <3>3. Jar(p) = jars[p]
        BY <3>1, <3>2 DEF Jar
      <3> QED BY <2>2, <2>3, <2>6, <3>1, <3>3 DEF Jar
    <2> QED BY <2>7, <2>8
  <1> QED BY <1>1, <1>2 DEF CallJar

\* Every step keeps them apart.
LEMMA WorkspaceStep ==
  ASSUME overlapped' = {}, TypeOK, SessionInv, WorkspaceInv, [Next]_vars
  PROVE  WorkspaceInv'
  <1>1. CASE Next
    <2>1. JarInv'
      BY <1>1, JarMoves DEF WorkspaceInv, JarInv
    <2> QED BY <1>1, <2>1, CallJarStep DEF WorkspaceInv
  <1>2. CASE UNCHANGED vars
    <2> USE <1>2 DEF vars, cache, counters, history, workspace
    <2>1. JarInv'
      BY DEF WorkspaceInv, JarInv, Jar
    <2>2. ASSUME NEW c \in Call PROVE CallJar(c)'
      BY DEF WorkspaceInv, CallJar, Admitted, Agrees, BuiltInv, Jar
    <2> QED BY <2>1, <2>2 DEF WorkspaceInv
  <1> QED BY <1>1, <1>2

\* Nothing is built at first.
LEMMA WorkspaceInit ==
  ASSUME Init
  PROVE  WorkspaceInv
  <1>1. JarInv
    BY DEF Init, JarInv
  <1>2. ASSUME NEW c \in Call PROVE CallJar(c)
    BY DEF Init, CallJar, Admitted, NoCallYet, NoTask
  <1> QED BY <1>1, <1>2 DEF WorkspaceInv

-----------------------------------------------------------------------------
(* Single flight: one owner of a key's mutex.                              *)

\* How a call moves: on, or to its end with the guard dropped.
Goes(c, x) == call'[c].pc = x /\ call'[c].lock = call[c].lock /\ call'[c].rt = call[c].rt
Ends(c) == Goes(c, "done") /\ owns' = owns \ {c}
Quiet(c) == task'[c] = task[c] /\ owns' = owns
\* How its task moves: what the issuer answered, and whether it was aborted, stay.
TaskKeeps(c) ==
  task'[c].answer = task[c].answer /\ task'[c].newRt = task[c].newRt /\ task'[c].abort = task[c].abort
TaskGoes(c, from, to) ==
  /\ task[c].pc = from /\ task'[c].pc = to /\ task'[c].caller = task[c].caller /\ TaskKeeps(c)
  /\ call'[c] = call[c]

\* What each step of a call does to it, its guard and its task.
LEMMA CallEffects ==
  ASSUME TypeOK, NEW c \in Call
  PROVE  /\ (\E k \in Key : BuildContext(c, k)) => call[c].pc = "idle" /\ Goes(c, "built") /\ Quiet(c)
         /\ TakeSince(c) => call[c].pc = "built" /\ Goes(c, "since") /\ Quiet(c)
         /\ CheckWorkspace(c) => call[c].pc = "since" /\ (\E x \in {"look", "done", "own"} : Goes(c, x)) /\ Quiet(c)
         /\ Look(c) => /\ call[c].pc = "look" /\ task'[c] = task[c]
                       /\ Ends(c) \/ (owns' = owns /\ \E x \in {"superseded", "locking"} : Goes(c, x))
         /\ Superseded(c) => call[c].pc = "superseded" /\ task'[c] = task[c] /\ Ends(c)
         /\ LockFor(c) => /\ call[c].pc = "locking" /\ call'[c].pc = "queued" /\ call'[c].rt = call[c].rt
                          /\ call'[c].lock = locks[call[c].key] /\ Quiet(c)
         /\ Lock(c) => call[c].pc = "queued" /\ task'[c] = task[c] /\ Goes(c, "holding") /\ owns' = owns \cup {c}
         /\ Requested(c) => call[c].pc = "request" /\ task'[c] = task[c] /\ Ends(c)
         /\ OwnRequest(c) => call[c].pc = "own" /\ Goes(c, "done") /\ Quiet(c)
  <1>0. call \in [Call -> CallState] /\ call[c] \in CallState
    BY DEF TypeOK, SendType
  <1>1. ASSUME NEW x \in CallPc, Goto(c, x) PROVE Goes(c, x)
    BY <1>0, <1>1, GotoMoves DEF Goes
  <1>2. ASSUME NEW k \in Key, BuildContext(c, k) PROVE call[c].pc = "idle" /\ Goes(c, "built") /\ Quiet(c)
    BY <1>0, <1>2 DEF BuildContext, CallState, Goes, Quiet
  <1>3. TakeSince(c) => call[c].pc = "built" /\ Goes(c, "since") /\ Quiet(c)
    BY <1>0 DEF TakeSince, CallState, Goes, Quiet
  <1>4. CheckWorkspace(c) => call[c].pc = "since" /\ (\E x \in {"look", "done", "own"} : Goes(c, x)) /\ Quiet(c)
    BY <1>1, CallGoes DEF CheckWorkspace, CallPc, Quiet
  <1>5. Look(c) => /\ call[c].pc = "look" /\ task'[c] = task[c]
                   /\ Ends(c) \/ (owns' = owns /\ \E x \in {"superseded", "locking"} : Goes(c, x))
    BY <1>1 DEF Look, Returns, CallPc, Ends
  <1>6. Superseded(c) => call[c].pc = "superseded" /\ task'[c] = task[c] /\ Ends(c)
    BY <1>1 DEF Superseded, Returns, CallPc, Ends
  <1>7. LockFor(c) => /\ call[c].pc = "locking" /\ call'[c].pc = "queued" /\ call'[c].rt = call[c].rt
                      /\ call'[c].lock = locks[call[c].key] /\ Quiet(c)
    BY <1>0 DEF LockFor, CallState, Quiet
  <1>8. Lock(c) => call[c].pc = "queued" /\ task'[c] = task[c] /\ Goes(c, "holding") /\ owns' = owns \cup {c}
    BY <1>1 DEF Lock, CallPc
  <1>9. Requested(c) => call[c].pc = "request" /\ task'[c] = task[c] /\ Ends(c)
    BY <1>1 DEF Requested, Returns, CallPc, Ends
  <1>10. OwnRequest(c) => call[c].pc = "own" /\ Goes(c, "done") /\ Quiet(c)
    BY <1>1 DEF OwnRequest, CallPc, Quiet
  <1> QED BY <1>2, <1>3, <1>4, <1>5, <1>6, <1>7, <1>8, <1>9, <1>10

\* The same of the steps that involve a refresh.
LEMMA RefreshEffects ==
  ASSUME TypeOK, SessionInv, NEW c \in Call
  PROVE  /\ Reread(c) => /\ call[c].pc = "holding" /\ task'[c] = task[c]
                         /\ \/ Ends(c)
                            \/ owns' = owns /\ \E x \in {"superseded", "request"} : Goes(c, x)
                            \/ owns' = owns /\ call'[c].pc = "register" /\ call'[c].lock = call[c].lock
         /\ RefreshDetached(c) => /\ call[c].pc = "register" /\ TaskKeeps(c)
                                  /\ \/ Ends(c) /\ task'[c] = task[c]
                                     \/ /\ Goes(c, "awaiting") /\ owns' = owns
                                        /\ task'[c].pc = "requesting" /\ task'[c].caller = TRUE
         /\ Awaited(c) => /\ call[c].pc = "awaiting" /\ TaskKeeps(c) /\ task[c].pc \in {"done", "aborted"}
                          /\ task'[c].pc = task[c].pc
                          /\ Ends(c) \/ (task[c].result = "fallback" /\ Goes(c, "request") /\ owns' = owns)
         /\ Dropped(c) => /\ call[c].pc \in {"since", "queued", "request", "own", "awaiting"} /\ Goes(c, "done")
                          /\ TaskKeeps(c) /\ task'[c].pc = task[c].pc
                          /\ owns' = IF Live(c) THEN owns ELSE owns \ {c}
         /\ IssuerHandles(c) => /\ task[c].pc = "requesting" /\ task'[c].pc = "requesting" /\ task[c].answer = "none"
                                /\ task'[c].caller = task[c].caller /\ task'[c].abort = task[c].abort
                                /\ task'[c].answer = "token" => task'[c].newRt \in {c, call[c].rt}
                                /\ \/ Renewed' \subseteq Renewed
                                   \/ /\ Renewed' = Renewed \cup {call[c].rt}
                                      /\ task'[c].answer = "token" /\ task'[c].newRt = c
                                /\ call' = call /\ owns' = owns
         /\ TaskAnswered(c) => TaskGoes(c, "requesting", "answered") /\ owns' = owns
         /\ TaskAborted(c) => /\ TaskGoes(c, "requesting", "aborted") /\ owns' = owns \ {c}
                              /\ task[c].abort /\ task'[c].result = "superseded"
         /\ RefreshFinished(c) => TaskGoes(c, "answered", "finishing") /\ owns' = owns
         /\ TaskStores(c) => /\ TaskGoes(c, "finishing", "done") /\ owns' = owns \ {c}
                             /\ task[c].answer = "token" /\ task'[c].result # "fallback"
         /\ TaskFails(c) => /\ TaskGoes(c, "finishing", "done") /\ task[c].answer # "token"
                            /\ owns' = IF task'[c].result = "fallback" /\ task[c].caller = TRUE THEN owns ELSE owns \ {c}
  <1>0. /\ call \in [Call -> CallState] /\ call[c] \in CallState
        /\ task \in [Call -> TaskState] /\ task[c] \in TaskState
    BY DEF TypeOK, SendType
  <1>1. ASSUME NEW x \in CallPc, Goto(c, x) PROVE Goes(c, x)
    BY <1>0, <1>1, GotoMoves DEF Goes
  <1>2. ASSUME Reread(c)
        PROVE  /\ call[c].pc = "holding" /\ task'[c] = task[c]
               /\ \/ Ends(c)
                  \/ owns' = owns /\ \E x \in {"superseded", "request"} : Goes(c, x)
                  \/ owns' = owns /\ call'[c].pc = "register" /\ call'[c].lock = call[c].lock
    <2>1. CASE \E x \in {"superseded", "done", "request"} : Goto(c, x)
      <3>1. call'[c].pc # "register"
        BY <1>0, <2>1, GotoMoves DEF CallPc
      <3>2. ASSUME NEW rt \in Source \cup {None}, call' = [call EXCEPT ![c].pc = "register", ![c].rt = rt] PROVE FALSE
        BY <1>0, <3>1, <3>2 DEF CallState
      <3>3. {t.rt : t \in entries[call[c].key]} \ {None} \subseteq Source \cup {None}
        <4>1. call[c].key \in Key
          BY <1>2 DEF Reread, SessionInv, CallSince
        <4> QED BY <4>1 DEF TypeOK, CacheType, Token
      <3>4. \/ Goto(c, "done") /\ owns' = owns \ {c}
            \/ owns' = owns /\ (Goto(c, "superseded") \/ Goto(c, "request"))
        BY <1>2, <3>2, <3>3 DEF Reread, Returns
      <3> QED BY <1>1, <1>2, <3>4 DEF CallPc, Ends, Reread
    <2>2. CASE ~\E x \in {"superseded", "done", "request"} : Goto(c, x)
      BY <1>2, <2>2, RereadMoves DEF Reread
    <2> QED BY <2>1, <2>2
  <1>3. ASSUME RefreshDetached(c)
        PROVE  /\ call[c].pc = "register" /\ TaskKeeps(c)
               /\ \/ Ends(c) /\ task'[c] = task[c]
                  \/ /\ Goes(c, "awaiting") /\ owns' = owns
                     /\ task'[c].pc = "requesting" /\ task'[c].caller = TRUE
    <2>1. CASE ~Current(call[c].key, call[c].since)
      <3>1. task' = task /\ Goto(c, "done") /\ owns' = owns \ {c} /\ call[c].pc = "register"
        BY <1>3, <2>1 DEF RefreshDetached, Returns
      <3> QED BY <1>1, <3>1 DEF Ends, CallPc, TaskKeeps
    <2>2. CASE Current(call[c].key, call[c].since)
      <3>1. /\ task' = [task EXCEPT ![c] = [task[c] EXCEPT !.pc = "requesting", !.caller = TRUE]]
            /\ owns' = owns /\ Goto(c, "awaiting") /\ call[c].pc = "register"
        BY <1>3, <2>2 DEF RefreshDetached
      <3>2. TaskKeeps(c) /\ task'[c].pc = "requesting" /\ task'[c].caller = TRUE
        BY <1>0, <3>1 DEF TaskKeeps, TaskState
      <3> QED BY <1>1, <3>1, <3>2 DEF CallPc
    <2> QED BY <2>1, <2>2
  <1>4. \A b \in BOOLEAN : /\ [task[c] EXCEPT !.caller = b].pc = task[c].pc
                           /\ [task[c] EXCEPT !.caller = b].answer = task[c].answer
                           /\ [task[c] EXCEPT !.caller = b].newRt = task[c].newRt
                           /\ [task[c] EXCEPT !.caller = b].abort = task[c].abort
    BY <1>0 DEF TaskState
  <1>5. Awaited(c) => /\ call[c].pc = "awaiting" /\ TaskKeeps(c) /\ task[c].pc \in {"done", "aborted"}
                      /\ task'[c].pc = task[c].pc
                      /\ Ends(c) \/ (task[c].result = "fallback" /\ Goes(c, "request") /\ owns' = owns)
    BY <1>0, <1>1, <1>4 DEF Awaited, Returns, TaskKeeps, Ends, CallPc
  <1>6. Dropped(c) => /\ call[c].pc \in {"since", "queued", "request", "own", "awaiting"} /\ Goes(c, "done")
                      /\ TaskKeeps(c) /\ task'[c].pc = task[c].pc
                      /\ owns' = IF Live(c) THEN owns ELSE owns \ {c}
    BY <1>0, <1>1, <1>4 DEF Dropped, TaskKeeps, CallPc
  <1>7. IssuerHandles(c) => /\ task[c].pc = "requesting" /\ task'[c].pc = "requesting" /\ task[c].answer = "none"
                            /\ task'[c].caller = task[c].caller /\ task'[c].abort = task[c].abort
                            /\ task'[c].answer = "token" => task'[c].newRt \in {c, call[c].rt}
                            /\ \/ Renewed' \subseteq Renewed
                               \/ /\ Renewed' = Renewed \cup {call[c].rt}
                                  /\ task'[c].answer = "token" /\ task'[c].newRt = c
                            /\ call' = call /\ owns' = owns
    <2> SUFFICES ASSUME IssuerHandles(c)
                 PROVE  /\ task'[c].pc = "requesting"
                        /\ task'[c].caller = task[c].caller /\ task'[c].abort = task[c].abort
                        /\ task'[c].answer = "token" => task'[c].newRt \in {c, call[c].rt}
                        /\ \/ Renewed' \subseteq Renewed
                           \/ /\ Renewed' = Renewed \cup {call[c].rt}
                              /\ task'[c].answer = "token" /\ task'[c].newRt = c
      BY DEF IssuerHandles
    <2>1. ASSUME NEW a \in Answer \ {"token"}, task' = [task EXCEPT ![c].answer = a]
          PROVE  /\ task'[c].pc = task[c].pc /\ task'[c].caller = task[c].caller /\ task'[c].abort = task[c].abort
                 /\ task'[c].answer # "token"
      BY <1>0, <2>1 DEF TaskState
    <2>2. ASSUME NEW rt \in {c, call[c].rt}, task' = [task EXCEPT ![c].answer = "token", ![c].newRt = rt]
          PROVE  /\ task'[c].pc = task[c].pc /\ task'[c].caller = task[c].caller /\ task'[c].abort = task[c].abort
                 /\ task'[c].answer = "token" /\ task'[c].newRt = rt
      BY <1>0, <2>2 DEF TaskState
    <2>3. \/ Renewed' \subseteq Renewed /\ \E a \in Answer \ {"token"} : task' = [task EXCEPT ![c].answer = a]
          \/ Renewed' \subseteq Renewed /\ task' = [task EXCEPT ![c].answer = "token", ![c].newRt = call[c].rt]
          \/ /\ task' = [task EXCEPT ![c].answer = "token", ![c].newRt = c]
             /\ Renewed' = Renewed \cup {call[c].rt}
      BY DEF IssuerHandles, Renewed, Answer
    <2>4. task[c].pc = "requesting"
      BY DEF IssuerHandles
    <2> QED BY <2>1, <2>2, <2>3, <2>4
  <1>8. TaskAnswered(c) => TaskGoes(c, "requesting", "answered") /\ owns' = owns
    BY <1>0 DEF TaskAnswered, TaskGoes, TaskKeeps, TaskState
  <1>9. TaskAborted(c) => /\ TaskGoes(c, "requesting", "aborted") /\ owns' = owns \ {c}
                          /\ task[c].abort /\ task'[c].result = "superseded"
    <2>1. TaskAborted(c) => TaskGoes(c, "requesting", "aborted") /\ owns' = owns \ {c} /\ task'[c].result = "superseded"
      <3> SUFFICES ASSUME TaskAborted(c)
                   PROVE  TaskGoes(c, "requesting", "aborted") /\ owns' = owns \ {c} /\ task'[c].result = "superseded"
        OBVIOUS
      <3>1. /\ task' = [task EXCEPT ![c] = [task[c] EXCEPT !.pc = "aborted", !.result = "superseded"]]
            /\ task[c].pc = "requesting" /\ call' = call /\ owns' = owns \ {c}
        BY DEF TaskAborted
      <3> QED BY <1>0, <3>1 DEF TaskGoes, TaskKeeps, TaskState
    <2>2. TaskAborted(c) => task[c].abort
      BY DEF TaskAborted
    <2> QED BY <2>1, <2>2
  <1>10. RefreshFinished(c) => TaskGoes(c, "answered", "finishing") /\ owns' = owns
    BY <1>0 DEF RefreshFinished, TaskGoes, TaskKeeps, TaskState
  <1>11. ASSUME NEW r, NEW T, TaskEnds(c, r, T)
         PROVE  /\ task'[c].pc = "done" /\ task'[c].caller = task[c].caller /\ TaskKeeps(c) /\ task'[c].result = r
                /\ owns' = IF r = "fallback" /\ task[c].caller = TRUE THEN owns ELSE owns \ {c}
    <2>1. task' = [task EXCEPT ![c] = [task[c] EXCEPT !.pc = "done", !.result = r, !.token = T]]
      BY <1>11 DEF TaskEnds
    <2>2. task'[c].pc = "done" /\ task'[c].caller = task[c].caller /\ TaskKeeps(c) /\ task'[c].result = r
      BY <1>0, <2>1 DEF TaskKeeps, TaskState
    <2>3. task[c].caller \in BOOLEAN
      BY <1>0, TaskRecord
    <2> QED BY <1>11, <2>2, <2>3 DEF TaskEnds
  <1>12. TaskStores(c) => /\ TaskGoes(c, "finishing", "done") /\ owns' = owns \ {c}
                          /\ task[c].answer = "token" /\ task'[c].result # "fallback"
    <2> SUFFICES ASSUME TaskStores(c) PROVE TaskGoes(c, "finishing", "done") /\ owns' = owns \ {c} /\ task'[c].result # "fallback"
      BY DEF TaskStores
    <2>1. \E r \in {"token", "superseded"}, T \in {{TokenOf(c, task[c].newRt)}, SupersededAnswer(call[c].key, call[c].since)} :
             TaskEnds(c, r, T)
      BY DEF TaskStores
    <2>2. call' = call /\ task[c].pc = "finishing"
      BY DEF TaskStores
    <2> QED BY <1>11, <2>1, <2>2 DEF TaskGoes
  <1>13. TaskFails(c) => /\ TaskGoes(c, "finishing", "done") /\ task[c].answer # "token"
                         /\ owns' = IF task'[c].result = "fallback" /\ task[c].caller = TRUE THEN owns ELSE owns \ {c}
    BY <1>11 DEF TaskFails, TaskGoes
  <1> QED BY <1>2, <1>3, <1>5, <1>6, <1>7, <1>8, <1>9, <1>10, <1>12, <1>13

\* Who has the guard, but for whose mutex it is.
Guarded(c) ==
  /\ call[c].pc \in {"holding", "register", "request"} => c \in owns
  /\ Live(c) => c \in owns /\ call[c].pc \in {"awaiting", "done"}
  /\ call[c].pc = "awaiting" =>
       /\ task[c].caller = TRUE /\ task[c].pc # "none"
       /\ task[c].pc \in {"done", "aborted"} /\ task[c].result = "fallback" => c \in owns
  /\ task[c].pc # "none" => call[c].pc \in {"awaiting", "request", "done"}
  /\ task[c].pc = "none" => task[c].answer = "none"
  /\ c \in owns => call[c].pc \in {"holding", "superseded", "register", "awaiting", "request", "done"}

\* A call's own steps hand its guard on as they should; no other step takes it,
\* and a mutex is asked for once.
LEMMA GuardedStep ==
  ASSUME TypeOK, SessionInv, Next, NEW c \in Call, Guarded(c)
  PROVE  /\ Guarded(c)'
         /\ LockFor(c) \/ (call'[c].lock = call[c].lock /\ (Queued(c)' => Queued(c)))
         /\ c \in owns' => c \in owns \/ Lock(c)
         /\ c \in owns => ~LockFor(c)
  <1> DEFINE Ok == /\ Guarded(c)'
                   /\ LockFor(c) \/ (call'[c].lock = call[c].lock /\ (Queued(c)' => Queued(c)))
                   /\ c \in owns' => c \in owns \/ Lock(c)
  <1>0. c \in owns => ~LockFor(c)
    BY DEF Guarded, LockFor
  <1>1. CASE ~\E d \in Call : Own(d)
    <2>1. /\ call'[c] = call[c] /\ (c \in owns' <=> c \in owns) /\ task'[c].pc = task[c].pc
          /\ task'[c].caller = task[c].caller /\ task'[c].result = task[c].result
          /\ task'[c].answer = task[c].answer
      BY <1>1, AdminKeeps
    <2> QED BY <1>0, <2>1 DEF Guarded, Live, Queued
  <1>2. ASSUME NEW d \in Call, Own(d), d # c PROVE Ok
    BY <1>2, OthersKeep DEF Guarded, Live, Queued
  <1>3. CASE (\E k \in Key : BuildContext(c, k)) \/ TakeSince(c) \/ CheckWorkspace(c) \/ OwnRequest(c)
    BY <1>0, <1>3, CallEffects DEF Guarded, Live, Queued, Goes, Quiet
  <1>4. CASE Look(c) \/ Superseded(c) \/ Requested(c)
    BY <1>0, <1>4, CallEffects DEF Guarded, Live, Queued, Goes, Ends
  <1>5. CASE LockFor(c)
    BY <1>0, <1>5, CallEffects DEF Guarded, Live, Quiet
  <1>6. CASE Lock(c)
    BY <1>0, <1>6, CallEffects DEF Guarded, Live, Queued, Goes
  <1>7. CASE Reread(c)
    <2>1. /\ call[c].pc = "holding" /\ task'[c] = task[c]
          /\ \/ Ends(c)
             \/ owns' = owns /\ \E x \in {"superseded", "request"} : Goes(c, x)
             \/ owns' = owns /\ call'[c].pc = "register" /\ call'[c].lock = call[c].lock
      BY <1>7, RefreshEffects
    <2> QED BY <1>0, <2>1 DEF Guarded, Live, Queued, Goes, Ends
  <1>8. CASE RefreshDetached(c)
    <2>1. /\ call[c].pc = "register" /\ TaskKeeps(c)
          /\ \/ Ends(c) /\ task'[c] = task[c]
             \/ /\ Goes(c, "awaiting") /\ owns' = owns
                /\ task'[c].pc = "requesting" /\ task'[c].caller = TRUE
      BY <1>8, RefreshEffects
    <2> QED BY <1>0, <2>1 DEF Guarded, Live, Queued, Goes, Ends, TaskKeeps
  <1>9. CASE Awaited(c)
    <2>1. /\ call[c].pc = "awaiting" /\ TaskKeeps(c) /\ task[c].pc \in {"done", "aborted"}
          /\ task'[c].pc = task[c].pc
          /\ Ends(c) \/ (task[c].result = "fallback" /\ Goes(c, "request") /\ owns' = owns)
      BY <1>9, RefreshEffects
    <2> QED BY <1>0, <2>1 DEF Guarded, Live, Queued, Goes, Ends, TaskKeeps
  <1>10. CASE Dropped(c)
    <2>1. /\ call[c].pc \in {"since", "queued", "request", "own", "awaiting"} /\ Goes(c, "done")
          /\ TaskKeeps(c) /\ task'[c].pc = task[c].pc
          /\ owns' = IF Live(c) THEN owns ELSE owns \ {c}
      BY <1>10, RefreshEffects
    <2> QED BY <1>0, <2>1 DEF Guarded, Live, Queued, Goes, TaskKeeps
  <1>11. CASE IssuerHandles(c)
    <2>1. /\ task[c].pc = "requesting" /\ task'[c].pc = "requesting" /\ task'[c].caller = task[c].caller
          /\ call' = call /\ owns' = owns
      BY <1>11, RefreshEffects
    <2> QED BY <1>0, <2>1 DEF Guarded, Live, Queued
  <1>12. CASE TaskAnswered(c) \/ RefreshFinished(c)
    <2>1. /\ TaskGoes(c, "requesting", "answered") \/ TaskGoes(c, "answered", "finishing")
          /\ owns' = owns
      BY <1>12, RefreshEffects
    <2> QED BY <1>0, <2>1 DEF Guarded, Live, Queued, TaskGoes, TaskKeeps
  <1>13. CASE TaskAborted(c) \/ TaskStores(c)
    <2>1. /\ TaskGoes(c, "requesting", "aborted") \/ TaskGoes(c, "finishing", "done")
          /\ owns' = owns \ {c} /\ task'[c].result # "fallback"
      BY <1>13, RefreshEffects
    <2> QED BY <1>0, <2>1 DEF Guarded, Live, Queued, TaskGoes, TaskKeeps
  <1>14. CASE TaskFails(c)
    <2>1. /\ TaskGoes(c, "finishing", "done")
          /\ owns' = IF task'[c].result = "fallback" /\ task[c].caller = TRUE THEN owns ELSE owns \ {c}
      BY <1>14, RefreshEffects
    <2> QED BY <1>0, <2>1 DEF Guarded, Live, Queued, TaskGoes, TaskKeeps
  <1> QED
    BY <1>0, <1>1, <1>2, <1>3, <1>4, <1>5, <1>6, <1>7, <1>8, <1>9, <1>10, <1>11, <1>12, <1>13,
       <1>14
             DEF Own, CallSteps, TaskSteps

\* The mutexes of a key are dropped only when no call queued on them agrees
\* with the generation any more.
LEMMA LocksStand ==
  ASSUME overlapped' = {}, TypeOK, SessionInv, WorkspaceInv, Next, NEW c \in Call, Admitted(c),
         Agrees(call[c].key, call[c].since)
  PROVE  locks'[call[c].key] = locks[call[c].key]
  <1>1. call[c].pc # "idle" /\ call[c].key \in Key
    BY DEF Admitted, SessionInv, AnswerInv, CallSince, Begun, NoTask
  <1>2. PICK k \in Key, p \in Partition : k = call[c].key /\ p = PartitionOf[k]
    BY <1>1, Parts
  <1>3. call[c].jar = Jar(p) /\ (deleting[p] = "locks" => call[c].jar < Jar(p)) /\ call[c].jar \in Nat
    BY <1>1, <1>2, CallRecord DEF WorkspaceInv, CallJar, BuiltInv, TypeOK, SendType
  <1>4. deleting[p] # "locks"
    BY <1>3
  <1>5. ASSUME NEW q \in Partition, DropLocks(q) PROVE locks'[k] = locks[k]
    BY <1>2, <1>4, <1>5 DEF DropLocks, KeysOf
  <1>6. ASSUME NEW q \in Partition, DeleteWorkspace(q) \/ RestoreWorkspace(q) \/ ClearJar(q) \/ ClearPartition(q)
        PROVE  locks' = locks
    BY <1>6 DEF DeleteWorkspace, RestoreWorkspace, ClearJar, ClearPartition
  <1> QED BY <1>2, <1>5, <1>6, WorkspacesStand DEF Deletion, Deletes

\* Whose mutex a guard is, and that it has one owner.
LEMMA GuardsStep ==
  ASSUME overlapped' = {}, TypeOK, SessionInv, WorkspaceInv, GuardsInv, Next
  PROVE  GuardsInv'
  <1>0. ASSUME NEW c \in Call
        PROVE  /\ Guarded(c)'
               /\ LockFor(c) \/ (call'[c].lock = call[c].lock /\ (Queued(c)' => Queued(c)))
               /\ c \in owns' => c \in owns \/ Lock(c)
               /\ c \in owns => ~LockFor(c)
    BY GuardedStep DEF GuardsInv, GuardInv, Guarded
  <1>1. ASSUME NEW c \in Call, Queued(c)', Agrees(call[c].key, call[c].since)'
        PROVE  call'[c].lock = locks'[call'[c].key]
    <2>1. Begun(c) /\ call'[c].key = call[c].key /\ call'[c].since = call[c].since
      <3>1. Queued(c) \/ LockFor(c)
        BY <1>0, <1>1
      <3>2. Begun(c)
        BY <3>1 DEF Queued, Live, LockFor, Begun, SessionInv, AnswerInv, NoTask
      <3> QED BY <3>2, CallsNoted DEF NotedCall, Begun
    <2>2. PICK k \in Key, g \in Counts : k = call[c].key /\ g = call[c].since
      BY <2>1, CallRecord DEF SessionInv, CallSince, Begun, TypeOK, SendType
    <2>3. Agrees(k, g)' /\ (Earlier(k, g) \/ Agrees(k, g))
      BY <1>1, <2>1, <2>2 DEF Agrees, SessionInv, CallSince
    <2>4. Agrees(k, g)
      BY <2>3, AgreedBefore
    <2>5. CASE LockFor(c)
      BY <2>1, <2>2, <2>5, CallEffects DEF LockFor, workspace
    <2>6. CASE ~LockFor(c)
      <3>1. Queued(c) /\ call'[c].lock = call[c].lock
        BY <1>0, <1>1, <2>6
      <3>2. Admitted(c)
        BY <3>1 DEF Queued, Live, Admitted
      <3>3. locks'[k] = locks[k]
        BY <2>2, <2>4, <3>2, LocksStand
      <3> QED BY <2>1, <2>2, <2>4, <3>1, <3>3 DEF GuardsInv, GuardInv
    <2> QED BY <2>5, <2>6
  <1>2. ASSUME NEW c \in owns' PROVE /\ c \in Call /\ (c \in owns \/ Lock(c))
                                      /\ call'[c].key = call[c].key /\ call'[c].lock = call[c].lock
    <2>1. c \in Call
      BY StepTyped DEF TypeOK, SendType
    <2>2. c \in owns \/ Lock(c)
      BY <1>0, <2>1
    <2>3. ~LockFor(c) /\ call[c].pc # "idle"
      BY <1>0, <2>1, <2>2 DEF LockFor, Lock, GuardsInv, GuardInv
    <2> QED BY <1>0, <2>1, <2>2, <2>3, CallsNoted DEF NotedCall
  <1>3. ASSUME NEW c \in owns', NEW d \in owns', call'[c].key = call'[d].key, call'[c].lock = call'[d].lock
        PROVE  c = d
    <2>1. /\ c \in Call /\ d \in Call /\ (c \in owns \/ Lock(c)) /\ (d \in owns \/ Lock(d))
          /\ call[c].key = call[d].key /\ call[c].lock = call[d].lock
      BY <1>2, <1>3
    <2>2. CASE c \in owns /\ d \in owns
      BY <2>1, <2>2 DEF GuardsInv
    <2>3. CASE Lock(c) /\ d \in owns
      BY <2>1, <2>3 DEF Lock
    <2>4. CASE Lock(d) /\ c \in owns
      BY <2>1, <2>4 DEF Lock
    <2>5. CASE Lock(c) /\ Lock(d)
      <3>1. call'[c].pc = "holding" /\ call[c].pc = "queued"
        BY <2>1, <2>5, CallEffects DEF Goes
      <3>2. c # d => call'[c] = call[c]
        BY <2>1, <2>5, OthersKeep DEF Own
      <3> QED BY <3>1, <3>2
    <2> QED BY <2>1, <2>2, <2>3, <2>4, <2>5
  <1> QED BY <1>0, <1>1, <1>3 DEF GuardsInv, GuardInv, Guarded

\* Stuttering keeps the guards, and none is taken at first.
LEMMA GuardsInit ==
  ASSUME TRUE
  PROVE  /\ Init => GuardsInv
         /\ GuardsInv /\ UNCHANGED vars => GuardsInv'
  <1>1. Init => GuardsInv
    BY DEF Init, GuardsInv, GuardInv, Live, Queued, NoCallYet, NoTask
  <1>2. ASSUME GuardsInv, UNCHANGED vars PROVE GuardsInv'
    BY <1>2 DEF GuardsInv, GuardInv, Live, Queued, Agrees, vars, cache, counters, history, workspace
  <1> QED BY <1>1, <1>2

\* Two calls that own guards of a key they both agree with are one.
LEMMA OneOwner ==
  ASSUME GuardsInv, NEW c \in Call, NEW d \in Call, call[c].key = call[d].key, c \in owns, d \in owns,
         Queued(c), Queued(d), Agrees(call[c].key, call[c].since), Agrees(call[d].key, call[d].since)
  PROVE  c = d
  BY DEF GuardsInv, GuardInv

\* What the workspaces and the guards keep until a restore overtakes a delete.
Spared == overlapped = {} => WorkspaceInv /\ GuardsInv

\* Concurrent sends share one token request, as long as every restore has
\* waited for the delete to clear.
THEOREM OneRequestInFlight == Spec => []SingleFlight
  <1>1. TypeOK /\ SessionInv /\ GuardsInv => OneRequest
    <2> SUFFICES ASSUME TypeOK, SessionInv, GuardsInv, NEW c \in Call, NEW d \in Call,
                        call[c].pc = "request" \/ task[c].pc = "requesting",
                        call[d].pc = "request" \/ task[d].pc = "requesting",
                        call[c].key = call[d].key,
                        Current(call[c].key, call[c].since), Current(call[d].key, call[d].since)
                 PROVE  c = d
      BY DEF OneRequest
    <2>1. c \in owns /\ d \in owns /\ Queued(c) /\ Queued(d)
      BY DEF GuardsInv, GuardInv, Live, Queued
    <2>2. call[c].pc # "idle" /\ call[d].pc # "idle"
      BY <2>1 DEF GuardsInv, GuardInv
    <2>3. call[c].key \in Key /\ call[c].since \in Counts /\ call[d].since \in Counts
      BY <2>2, CallRecord DEF SessionInv, CallSince, TypeOK, SendType
    <2>4. Agrees(call[c].key, call[c].since) /\ Agrees(call[d].key, call[d].since)
      BY <2>3, CurrentAgrees
    <2> QED BY <2>1, <2>4, OneOwner
  <1>2. Init => TypeOK /\ SessionInv /\ Spared
    BY SessionInit, WorkspaceInit, GuardsInit DEF Spared
  <1>3. TypeOK /\ SessionInv /\ Spared /\ [Next]_vars => TypeOK' /\ SessionInv' /\ Spared'
    BY SessionStep, WorkspaceStep, GuardsStep, GuardsInit, OverlapStays DEF Spared
  <1>4. TypeOK /\ SessionInv /\ Spared => SingleFlight
    BY <1>1 DEF SingleFlight, Spared
  <1> QED BY <1>2, <1>3, <1>4, PTL DEF Spec

-----------------------------------------------------------------------------
(* Rotation: a replaced refresh token is neither lost nor sent again.      *)

\* A call is current after a step exactly if it was and its generation stood still.
LEMMA CurrentStands ==
  ASSUME TypeOK, SessionInv, Next, NEW c \in Call, Begun(c)
  PROVE  /\ call[c].key \in Key /\ call'[c].key = call[c].key
         /\ ~Overtaken(c)' <=> ~Overtaken(c) /\ Stands(call[c].key)
         /\ ~Overtaken(c) => Agrees(call[c].key, call[c].since)
         /\ Earlier(call[c].key, call[c].since) => Overtaken(c)
  <1>1. PICK k \in Key, g \in Counts : k = call[c].key /\ g = call[c].since
    BY CallRecord DEF SessionInv, CallSince, Begun, TypeOK, SendType
  <1>2. call'[c].key = k /\ call'[c].since = g
    BY <1>1, CallsNoted DEF NotedCall, Begun
  <1>3. /\ g.cache \in Nat /\ g.partition \in Nat /\ g.removal \in Nat /\ g.signIn \in Nat
        /\ gen \in Nat /\ partitions[PartitionOf[k]] \in Nat /\ removals[k] \in Nat /\ signIns[k] \in Nat
        /\ PartitionOf[k] \in Partition
    BY Parts DEF Counts, TypeOK, CacheType
  <1>4. Overtaken(c) <=> ~(Agrees(k, g) /\ g.signIn = signIns[k])
    BY <1>1, CurrentAgrees DEF Overtaken
  <1>5. Overtaken(c)' <=> ~(Agrees(k, g)' /\ g.signIn = signIns'[k])
    BY <1>2 DEF Overtaken, Current, Generation, Agrees, Counts
  <1>6. Earlier(k, g) \/ (Agrees(k, g) /\ g.signIn <= signIns[k])
    BY <1>1 DEF SessionInv, CallSince
  <1>7. ASSUME ~Overtaken(c)' PROVE ~Overtaken(c) /\ Stands(k)
    BY <1>3, <1>4, <1>5, <1>6, <1>7, CountersMove DEF Earlier, Agrees, Stands
  <1>8. ASSUME ~Overtaken(c), Stands(k) PROVE ~Overtaken(c)'
    BY <1>4, <1>5, <1>8 DEF Agrees, Stands
  <1>9. Earlier(k, g) => ~Agrees(k, g)
    BY <1>3 DEF Earlier, Agrees
  <1> QED BY <1>1, <1>2, <1>4, <1>7, <1>8, <1>9

\* How a refresh goes on: what a step does to the task of a call.
LEMMA RefreshMoves ==
  ASSUME TypeOK, SessionInv, Next, NEW c \in Call, Guarded(c)
  PROVE  /\ Live(c)' => (Live(c) /\ ~TaskStores(c) /\ ~TaskFails(c)) \/ RefreshDetached(c)
         /\ Live(c) => Live(c)' \/ TaskStores(c) \/ TaskFails(c) \/ TaskAborted(c)
         /\ MayObtain(c)' => MayObtain(c) /\ ~Requested(c) /\ ~TaskStores(c)
         /\ IssuerHandles(c) \/ (task'[c].answer = task[c].answer /\ task'[c].newRt = task[c].newRt)
  <1> DEFINE Ok == /\ Live(c)' => (Live(c) /\ ~TaskStores(c) /\ ~TaskFails(c)) \/ RefreshDetached(c)
                   /\ Live(c) => Live(c)' \/ TaskStores(c) \/ TaskFails(c) \/ TaskAborted(c)
                   /\ MayObtain(c)' => MayObtain(c) /\ ~Requested(c) /\ ~TaskStores(c)
                   /\ IssuerHandles(c) \/ (task'[c].answer = task[c].answer /\ task'[c].newRt = task[c].newRt)
  <1>1. ASSUME TaskStores(c) PROVE Ok
    <2>1. TaskGoes(c, "finishing", "done") /\ task'[c].result # "fallback"
      BY <1>1, RefreshEffects
    <2> QED BY <1>1, <2>1 DEF TaskGoes, TaskKeeps, Live, MayObtain, Guarded
  <1>2. ASSUME TaskFails(c) PROVE Ok
    <2>1. TaskGoes(c, "finishing", "done")
      BY <1>2, RefreshEffects
    <2>2. ~Requested(c) /\ ~TaskStores(c)
      BY <1>2, <2>1 DEF TaskGoes, Guarded, Live, Requested, TaskStores, TaskFails
    <2> QED BY <1>2, <2>1, <2>2 DEF TaskGoes, TaskKeeps, Live, MayObtain, Guarded
  <1>3. ASSUME Requested(c) PROVE Ok
    <2>1. call[c].pc = "request" /\ task'[c] = task[c] /\ call'[c].pc = "done"
      BY <1>3, CallEffects DEF Ends, Goes
    <2> QED BY <1>3, <2>1 DEF Live, MayObtain, Guarded
  <1> DEFINE Rest == ~TaskStores(c) /\ ~TaskFails(c) /\ ~Requested(c)
  <1>4. ASSUME Rest, ~\E d \in Call : Own(d) PROVE Ok
    <2>1. /\ call'[c] = call[c] /\ task'[c].pc = task[c].pc /\ task'[c].result = task[c].result
          /\ task'[c].answer = task[c].answer /\ task'[c].newRt = task[c].newRt
      BY <1>4, AdminKeeps
    <2> QED BY <1>4, <2>1 DEF Live, MayObtain
  <1>5. ASSUME Rest, NEW d \in Call, Own(d), d # c PROVE Ok
    BY <1>5, OthersKeep DEF Live, MayObtain
  <1>6. ASSUME Rest, (\E k \in Key : BuildContext(c, k)) \/ TakeSince(c) \/ CheckWorkspace(c) \/ OwnRequest(c)
                       \/ Look(c) \/ Superseded(c) \/ LockFor(c) \/ Lock(c)
        PROVE  Ok
    <2>1. task'[c] = task[c] /\ call[c].pc \notin {"awaiting", "done"}
      BY <1>6, CallEffects DEF Quiet
    <2> QED BY <1>6, <2>1 DEF Live, MayObtain
  <1>7. ASSUME Rest, Reread(c) PROVE Ok
    <2>1. task'[c] = task[c] /\ call[c].pc = "holding"
      BY <1>7, RefreshEffects
    <2> QED BY <1>7, <2>1 DEF Live, MayObtain
  <1>8. ASSUME Rest, RefreshDetached(c) PROVE Ok
    <2>1. TaskKeeps(c) /\ call[c].pc = "register" 
      BY <1>8, RefreshEffects
    <2> QED BY <1>8, <2>1 DEF TaskKeeps, Live, MayObtain, Guarded
  <1>9. ASSUME Rest, Awaited(c) PROVE Ok
    <2>1. /\ call[c].pc = "awaiting" /\ TaskKeeps(c) /\ task'[c].pc = task[c].pc
          /\ call'[c].pc = "done" \/ (task[c].result = "fallback" /\ call'[c].pc = "request")
      BY <1>9, RefreshEffects DEF Goes, Ends
    <2> QED BY <1>9, <2>1 DEF TaskKeeps, Live, MayObtain
  <1>10. ASSUME Rest, Dropped(c) PROVE Ok
    <2>1. call[c].pc # "done" /\ call'[c].pc = "done" /\ TaskKeeps(c) /\ task'[c].pc = task[c].pc
      BY <1>10, RefreshEffects DEF Goes
    <2> QED BY <1>10, <2>1 DEF TaskKeeps, Live, MayObtain
  <1>11. ASSUME Rest, IssuerHandles(c) PROVE Ok
    <2>1. task[c].pc = "requesting" /\ task'[c].pc = "requesting" /\ call' = call
      BY <1>11, RefreshEffects
    <2> QED BY <1>11, <2>1 DEF Live, MayObtain
  <1>12. ASSUME Rest, TaskAnswered(c) \/ RefreshFinished(c) PROVE Ok
    <2>1. TaskGoes(c, "requesting", "answered") \/ TaskGoes(c, "answered", "finishing")
      BY <1>12, RefreshEffects
    <2> QED BY <1>12, <2>1 DEF TaskGoes, TaskKeeps, Live, MayObtain
  <1>13. ASSUME Rest, TaskAborted(c) PROVE Ok
    <2>1. TaskGoes(c, "requesting", "aborted") /\ task'[c].result = "superseded"
      BY <1>13, RefreshEffects
    <2> QED BY <1>13, <2>1 DEF TaskGoes, TaskKeeps, Live, MayObtain, Guarded
  <1> QED BY <1>1, <1>2, <1>3, <1>4, <1>5, <1>6, <1>7, <1>8, <1>9, <1>10, <1>11, <1>12, <1>13
             DEF Own, CallSteps, TaskSteps

\* A call that holds a refresh token after a step took it then, or held it.
LEMMA HolderBefore ==
  ASSUME TypeOK, SessionInv, Next, NEW c \in Call, Guarded(c), Holder(c)'
  PROVE  \/ Reread(c) /\ call'[c].pc = "register"
         \/ Holder(c) /\ call'[c].rt = call[c].rt /\ ~TaskStores(c) /\ ~TaskFails(c)
  <1>1. CASE call'[c].pc = "register" /\ ~Reread(c)
    <2>1. call[c].pc = "register" /\ call'[c].rt = call[c].rt
      BY <1>1, RefreshTokenNoted
    <2>2. ~TaskStores(c) /\ ~TaskFails(c)
      BY <2>1 DEF TaskStores, TaskFails, Guarded, Live
    <2> QED BY <2>1, <2>2 DEF Holder
  <1>2. CASE Live(c)'
    <2>1. (Live(c) /\ ~TaskStores(c) /\ ~TaskFails(c)) \/ RefreshDetached(c)
      BY <1>2, RefreshMoves
    <2>2. Holder(c) /\ ~Reread(c) /\ ~TaskStores(c) /\ ~TaskFails(c)
      BY <2>1 DEF Holder, RefreshDetached, Reread, Guarded, TaskStores, TaskFails, Live
    <2> QED BY <2>2, RefreshTokenNoted
  <1> QED BY <1>1, <1>2 DEF Holder

\* Only the issuer replaces refresh tokens.
LEMMA RotatedBy ==
  ASSUME TypeOK, Next
  PROVE  /\ rotated' = rotated \/ \E c \in Call : IssuerHandles(c) /\ rotated' = rotated \cup {call[c].rt}
         /\ Renewed' \subseteq Renewed \/ \E c \in Call : IssuerHandles(c) /\ Renewed' = Renewed \cup {call[c].rt}
  <1>1. CASE ~\E c \in Call : Own(c)
    BY <1>1, AdminKeeps DEF Renewed
  <1>2. ASSUME NEW c \in Call, Own(c), ~IssuerHandles(c) PROVE rotated' = rotated /\ lost' = lost
    BY <1>2
    DEF Own, CallSteps, TaskSteps, BuildContext, TakeSince, CheckWorkspace, Look, Superseded,
        LockFor, Reread,
                RefreshDetached, Requested, OwnRequest, Awaited, Lock, Dropped, TaskAnswered, TaskAborted,
                RefreshFinished, TaskStores, TaskFails
  <1>3. ASSUME NEW c \in Call, IssuerHandles(c)
        PROVE  /\ rotated' = rotated \/ rotated' = rotated \cup {call[c].rt}
               /\ Renewed' \subseteq Renewed \/ Renewed' = Renewed \cup {call[c].rt}
    BY <1>3 DEF IssuerHandles, Renewed
  <1> QED BY <1>1, <1>2, <1>3 DEF Renewed

\* Nothing but a failed refresh, or a clear, empties a key.
LEMMA EntriesKept ==
  ASSUME TypeOK, SessionInv, Next, NEW k \in Key, Stands(k), entries[k] # {}
  PROVE  entries'[k] # {} \/ \E c \in Call : TaskFails(c) /\ call[c].key = k /\ Current(k, call[c].since)
  <1>0. /\ entries \in [Key -> SUBSET Token] /\ gen \in Nat /\ removals[k] \in Nat
        /\ partitions[PartitionOf[k]] \in Nat /\ PartitionOf[k] \in Partition
    BY Parts DEF TypeOK, CacheType
  <1>1. CASE Clears
    <2>1. ~Clear
      BY <1>0 DEF Clear, Stands
    <2>2. ASSUME NEW j \in Key, Remove(j) PROVE entries'[k] = entries[k]
      BY <1>0, <2>2 DEF Remove, Stands, TypeOK, CacheType
    <2>3. ASSUME NEW p \in Partition, ClearPartition(p) PROVE entries'[k] = entries[k]
      BY <1>0, <2>3 DEF ClearPartition, KeysOf, Stands, TypeOK, CacheType
    <2> QED BY <1>1, <2>1, <2>2, <2>3 DEF Clears
  <1>2. ASSUME NEW j \in Key, Expire(j) PROVE entries'[k] # {}
    BY <1>0, <1>2 DEF Expire
  <1>3. ASSUME NEW c \in Call, Requested(c) \/ TaskStores(c) PROVE entries'[k] # {}
    BY <1>0, <1>3 DEF Requested, TaskStores, Insert
  <1>4. ASSUME NEW c \in Call, TaskFails(c)
        PROVE  entries'[k] = entries[k] \/ (call[c].key = k /\ Current(k, call[c].since))
    BY <1>0, <1>4 DEF TaskFails
  <1>5. ASSUME NEW s \in SignIn, StoreSignIn(s) PROVE entries'[k] # {}
    BY <1>0, <1>5 DEF StoreSignIn
  <1>6. CASE entries' = entries
    BY <1>6
  <1>7. \/ Clears \/ entries' = entries
        \/ \E j \in Key : Expire(j)
        \/ \E c \in Call : Requested(c) \/ TaskStores(c) \/ TaskFails(c)
        \/ \E s \in SignIn : StoreSignIn(s)
    BY EntriesStand
  <1> QED BY <1>1, <1>2, <1>3, <1>4, <1>5, <1>6, <1>7

\* A refresh token that nothing used before the step that caches it.
NewIn(x, k) ==
  /\ ~Used(x)
  /\ \/ \E c \in Call : x = c /\ (Requested(c) \/ TaskStores(c)) /\ call[c].key = k
     \/ \E s \in SignIn : x = s /\ StoreSignIn(s) /\ signing[s].key = k

\* The refresh tokens a step caches are new, or were cached for that key.
LEMMA CachedOrigin ==
  ASSUME TypeOK, SessionInv, GuardsInv, RefreshInv, Next, NEW k \in Key, NEW t \in entries'[k]
  PROVE  \/ Stands(k) /\ \E u \in entries[k] : u.rt = t.rt
         \/ t.rt = None
         \/ NewIn(t.rt, k)
  <1>1. ASSUME NEW c \in Call, OfCall(t, c, k), Requested(c), t.rt = c PROVE NewIn(t.rt, k)
    <2>1. MayObtain(c)
      BY <1>1 DEF Requested, MayObtain
    <2> QED BY <1>1, <2>1 DEF RefreshInv, HolderInv, OfCall, NewIn
  <1>2. ASSUME NEW c \in Call, OfCall(t, c, k), TaskStores(c), t.rt = task[c].newRt, Stands(k)
        PROVE  NewIn(t.rt, k) \/ (Stands(k) /\ \E u \in entries[k] : u.rt = t.rt)
    <2>1. Live(c) /\ task[c].answer = "token"
      BY <1>2 DEF TaskStores, Live
    <2>2. HolderInv(c) /\ MayObtain(c) /\ Holder(c) /\ ~Overtaken(c) /\ call[c].key = k
      BY <1>2, <2>1 DEF RefreshInv, MayObtain, Holder, OfCall, Overtaken
    <2>3. CASE task[c].newRt = c
      BY <1>2, <2>2, <2>3 DEF HolderInv, NewIn
    <2>4. CASE task[c].newRt = call[c].rt
      BY <1>2, <2>2, <2>4 DEF HolderInv
    <2> QED BY <2>1, <2>2, <2>3, <2>4 DEF HolderInv
  <1>3. ASSUME NEW s \in SignIn, OfSignIn(t, s, k) PROVE NewIn(t.rt, k)
    <2>1. signing[s].pc # "done"
      BY <1>3 DEF OfSignIn, StoreSignIn
    <2> QED BY <1>3, <2>1 DEF RefreshInv, OfSignIn, NewIn
  <1> QED BY <1>1, <1>2, <1>3, EntryOrigin DEF SameToken, OfCall

\* A refresh token comes into use when it is obtained.
LEMMA UsedGrows ==
  ASSUME TypeOK, SessionInv, GuardsInv, RefreshInv, Next, NEW x \in Source, ~Used(x), Used(x)'
  PROVE  \E k \in Key : NewIn(x, k)
  <1>0. x # None
    BY TokenAssumption DEF Source
  <1>1. ASSUME NEW k \in Key, NEW t \in entries'[k], t.rt = x PROVE NewIn(x, k)
    BY <1>0, <1>1, CachedOrigin DEF Used
  <1>2. ASSUME NEW c \in Call, call'[c].rt = x PROVE FALSE
    <2>1. CASE ~Reread(c)
      BY <1>2, <2>1, RefreshTokenNoted DEF Used
    <2>2. CASE Reread(c)
      <3>1. CASE \E y \in {"superseded", "done", "request"} : Goto(c, y)
        <4>1. call'[c].rt = call[c].rt
          BY <3>1, GotoMoves DEF CallPc, TypeOK, SendType
        <4> QED BY <1>2, <4>1 DEF Used
      <3>2. CASE ~\E y \in {"superseded", "done", "request"} : Goto(c, y)
        <4>1. \E t \in entries[call[c].key] : t.rt = call'[c].rt
          BY <2>2, <3>2, RereadMoves
        <4>2. call[c].key \in Key
          BY <2>2 DEF Reread, SessionInv, CallSince
        <4> QED BY <1>2, <4>1, <4>2 DEF Used
      <3> QED BY <3>1, <3>2
    <2> QED BY <2>1, <2>2
  <1>3. ASSUME x \in rotated' PROVE FALSE
    BY <1>3, RotatedBy DEF Used
  <1> QED BY <1>1, <1>2, <1>3 DEF Used

\* A refresh token is cached for one key.
LEMMA CachedOnce ==
  ASSUME TypeOK, SessionInv, GuardsInv, RefreshInv, Next, NEW j \in Key, NEW k \in Key,
         NEW t \in entries'[j], NEW u \in entries'[k], t.rt = u.rt, t.rt # None
  PROVE  j = k
  <1>1. (\E x \in entries[j] : x.rt = t.rt) \/ NewIn(t.rt, j)
    BY CachedOrigin
  <1>2. (\E x \in entries[k] : x.rt = t.rt) \/ NewIn(t.rt, k)
    BY CachedOrigin
  <1>3. CASE NewIn(t.rt, j) /\ NewIn(t.rt, k)
    BY <1>3, TokenAssumption DEF NewIn
  <1>4. CASE ~NewIn(t.rt, j) \/ ~NewIn(t.rt, k)
    <2>1. Used(t.rt)
      BY <1>1, <1>2, <1>4 DEF Used
    <2>2. (\E x \in entries[j] : x.rt = t.rt) /\ (\E x \in entries[k] : x.rt = t.rt)
      BY <1>1, <1>2, <2>1 DEF NewIn
    <2> QED BY <2>2 DEF RefreshInv
  <1> QED BY <1>3, <1>4

\* A current holder is the only call of its key with a guard.
LEMMA OnlyHolder ==
  ASSUME TypeOK, SessionInv, GuardsInv, NEW c \in Call, NEW d \in Call, call[c].key = call[d].key,
         Holder(c) \/ call[c].pc \in {"holding", "request"}, Holder(d) \/ call[d].pc \in {"holding", "request"},
         ~Overtaken(c), ~Overtaken(d)
  PROVE  c = d
  <1>1. c \in owns /\ d \in owns /\ Queued(c) /\ Queued(d)
    BY DEF GuardsInv, GuardInv, Holder, Live, Queued
  <1>2. call[c].pc # "idle" /\ call[d].pc # "idle"
    BY <1>1 DEF GuardsInv, GuardInv
  <1>3. call[c].key \in Key /\ call[c].since \in Counts /\ call[d].since \in Counts
    BY <1>2, CallRecord DEF SessionInv, CallSince, TypeOK, SendType
  <1>4. Agrees(call[c].key, call[c].since) /\ Agrees(call[d].key, call[d].since)
    BY <1>3, CurrentAgrees DEF Overtaken
  <1> QED BY <1>1, <1>4, OneOwner

\* The call that takes the cached refresh token takes one that was not replaced.
LEMMA HolderTakes ==
  ASSUME TypeOK, SessionInv, GuardsInv, RefreshInv, Next, NEW d \in Call, Reread(d), call'[d].pc = "register"
  PROVE  /\ ~Overtaken(d) /\ entries' = entries /\ Renewed' = Renewed /\ call'[d].rt \notin Renewed
         /\ entries[call[d].key] # {} /\ \A t \in entries[call[d].key] : t.rt = call'[d].rt
         /\ \A k \in Key : \A t \in entries[k] : t.rt = call'[d].rt => k = call[d].key
  <1>1. ~\E x \in {"superseded", "done", "request"} : Goto(d, x)
    BY GotoMoves DEF CallPc, TypeOK, SendType
  <1>2. /\ call'[d].rt # None /\ Current(call[d].key, call[d].since)
        /\ \E t \in entries[call[d].key] : t.rt = call'[d].rt
    BY <1>1, RereadMoves
  <1>3. call[d].pc = "holding" /\ call[d].key \in Key /\ entries' = entries /\ Renewed' = Renewed
    BY DEF Reread, cache, SessionInv, CallSince, Renewed
  <1>4. \A t \in entries[call[d].key] : t.rt = call'[d].rt
    BY <1>2, <1>3 DEF TypeOK, CacheType
  <1>5. \A k \in Key : \A t \in entries[k] : t.rt = call'[d].rt => k = call[d].key
    BY <1>2, <1>3 DEF RefreshInv
  <1>6. ASSUME call'[d].rt \in Renewed PROVE FALSE
    <2>1. PICK c \in Call : Live(c) /\ call[c].key = call[d].key /\ ~Overtaken(c)
      BY <1>2, <1>3, <1>6 DEF RefreshInv
    <2>2. c = d
      BY <1>2, <1>3, <2>1, OnlyHolder DEF Holder, Overtaken
    <2> QED BY <1>3, <2>1, <2>2 DEF GuardsInv, GuardInv
  <1> QED BY <1>2, <1>3, <1>4, <1>5, <1>6 DEF Overtaken

\* What a call that holds a refresh token says of the cache stays true.
LEMMA HolderStays ==
  ASSUME TypeOK, SessionInv, GuardsInv, RefreshInv, Next, NEW d \in Call, Holder(d), Holder(d)',
         call'[d].rt = call[d].rt, ~TaskStores(d), ~TaskFails(d)
  PROVE  /\ \A k \in Key : \A t \in entries'[k] : t.rt = call'[d].rt => k = call'[d].key /\ ~Overtaken(d)'
         /\ ~Overtaken(d)' =>
              /\ entries'[call'[d].key] # {} /\ \A t \in entries'[call'[d].key] : t.rt = call'[d].rt
              /\ call'[d].rt \in Renewed' => task'[d].answer = "token" /\ task'[d].newRt = d
  <1>0. Begun(d) /\ call[d].rt \in Source /\ HolderInv(d) /\ Guarded(d)
    BY DEF Holder, Live, Begun, SessionInv, AnswerInv, NoTask, RefreshInv, GuardsInv, GuardInv, Guarded
  <1>1. call[d].rt # None /\ Used(call[d].rt)
    BY <1>0, TokenAssumption DEF Source, Used
  <1>2. /\ call[d].key \in Key /\ call'[d].key = call[d].key
        /\ ~Overtaken(d)' <=> ~Overtaken(d) /\ Stands(call[d].key)
    BY <1>0, CurrentStands
  <1>3. ASSUME NEW k \in Key, NEW t \in entries'[k], t.rt = call'[d].rt
        PROVE  k = call'[d].key /\ ~Overtaken(d)'
    <2>1. Stands(k) /\ \E u \in entries[k] : u.rt = call[d].rt
      BY <1>1, <1>3, CachedOrigin DEF NewIn
    <2> QED BY <1>0, <1>2, <2>1 DEF HolderInv
  <1>4. ASSUME ~Overtaken(d)'
        PROVE  entries'[call'[d].key] # {} /\ \A t \in entries'[call'[d].key] : t.rt = call'[d].rt
    <2>1. PICK k \in Key : k = call[d].key /\ Stands(k) /\ ~Overtaken(d)
      BY <1>2, <1>4
    <2>2. entries[k] # {} /\ \A t \in entries[k] : t.rt = call[d].rt
      BY <1>0, <2>1 DEF HolderInv
    <2>3. ASSUME NEW c \in Call, TaskFails(c), call[c].key = k, Current(k, call[c].since) PROVE FALSE
      <3>1. Holder(c) /\ ~Overtaken(c)
        BY <2>3 DEF TaskFails, Holder, Live, Overtaken
      <3> QED BY <2>1, <2>3, <3>1, OnlyHolder
    <2>4. entries'[k] # {}
      BY <2>1, <2>2, <2>3, EntriesKept
    <2>5. ASSUME NEW t \in entries'[k] PROVE t.rt = call[d].rt
      <3>1. ASSUME NEW u \in entries[k], SameToken(t, u) PROVE t.rt = call[d].rt
        BY <2>2, <3>1 DEF SameToken
      <3>2. ASSUME NEW c \in Call, OfCall(t, c, k) PROVE FALSE
        <4>1. (call[c].pc = "request" \/ Live(c)) /\ ~Overtaken(c) /\ call[c].key = k
          BY <3>2 DEF OfCall, Requested, TaskStores, Live, Overtaken
        <4>2. c = d
          BY <2>1, <4>1, OnlyHolder DEF Holder
        <4>3. ~Requested(d)
          BY <1>0 DEF Requested, Holder, Guarded
        <4> QED BY <3>2, <4>2, <4>3 DEF OfCall
      <3>3. ASSUME NEW s \in SignIn, OfSignIn(t, s, k) PROVE FALSE
        <4>1. signIns'[k] = signIns[k] + 1 /\ signIns'[k] = signIns[k] /\ signIns[k] \in Nat
          BY <2>1, <3>3 DEF OfSignIn, Stands, TypeOK, CacheType
        <4> QED BY <4>1
      <3> QED BY <3>1, <3>2, <3>3, EntryOrigin
    <2> QED BY <1>2, <2>1, <2>4, <2>5
  <1>5. ASSUME ~Overtaken(d)', call'[d].rt \in Renewed'
        PROVE  task'[d].answer = "token" /\ task'[d].newRt = d
    <2>1. ~Overtaken(d)
      BY <1>2, <1>5
    <2>2. CASE call[d].rt \in Renewed
      <3>1. task[d].answer = "token" /\ task[d].newRt = d
        BY <1>0, <2>1, <2>2 DEF HolderInv
      <3>2. ~IssuerHandles(d)
        BY <3>1 DEF IssuerHandles
      <3> QED BY <1>0, <3>1, <3>2, RefreshMoves
    <2>3. CASE call[d].rt \notin Renewed
      <3>1. PICK c \in Call : IssuerHandles(c) /\ call[c].rt = call[d].rt /\ ~(Renewed' \subseteq Renewed)
        BY <1>5, <2>3, RotatedBy
      <3>2. Holder(c) /\ HolderInv(c)
        BY <3>1 DEF IssuerHandles, Holder, Live, RefreshInv
      <3>3. PICK t \in entries[call[d].key] : t.rt = call[c].rt
        BY <1>0, <2>1, <3>1 DEF HolderInv
      <3>4. call[c].key = call[d].key /\ ~Overtaken(c)
        BY <1>2, <3>2, <3>3 DEF HolderInv
      <3>5. c = d
        BY <2>1, <3>2, <3>4, OnlyHolder
      <3> QED BY <3>1, <3>5, RefreshEffects
    <2> QED BY <2>2, <2>3
  <1> QED BY <1>3, <1>4, <1>5

\* The generation of an aborted refresh is one that a clear moved on from.
LEMMA AbortStep ==
  ASSUME TypeOK, SessionInv, GuardsInv, RefreshInv, Next, NEW d \in Call, task'[d].abort
  PROVE  Earlier(call[d].key, call[d].since)'
  <1>0. task[d] \in TaskState /\ task[d].abort \in BOOLEAN /\ HolderInv(d) /\ CallSince(d) /\ Guarded(d)
    BY TaskRecord DEF TypeOK, SendType, RefreshInv, SessionInv, GuardsInv, GuardInv, Guarded
  <1>1. task[d].abort \/ \E k \in Key : refreshes[k] = d /\ Clears /\ task'[d].abort # task[d].abort
    <2>1. CASE ~\E c \in Call : Own(c)
      BY <1>0, <2>1, AdminKeeps
    <2>2. ASSUME NEW c \in Call, Own(c), c # d PROVE task[d].abort
      BY <2>2, OthersKeep
    <2>3. CASE Own(d)
      <3>1. task'[d].abort = task[d].abort
        <4>1. CASE RefreshDetached(d) \/ Awaited(d) \/ Dropped(d)
          BY <4>1, RefreshEffects DEF TaskKeeps
        <4>2. CASE Reread(d)
          BY <4>2, RefreshEffects
        <4>3. CASE IssuerHandles(d)
          BY <4>3, RefreshEffects
        <4>4. CASE TaskAnswered(d) \/ TaskAborted(d) \/ RefreshFinished(d) \/ TaskStores(d) \/ TaskFails(d)
          BY <4>4, RefreshEffects DEF TaskGoes, TaskKeeps
        <4>5. CASE (\E k \in Key : BuildContext(d, k)) \/ TakeSince(d) \/ CheckWorkspace(d) \/ Look(d) \/ Superseded(d)
                   \/ LockFor(d) \/ Lock(d) \/ Requested(d) \/ OwnRequest(d)
          BY <4>5, CallEffects DEF Quiet
        <4> QED BY <2>3, <4>1, <4>2, <4>3, <4>4, <4>5 DEF Own, CallSteps, TaskSteps
      <3> QED BY <3>1
    <2> QED BY <2>1, <2>2, <2>3
  <1>2. Begun(d)
    <2>1. ASSUME NEW k \in Key, refreshes[k] = d PROVE Begun(d)
      BY <2>1, TokenAssumption DEF SessionInv, Registered
    <2>2. ASSUME task[d].abort, ~Begun(d) PROVE FALSE
      <3>1. task[d] = NoTask
        BY <2>2 DEF SessionInv, AnswerInv
      <3>2. task[d].abort = FALSE
        BY <3>1 DEF NoTask
      <3> QED BY <2>2, <3>2
    <2> QED BY <1>1, <2>1, <2>2
  <1>3. PICK k \in Key, g \in Counts : k = call[d].key /\ g = call[d].since
    BY <1>2, CallRecord DEF SessionInv, CallSince, Begun, TypeOK, SendType
  <1>4. call'[d].key = k /\ call'[d].since = g
    BY <1>2, <1>3, CallsNoted DEF NotedCall, Begun
  <1>5. /\ g.cache \in Nat /\ g.partition \in Nat /\ g.removal \in Nat
        /\ gen \in Nat /\ partitions[PartitionOf[k]] \in Nat /\ removals[k] \in Nat /\ PartitionOf[k] \in Partition
        /\ gen \in Nat /\ removals \in [Key -> Nat] /\ partitions \in [Partition -> Nat]
    BY Parts DEF Counts, TypeOK, CacheType
  <1>6. Earlier(k, g) \/ Agrees(k, g)
    BY <1>0, <1>2, <1>3 DEF CallSince
  <1>7. CASE task[d].abort
    <2>1. Earlier(k, g)
      BY <1>0, <1>3, <1>7 DEF HolderInv
    <2>2. Earlier(k, g)'
      BY <1>5, <2>1, CountersMove DEF Earlier
    <2> QED BY <1>4, <2>2 DEF Earlier
  <1>8. ASSUME NEW j \in Key, refreshes[j] = d, Clears, task'[d].abort # task[d].abort PROVE Earlier(k, g)'
    <2>0. task \in [Call -> TaskState]
      BY DEF TypeOK, SendType
    <2>1. ASSUME NEW ks \in SUBSET Key, Abort(ks) PROVE k \in ks
      <3>1. PICK i \in ks : refreshes[i] = d
        BY <1>8, <2>0, <2>1 DEF Abort
      <3>2. call[d].key = i
        BY <1>0, <3>1, TokenAssumption DEF SessionInv, Registered
      <3> QED BY <1>3, <3>1, <3>2
    <2>2. CASE Clear
      BY <1>5, <1>6, <2>2 DEF Clear, Earlier, Agrees
    <2>3. ASSUME NEW i \in Key, Remove(i) PROVE Earlier(k, g)'
      <3>1. i = k
        BY <2>1, <2>3 DEF Remove
      <3>2. gen' = gen /\ partitions' = partitions /\ removals'[k] = removals[k] + 1
        BY <1>5, <2>3, <3>1 DEF Remove
      <3> QED BY <1>5, <1>6, <3>2 DEF Earlier, Agrees
    <2>4. ASSUME NEW p \in Partition, ClearPartition(p) PROVE Earlier(k, g)'
      <3>1. PartitionOf[k] = p
        BY <2>1, <2>4 DEF ClearPartition, KeysOf
      <3>2. gen' = gen /\ partitions'[p] = partitions[p] + 1
        BY <1>5, <2>4 DEF ClearPartition
      <3> QED BY <1>5, <1>6, <3>1, <3>2 DEF Earlier, Agrees
    <2> QED BY <1>8, <2>2, <2>3, <2>4 DEF Clears
  <1> QED BY <1>1, <1>4, <1>7, <1>8 DEF Earlier

\* What is said of a call and its refresh token stays true.
LEMMA HolderStep ==
  ASSUME TypeOK, SessionInv, GuardsInv, RefreshInv, Next, NEW d \in Call
  PROVE  HolderInv(d)'
  <1>0. HolderInv(d) /\ Guarded(d)
    BY DEF RefreshInv, GuardsInv, GuardInv, Guarded
  <1> DEFINE Kept == /\ \A k \in Key : \A t \in entries[k] : t.rt = call[d].rt => k = call[d].key /\ ~Overtaken(d)
                     /\ ~Overtaken(d) => /\ entries[call[d].key] # {}
                                         /\ \A t \in entries[call[d].key] : t.rt = call[d].rt
                                         /\ call[d].rt \in Renewed => task[d].answer = "token" /\ task[d].newRt = d
  <1>1. ASSUME Holder(d)' PROVE Kept'
    <2>1. CASE Reread(d) /\ call'[d].pc = "register"
      <3>1. /\ ~Overtaken(d) /\ entries' = entries /\ Renewed' = Renewed /\ call'[d].rt \notin Renewed
            /\ entries[call[d].key] # {} /\ \A t \in entries[call[d].key] : t.rt = call'[d].rt
            /\ \A k \in Key : \A t \in entries[k] : t.rt = call'[d].rt => k = call[d].key
        BY <2>1, HolderTakes
      <3>2. Begun(d) /\ gen' = gen /\ partitions' = partitions /\ removals' = removals /\ signIns' = signIns
                     /\ past' = past /\ signed' = signed
        BY <2>1 DEF Reread, Begun, cache, counters, history
      <3>3. call'[d].key = call[d].key /\ ~Overtaken(d)'
        BY <3>1, <3>2, CurrentStands DEF Stands
      <3> QED BY <3>1, <3>3
    <2>2. CASE Holder(d) /\ call'[d].rt = call[d].rt /\ ~TaskStores(d) /\ ~TaskFails(d)
      BY <1>1, <2>2, HolderStays
    <2> QED BY <1>0, <1>1, <2>1, <2>2, HolderBefore
  <1>2. task'[d].answer = "token" => task'[d].newRt \in {d, call'[d].rt}
    <2>1. CASE IssuerHandles(d)
      <3>1. /\ task'[d].answer = "token" => task'[d].newRt \in {d, call[d].rt}
            /\ call' = call
        BY <2>1, RefreshEffects
      <3> QED BY <3>1
    <2>2. CASE ~IssuerHandles(d)
      <3>1. task'[d].answer = task[d].answer /\ task'[d].newRt = task[d].newRt
        BY <1>0, <2>2, RefreshMoves
      <3>2. task[d].answer = "token" => call'[d].rt = call[d].rt
        <4>1. task[d].answer = "token" => ~Reread(d)
          BY <1>0 DEF Guarded, Reread
        <4> QED BY <4>1, RefreshTokenNoted
      <3> QED BY <1>0, <3>1, <3>2 DEF HolderInv
    <2> QED BY <2>1, <2>2
  <1>3. task'[d].abort => Earlier(call[d].key, call[d].since)'
    BY AbortStep
  <1>4. ASSUME MayObtain(d)', Used(d)' PROVE FALSE
    <2>1. MayObtain(d) /\ ~Requested(d) /\ ~TaskStores(d)
      BY <1>0, <1>4, RefreshMoves
    <2>2. ~Used(d) /\ d \in Source
      BY <1>0, <2>1 DEF HolderInv, Source
    <2>3. PICK k \in Key : NewIn(d, k)
      BY <1>4, <2>2, UsedGrows
    <2> QED BY <2>1, <2>3, TokenAssumption DEF NewIn
  <1> QED BY <1>1, <1>2, <1>3, <1>4 DEF HolderInv

\* The task that will store the successor of a replaced refresh token goes on.
LEMMA RotationStep ==
  ASSUME TypeOK, SessionInv, GuardsInv, RefreshInv, Next, NEW k \in Key, NEW t \in entries'[k], t.rt \in Renewed'
  PROVE  \E c \in Call : Live(c)' /\ call'[c].key = k /\ call'[c].rt = t.rt /\ ~Overtaken(c)'
  <1>0. \A c \in Call : HolderInv(c) /\ Guarded(c) /\ AnswerInv(c)
    BY DEF RefreshInv, GuardsInv, GuardInv, Guarded, SessionInv
  <1>1. t.rt \in Source /\ t.rt # None
    BY StepTyped, TokenAssumption DEF TypeOK, SendType, Source, Renewed
  <1>2. ASSUME NEW c \in Call, Live(c), Live(c)', call[c].key = k, call[c].rt = t.rt, ~Overtaken(c), Stands(k)
        PROVE  call'[c].key = k /\ call'[c].rt = t.rt /\ ~Overtaken(c)'
    <2>1. Begun(c) /\ ~Reread(c)
      BY <1>0, <1>2 DEF Guarded, Begun, Reread
    <2> QED BY <1>2, <2>1, CurrentStands, RefreshTokenNoted
  <1>3. CASE t.rt \in Renewed
    <2>1. Used(t.rt)
      BY <1>3 DEF Used, Renewed
    <2>2. Stands(k) /\ \E u \in entries[k] : u.rt = t.rt
      BY <1>1, <2>1, CachedOrigin DEF NewIn
    <2>3. PICK c \in Call : Live(c) /\ call[c].key = k /\ call[c].rt = t.rt /\ ~Overtaken(c)
      BY <1>3, <2>2 DEF RefreshInv
    <2>4. task[c].answer = "token" /\ task[c].newRt = c /\ ~Used(c)
      BY <1>0, <1>3, <2>3 DEF HolderInv, Holder, MayObtain
    <2>5. ~TaskFails(c)
      BY <2>4 DEF TaskFails
    <2>6. ~TaskAborted(c)
      <3>1. ASSUME task[c].abort PROVE FALSE
        BY <1>0, <2>3, <3>1, CurrentStands DEF HolderInv, Guarded, Begun
      <3> QED BY <3>1 DEF TaskAborted
    <2>7. ~TaskStores(c)
      <3>1. ASSUME TaskStores(c) PROVE t.rt = c
        <4>1. entries' = [entries EXCEPT ![k] = {TokenOf(c, c)}]
          BY <2>3, <2>4, <3>1 DEF TaskStores, Overtaken, Insert
        <4>2. t = TokenOf(c, c)
          BY <4>1 DEF TypeOK, CacheType
        <4> QED BY <4>2 DEF TokenOf
      <3> QED BY <2>1, <2>4, <3>1
    <2>8. Live(c)'
      BY <1>0, <2>3, <2>5, <2>6, <2>7, RefreshMoves
    <2> QED BY <1>2, <2>2, <2>3, <2>8
  <1>4. CASE t.rt \notin Renewed
    <2>1. PICK c \in Call : IssuerHandles(c) /\ t.rt = call[c].rt
      BY <1>4, RotatedBy
    <2>2. Live(c) /\ Live(c)'
      BY <2>1, RefreshEffects DEF Live
    <2>3. Used(t.rt)
      BY <2>1 DEF Used
    <2>4. Stands(k) /\ \E u \in entries[k] : u.rt = t.rt
      BY <1>1, <2>3, CachedOrigin DEF NewIn
    <2>5. call[c].key = k /\ ~Overtaken(c)
      BY <1>0, <2>1, <2>2, <2>4 DEF HolderInv, Holder
    <2> QED BY <1>2, <2>1, <2>2, <2>4, <2>5
  <1> QED BY <1>3, <1>4

\* A sign-in that is not over has a refresh token nobody knows.
LEMMA SignInUnused ==
  ASSUME TypeOK, SessionInv, GuardsInv, RefreshInv, Next, NEW s \in SignIn, signing'[s].pc # "done", Used(s)'
  PROVE  FALSE
  <1>0. signing \in [SignIn -> SignInState] /\ signing[s] \in SignInState
    BY DEF TypeOK, SendType
  <1>1. signing[s].pc # "done" /\ ~StoreSignIn(s)
    <2>1. ASSUME StoreSignIn(s) PROVE FALSE
      BY <1>0, <2>1 DEF StoreSignIn, SignInState
    <2>2. ASSUME signing[s].pc = "done" PROVE signing'[s] = signing[s]
      <3>1. ASSUME NEW r \in SignIn, (\E k \in Key : SignInBuilds(r, k)) \/ SignInSteps(r) PROVE signing'[s] = signing[s]
        <4>1. r # s
          BY <2>2, <3>1 DEF SignInSteps, SignInBuilds, SignInStarts, Redeem, StoreSignIn
        <4> QED BY <1>0, <3>1, <4>1 DEF SignInSteps, SignInBuilds, SignInStarts, Redeem, StoreSignIn
      <3>2. ASSUME ~\E r \in SignIn : (\E k \in Key : SignInBuilds(r, k)) \/ SignInSteps(r) PROVE signing' = signing
        BY <3>2, SignInsStand
      <3> QED BY <3>1, <3>2
    <2> QED BY <2>1, <2>2
  <1>2. ~Used(s) /\ s \in Source
    BY <1>1 DEF RefreshInv, Source
  <1>3. PICK k \in Key : NewIn(s, k)
    BY <1>2, UsedGrows
  <1> QED BY <1>1, <1>3, TokenAssumption DEF NewIn

\* The last layer is inductive.
LEMMA RefreshStep ==
  ASSUME TypeOK, SessionInv, GuardsInv, RefreshInv, [Next]_vars
  PROVE  RefreshInv'
  <1>1. CASE Next
    <2>1. /\ \A j, k \in Key : \A t \in entries'[j], u \in entries'[k] : t.rt = u.rt /\ t.rt # None => j = k
          /\ \A c \in Call : HolderInv(c)'
          /\ \A s \in SignIn : signing'[s].pc # "done" => ~Used(s)'
      BY <1>1, CachedOnce, HolderStep, SignInUnused
    <2>2. \A k \in Key : \A t \in entries'[k] :
             t.rt \in Renewed' => \E c \in Call : Live(c)' /\ call'[c].key = k /\ call'[c].rt = t.rt /\ ~Overtaken(c)'
      BY <1>1, RotationStep
    <2> QED BY <2>1, <2>2 DEF RefreshInv
  <1>2. CASE UNCHANGED vars
    BY <1>2
    DEF RefreshInv, HolderInv, Holder, Live, MayObtain, Used, Renewed, Overtaken, Earlier, Current,
        Generation, vars, cache,
                counters, history, workspace
  <1> QED BY <1>1, <1>2

\* No refresh token is in use at first.
LEMMA RefreshInit ==
  ASSUME Init
  PROVE  RefreshInv
  <1>1. \A k \in Key : entries[k] = {}
    BY DEF Init
  <1>2. \A c \in Call : call[c].pc = "idle" /\ call[c].rt = None /\ task[c] = NoTask
    BY DEF Init, NoCallYet
  <1>3. \A x \in Source : ~Used(x)
    BY <1>1, <1>2, TokenAssumption DEF Init, Used, Source
  <1>4. \A c \in Call : ~Holder(c) /\ task[c].answer = "none" /\ ~task[c].abort
    BY <1>2 DEF Holder, Live, NoTask
  <1> QED BY <1>1, <1>3, <1>4 DEF RefreshInv, HolderInv, Source

TokenInv ==
  TypeOK /\ SessionInv /\ (overlapped = {} => WorkspaceInv /\ GuardsInv /\ RefreshInv)

\* All the layers together.
LEMMA TokensInductive == Spec => []TokenInv
  <1>1. Init => TokenInv
    BY SessionInit, WorkspaceInit, GuardsInit, RefreshInit DEF TokenInv
  <1>2. TokenInv /\ [Next]_vars => TokenInv'
    BY SessionStep, WorkspaceStep, GuardsStep, GuardsInit, RefreshStep, OverlapStays DEF TokenInv
  <1> QED BY <1>1, <1>2, PTL DEF Spec

\* A rotation whose answer arrives is never lost: while the replaced refresh
\* token is still cached, the task that will store its successor runs, whatever
\* became of the send that spawned it (refresh_detached), as long as every
\* restore has waited for the delete to clear.
THEOREM RotationsAreKept == Spec => []RotationKept
  <1>1. TokenInv => RotationKept
    <2> SUFFICES ASSUME TokenInv, overlapped = {}, NEW k \in Key, NEW t \in entries[k], t.rt \in Renewed
                 PROVE  \E c \in Call : Live(c) /\ ~task[c].abort /\ call[c].key = k /\ call[c].rt = t.rt
      BY DEF RotationKept
    <2>1. PICK c \in Call : Live(c) /\ call[c].key = k /\ call[c].rt = t.rt /\ ~Overtaken(c)
      BY DEF TokenInv, RefreshInv
    <2>2. task[c].abort => Earlier(call[c].key, call[c].since)
      BY DEF TokenInv, RefreshInv, HolderInv
    <2>3. ~Earlier(call[c].key, call[c].since)
      <3>1. call[c].since \in Counts
        BY CallRecord DEF TokenInv, TypeOK, SendType
      <3>2. Agrees(k, call[c].since)
        BY <2>1, <3>1, CurrentAgrees DEF Overtaken
      <3>3. /\ gen \in Nat /\ partitions[PartitionOf[k]] \in Nat /\ removals[k] \in Nat
        BY Parts DEF TokenInv, TypeOK, CacheType
      <3> QED BY <2>1, <3>2, <3>3 DEF Agrees, Earlier
    <2> QED BY <2>1, <2>2, <2>3
  <1> QED BY <1>1, TokensInductive, PTL

\* What a refresh may be spawned with.
SentOnce(c) ==
  call[c].rt \notin Renewed /\ \A d \in Call \ {c} : Live(d) => call[d].rt # call[c].rt

\* A refresh token is in one request at a time, and a replaced one is sent again
\* only if the answer with its successor was lost: a refresh is spawned with
\* the cached token only, under the guard that its predecessor kept until the
\* outcome was stored, as long as every restore has waited for the delete.
THEOREM ReplacedTokensAreNotResent == Spec => NeverResent
  <1>1. ASSUME TokenInv, Next, overlapped' = {}, NEW c \in Call, task[c].pc = "none", task'[c].pc = "requesting"
        PROVE  SentOnce(c)
    <2>0. TypeOK /\ SessionInv /\ GuardsInv /\ RefreshInv
      BY <1>1, OverlapStays DEF TokenInv
    <2>1. RefreshDetached(c)
      BY <1>1, <2>0, RefreshTokenNoted
    <2>2. Holder(c) /\ ~Overtaken(c)
      <3>1. task' # task
        BY <1>1
      <3> QED BY <2>1, <3>1 DEF RefreshDetached, Holder, Overtaken
    <2>3. task[c].answer = "none" /\ HolderInv(c) /\ call[c].key \in Key
      BY <1>1, <2>0, <2>1 DEF GuardsInv, GuardInv, RefreshInv, RefreshDetached, SessionInv, CallSince
    <2>4. call[c].rt \notin Renewed
      BY <2>2, <2>3 DEF HolderInv
    <2>5. ASSUME NEW d \in Call, Live(d), call[d].rt = call[c].rt PROVE d = c
      <3>1. PICK t \in entries[call[c].key] : t.rt = call[d].rt
        BY <2>2, <2>3, <2>5 DEF HolderInv
      <3>2. Holder(d) /\ call[d].key = call[c].key /\ ~Overtaken(d)
        BY <2>0, <2>3, <2>5, <3>1 DEF Holder, RefreshInv, HolderInv
      <3> QED BY <2>0, <2>2, <3>2, OnlyHolder
    <2> QED BY <2>4, <2>5 DEF SentOnce
  <1>2. TokenInv /\ [Next]_vars =>
          [\A c \in Call :
             overlapped' = {} /\ task[c].pc = "none" /\ task'[c].pc = "requesting" =>
               /\ call[c].rt \notin Renewed
               /\ \A d \in Call \ {c} : Live(d) => call[d].rt # call[c].rt]_vars
    BY <1>1 DEF vars, SentOnce
  <1> QED BY <1>2, TokensInductive, PTL DEF Spec, NeverResent

=============================================================================
