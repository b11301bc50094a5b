# Ferrum Anvil in TLA+

A specification of the concurrent core of Ferrum Anvil, the API client in this
repository: what happens when the vault is locked, unlocked, switched or given a
new key while requests, sessions, load runs, imports, file dialogs and OAuth
refreshes are in flight, what survives in the engine's caches, how a load run
stops, and how a key rotation survives crashes and a second process.
The modules are translated from the Rust source, TLC checks them on small
instances, and TLAPS proves everything the runs check of safety, the four
refinements included, for any number of profiles, threads, calls, processes and
crashes.

`PROJECT.json` lists the components, the runs, the source lines behind every
definition, the mutants that show each property can fail, the hazards the
properties aim at, and the theorems.

## 1. The system

| Component | State | Operations | What makes it correct |
| --- | --- | --- | --- |
| Desktop lock boundary (`apps/desktop/src-tauri/src/state.rs`) | lock epoch, payload gate, transition mutex, published `App`, `key_change`, registries of running work | lock, conditional locks of the watcher and of a failed integrity check, unlock, publish, credential rotation, policy enrollment, admit and deliver a payload | nothing reaches the webview across a lock; a lock wins over an unlock that began before it; keys do not outlive their profile |
| Desktop commands (`commands.rs`, `presence.rs`, `cmd_*.rs`) | their own locals; entries in the registries | one async task or blocking worker per command | they register before they read the profile and check their fence or epoch before every effect |
| Load runs (`cmd_load.rs`, `anvil-app/src/load.rs`, `anvil-load`) | run registries, the supervised worker process, held reports | start, stop, save, hold, flush | a report is in one place, in its own profile; stops arrive |
| File grants (`anvil-app/src/file_grants.rs`, `cmd_files.rs`) | grant table, generation, sequence | choose, read, write, ingest a private key, revoke, expire | a grant serves only the session it was chosen in, once |
| Imports and restores (`commands.rs`, `anvil-app/src/port.rs`, `backup.rs`) | worker permit, attempt registry, `ImportGate` | preview, apply, cancel | a canceled import writes nothing; workers do not pile up |
| OAuth token cache (`anvil-auth/src/oauth.rs`, `anvil-engine/src/oauth_http.rs`) | entries, four generation counters, refreshes in flight, single-flight mutexes | acquire, refresh, sign in, sign out, clear, clear a workspace | no overtaken answer is cached or used; one request per key; no rotated refresh token is lost |
| Interactive sessions (`cmd_sessions.rs`, `anvil-engine/src/sessions.rs`) | slots per execution and attempt, bounded command queue | open, send, cancel, finish | a late command or end never touches a newer session; a cancel never waits behind a send |
| Engine (`anvil-engine`) | connection pools, cookies, tickets, prepared TLS, epochs | execute with redirects and retries, clear | what an overtaken execution learned is not kept |
| Transport (`anvil-transport`) | pools with fences (`fence.rs`), protocol stacks | HTTP/1, 2, 3, WebSocket, gRPC, SSE, TCP, UDP, tunnels | a fenced connection is not put back |
| Encrypted store (`anvil-storage`) | data key, rows, manifest, header, profile lock | open, lock, unlock, rotate, checkpoint, restore | a rotation is crash safe; one process per profile |
| Load executor (`anvil-load/src/executor.rs`, `schedule.rs`, `metrics.rs`) | ledger of iterations and sends | schedule, admit, drain, stop | the report says what happened; a cancel or lock ends the drain |
| Runner (`anvil-runner`) | step outcomes | run, abort, skip | every step is accounted for |
| Portability, importers, contract, diagnostics, domain, identity, XML limits, CLI, lab, fixtures | none shared | parse and transform documents; one-shot commands; test servers | (documents; not state machines) |

How they interact.  Every desktop command takes the published `Arc<App>` from
`DesktopState` and keeps it while other threads lock or replace it, so all
coordination is by epochs, generations and tokens that are captured early and
compared late.  A lock bumps the epoch under the payload gate, drops the
store's key, clears the engine caches (which may wait for a callback that is
inside one), and then cancels every registered token.  Tokens, grants, imports
and load runs each have a generation of their own that this sequence moves.

What is hard is therefore not one algorithm but the orders: an unlock that
derives its key for seconds while a lock lands; a callback that has validated
its fence when the lock arrives; a refresh whose caller is gone; a report that
finishes while its profile is locked, switched or rotated; a dialog that stays
open across a profile switch.  The hazards in `PROJECT.json` are these orders,
each at the line where it bites.

## 2. Modules

| Module | Models | Composition |
| --- | --- | --- |
| `DesktopState` | `state.rs` with `profile_unlock`, `profile_create`, `app_lock`, the watcher, `change_passphrase`, `profile_enroll_unlinked`, `send_request` | instantiates `LockBoundary` for refinement |
| `LockBoundary` | what the boundary promises, without threads, locks, keys or profiles | |
| `DesktopStateProofs` | theorems about `DesktopState` | extends it |
| `LoadReports` | load runs and their reports | boundary moves reduced to what a run observes; instantiates `ReportCustody` for refinement |
| `ReportCustody` | what becomes of a report, without locks, keys, flushes or threads | |
| `FileGrants` | native-dialog file grants | boundary moves reduced to what a grant observes; instantiates `GrantBook` for refinement |
| `GrantBook` | the life of a grant, without profiles, threads, dialogs or generations | |
| `Imports` | bundle imports, restores, previews | boundary moves reduced to what an import observes |
| `TokenCache` | the OAuth token cache and its users | a lock is `clear`, a delete is `clear_isolation` |
| `Sessions` | interactive sessions: open, send, cancel, the watcher | boundary moves reduced to epoch, gate and `stop_work` |
| `KeyRotation` | rotation, unlock, scrub and retirement on one profile folder | several processes, file locks, credential store, crashes; instantiates `SealedProfile` for refinement |
| `SealedProfile` | what a profile promises of its data key, without processes, files or crashes | |
| `EngineCaches` | the QUIC pool, the ticket cache and the cookie jars of an engine | a lock and a workspace delete, cache by cache |
| `LoadExecutor` | one `LoadRun::execute_lockable` | driver, tasks, observer, ticker and drain |
| `LoadReportsProofs`, `FileGrantsProofs`, `ImportsProofs`, `TokenCacheProofs`, `SessionsProofs`, `KeyRotationProofs`, `EngineCachesProofs` | theorems about the module each is named after; `LoadReportsProofs` also those about `LoadExecutor`, whose reports it is about | each extends it; `LoadReportsProofs` extends `LoadExecutor` too |
| `MC*` | instances for TLC: symmetry sets and function-valued constants | |

A step is what one thread does between two points where another thread can
interfere: taking a mutex or the gate, an await, a compare-exchange, a commit.
Definitions named `X_Something` beside a definition `X` are variants of it with
a plausible bug; nothing uses them except the mutation runs.

### DesktopState

- `epoch`, `gate`, `app`, `keyChange` are `lock_epoch`, the flag under
  `payload_gate`, the published app and `key_change`; `transition` is the owner
  of the transition mutex; `key[a]` says whether the store of `a` holds its data
  key; `cacheOwner[a]` is the callback inside an engine cache; `running` is the
  registry a lock drains.
- An `Op` is a thread in a boundary operation: `wait` (for the transition
  mutex), `gate` (for exclusive access; a waiting writer keeps readers out, as
  parking_lot does), `store`, `caches`, `stop` (the cleanup of a lock or
  publication), `publish`, `held` and `drop` (a credential change).  `opSeen`
  is the epoch it captured before it derived a key or asked the user.
- A `Work` is `send_request`: admitted, registered, checked, running, inside a
  cache callback, delivering, replying.
- `SelfLock` is a store that finds its records corrupt and drops its own key
  (`Store::protected_authority`); `UnlockOutcome` is what `Store::unlock_if`
  leaves behind.
- `overtaken` and `faulted` are history: the openers a boundary move landed on,
  and whether a store that held its key has dropped it by either fault.

### LoadReports

`insts` numbers the opened `Arc<App>`s, each with its vault (`VaultId`: profile
and key version); `mover` is the lock or publication under the transition
mutex, `rotation` the passphrase change.  A run goes through `load_run_start`
(`registered` ... `spawning`), is `supervised`, and then saves, holds, flushes
and tells the window.  `stopped[r]` are its canceled tokens, `On` is
`Stop::on`.  The worker process is external: it ends by itself, drained,
killed, or by the deadline of the stop.  Held reports (`held`) are taken by a
flush (`fTaken`), saved, dropped with their workspace, or pushed back
(`fBack`).  For `ReportCustody`, the home of a run is the profile of its
instance, and a report waits while it is held, taken by a flush or about to be
pushed back.

### FileGrants

A grant is a record named by its issue number.  `choice`, `write` and `claim`
are the threads of the chooser, of an export and of a private-key ingestion.
`Fence`, `RevokeAll`, `Close` are the boundary's steps as far as they touch the
table.  The checks on paths and links are data here; the bind purposes (token
files, linked files) are not modelled.  For `GrantBook`, a grant is usable while
it is in the table, taken while a writer or an ingester has it, barred when the
generation has moved since it was taken, and gone when it was numbered and is
nowhere any more.

### Imports

An attempt is a command (`pc`) and its blocking worker (`worker`).  `permit` is
the one import worker, `imports` the registry behind `import_cancel`,
`importGate` the compare-exchange between abandon and first write.
`writes_may_begin` reads the epoch and then claims the gate: two steps
(`Derived`, `BeginWrites`).  The attachments of a bundle are stored after the
commit (`Attach`), as docs/storage-and-recovery.md:200 describes.  A store that
was locked meanwhile refuses with its own error, which `e` turns into LOCKED
(`StoreError`): an import may therefore answer LOCKED and have written.
`overtaken` is history: the attempts a lock or switch met before their worker
compared the epoch.

### TokenCache

`entries`, `gen`, `partitions`, `removals`, `signIns`, `refreshes` and `locks`
are the fields of `CacheState` and `TokenCache`; `jars` is the workspace
generation of the cookie jars that `acquire` compares.  A `Call` is one
`acquire`, with its detached refresh `task`; `owns` says who has a
single-flight guard.  A refresh token is named by the call or sign-in that
obtained it, `rotated` are those the issuer (external) has replaced, and `lost`
those of them whose successor never arrived: the answer was lost or could not be
read.  The code keeps such a token for a later attempt (docs/identity.md:42) and
the next send sends it again, so the properties about replaced tokens except
`lost`.  A restore of a deleted workspace waits for nothing; `overlapped` are the
workspaces that were restored before the clears of their delete were over.  One
bound: a restored workspace is deleted again only after those clears.  The
fields `past`, `signed`, `jar` of a token are history: the session it was
requested in.  Building a context takes its epoch and reads the workspace under
the store's connection, hence one step.  The `is_locked` check that ends
`App::oauth_sign_in_with` is left out: it only removes tokens.

### Sessions

An `Attempt` is one `session_open` from admission to the end event; `Id` are
the renderer's execution ids, which are used again, while the attempt id is
fresh and is the attempt itself.  `sessions` and `running` are the two
registries, `token` the canceled tokens, `inSlot` whether the slot holds its
handle, `engine` and `engineCancel` the engine task and its token.  `mutex` is
the send that holds the slot's async mutex: `session_send` keeps it while it
waits for room in the queue of `Capacity` commands, and every poll
(`SendPolls`) checks the fence and the exact slot again.  A lock is `Fence`,
then `StopWork`, which drains the registries, cancels the tokens and spawns the
aborts (`aborting`).  The watcher takes the handle (`TakeHandle`), removes the
exact slot (`RetireSlot`), and reports in two steps: the fenced end event
(`EmitEnded`) and, when the fence refuses it, the scalar LOCKED event
(`EmitLocked`); both are dropped when another attempt has the id (`Deliver`).
`told` are the attempts whose end the window has heard of, from the event or
from the error of `session_open`; `replaced` is history.  The protocol adapter is
external: it consumes commands and may end at any time.  Its events
(`session_sink`) are not repeated here: they are fenced payload, the subject of
`DesktopState`.

### KeyRotation

Keys are numbers; a header is its key, what protects it and the keychain
accounts it still has to retire.  `db`, `data`, `pages`, `copies`, `sidecar`
and `keychain` are what is durable: a crash (`Crash`) loses everything else of
the process, its file locks included.  `shared`, `excl` are the data fence,
`hlock` the header lock of `profile_lock.rs`.  `Commit` may report failure and
have lasted (`CommitFails`).  Which old checkpoints a scrub recognises is a
choice (`Superseded`): one that cannot be opened or has no canary is kept without
an error, and `kept` records its key.  `VACUUM INTO` writes into the checkpoint
folder itself, so a crash or a failure in `Checkpoint` may leave a partial file.
Each keychain call and each removal may be
refused, and a wait for a file lock may give up (`GivesUp`).  Only enrolled
profiles are modelled, one thread per `Store`, and a shared hold of the fence
that is taken together with the header lock is one step.  For `SealedProfile`,
something remains of a replaced key while a page, a copy, the sidecar or a
keychain entry of it is left (`Remains`).

### EngineCaches

An execution (`Exec`) builds its context: under the store's connection it takes
the snapshot of `Engine::snapshot`, value by value (`SnapReads`, `SnapEnds`),
and reads the workspace.  It then takes a pooled connection or opens one,
receives cookies and tickets, may be answered 425 and retry on the connection
kept for it, may find a reused connection closed under its request and send it
once more on a new one (`Ended`; `again` counts these), and drops its lease in two steps (`DropLease`, `Release`), with
sweeps, evictions and clears between them.  `gens` are the `Generations` of the
pool and of the tickets.  A lock and a delete are one action per cache, in the
code's order.  `tag` is what the context was read from (incarnation of the
workspace, session of the vault); cookies, tickets and connections carry it as
history.  Abstractions: one destination per isolation, so the cap on idle
connections, which counts those of all destinations, may evict any idle one
(`OverCap`); time is a choice in `expired`; the TCP pool, its tickets, the gRPC
channels and the prepared TLS configurations follow the same two rules and are
not repeated.

### LoadExecutor

`workload` chooses the driver. A `Slot` is a virtual user, a lane or an in-
flight slot with its task `pc`; an iteration has `Steps` sends. `stopToken`,
`halt` and `hard` are the three tokens, `cancel` and `lock` the caller's
signals, `link` the observer that turns them into reason, halt and stop in three
steps, `ticker` the abort rule, `main` the run from the driver to the report.
Every deadline is an action. `ledger` is the part of the counts that must
balance. The warmup split, histograms, timeline and progress are left out, and
the abort rule's window is reduced to whether a send has ended that may count as
a failure: any but a canceled one, since a completed send may have failed its
assertions. An arrival is due by its scheduled offset, so a late driver still
starts arrivals when the end has passed.

## 3. Runs

`tlc -workers 2 -config <cfg> <module>` in this directory.

| Run | Config | Checks | Shows |
| --- | --- | --- | --- |
| boundary | `DesktopState.cfg` | `DeliveryFenced`, `KeyConfined`, `ClosedMeansLocked`, `RotationExclusive`, `StaleWorkStopped`, `LockWins`, `RefinesBoundary`, `LockCompletes`, `StaleWorkEnds` | with stores that lock themselves, nothing is delivered across a lock, no key outlives its profile, a rotation stays exclusive, a lock wins and never waits forever for a callback, and the code implements `LockBoundary`; until a store drops its key by itself, overtaken work has been told to stop and ends |
| revives | `DesktopStateRevives.cfg` | `FenceNeverRevives` violated | finding 1 |
| load_reports | `LoadReports.cfg` | `ReportConfined`, `ReportInOnePlace`, `DeletedKeepsNothing`, `CrossedRunEnds`, `RefinesCustody` | a report is in one place and only in its own profile; a run whose profile locked ends; the code implements `ReportCustody` |
| held_rotated | `LoadReportsRotated.cfg` | `HeldSurvivesRotation` violated | finding 2 |
| grants | `FileGrants.cfg` | `GrantsOfThisSession`, `KeyIngestedOnce`, `RefinesGrantBook` | a grant serves its own session and is used up once; the code implements `GrantBook`: what a lock revoked or the limit evicted never comes back |
| imports | `Imports.cfg` | `CanceledWritesNothing`, `OneWorker`, `Cancelable`, `CancelEnds` | cancel and first write exclude each other and an overtaken import never writes, with LOCKED after a commit as the one exception, workers do not pile up, an id that is used again stays with its attempt, and a cancel ends the command |
| tokens | `TokenCache.cfg` | `EntryCurrent`, `AnswerOfItsSession`, `DeletedApart`, `SingleFlight`, `RotationKept`, `NeverResent`, `CallEnds` | no overtaken token is cached or handed out; nothing of a deleted workspace stays cached; no abort, cancel or fallback leaves a single-flight mutex locked; and, unless a restore overtook the clears of a delete, one request per key and no refresh token whose successor arrived is lost or sent again |
| token_restore | `TokenRestore.cfg` | `RestoredStartsAfresh` violated | finding 3 |
| sessions | `Sessions.cfg` | `SessionReachable`, `EndedIsOver`, `ControlsOwn`, `StopEnds` | a live session can always be stopped, an ended one has left nothing behind and the window was told unless its id was used again, a control drives only the session it was meant for, and a stop ends a session whose slot a blocked send holds |
| rotation | `KeyRotation.cfg` | `ProfileOpens`, `UnlockCleans`, `RefinesSealedProfile` | the committed header's key can always be had, nothing is stored under a replaced key, an unlock without refusals leaves nothing of an old key but checkpoints whose key could not be told, and the code implements `SealedProfile`: nothing of a cleaned up key comes back |
| pool | `EngineCaches.cfg` | `ConnectionsAccounted`, `NothingOutlives`, `KeepsTogether` | no connection leaks or is closed under a request; nothing of an overtaken execution is kept; an execution keeps either everything or nothing |
| executor | `LoadExecutor.cfg` | `ReportTruthful`, `StopCutsDrain` | a report that says completed is true; a cancel or lock ends the run though no send returns |

Bounds, and why they are enough for the cases aimed at.

- `boundary`: two profiles (a switch and a switch back), two boundary
  operations in flight (one overtakes the other), one work, `MaxEpoch` 2: a
  session, the move that ends it (a lock, a switch or a rotation), and an opener
  that starts after it, also while the rotation is still on.  Only openers start
  once the epoch has reached `MaxEpoch`; an operation that started earlier may
  still move it.  The instance is not reduced by symmetry, because the run checks
  liveness; the theorems of section 4 say that the safety properties do not
  depend on the bound.
- `load_reports`: two profiles, two instances, three moves (open, lock or
  switch or rotate, open again), one run and one opener.  Two flushes still
  overlap: the opener's and the run's own.
- `grants`: a table of two grants so that the limit evicts, three issues, three
  moves, one thread of each kind.
- `imports`: two attempts that may share the one id, two moves; unlocks are
  unbounded.
- `tokens`: an interactive and a client-credentials key in one workspace, two
  sends (each makes at most one refresh), a sign-in that overtakes or is
  overtaken, and one lock, sign-out or workspace delete, whose restore may commit
  at any point of its clears.  `token_restore` uses the same instance.
- `sessions`: two attempts on one execution id (one replaces the other), one
  send and one cancel, a queue of one command, one boundary move: enough for a
  send to wait on the full queue while a cancel or the lock lands, and for the
  id to be registered again before the first attempt is retired.
- `rotation`: two processes, keys 0 to 2 (two rotations, so that the second
  carries on what the first left), one crash: a crash of one process while the
  other goes on, or of the one after the other has rotated.  What a crash leaves
  on disk a second one can only leave again.
- `pool`: two executions that share a workspace and its connection, two
  connections (one replaces the other), one lock and one delete with restore,
  each of which can land inside the other and inside both snapshots.
- `executor`: two tasks, two steps per iteration, two iterations (so that one
  lane may take both, or an arrival find a slot free again); all three workloads
  are initial states of the one run.

`CHECK_DEADLOCK FALSE` is set everywhere but in `rotation` because the instances
do stop: the epoch, moves or events are used up, and runs, attempts, calls,
executions and sign-ins are made once.  In `rotation` the processes go on for
ever and TLC checks that they never wait for each other's file locks without
end (a wait gives up).  That nobody waits forever is what the liveness properties say.

### Fairness

- `DesktopState`: threads that can run do.  The transition mutex, the gate and
  the engine caches are parking_lot locks, which hand over eventually fairly:
  strong fairness of the steps of an operation that has begun.  A canceled execution reaches a cancellation
  point: strong fairness of its end.  Nothing is assumed of users, of the
  network or of the start of an operation.
- `LoadReports`: supervisors, boundary moves and flushes keep running; a worker
  that was asked to stop ends, because `LoadController::stop` has a deadline.
  A worker that was not asked may run for ever.
- `Imports`: tasks and workers keep running; a key derivation is long but
  bounded by its header.
- `TokenCache`: tasks keep running, and a token request ends because its
  transport has a timeout.  The single-flight mutex is tokio's, which is FIFO:
  strong fairness of `Lock`.

- `Sessions`: tasks keep running; tokio's mutex is FIFO, so an abort and the
  watcher get the slot once no send holds it (strong fairness); an engine task
  that was canceled ends, because `SessionHandle::cancel` arms an abort after
  `CANCEL_GRACE`.  Nothing is assumed of the peer, which may never consume the
  queue, or of the user in the native dialog.
- `LoadExecutor`: tasks are polled, and the short waits (`cancel_drain_ms`,
  `HARD_CANCEL_GRACE`) pass.  Nothing makes a send return, the schedule end, or
  the graceful wait expire: `StopCutsDrain` must not rest on them.
- `KeyRotation` and `EngineCaches` have safety properties only.

## 4. Proofs

`tlapm <module>` in this directory checks the proofs of one module.  Every
theorem is about the module's `Spec` for every value of its constants that the
module's named assumption admits.  The type invariants and the two statements
`SpentStaysSpent` and `OneKey` are proved and in no run's configuration: the
proofs hold for every instance, and what the two say is also part of the
refinements of `GrantBook` and `SealedProfile` that the runs check.

| Module | Theorem | States | Says |
| --- | --- | --- | --- |
| `DesktopStateProofs` | `TypeCorrect` | `TypeOK` | the state is well typed |
| | `DeliveryIsFenced` | `DeliveryFenced` | while a payload is being enqueued, delivery is open in the epoch and for the profile it was admitted in, and no cleanup is under way |
| | `KeysAreConfined` | `KeyConfined` | a store holds its key only while published, about to be published by the opener that unlocked it, or being retired |
| | `RotationIsExclusive` | `RotationExclusive` | from `begin_key_change` to the drop of `KeyChange`, delivery stays closed and the profile stays published |
| | `ClosedProfileIsLocked` | `ClosedMeansLocked` | at rest, closed delivery means that the published profile has no key |
| | `LockWinsAlways` | `LockWins` | an opener that a boundary move landed on opens, publishes and starts nothing |
| | `ImplementsBoundary` | `RefinesBoundary` | `DesktopState` implements `LockBoundary` |
| | `StaleWorkIsStopped` | `StaleWorkStopped` | work that a boundary move overtook has been canceled, or the move still has to cancel it, until a store drops its key by itself |
| `LoadReportsProofs` | `LoadsTyped` | `TypeOK` | the state is well typed |
| | `ReportsStayWithTheirProfile` | `ReportConfined` | every report stored in a profile is of a run started under that profile |
| | `DeletedWorkspacesKeepNothing` | `DeletedKeepsNothing` | nothing of a deleted workspace is stored |
| | `ReportsAreInOnePlace` | `ReportInOnePlace` | from the end of its worker on, a report is in exactly one place |
| | `ImplementsCustody` | `RefinesCustody` | `LoadReports` implements `ReportCustody` |
| | `ExecutorTyped` | `ExecutorTypeOK` | the state of a load run is well typed |
| | `ReportsAreTruthful` | `ReportTruthful` | a report that says completed is true, and what it counts as in flight was abandoned |
| `FileGrantsProofs` | `GrantsTyped` | `TypeOK` | the state is well typed and the table within its limit |
| | `GrantsBelongToTheSession` | `GrantsOfThisSession` | a grant in the table was chosen in the session that is open |
| | `SpentGrantsStaySpent` | `SpentStaysSpent` | a grant that was used up is not presented again |
| | `KeysIngestedOnce` | `KeyIngestedOnce` | a chosen private key is ingested at most once, into the session that chose it |
| | `ImplementsGrantBook` | `RefinesGrantBook` | `FileGrants` implements `GrantBook` |
| `ImportsProofs` | `ImportsTyped` | `TypeOK` | the state is well typed |
| | `CanceledImportsWriteNothing` | `CanceledWritesNothing` | an overtaken import never writes; one that reports CANCELED has written and will write nothing, and LOCKED likewise unless its own worker met the locked store after the commit |
| | `ImportWorkersNeverPileUp` | `OneWorker` | at most one import worker runs |
| | `ImportsStayCancelable` | `Cancelable` | an attempt's own registration is there until it returns or has been canceled |
| `TokenCacheProofs` | `TokensTyped` | `TypeOK` | the state is well typed |
| | `CachedTokensAreCurrent` | `EntryCurrent` | no cached token was requested before the last clear, sign-out or sign-in of its key |
| | `AnswersAreOfTheirSession` | `AnswerOfItsSession` | no call is answered with a token of another session |
| | `DeletedWorkspacesStayApart` | `DeletedApart` | once a delete has cleared its tokens, no token obtained for the deleted workspace is cached |
| | `OneRequestInFlight` | `SingleFlight` | of the calls of a key's current generation at most one has a request with the issuer (\*) |
| | `RotationsAreKept` | `RotationKept` | a cached refresh token whose replacement the answer carries is about to be replaced there (\*) |
| | `ReplacedTokensAreNotResent` | `NeverResent` | a refresh token is in one request at a time, and a replaced one is sent again only if the answer with its successor was lost (\*) |
| `SessionsProofs` | `SessionsTyped` | `TypeOK` | the state is well typed |
| | `ControlsActOnTheirOwn` | `ControlsOwn` | no step of a send or cancel acts on another attempt than the one it was resolved to |
| | `SessionsStayReachable` | `SessionReachable` | no engine task runs where nobody can stop it |
| | `EndedAttemptsAreOver` | `EndedIsOver` | an ended attempt has no registration, engine task, queued command or held slot, and the window was told unless its id was registered again |
| `KeyRotationProofs` | `RotationTyped` | `TypeOK` | the state is well typed |
| | `ProfilesOpen` | `ProfileOpens` | the key of the committed header can always be had |
| | `RowsSealedWithOneKey` | `OneKey` | all rows are sealed with the key of the committed header |
| | `UnlocksClean` | `UnlockCleans` | an unlock in which nothing was refused leaves nothing of a replaced key, except checkpoints whose key its scrub could not tell |
| | `ImplementsSealedProfile` | `RefinesSealedProfile` | `KeyRotation` implements `SealedProfile` |
| `EngineCachesProofs` | `CachesTyped` | `TypeOK` | the state is well typed |
| | `ConnectionsAreAccounted` | `ConnectionsAccounted` | no connection leaks and none is closed under a request |
| | `NothingOutlivesItsClear` | `NothingOutlives` | nothing outlives the lock or the delete that must empty the caches |
| | `SnapshotsKeepTogether` | `KeepsTogether` | a snapshot never mixes generations |

### Assumptions

The named assumptions on the constants (`NoneAssumption`, `LoadAssumption`,
`GrantAssumption`, ...) say that the null values are no members, that sets that
play different parts are disjoint or not empty, and that the bounds are natural
numbers.  TLC evaluates them in every run.  The bounds appear in guards of the
specifications; no theorem rests on their size.  `LoadReportsProofs`
extends both `LoadReports` and `LoadExecutor`, whose names are disjoint for that:
the two specifications share no variable, and the theorems about the executor are
about `ExecutorSpec` under `ExecutorAssumption` (a finite, non-empty set of
slots, at least one step and one iteration).

The bounds and these assumptions apart, the theorems have no hypotheses.  Four
properties carry a condition of their own, on a history variable, without which
they are false:

- `StaleWorkStopped` (and `StaleWorkEnds`, which is only model-checked) speaks of
  the time before a store has dropped its key by itself (`faulted`): a failed
  unlock of the open profile closes delivery without stopping work or moving the
  epoch, and an enrollment can then move the epoch over uncanceled work
  (section 5).
- The properties marked \* speak of the time before a workspace has been
  restored ahead of the clears of its delete (`overlapped = {}`); section 5 says
  what happens then.

### The invariants

None of the properties but the type invariants is inductive.  Each module
states the strengthening it needs, TLC checked it on the run's instance first,
and the proof has one step per action.

*DesktopState* (`IndInv`).  That a
delivery excludes a cleanup needs that a cleaning operation closed the gate and
holds the transition mutex (`Serialized`), and which profile an operation
retires depends on what kind it is at that stage (`Staged`).  That closed
delivery means no key needs where in each operation the key is gone
(`LockedStages`), that delivery closed outside any operation was closed by one
that dropped the key (`AtRest`), and that at most one credential change is
under way and excludes a publication past the mutex (`OneChange`).  `LockWins`
adds `SeenBefore`: an overtaken opener has captured a smaller epoch and is still
before its fence, so the comparison it makes there fails.  The refinement maps
`gate`, `epoch`, the fences of the works and the works inside `deliver_payload`
to the abstract boundary; `DeliveryFenced` and `Serialized` give that a move
happens with nobody inside.  `StaleInv` says that checked work is registered or
canceled and, once delivery has closed over it, canceled or about to be; that
needs that an open profile holds its key (`OpenKeyed`, `HeldKey`) and that a
profile about to be published is nobody else's (`Private`).

*LoadReports* (`ReportInv`).  The worker's stage follows the run's (`Workers`);
a flush has taken reports only while it is on, and the publishing thread has
none (`Flushers`); what it took is of the vault it saves into (`OfItsVault`).
With these, `OnePlace` says for each run at each stage where its report is.
The refinement of `ReportCustody` adds that a run has no instance before it has
read the app (`NotStarted`), so that its home is chosen once; `OnePlace` then
gives that a report which is stored or lost was fresh or waiting, and
`OfItsVault` that it is stored at home.

*LoadExecutor* (`ExecutorInv`).  `LedgerInv` relates the ledger to the tasks:
the iterations and sends in flight are the slots at the corresponding stages, so
their numbers are cardinalities that each action moves by one, and what the
drain leaves is covered by the aborted tasks.  `ReasonInv` says which reason can
be set at which stage of observer, ticker and driver: whoever stops the run has
given its reason first, so lanes that end while there is none, and no signal
either, have run out of iterations.

*FileGrants* (`GrantInv`).  A number the table issued is in one place: in the
table, with one thread, or used up (`PlaceInv`).  A grant, a choice or a taken
grant whose generation is the table's belongs to the open session, unless a
move is about to revoke it (`OfSession`); this is what makes a late dialog
harmless.  Eviction at the limit needs that a set of grants has an oldest one.
The refinement of `GrantBook` rests on `PlaceInv`: since a number is in one
place, a step that takes it out of its place and puts it in no other makes it
gone, and no step takes a number from the gone; that a revocation bars what is
taken follows from the generations in `SessionInv`, none of which is ahead of
the table's.

*Imports* (`ImportInv`, `Overtaken`).  A running worker holds the permit; the gate, once
claimed for writing, was claimed by an apply and is never given back; a command
that has reported a cancel or a lock left the gate such that its worker cannot
claim it, or has the worker's own result; and the worker of an overtaken attempt
never asks to write, since the epoch it read is behind the current one
(`OvertakenInv`).

*TokenCache* (`TokenInv`), in layers.  `clear` resets the per-key counters, so
an old snapshot can agree with a counter again; but the counters are nested,
each under one that the reset moves, and a snapshot that is not the current one
is `Earlier` in that order.  `SessionInv` says that a snapshot that `Agrees`
with the counters was taken in the session of today, which gives the two
session theorems.  `ApartInv` does the same for the incarnations of a
workspace once a delete has cleared its tokens, and `WorkspaceInv` adds that what
is built after a delete is newer than what was built before it.  `GuardsInv` says who owns the mutex of a key, also after its caller
has gone and its task runs on.  `RefreshInv` says of the one that owns it what
is in the cache, what the issuer has replaced, and that an aborted task belongs
to an earlier generation: a rotated token is with a task that no cancel stops.
`SessionInv` and `ApartInv` hold always; the other layers while `overlapped` is
empty.

*Sessions* (`ReachInv`, `OwnInv`, `OverInv`).  An attempt is registered under its id from
its registration to its retirement unless a boundary move overtook it, and then
its fence is behind the epoch, so its own open finds out.  A control under way
holds the slot of the attempt its console showed.  For `EndedIsOver`,
`OverInv` bounds the stages at which an attempt is registered, runs an engine
task, has commands queued or its slot held, and says that one whose id is with
another attempt was `replaced`.

*KeyRotation* (`RotationInv`).  The locks are held in exactly the steps that
need them (`LockInv`); a keychain account holds a key exactly while the header
names it and afterwards only while it is listed as retired (`AccountInv`);
the sidecar names the header's key only when the files hold nothing older
(`SidecarInv`).  Per process, the key and the header it read are those
committed, or older ones it will find out about before it writes (`KeyInv`,
`HeaderInv`), and `RetireInv`, `CleanInv` say how far a retirement and a scrub
have come, `kept` being what the scrub has left.  A crash keeps the durable part of it and releases the locks.
For `SealedProfile`, the commit of a rotation is the one abstract rotation, and
every other step must add nothing of a replaced key: copies and sidecars are
made under a fence that only the holder of the committed key passes (`KeyInv`,
`LockInv`), and the files hold that key's pages (`PagesInv`).

*EngineCaches* (`CachesInv`).  `Accounts` counts the users of a connection.  At
each point of a lock and of a delete one session and one incarnation are dead
for each cache (`EpochDead`, `PoolDead`, ...); the caches keep nothing dead, and
an execution whose context is dead has a snapshot that the cache's generation
no longer admits (`KeepsAlive` ... `TicketsAreAlive`).  `Consistent` compares
the values of one snapshot that was interrupted by a lock or a delete.

### Only model-checked

Liveness, since the prover has neither fairness nor `ENABLED`: `LockCompletes`,
`StaleWorkEnds`, `CrossedRunEnds`, `CancelEnds`, `CallEnds`, `StopEnds` and
`StopCutsDrain`.  Every invariant and every action property of a passing run,
and the four refinements, are proved.  The three findings are counterexamples, so
they are runs.

## 5. Findings

1. **A fence can become valid again** (run `revives`).  A store that finds its
   records corrupt drops its key without moving the lock epoch
   (`Store::protected_authority`).  If the user unlocks before
   `lock_integrity_if_current` takes the transition mutex, that call finds the
   profile unlocked and returns; a fence that was invalid in between is valid
   again.
   docs/architecture.md:77 says that an old fence stays invalid after unlock.
2. **A passphrase change strands held reports** (run `held_rotated`).  Held
   reports are matched by `VaultId`, which contains the check value of the data
   key; a rotation replaces the key, so they are never taken again.
   docs/architecture.md:45 says they are saved when the profile is next
   unlocked.
3. **A restored workspace can be answered with a token of the deleted one** (run
   `token_restore`).  `Engine::clear_isolation` runs after the storage delete has
   committed, and nothing makes a restore of the same id wait for it.  A send
   built in the restored workspace after the jar's generation moved and before
   `clear_partition` passes the jar check and finds the old token cached.
   docs/protocols.md:414 says that a workspace restored with the same id never
   gets a token from before the delete.

Observed while modelling, without a run of their own:

- A flush that loses its profile pushes its report back (`flush_pending_reports`,
  state.rs:453).  Locked and unlocked again between `take_for` and the push, the
  profile is open, its own flush is over, and the report stays held until a later
  unlock, although docs/architecture.md:45 says it is saved when the profile is
  next unlocked.
- The finished event of a load run is not fenced: `for_window` (cmd_load.rs:167)
  asks for the current profile before the event is emitted, so a profile opened
  in between hears of the run (against the comment at cmd_load.rs:233).
- A send whose stored context is no longer authorized cancels the slot's token
  (`check_session_authority`, cmd_sessions.rs:348) without aborting the engine
  session: the session goes on receiving until it is canceled or locked, and no
  further send gets through.  `SessionReachable` holds, since it stays registered.
- The ticker tests `stop` before it looks at the abort rule (executor.rs:1248).
  If the schedule ends in between, `set_reason` keeps `ScheduleEnd` but `halt`
  is still set: chains are cut short and their iterations counted as canceled in
  a report that says the run completed.  `ReportTruthful` therefore does not say
  that a completed run has no canceled iteration.
- `clear_partition` moves the generation and drops the single-flight mutexes in
  two holds (oauth.rs:335 and 354).  A send of a workspace restored meanwhile
  that comes in between queues on a mutex about to be dropped although it belongs
  to the new generation (the comment at oauth.rs:352 says it cannot); the next
  send gets a fresh mutex, and both ask the issuer for the same key.  TLC finds
  `OneRequest`, which is `SingleFlight` without its condition, violated on the
  instance of `tokens`.
- A failed unlock of the profile that is already open (store.rs:1672) drops its
  key and closes delivery without moving the epoch, stopping work or clearing
  caches.  This is why `StaleWorkStopped` and `StaleWorkEnds` stop at the first
  such fault;
  `DeliveryFenced` and `KeyConfined` hold with it.
- A write grant given back after a failed write keeps its old place in the
  eviction order, so at `MAX_GRANTS` it is the first to go (file_grants.rs:496,
  against the comment at :485 that it stays usable for a retry).
- `AnswerOfItsSession` is about the session a token belongs to, not about the
  moment it is returned: a lock that lands after a refresh task has ended and
  before its caller resumes does not take the token back.  The execution is
  stopped by its cancellation.  Likewise a send that starts `acquire` after a
  lock's `clear` belongs to the new generation, and it is the fence and the
  cancellation that stop it.

## 6. Not modelled

The repository has about 157 000 lines of implementation; the modules translate
the part of it in which threads, tasks, processes or crashes meet.  Most of the
rest has no shared state and no order of steps for a model checker to explore:

- protocol framing and I/O over external stacks (`ws.rs`, `grpc.rs`, `sse.rs`,
  `dtls.rs`, `masque.rs`, `hbone_udp.rs`, ...), whose sequencing is the peer's
  protocol and whose own state lives inside one task;
- parsers, importers, the contract and drift comparison, diagnostics and
  portability: functions from documents to documents, with inputs far outside
  what TLC can enumerate in a way that would tell a bug;
- cryptography, sealing, the manifest, schema migrations;
- object CRUD commands, each one store transaction, and the commands of the
  runner, specs, drift, identity and standards, which use the payload fence the
  way `send_request` does;
- the UI, the CLI, the lab servers and the fixtures.

Within modelled components: enrollment and recovery credentials (`KeyRotation`),
the TCP pool and the gRPC channels (`EngineCaches`), the bind purposes of
`FileGrants`, the events of a session's transport (`Sessions`), the warmup split,
the counts by outcome and the schedule's arithmetic (`LoadExecutor`),
the other confirmed settings of `presence.rs`.  `PROJECT.json` gives the reason
per component.

## 7. Plan

1. Abstract specifications of a token cache and of a connection pool that
   `TokenCache` and `EngineCaches` implement, beside the four there are.
2. The other presence commands and the recovery proof as actions of
   `DesktopState`; the bind purposes of `FileGrants`; enrollment in
   `KeyRotation`.
3. The collection runner's step outcomes and abort policy, the draft authority
   and the schedule's arithmetic as operators checked against a reference.
