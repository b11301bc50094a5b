---------------------------- MODULE KeyRotation ----------------------------
(***************************************************************************)
(* The data key of one profile: unlocking it, working under it, replacing  *)
(* it, and removing what the replaced key leaves behind, by several        *)
(* processes that share the profile's folder and the credential store of   *)
(* the operating system, with a crash possible between any two steps       *)
(* (anvil-storage store.rs, vault.rs, rotation.rs, profile_lock.rs, and    *)
(* the unlock of anvil-app profiles.rs).                                   *)
(*                                                                         *)
(* Keys are numbered in the order they are generated.  A keychain rotation *)
(* draws a random account together with its key, so account k is the one   *)
(* that was made for key k.  A header is reduced to its key, to what       *)
(* protects it, and to the retired accounts it still lists.                *)
(***************************************************************************)
EXTENDS Integers, FiniteSets

CONSTANTS Process,   \* the Stores open on the profile, one connection each
          MaxKey,    \* bound: the last key a rotation may generate
          MaxCrash   \* bound: how many process crashes a behaviour has

ASSUME RotationAssumption == Process # {} /\ MaxKey \in Nat /\ MaxCrash \in Nat

Key == 0 .. MaxKey
NoKey == -1
Mode == {"keychain", "passphrase"}
Header == [key : Key, mode : Mode, retired : SUBSET Key]

VARIABLES
  db,        \* the committed key state of the database
  data,      \* the keys the committed rows are sealed with
  pages,     \* the keys whose ciphertext the database's files still hold
  copies,    \* the keys of the checkpoints on disk, partial ones included
  staging,   \* the keys of the staging copies an interrupted restore left
  sidecar,   \* the key whose wraps profile.json holds
  keychain,  \* the credential store: account -> "none", "key" or "marker"
  shared,    \* the processes that hold the data fence shared
  excl,      \* the processes that hold it exclusively
  hlock,     \* the processes that hold the header lock
  pc, key, header,    \* of a process: its step, its key, the header it read
  task,      \* "unlock" or "rotate": what a process cleans up for
  todo, left,         \* of a retirement: accounts to try, accounts refused
  gen,       \* the last key generated
  crashes,   \* crashes so far
  past,      \* history: the keys that were ever committed
  fault,     \* history: a step of the process's unlock was refused
  kept       \* history: the keys of the checkpoints its scrub could not tell

disk == <<db, data, pages, copies, staging, sidecar, keychain, past>>
locks == <<shared, excl, hlock>>
mine == <<pc, key, header, task, todo, left, fault, kept>>
vars == <<disk, locks, mine, gen, crashes>>

-----------------------------------------------------------------------------
(* The data fence (profile_lock.rs). *)

SharedFree == excl = {}
ExclusiveFree == excl = {} /\ shared = {}

Goto(p, s) == pc' = [pc EXCEPT ![p] = s]

(* A step of an unlock that could not be done: it is logged, not returned. *)
Refused(p) == fault' = [fault EXCEPT ![p] = TRUE]

(* What a call kept for itself is gone when it returns. *)
Blank == [key |-> 0, mode |-> "keychain", retired |-> {}]
Forget(p) ==
  /\ header' = [header EXCEPT ![p] = Blank]
  /\ task' = [task EXCEPT ![p] = "unlock"]
  /\ todo' = [todo EXCEPT ![p] = {}]
  /\ left' = [left EXCEPT ![p] = {}]
  /\ fault' = [fault EXCEPT ![p] = FALSE]
  /\ kept' = [kept EXCEPT ![p] = {}]

(* The process goes back to a locked store. *)
Leave(p) ==
  /\ Goto(p, "out")
  /\ key' = [key EXCEPT ![p] = NoKey]
  /\ Forget(p)

Init ==
  /\ db = Blank
  /\ data = {0}
  /\ pages = {0}
  /\ copies = {} /\ staging = {}
  /\ sidecar = 0
  /\ keychain = [k \in Key |-> IF k = 0 THEN "key" ELSE "none"]
  /\ shared = {} /\ excl = {} /\ hlock = {}
  /\ pc = [p \in Process |-> "out"]
  /\ key = [p \in Process |-> NoKey]
  /\ header = [p \in Process |-> Blank]
  /\ task = [p \in Process |-> "unlock"]
  /\ todo = [p \in Process |-> {}]
  /\ left = [p \in Process |-> {}]
  /\ gen = 0
  /\ crashes = 0
  /\ past = {0}
  /\ fault = [p \in Process |-> FALSE]
  /\ kept = [p \in Process |-> {}]

-----------------------------------------------------------------------------
(* Unlock: unlock_checked_policy.  Each fence acquisition is a step of its  *)
(* own, so another process may rotate between any two of them.              *)

ReadHeader(p) ==
  /\ pc[p] = "out"
  /\ SharedFree
  /\ header' = [header EXCEPT ![p] = db]
  /\ task' = [task EXCEPT ![p] = "unlock"]
  /\ fault' = [fault EXCEPT ![p] = FALSE]
  /\ kept' = [kept EXCEPT ![p] = {}]
  /\ Goto(p, "read")
  /\ UNCHANGED <<disk, locks, key, todo, left, gen, crashes>>

(* The key a header gives: a passphrase header carries its own wrap, a      *)
(* keychain header only names the account that holds the key.               *)
Unwraps(h) == h.mode = "passphrase" \/ keychain[h.key] = "key"

Unwrap(p) ==
  /\ pc[p] = "read"
  /\ IF Unwraps(header[p])
     THEN /\ key' = [key EXCEPT ![p] = header[p].key]
          /\ Goto(p, "unwrapped")
          /\ UNCHANGED <<header, task, todo, left, fault, kept>>
     ELSE Leave(p)
  /\ UNCHANGED <<disk, locks, gen, crashes>>

(* verify_profile_key, then whether the header lists retired accounts.  A   *)
(* key that no longer opens the canary ends the unlock.                     *)
VerifyKey(p) ==
  /\ pc[p] = "unwrapped"
  /\ SharedFree
  /\ IF key[p] = db.key
     THEN /\ Goto(p, IF header[p].retired # {} THEN "retire" ELSE "scrub")
          /\ UNCHANGED <<key, header, task, todo, left, fault, kept>>
     ELSE Leave(p)
  /\ UNCHANGED <<disk, locks, gen, crashes>>

(* Store::open: the key is checked again. *)
OpenStore(p) ==
  /\ pc[p] = "unlocked"
  /\ SharedFree
  /\ IF key[p] = db.key
     THEN Goto(p, "open") /\ Forget(p) /\ UNCHANGED key
     ELSE Leave(p)
  /\ UNCHANGED <<disk, locks, gen, crashes>>

CloseStore(p) ==
  /\ pc[p] = "open"
  /\ Leave(p)
  /\ UNCHANGED <<disk, locks, gen, crashes>>

-----------------------------------------------------------------------------
(* Retired credential-store entries: retire_rotated_keychain. *)

AfterRetire(p) == IF task[p] = "unlock" THEN "scrub" ELSE "out"

(* Under the shared fence and the header lock the committed header is read  *)
(* again; a key that is no longer its key retires nothing.                  *)
RetireBegins(p) ==
  /\ pc[p] = "retire"
  /\ SharedFree /\ hlock = {}
  /\ IF header[p].key = db.key /\ db.retired # {}
     THEN /\ todo' = [todo EXCEPT ![p] = db.retired]
          /\ left' = [left EXCEPT ![p] = {}]
          /\ shared' = shared \cup {p}
          /\ hlock' = {p}
          /\ Goto(p, "retiring")
     ELSE Goto(p, AfterRetire(p)) /\ UNCHANGED <<todo, left, shared, hlock>>
  /\ UNCHANGED <<disk, excl, key, header, task, fault, kept, gen, crashes>>

(* delete_retired_entry: an entry that holds the key or its marker is       *)
(* deleted; a refused deletion overwrites the key with the marker, which    *)
(* may be refused too, and leaves the account listed.                       *)
RetireEntry(p, a) ==
  /\ pc[p] = "retiring"
  /\ a \in todo[p]
  /\ todo' = [todo EXCEPT ![p] = @ \ {a}]
  /\ \/ /\ keychain' = [keychain EXCEPT ![a] = "none"]
        /\ UNCHANGED <<left, fault>>
     \/ /\ keychain[a] # "none"
        /\ \E s \in {"marker", keychain[a]} : keychain' = [keychain EXCEPT ![a] = s]
        /\ left' = [left EXCEPT ![p] = @ \cup {a}]
        /\ Refused(p)
  /\ UNCHANGED <<db, data, pages, copies, staging, sidecar, past, locks, pc,
                 key, header, task, kept, gen, crashes>>

(* The accounts that are gone are forgotten; a replacement that fails (a    *)
(* concurrent write moved the catalogue root) is logged and retried at the  *)
(* next unlock.                                                             *)
RetireEnds(p) ==
  /\ pc[p] = "retiring"
  /\ todo[p] = {}
  /\ \/ db' = [db EXCEPT !.retired = left[p]]
     \/ UNCHANGED db
  /\ shared' = shared \ {p}
  /\ hlock' = {}
  /\ todo' = [todo EXCEPT ![p] = {}] /\ left' = [left EXCEPT ![p] = {}]
  /\ Goto(p, AfterRetire(p))
  /\ UNCHANGED <<data, pages, copies, staging, sidecar, keychain, past, excl, key,
                 header, task, fault, kept, gen, crashes>>

-----------------------------------------------------------------------------
(* Old-key material: scrub_superseded at an unlock, scrub_after_commit in   *)
(* a rotation, both through scrub_locked.                                   *)

(* The checkpoints superseded_files may return: the ones under another key  *)
(* whose key can be told.  One that cannot be opened or read, or that has   *)
(* no canary, is kept without an error.                                     *)
Superseded(k) == SUBSET (copies \ {k})

(* The cheap check under the shared fence; a staging copy is always to go.  *)
ScrubCheck(p) ==
  /\ pc[p] = "scrub"
  /\ SharedFree
  /\ \E files \in Superseded(db.key) :
       IF key[p] # db.key \/ (sidecar = db.key /\ staging = {} /\ files = {})
       THEN /\ Goto(p, "unlocked")
            /\ kept' = [kept EXCEPT ![p] = copies \ {db.key}]
       ELSE Goto(p, "scrubwait") /\ UNCHANGED kept
  /\ UNCHANGED <<disk, locks, key, header, task, todo, left, fault, gen, crashes>>

(* The check is repeated under the exclusive fence. *)
ScrubLock(p) ==
  /\ pc[p] = "scrubwait"
  /\ ExclusiveFree
  /\ IF key[p] = db.key
     THEN excl' = {p} /\ Goto(p, "wal")
     ELSE Goto(p, "unlocked") /\ UNCHANGED excl
  /\ UNCHANGED <<disk, shared, hlock, key, header, task, todo, left,
                 fault, kept, gen, crashes>>

AfterScrub(p) ==
  IF task[p] = "unlock" THEN "unlocked"
  ELSE IF db.retired # {} THEN "retire" ELSE "out"

(* A scrub that stops releases the fence and is retried at the next unlock. *)
ScrubStops(p) ==
  /\ pc[p] \in {"wal", "files", "sidecar"}
  /\ excl' = {}
  /\ Refused(p)
  /\ Goto(p, AfterScrub(p))
  /\ UNCHANGED <<disk, shared, hlock, key, header, task, todo, left, kept, gen, crashes>>

(* The WAL is checkpointed and truncated: the files hold the key's pages.   *)
ScrubWal(p) ==
  /\ pc[p] = "wal"
  /\ pages' = {db.key}
  /\ Goto(p, "files")
  /\ UNCHANGED <<db, data, copies, staging, sidecar, keychain, past, locks, key, header, task,
                 todo, left, fault, kept, gen, crashes>>

ScrubFiles(p) ==
  /\ pc[p] = "files"
  /\ \E files \in Superseded(db.key) :
       /\ copies' = copies \ files
       /\ kept' = [kept EXCEPT ![p] = copies \ (files \cup {db.key})]
  /\ staging' = {}
  /\ Goto(p, "sidecar")
  /\ UNCHANGED <<db, data, pages, sidecar, keychain, past, locks, key, header, task,
                 todo, left, fault, gen, crashes>>

(* The sidecar comes last: one that names another key marks unfinished work.*)
ScrubSidecar(p) ==
  /\ pc[p] = "sidecar"
  /\ sidecar' = db.key
  /\ excl' = {}
  /\ Goto(p, AfterScrub(p))
  /\ UNCHANGED <<db, data, pages, copies, staging, keychain, past, shared, hlock, key, header, task,
                 todo, left, fault, kept, gen, crashes>>

-----------------------------------------------------------------------------
(* The bounded wait of a lock runs out (profile_lock::acquire): an unlock   *)
(* that has to check its key fails, one that cleans up goes on without, as  *)
(* it does when the folder cannot be listed; a rotation leaves the cleanup  *)
(* to the next unlock.  A store operation that finds the profile busy       *)
(* returns and changes nothing.                                             *)
GivesUp(p) ==
  /\ \/ /\ pc[p] \in {"unwrapped", "unlocked"} /\ ~SharedFree
        /\ Leave(p)
     \/ /\ \/ pc[p] = "retire" /\ ~(SharedFree /\ hlock = {}) /\ Goto(p, AfterRetire(p))
           \/ pc[p] = "scrub" /\ Goto(p, "unlocked")
           \/ pc[p] = "scrubwait" /\ ~ExclusiveFree /\ Goto(p, "unlocked")
        /\ Refused(p)
        /\ UNCHANGED <<key, header, task, todo, left, kept>>
  /\ UNCHANGED <<disk, locks, gen, crashes>>

-----------------------------------------------------------------------------
(* Ordinary work under the key: Store::conn takes the shared fence and      *)
(* checks the key before anything else, and keeps the fence until the last  *)
(* statement.                                                               *)

BeginOp(p) ==
  /\ pc[p] = "open"
  /\ SharedFree
  /\ IF key[p] = db.key
     THEN /\ shared' = shared \cup {p}
          /\ Goto(p, "op")
          /\ UNCHANGED <<key, header, task, todo, left, fault, kept>>
     ELSE Leave(p) /\ UNCHANGED shared
  /\ UNCHANGED <<disk, excl, hlock, gen, crashes>>

EndOp(p) ==
  /\ shared' = shared \ {p}
  /\ Goto(p, "open")
  /\ UNCHANGED <<excl, hlock, key, header, task, todo, left, fault, kept, gen, crashes>>

(* A transaction seals what it writes with the key it holds. *)
WriteRows(p) ==
  /\ pc[p] = "op"
  /\ data' = data \cup {key[p]}
  /\ pages' = pages \cup {key[p]}
  /\ EndOp(p)
  /\ UNCHANGED <<db, copies, staging, sidecar, keychain, past>>

(* checkpoint_on: a copy of the database as it stands, written in place: one *)
(* that fails may leave a part of it.                                        *)
Checkpoint(p) ==
  /\ pc[p] = "op"
  /\ copies' = copies \cup data
  /\ EndOp(p)
  /\ UNCHANGED <<db, data, pages, staging, sidecar, keychain, past>>

(* restore_checkpoint: a checkpoint the held key opens is staged beside the *)
(* database and then copied over it, with the current header kept; one that *)
(* fails leaves the store locked.                                           *)
StageRestore_Unfenced(p) ==   \* mutant: the fence is let go for the copying
  /\ pc[p] = "op"
  /\ key[p] \in copies
  /\ shared' = shared \ {p}
  /\ Goto(p, "restoring")
  /\ UNCHANGED <<disk, excl, hlock, key, header, task, todo, left,
                 fault, kept, gen, crashes>>

StageRestore(p) ==
  /\ pc[p] = "op"
  /\ key[p] \in copies
  /\ Goto(p, "restoring")
  /\ UNCHANGED <<disk, locks, key, header, task, todo, left, fault, kept, gen, crashes>>

RestoreFails(p) ==
  /\ pc[p] = "restoring"
  /\ shared' = shared \ {p}
  /\ Leave(p)
  /\ UNCHANGED <<disk, excl, hlock, gen, crashes>>

RestoreRows(p) ==
  /\ pc[p] = "restoring"
  /\ data' = {key[p]}
  /\ pages' = pages \cup {key[p]}
  /\ EndOp(p)
  /\ UNCHANGED <<db, copies, staging, sidecar, keychain, past>>

-----------------------------------------------------------------------------
(* Rotation: rotate_to. *)

(* The exclusive fence and the checks of the held key. *)
RotateBegins(p) ==
  /\ pc[p] = "open"
  /\ gen < MaxKey
  /\ ExclusiveFree
  /\ key[p] = db.key
  /\ excl' = {p}
  /\ task' = [task EXCEPT ![p] = "rotate"]
  /\ header' = [header EXCEPT ![p] = db]
  /\ Goto(p, "rotating")
  /\ UNCHANGED <<disk, shared, hlock, key, todo, left, fault, kept, gen, crashes>>

(* What a rotation away from h retires: what h has still to remove, and     *)
(* the account h names.                                                     *)
Retiring_Last(h) == IF h.mode = "keychain" THEN {h.key} ELSE {}   \* mutant

Retiring(h) == h.retired \cup (IF h.mode = "keychain" THEN {h.key} ELSE {})

(* The next header.  A keychain rotation stores its key under a new account *)
(* first; it is for keychain profiles only.                                 *)
Stage(p, mode) ==
  /\ pc[p] = "rotating"
  /\ mode = "keychain" => db.mode = "keychain"
  /\ gen' = gen + 1
  /\ header' = [header EXCEPT ![p] = [key |-> gen + 1, mode |-> mode, retired |-> Retiring(db)]]
  /\ keychain' = IF mode = "keychain" THEN [keychain EXCEPT ![gen + 1] = "key"] ELSE keychain
  /\ Goto(p, "staged")
  /\ UNCHANGED <<db, data, pages, copies, staging, sidecar, past, locks, key, task,
                 todo, left, fault, kept, crashes>>

(* prepare_rotation fails: nothing was committed, the staged account goes.  *)
PrepareFails(p) ==
  /\ pc[p] = "staged"
  /\ \E s \in {"none", keychain[header[p].key]} :
       keychain' = [keychain EXCEPT ![header[p].key] = s]
  /\ excl' = {}
  /\ Goto(p, "open")
  /\ Forget(p)
  /\ UNCHANGED <<db, data, pages, copies, staging, sidecar, past, shared,
                 hlock, key, gen, crashes>>

(* The rows sealed again and the header that names the key are one commit.  *)
Committed(p) ==
  /\ db' = header[p]
  /\ data' = {header[p].key}
  /\ pages' = pages \cup {header[p].key}
  /\ past' = past \cup {header[p].key}

Commit(p) ==
  /\ pc[p] = "staged"
  /\ Committed(p)
  /\ Goto(p, "wal")
  /\ key' = [key EXCEPT ![p] = NoKey]
  /\ UNCHANGED <<copies, staging, sidecar, keychain, locks, header, task, todo,
                 left, fault, kept, gen, crashes>>

(* A commit reported as failed may still be durable: the staged account     *)
(* stays, the store keeps the key it holds.                                 *)
CommitFails_Discards(p) ==   \* mutant: a failed commit drops the staged entry
  /\ pc[p] = "staged"
  /\ Committed(p) \/ UNCHANGED <<db, data, pages, past>>
  /\ keychain' = [keychain EXCEPT ![header[p].key] = "none"]
  /\ excl' = {}
  /\ Goto(p, "open")
  /\ Forget(p)
  /\ UNCHANGED <<copies, staging, sidecar, shared, hlock, key, gen, crashes>>

CommitFails(p) ==
  /\ pc[p] = "staged"
  /\ Committed(p) \/ UNCHANGED <<db, data, pages, past>>
  /\ excl' = {}
  /\ Goto(p, "open")
  /\ Forget(p)
  /\ UNCHANGED <<copies, staging, sidecar, keychain, shared, hlock, key, gen, crashes>>

-----------------------------------------------------------------------------
(* A crash: the process's locks go with it, its open transaction is undone, *)
(* and what it had written of a checkpoint or of a staging copy stays.      *)
Crash(p) ==
  /\ pc[p] # "out"
  /\ crashes < MaxCrash
  /\ crashes' = crashes + 1
  /\ shared' = shared \ {p}
  /\ excl' = excl \ {p}
  /\ hlock' = hlock \ {p}
  /\ \/ UNCHANGED copies
     \/ pc[p] = "op" /\ copies' = copies \cup {key[p]}
  /\ staging' = IF pc[p] = "restoring" THEN staging \cup {key[p]} ELSE staging
  /\ Leave(p)
  /\ UNCHANGED <<db, data, pages, sidecar, keychain, past, gen>>

Step(p) ==
  \/ ReadHeader(p) \/ Unwrap(p) \/ VerifyKey(p) \/ OpenStore(p) \/ CloseStore(p)
  \/ RetireBegins(p) \/ RetireEnds(p) \/ \E a \in Key : RetireEntry(p, a)
  \/ ScrubCheck(p) \/ ScrubLock(p) \/ ScrubStops(p)
  \/ ScrubWal(p) \/ ScrubFiles(p) \/ ScrubSidecar(p) \/ GivesUp(p)
  \/ BeginOp(p) \/ WriteRows(p) \/ Checkpoint(p) \/ StageRestore(p)
  \/ RestoreRows(p) \/ RestoreFails(p)
  \/ RotateBegins(p) \/ \E m \in Mode : Stage(p, m)
  \/ PrepareFails(p) \/ Commit(p) \/ CommitFails(p)
  \/ Crash(p)

Next == \E p \in Process : Step(p)

Spec == Init /\ [][Next]_vars

-----------------------------------------------------------------------------
Pc == {"out", "read", "unwrapped", "retire", "retiring", "scrub", "scrubwait", "wal", "files", "sidecar",
       "unlocked", "open", "op", "restoring", "rotating", "staged"}

DiskType ==
  /\ db \in Header
  /\ data \in SUBSET Key /\ pages \in SUBSET Key /\ past \in SUBSET Key
  /\ copies \in SUBSET Key /\ staging \in SUBSET Key
  /\ sidecar \in Key
  /\ keychain \in [Key -> {"none", "key", "marker"}]
LockType ==
  /\ shared \in SUBSET Process /\ excl \in SUBSET Process /\ hlock \in SUBSET Process
  /\ gen \in Key /\ crashes \in 0 .. MaxCrash
MineType ==
  /\ pc \in [Process -> Pc] /\ key \in [Process -> Key \cup {NoKey}]
  /\ header \in [Process -> Header]
  /\ task \in [Process -> {"unlock", "rotate"}] /\ fault \in [Process -> BOOLEAN]
  /\ todo \in [Process -> SUBSET Key] /\ left \in [Process -> SUBSET Key]
  /\ kept \in [Process -> SUBSET Key]

(* Types of the profile's state on disk and of what a process holds.        *)
TypeOK == DiskType /\ LockType /\ MineType

(* The key that the committed header names can always be had: a header the  *)
(* credential store protects names an account that holds its key, whatever  *)
(* step of a rotation or of a cleanup another process is in, failed in or   *)
(* crashed in (rotate_to keeps the staged entry of a commit reported as     *)
(* failed, and retire_rotated_keychain deletes only what the header that is *)
(* committed by now retired).                                               *)
ProfileOpens == Unwraps(db)

(* Every committed row is sealed with the key of the committed header, so   *)
(* a store that still held a replaced key has written nothing with it (the  *)
(* canary check and the write of Store::conn are under one hold of the      *)
(* fence).                                                                  *)
OneKey == data = {db.key}

(* An unlock of which no step was refused leaves nothing of an earlier key  *)
(* but the checkpoints whose key it could not tell, which are never removed *)
(* on a guess: no page or WAL frame, no other checkpoint, no staging copy,  *)
(* no sidecar and no account of a key that once protected the profile,      *)
(* however many rotations were interrupted before it (scrub_locked writes   *)
(* the sidecar last, and a rotation carries on the retired accounts of the  *)
(* one before).                                                             *)
UnlockCleans ==
  \A p \in Process :
    pc[p] = "unlocked" /\ ~fault[p] /\ key[p] = db.key =>
      /\ pages = {db.key} /\ staging \subseteq {db.key} /\ sidecar = db.key
      /\ copies \subseteq {db.key} \cup kept[p]
      /\ \A k \in past \ {db.key} : keychain[k] # "key"

(* The replaced keys of which the files, the sidecar or the credential      *)
(* store still hold something.                                              *)
Remains ==
  {k \in past \ {db.key} :
     k \in pages \cup copies \cup staging \/ k = sidecar \/ keychain[k] = "key"}

Profile == INSTANCE SealedProfile WITH key <- db.key, rows <- data, remains <- Remains

(* Several processes, their fences and their crashes implement              *)
(* SealedProfile: a rotation takes effect at its commit, whether it is      *)
(* reported or not, for the key and for every row at once, and no write,    *)
(* checkpoint, restore, staging or crash of a process that held the old key *)
(* brings back what a cleanup had removed (rotate_to, scrub_locked,         *)
(* restore_checkpoint under the fence of profile_lock.rs).                  *)
RefinesSealedProfile == Profile!Spec
=============================================================================
