----------------------------- MODULE FileGrants -----------------------------
(***************************************************************************)
(* Native-dialog file grants: FileGrants in crates/anvil-app/src/          *)
(* file_grants.rs, with the chooser (cmd_files.rs choose_native), the      *)
(* private-key ingestion (commands.rs ingest_private_key) and the boundary *)
(* moves that revoke (state.rs).                                           *)
(*                                                                         *)
(* A grant is named by its issue number: the token is a fresh UUID and     *)
(* next_seq a fresh number, one of each per grant.  The fields `inst` and  *)
(* `epoch` of a grant are history: the instance and lock epoch its dialog  *)
(* was shown in.  The moves are the ones of module DesktopState without    *)
(* store faults, as far as a grant can observe them.                       *)
(***************************************************************************)
EXTENDS Naturals, Sequences, FiniteSets

CONSTANTS
    Profile,
    Chooser,      \* threads of file_choose and its siblings
    Writer,       \* threads of the export commands
    Ingester,     \* threads of import_private_key_file
    MaxGrants,    \* MAX_GRANTS
    MaxPicked,    \* MAX_PICKED
    MaxInst,      \* bound: profiles ever opened
    MaxMoves,     \* bound: boundary moves
    MaxSeq        \* bound: grants ever issued

ASSUME GrantAssumption ==
    /\ MaxGrants \in Nat \ {0} /\ MaxPicked \in Nat \ {0}
    /\ MaxInst \in Nat \ {0} /\ MaxMoves \in Nat /\ MaxSeq \in Nat

VARIABLES
    insts, cur,   \* the vaults opened so far; the published one (0: none)
    unlocked,     \* the instances whose store holds its key
    gate, epoch, moves,
    mover,
    entries,      \* State::entries
    generation,   \* State::generation
    nextSeq,
    choice,       \* choice[c]: the choice a chooser is showing
    write,        \* write[w]: the grant a writer took, and its generation
    claim,        \* claim[i]: the private key an ingester claimed
    spent,        \* history: grants a write or an ingestion has used up
    ingested      \* history: the private keys stored in a vault

session == <<insts, cur, unlocked, gate, epoch, moves, mover>>
table == <<entries, generation, nextSeq>>
threads == <<choice, write, claim>>
history == <<spent, ingested>>
vars == <<session, table, threads, history>>

\* One purpose of each access a grant serves, and the private key.
Purpose == {"read", "write", "key"}
NoVault == "none"
Entry == [seq : Nat, purpose : Purpose, vault : Profile \cup {NoVault}, inst : Nat, epoch : Nat]

NoMove == [pc |-> "idle", publish |-> FALSE, old |-> 0]
NoChoice == [pc |-> "idle", purpose |-> "read", gen |-> 0, inst |-> 0, epoch |-> 0, left |-> 0, seq |-> 0]
NoWrite == [entry |-> {}, gen |-> 0]
NoClaim == [pc |-> "idle", seen |-> 0, inst |-> 0, entry |-> {}, gen |-> 0]

----------------------------------------------------------------------------
(* Boundary moves.                                                         *)

\* lock, set_app_since or begin_key_change, up to the epoch and the gate.
Fence ==
    /\ mover.pc = "idle" /\ moves < MaxMoves
    /\ epoch' = epoch + 1 /\ moves' = moves + 1
    /\ gate' = FALSE
    /\ \E publish \in BOOLEAN :
        /\ publish => Len(insts) < MaxInst
        /\ mover' = [pc |-> "revoke", publish |-> publish, old |-> cur]
    /\ UNCHANGED <<insts, cur, unlocked, table, threads, history>>

\* revoke_all, before a publication replaces the profile.
RevokeAll ==
    /\ mover.pc = "revoke"
    /\ entries' = {}
    /\ generation' = generation + 1
    /\ mover' = [mover EXCEPT !.pc = "close"]
    /\ \/ mover.publish /\ \E p \in Profile : insts' = Append(insts, p) /\ cur' = Len(insts')
                           /\ unlocked' = unlocked \cup {cur'}
       \/ ~mover.publish /\ UNCHANGED <<insts, cur, unlocked>>
    /\ UNCHANGED <<gate, epoch, moves, nextSeq, threads, history>>

\* The key of the closed profile is dropped; a publication opens delivery.
Close ==
    /\ mover.pc = "close"
    /\ unlocked' = unlocked \ {mover.old}
    /\ gate' = mover.publish
    /\ mover' = NoMove
    /\ UNCHANGED <<insts, cur, epoch, moves, table, threads, history>>

\* unlock_since: the same instance, the same epoch.
Unlock ==
    /\ mover.pc = "idle" /\ moves < MaxMoves /\ cur # 0
    /\ moves' = moves + 1
    /\ unlocked' = unlocked \cup {cur}
    /\ gate' = TRUE
    /\ UNCHANGED <<insts, cur, epoch, mover, table, threads, history>>

\* DesktopState::app().
AppOpen == gate /\ cur # 0 /\ cur \in unlocked

----------------------------------------------------------------------------
(* The table.  prune is Expire: every operation prunes before it looks.    *)

Expire ==
    /\ \E e \in entries : entries' = entries \ {e}
    /\ UNCHANGED <<session, generation, nextSeq, threads, history>>

Oldest(es) == CHOOSE e \in es : \A f \in es : e.seq <= f.seq

\* admit: the table with one more grant, the oldest dropped beyond the limit.
Admit(e) ==
    LET all == entries \cup {e} IN
        IF Cardinality(all) > MaxGrants THEN all \ {Oldest(all)} ELSE all

\* lookup, by a read command: the grant stays, but presenting one that was
\* chosen for another purpose revokes it.
Read(e) ==
    /\ e.purpose # "read"
    /\ entries' = entries \ {e}
    /\ UNCHANGED <<session, generation, nextSeq, threads, history>>

----------------------------------------------------------------------------
(* choose_native.                                                          *)

ChooseEnds(c) == choice' = [choice EXCEPT ![c] = NoChoice]

ChooseStarts(c, purpose) ==
    /\ choice[c].pc = "idle"
    /\ choice' = [choice EXCEPT ![c] = [NoChoice EXCEPT !.pc = "started", !.purpose = purpose, !.gen = generation]]
    /\ UNCHANGED <<session, table, write, claim, history>>

\* The profile the dialog is shown for.
ShowDialog(c) ==
    /\ choice[c].pc = "started"
    /\ \/ AppOpen /\ choice' = [choice EXCEPT ![c].pc = "shown", ![c].inst = cur, ![c].epoch = epoch]
       \/ ~AppOpen /\ ChooseEnds(c)
    /\ UNCHANGED <<session, table, write, claim, history>>

Picked_LateGeneration(c) ==
    /\ choice[c].pc = "shown"
    /\ \/ /\ AppOpen /\ cur = choice[c].inst
          /\ choice' = [choice EXCEPT ![c].pc = "picked", ![c].left = 1, ![c].gen = generation]
       \/ ChooseEnds(c)
    /\ UNCHANGED <<session, table, write, claim, history>>

\* The dialog returns, with nothing or with files; the profile must be the
\* one it was shown for.  Only a read dialog chooses several.
Picked(c) ==
    /\ choice[c].pc = "shown"
    /\ \/ /\ AppOpen /\ cur = choice[c].inst
          /\ \E n \in 1 .. (IF choice[c].purpose = "read" THEN MaxPicked ELSE 1) :
                choice' = [choice EXCEPT ![c].pc = "picked", ![c].left = n]
       \/ ChooseEnds(c)
    /\ UNCHANGED <<session, table, write, claim, history>>

\* The file is examined (a failure ends the choice, as does a locked profile
\* for a private key) and numbered before the table's mutex is taken.
Number(c) ==
    /\ choice[c].pc = "picked" /\ nextSeq < MaxSeq
    /\ \/ /\ choice[c].purpose = "key" => choice[c].inst \in unlocked
          /\ choice' = [choice EXCEPT ![c].pc = "numbered", ![c].seq = nextSeq]
          /\ nextSeq' = nextSeq + 1
       \/ ChooseEnds(c) /\ UNCHANGED nextSeq
    /\ UNCHANGED <<session, entries, generation, write, claim, history>>

Chosen(c) ==
    [seq |-> choice[c].seq, purpose |-> choice[c].purpose, inst |-> choice[c].inst, epoch |-> choice[c].epoch,
     vault |-> IF choice[c].purpose = "key" THEN insts[choice[c].inst] ELSE NoVault]

\* insert: refused once the generation has moved, and the rest of the picked
\* files with it.
Insert(c) ==
    /\ choice[c].pc = "numbered"
    /\ \/ /\ generation = choice[c].gen
          /\ entries' = Admit(Chosen(c))
          /\ IF choice[c].left = 1 THEN ChooseEnds(c)
             ELSE choice' = [choice EXCEPT ![c].pc = "picked", ![c].left = @ - 1, ![c].seq = 0]
       \/ generation # choice[c].gen /\ ChooseEnds(c) /\ UNCHANGED entries
    /\ UNCHANGED <<session, generation, nextSeq, write, claim, history>>

----------------------------------------------------------------------------
(* write: the grant is taken, and given back when the write fails.         *)

WriteTakes(w, e) ==
    /\ write[w] = NoWrite
    /\ entries' = entries \ {e}
    /\ \/ e.purpose = "write" /\ write' = [write EXCEPT ![w] = [entry |-> {e}, gen |-> generation]]
       \/ e.purpose # "write" /\ UNCHANGED write
    /\ UNCHANGED <<session, generation, nextSeq, choice, claim, history>>

WriteReturns(w) ==
    /\ write' = [write EXCEPT ![w] = NoWrite]
    /\ UNCHANGED <<session, generation, nextSeq, choice, claim, ingested>>

WriteSucceeds(w) ==
    /\ \E e \in write[w].entry : spent' = spent \cup {e.seq}
    /\ WriteReturns(w)
    /\ UNCHANGED entries

WriteFails_AnyGeneration(w) ==
    /\ \E e \in write[w].entry : entries' = Admit(e)
    /\ WriteReturns(w)
    /\ UNCHANGED spent

WriteFails(w) ==
    /\ \E e \in write[w].entry :
        \/ generation = write[w].gen /\ entries' = Admit(e)
        \/ generation # write[w].gen /\ UNCHANGED entries
    /\ WriteReturns(w)
    /\ UNCHANGED spent

----------------------------------------------------------------------------
(* ingest_private_key.                                                     *)

IngestEnds(i) == claim' = [claim EXCEPT ![i] = NoClaim]

\* The lock epoch, then the profile.
IngestStarts(i) ==
    /\ claim[i].pc = "idle"
    /\ claim' = [claim EXCEPT ![i].pc = "started", ![i].seen = epoch]
    /\ UNCHANGED <<session, table, choice, write, history>>

IngestReadsApp(i) ==
    /\ claim[i].pc = "started"
    /\ \/ AppOpen /\ claim' = [claim EXCEPT ![i].pc = "claiming", ![i].inst = cur]
       \/ ~AppOpen /\ IngestEnds(i)
    /\ UNCHANGED <<session, table, choice, write, history>>

\* claim_private_key: the grant is taken first; the wrong purpose, the wrong
\* vault or a failed read of the file loses it.
Claim(i, e) ==
    /\ claim[i].pc = "claiming"
    /\ entries' = entries \ {e}
    /\ \/ /\ e.purpose = "key" /\ e.vault = insts[claim[i].inst]
          /\ claim' = [claim EXCEPT ![i].pc = "storing", ![i].entry = {e}, ![i].gen = generation]
       \/ IngestEnds(i)
    /\ UNCHANGED <<session, generation, nextSeq, choice, write, history>>

\* The grant is unknown.
ClaimRefused(i) ==
    /\ claim[i].pc = "claiming"
    /\ IngestEnds(i)
    /\ UNCHANGED <<session, table, choice, write, history>>

Fenced_GenerationOnly(i) == generation = claim[i].gen

\* The gate of the vault transaction.  Its check, the write and the commit
\* hold the table's mutex, so a revocation sees them as one step.
Fenced(i) == generation = claim[i].gen /\ epoch = claim[i].seen

StoreKey(i) ==
    /\ claim[i].pc = "storing"
    /\ \E e \in claim[i].entry :
        \/ /\ claim[i].inst \in unlocked /\ Fenced(i)
           /\ ingested' = ingested \cup {[seq |-> e.seq, by |-> i, into |-> claim[i].inst, inst |-> e.inst,
                                          late |-> epoch # e.epoch]}
           /\ spent' = spent \cup {e.seq}
        \/ UNCHANGED <<ingested, spent>>
    /\ IngestEnds(i)
    /\ UNCHANGED <<session, table, choice, write>>

----------------------------------------------------------------------------
Init ==
    /\ insts = <<>> /\ cur = 0 /\ unlocked = {} /\ gate = FALSE
    /\ epoch = 0 /\ moves = 0 /\ mover = NoMove
    /\ entries = {} /\ generation = 0 /\ nextSeq = 0
    /\ choice = [c \in Chooser |-> NoChoice]
    /\ write = [w \in Writer |-> NoWrite]
    /\ claim = [i \in Ingester |-> NoClaim]
    /\ spent = {} /\ ingested = {}

Choosing(c) ==
    \/ \E purpose \in Purpose : ChooseStarts(c, purpose)
    \/ ShowDialog(c) \/ Picked(c) \/ Number(c) \/ Insert(c)
Writing(w) == (\E e \in entries : WriteTakes(w, e)) \/ WriteSucceeds(w) \/ WriteFails(w)
Ingesting(i) ==
    \/ IngestStarts(i) \/ IngestReadsApp(i) \/ ClaimRefused(i) \/ StoreKey(i)
    \/ \E e \in entries : Claim(i, e)

Next ==
    \/ Fence \/ RevokeAll \/ Close \/ Unlock \/ Expire
    \/ \E e \in entries : Read(e)
    \/ \E c \in Chooser : Choosing(c)
    \/ \E w \in Writer : Writing(w)
    \/ \E i \in Ingester : Ingesting(i)

Spec == Init /\ [][Next]_vars

----------------------------------------------------------------------------
SessionType ==
    /\ insts \in Seq(Profile) /\ cur \in 0 .. Len(insts)
    /\ unlocked \subseteq 1 .. Len(insts) /\ gate \in BOOLEAN
    /\ epoch \in Nat /\ moves \in Nat
    /\ mover \in [pc : {"idle", "revoke", "close"}, publish : BOOLEAN, old : 0 .. Len(insts)]

TableType ==
    /\ entries \subseteq Entry /\ IsFiniteSet(entries) /\ Cardinality(entries) <= MaxGrants
    /\ generation \in Nat /\ nextSeq \in Nat

Choice == [pc : {"idle", "started", "shown", "picked", "numbered"}, purpose : Purpose, gen : Nat,
           inst : 0 .. Len(insts), epoch : Nat, left : 0 .. MaxPicked, seq : Nat]
KeyClaim == [pc : {"idle", "started", "claiming", "storing"}, seen : Nat, inst : 0 .. Len(insts),
             entry : SUBSET Entry, gen : Nat]
Ingested == [seq : Nat, by : Ingester, into : Nat, inst : Nat, late : BOOLEAN]

\* Types; the table never holds more than MAX_GRANTS grants (admit).
TypeOK ==
    /\ SessionType
    /\ TableType
    /\ choice \in [Chooser -> Choice]
    /\ write \in [Writer -> [entry : SUBSET Entry, gen : Nat]]
    /\ claim \in [Ingester -> KeyClaim]
    /\ spent \subseteq Nat /\ ingested \subseteq Ingested

\* A grant belongs to the session it was chosen in: while the profile is
\* locked, or being replaced, there is none; while it is open, every grant
\* was chosen in a dialog shown for it since its last lock (revoke_all,
\* insert, write).
GrantsOfThisSession ==
    mover.pc # "revoke" =>
        \A e \in entries : gate /\ e.inst = cur /\ e.epoch = epoch

\* A grant that a write or an ingestion used up is never usable again.
SpentStaysSpent == \A e \in entries : e.seq \notin spent

\* A private key enters the vault at most once per choice, only the vault of
\* the profile its dialog was shown for, and never once a lock or a switch
\* has begun since.
KeyIngestedOnce ==
    \A k \in ingested :
        /\ k.into = k.inst /\ ~k.late
        /\ \A l \in ingested : l.seq = k.seq => l = k

\* Where the grants are, for the book: in the table, with a writer, with an
\* ingester; taken at an earlier generation; or numbered and nowhere any more.
Usable == {e.seq : e \in entries}
InWrites == UNION {{e.seq : e \in write[w].entry} : w \in Writer}
InClaims == UNION {{e.seq : e \in claim[i].entry} : i \in Ingester}
Barred ==
    (UNION {{e.seq : e \in write[w].entry} : w \in {v \in Writer : write[v].gen # generation}})
    \cup (UNION {{e.seq : e \in claim[i].entry} : i \in {j \in Ingester : claim[j].gen # generation}})
Numbered == {choice[c].seq : c \in {d \in Chooser : choice[d].pc = "numbered"}}
Gone ==
    {s \in 0 .. MaxSeq : s < nextSeq /\ s \notin Usable \cup InWrites \cup InClaims \cup spent \cup Numbered}

Book == INSTANCE GrantBook WITH
    Serial <- 0 .. MaxSeq, usable <- Usable, writing <- InWrites, claiming <- InClaims,
    barred <- Barred, used <- spent, gone <- Gone

\* Whatever dialogs, failing writes, evictions, expiry and locks do to it, the
\* table keeps book of its grants (GrantBook): each is granted once, a
\* revocation takes effect at once and also on what is out of the table at
\* that moment, only a failed write brings a grant back, and a grant that was
\* used, revoked, evicted or lost is gone for good (insert, write,
\* claim_private_key, revoke_all).
RefinesGrantBook == Book!Spec
=============================================================================
