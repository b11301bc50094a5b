-------------------------- MODULE FileGrantsProofs --------------------------
(***************************************************************************)
(* What FileGrants promises for every number of profiles, threads, grants  *)
(* and boundary moves: type correctness and the limit of the table, that a *)
(* grant belongs to the session its dialog was shown in, that a grant used *)
(* up stays used up, that a private key is ingested once, into the vault   *)
(* it was chosen for, and that the table keeps book of its grants as       *)
(* GrantBook says.                                                         *)
(***************************************************************************)
EXTENDS FileGrants, FiniteSetTheorems, WellFoundedInduction, TLAPS

----------------------------------------------------------------------------
(* The inductive invariants.                                               *)

\* A grant, a choice or a taken grant of generation g belongs to the session:
\* if the table has not been revoked since, delivery is open, on the profile
\* and at the epoch of its dialog, unless a move is about to revoke it.
OfSession(g, i, ep) == g = generation /\ mover.pc # "revoke" => gate /\ i = cur /\ ep = epoch

ChoiceInv(c) ==
    LET ch == choice[c] IN
    /\ ch.gen <= generation
    /\ ch.pc \in {"shown", "picked", "numbered"} => ch.inst # 0 /\ OfSession(ch.gen, ch.inst, ch.epoch)
    /\ ch.pc \in {"picked", "numbered"} => ch.left # 0

WriteInv(w) ==
    /\ write[w].gen <= generation
    /\ \A e \in write[w].entry : OfSession(write[w].gen, e.inst, e.epoch)

\* An ingester whose epoch still stands serves the published profile.
ClaimInv(i) ==
    LET cl == claim[i] IN
    /\ cl.gen <= generation /\ cl.seen <= epoch
    /\ \A e \in cl.entry : OfSession(cl.gen, e.inst, e.epoch)
    /\ cl.pc \in {"claiming", "storing"} /\ cl.seen = epoch => mover.pc = "idle" /\ cl.inst = cur

SessionInv ==
    /\ mover.pc # "idle" => ~gate
    /\ GrantsOfThisSession
    /\ \A c \in Chooser : ChoiceInv(c)
    /\ \A w \in Writer : WriteInv(w)
    /\ \A i \in Ingester : ClaimInv(i)

\* Where the grant numbered s is.
InTable(s) == \E e \in entries : e.seq = s
ByChooser(c, s) == choice[c].pc = "numbered" /\ choice[c].seq = s
ByWriter(w, s) == \E e \in write[w].entry : e.seq = s
ByIngester(i, s) == \E e \in claim[i].entry : e.seq = s

\* A grant is in one place: in the table, with one thread, or used up.
OnePlaceAt(s) ==
    /\ InTable(s) => s \notin spent
    /\ \A c \in Chooser : ByChooser(c, s) => s \notin spent /\ ~InTable(s) /\ \A d \in Chooser \ {c} : ~ByChooser(d, s)
    /\ \A w \in Writer : ByWriter(w, s) => /\ s \notin spent /\ ~InTable(s)
                                           /\ \A c \in Chooser : ~ByChooser(c, s)
                                           /\ \A v \in Writer \ {w} : ~ByWriter(v, s)
    /\ \A i \in Ingester : ByIngester(i, s) => /\ s \notin spent /\ ~InTable(s)
                                               /\ \A c \in Chooser : ~ByChooser(c, s)
                                               /\ \A w \in Writer : ~ByWriter(w, s)
                                               /\ \A j \in Ingester \ {i} : ~ByIngester(j, s)

OnePlace == \A s \in Nat : OnePlaceAt(s)

\* A number in use has been issued, and names one grant of the table; a thread
\* has at most one grant in its hands.
Issued ==
    /\ \A s \in spent : s < nextSeq
    /\ \A e \in entries : e.seq < nextSeq
    /\ \A e, f \in entries : e.seq = f.seq => e = f
    /\ \A c \in Chooser : choice[c].pc = "numbered" => choice[c].seq < nextSeq
    /\ \A w \in Writer : \A e \in write[w].entry : e.seq < nextSeq /\ write[w].entry = {e}
    /\ \A i \in Ingester : \A e \in claim[i].entry : e.seq < nextSeq /\ claim[i].entry = {e}
    /\ \A i \in Ingester : claim[i].pc # "storing" => claim[i].entry = {}

PlaceInv == OnePlace /\ Issued /\ \A k \in ingested : k.seq \in spent

GrantInv == TypeOK /\ SessionInv /\ PlaceInv /\ KeyIngestedOnce

----------------------------------------------------------------------------
(* The table at its limit.                                                 *)

\* A set of grants that is not empty has an oldest one, with the least number.
LEMMA OldestExists ==
    ASSUME NEW es, es \subseteq Entry, es # {}
    PROVE  Oldest(es) \in es /\ \A f \in es : Oldest(es).seq <= f.seq
<1> DEFINE seqs == {e.seq : e \in es}
<1>1. seqs \subseteq Nat /\ seqs # {}
  BY DEF Entry
<1> DEFINE Less == {p \in Nat \X Nat : p[1] < p[2]}
<1>2. IsWellFoundedOn(Less, Nat)
  BY NatLessThanWellFounded DEF OpToRel
<1>3. \E s \in seqs : \A t \in seqs : ~ (<<t, s>> \in Less)
  <2> HIDE DEF seqs, Less
  <2> QED
    BY <1>1, <1>2, WFMin
<1>4. PICK e \in es : \A t \in seqs : ~ (<<t, e.seq>> \in Less)
  BY <1>3
<1>5. \A f \in es : e.seq <= f.seq
  <2> TAKE f \in es
  <2>1. e.seq \in Nat /\ f.seq \in Nat /\ f.seq \in seqs
    BY <1>1
  <2>2. ~ (f.seq < e.seq)
    BY <2>1, <1>4
  <2> QED
    BY <2>1, <2>2
<1> QED
  BY <1>5 DEF Oldest

\* admit keeps the table within MAX_GRANTS and adds only the new grant.
LEMMA AdmitType ==
    ASSUME TypeOK, NEW e \in Entry
    PROVE  /\ Admit(e) \subseteq entries \cup {e}
           /\ IsFiniteSet(Admit(e)) /\ Cardinality(Admit(e)) <= MaxGrants
<1> DEFINE all == entries \cup {e}
<1>1. IsFiniteSet(entries) /\ Cardinality(entries) <= MaxGrants /\ MaxGrants \in Nat /\ all \subseteq Entry /\ all # {}
  BY GrantAssumption DEF TypeOK, TableType
<1>2. Cardinality(entries) \in Nat
  BY <1>1, FS_CardinalityType
<1>3. IsFiniteSet(all) /\ Cardinality(all) = IF e \in entries THEN Cardinality(entries) ELSE Cardinality(entries) + 1
  BY <1>1, FS_AddElement
<1>4. Oldest(all) \in all
  BY <1>1, OldestExists
<1>5. IsFiniteSet(all \ {Oldest(all)}) /\ Cardinality(all \ {Oldest(all)}) = Cardinality(all) - 1
  BY <1>3, <1>4, FS_RemoveElement
<1> HIDE DEF all
<1>6. Cardinality(all) > MaxGrants => Cardinality(all) - 1 <= MaxGrants
  BY <1>1, <1>2, <1>3
<1>7. Admit(e) = IF Cardinality(all) > MaxGrants THEN all \ {Oldest(all)} ELSE all
  BY DEF Admit, all
<1>8. Cardinality(all) \in Nat
  BY <1>2, <1>3
<1>9. CASE Cardinality(all) > MaxGrants
  BY <1>5, <1>6, <1>7, <1>9 DEF all
<1>10. CASE ~ (Cardinality(all) > MaxGrants)
  BY <1>1, <1>3, <1>7, <1>8, <1>10 DEF all
<1> QED
  BY <1>9, <1>10

\* The grant a chooser inserts is the one its dialog was shown for.
LEMMA ChosenType ==
    ASSUME TypeOK, SessionInv, NEW c \in Chooser, choice[c].pc = "numbered"
    PROVE  /\ Chosen(c) \in Entry
           /\ Chosen(c).seq = choice[c].seq /\ Chosen(c).inst = choice[c].inst /\ Chosen(c).epoch = choice[c].epoch
<1>1. choice[c].inst \in 1 .. Len(insts) /\ choice[c] \in Choice
  BY DEF SessionInv, ChoiceInv, TypeOK, SessionType, Choice
<1>2. insts[choice[c].inst] \in Profile
  BY <1>1 DEF TypeOK, SessionType
<1> QED
  BY <1>1, <1>2 DEF Chosen, Entry, Choice

\* Dropping grants keeps the table well typed.
LEMMA ShrinkType ==
    ASSUME TypeOK, NEW es, es \subseteq entries
    PROVE  es \subseteq Entry /\ IsFiniteSet(es) /\ Cardinality(es) <= MaxGrants
<1>1. IsFiniteSet(es) /\ Cardinality(es) <= Cardinality(entries)
  BY FS_Subset DEF TypeOK, TableType
<1>2. Cardinality(es) \in Nat /\ Cardinality(entries) \in Nat
  BY <1>1, FS_CardinalityType DEF TypeOK, TableType
<1> QED
  BY <1>1, <1>2, GrantAssumption DEF TypeOK, TableType

----------------------------------------------------------------------------
(* Type correctness.                                                       *)

\* The state FileGrants::new builds is well typed.
LEMMA GrantTypeInit == Init => TypeOK
<1> SUFFICES ASSUME Init PROVE TypeOK
  OBVIOUS
<1>1. TableType
  BY FS_EmptySet, GrantAssumption DEF Init, TableType
<1>2. insts \in Seq(Profile) /\ Len(insts) = 0 /\ cur = 0
  BY DEF Init
<1>3. NoChoice \in Choice
  BY <1>2, GrantAssumption DEF NoChoice, Choice, Purpose
<1>4. NoWrite \in [entry : SUBSET Entry, gen : Nat]
  BY DEF NoWrite
<1>5. NoClaim \in KeyClaim
  BY <1>2 DEF NoClaim, KeyClaim
<1>6. mover \in [pc : {"idle", "revoke", "close"}, publish : BOOLEAN, old : 0 .. Len(insts)]
  BY <1>2 DEF Init, NoMove
<1>7. SessionType
  <2>1. cur \in 0 .. Len(insts) /\ unlocked \subseteq 1 .. Len(insts) /\ epoch \in Nat /\ moves \in Nat
    BY <1>2 DEF Init
  <2>2. gate \in BOOLEAN
    BY DEF Init
  <2> QED
    BY <1>2, <1>6, <2>1, <2>2 DEF SessionType
<1> QED
  BY <1>1, <1>3, <1>4, <1>5, <1>7 DEF Init, TypeOK

\* What a step leaves alone stays well typed.
LEMMA GrantTypeFrame ==
    ASSUME TypeOK
    PROVE  /\ UNCHANGED session => SessionType'
           /\ UNCHANGED table => TableType'
           /\ UNCHANGED <<insts, choice>> => choice' \in [Chooser -> Choice']
           /\ UNCHANGED write => write' \in [Writer -> [entry : SUBSET Entry, gen : Nat]]
           /\ UNCHANGED <<insts, claim>> => claim' \in [Ingester -> KeyClaim']
           /\ UNCHANGED history => spent' \subseteq Nat /\ ingested' \subseteq Ingested
<1>1. UNCHANGED session => SessionType'
  BY DEF TypeOK, SessionType, session
<1>2. UNCHANGED table => TableType'
  BY DEF TypeOK, TableType, table
<1>3. UNCHANGED <<insts, choice>> => choice' \in [Chooser -> Choice']
  BY DEF TypeOK, Choice
<1>4. UNCHANGED <<insts, claim>> => claim' \in [Ingester -> KeyClaim']
  BY DEF TypeOK, KeyClaim
<1> QED
  BY <1>1, <1>2, <1>3, <1>4 DEF TypeOK, history

\* The records of an idle chooser and an idle ingester are well typed.
LEMMA IdleType == TypeOK => NoChoice \in Choice /\ NoClaim \in KeyClaim /\ NoWrite \in [entry : SUBSET Entry, gen : Nat]
<1> SUFFICES ASSUME TypeOK PROVE NoChoice \in Choice /\ NoClaim \in KeyClaim /\ NoWrite \in [entry : SUBSET Entry, gen : Nat]
  OBVIOUS
<1>1. 0 \in 0 .. Len(insts) /\ 0 \in 0 .. MaxPicked
  BY GrantAssumption DEF TypeOK, SessionType
<1>2. NoChoice \in Choice
  BY <1>1 DEF NoChoice, Choice, Purpose
<1>3. NoClaim \in KeyClaim
  BY <1>1 DEF NoClaim, KeyClaim
<1> QED
  BY <1>2, <1>3 DEF NoWrite

\* Every step of a boundary move, a chooser, a writer and an ingester keeps
\* the types.
LEMMA GrantTypeStep == TypeOK /\ SessionInv /\ [Next]_vars => TypeOK'
<1> SUFFICES ASSUME TypeOK, SessionInv, [Next]_vars PROVE TypeOK'
  OBVIOUS
<1>0. Len(insts) \in Nat /\ cur \in 0 .. Len(insts) /\ epoch \in Nat
  BY DEF TypeOK, SessionType
<1>1. CASE Fence
  <2>1. mover' \in [pc : {"idle", "revoke", "close"}, publish : BOOLEAN, old : 0 .. Len(insts)]
    BY <1>0, <1>1 DEF Fence
  <2>2. epoch' \in Nat /\ moves' \in Nat
    BY <1>1 DEF Fence, TypeOK, SessionType
  <2>3. gate' \in BOOLEAN
    BY <1>1 DEF Fence
  <2>4. SessionType'
    BY <1>1, <2>1, <2>2, <2>3 DEF TypeOK, SessionType, Fence
  <2> QED
    BY <1>1, <2>4, GrantTypeFrame DEF TypeOK, Fence, threads
<1>2. CASE RevokeAll
  <2>1. insts' \in Seq(Profile) /\ Len(insts') \in Nat /\ Len(insts) <= Len(insts') /\ cur' \in 0 .. Len(insts')
    <3>1. CASE mover.publish
      <4>1. PICK p \in Profile : insts' = Append(insts, p) /\ cur' = Len(insts')
        BY <1>2, <3>1 DEF RevokeAll
      <4>2. insts' \in Seq(Profile) /\ Len(insts') = Len(insts) + 1
        BY <4>1 DEF TypeOK, SessionType
      <4> QED
        BY <1>0, <4>1, <4>2
    <3>2. CASE ~mover.publish
      BY <1>0, <1>2, <3>2 DEF TypeOK, SessionType, RevokeAll
    <3> QED
      BY <3>1, <3>2
  <2>2. 0 .. Len(insts) \subseteq 0 .. Len(insts') /\ 1 .. Len(insts) \subseteq 1 .. Len(insts')
    BY <1>0, <2>1
  <2>3. unlocked' \subseteq 1 .. Len(insts')
    <3>1. CASE mover.publish
      <4>1. cur' = Len(insts') /\ Len(insts') = Len(insts) + 1 /\ unlocked' = unlocked \cup {cur'}
        BY <1>2, <3>1 DEF TypeOK, SessionType, RevokeAll
      <4>2. cur' \in 1 .. Len(insts') /\ unlocked \subseteq 1 .. Len(insts')
        BY <1>0, <2>2, <4>1 DEF TypeOK, SessionType
      <4> QED
        BY <4>1, <4>2
    <3>2. CASE ~mover.publish
      BY <1>2, <2>2, <3>2 DEF TypeOK, SessionType, RevokeAll
    <3> QED
      BY <3>1, <3>2
  <2>4. mover' \in [pc : {"idle", "revoke", "close"}, publish : BOOLEAN, old : 0 .. Len(insts')]
    BY <1>2, <2>2 DEF TypeOK, SessionType, RevokeAll
  <2>5. SessionType'
    BY <1>2, <2>1, <2>3, <2>4 DEF TypeOK, SessionType, RevokeAll
  <2>6. Choice \subseteq Choice' /\ KeyClaim \subseteq KeyClaim'
    BY <2>2 DEF Choice, KeyClaim
  <2>7. TableType'
    BY <1>2, ShrinkType DEF RevokeAll, TypeOK, TableType
  <2> QED
    BY <1>2, <2>5, <2>6, <2>7 DEF TypeOK, RevokeAll, threads, history
<1>3. CASE Close
  <2>1. mover' \in [pc : {"idle", "revoke", "close"}, publish : BOOLEAN, old : 0 .. Len(insts')]
    BY <1>0, <1>3 DEF Close, NoMove
  <2>2. SessionType'
    BY <1>3, <2>1 DEF TypeOK, SessionType, Close
  <2> QED
    BY <1>3, <2>2, GrantTypeFrame DEF TypeOK, Close, table, threads, history
<1>4. CASE Unlock
  <2>1. SessionType'
    BY <1>0, <1>4 DEF TypeOK, SessionType, Unlock
  <2> QED
    BY <1>4, <2>1, GrantTypeFrame DEF TypeOK, Unlock, threads
<1>5. CASE Expire
  <2>1. TableType'
    BY <1>5, ShrinkType DEF TypeOK, TableType, Expire
  <2> QED
    BY <1>5, <2>1, GrantTypeFrame DEF TypeOK, Expire, session, threads
<1>6. ASSUME NEW e \in entries, Read(e) PROVE TypeOK'
  <2>1. TableType'
    BY <1>6, ShrinkType DEF TypeOK, TableType, Read
  <2> QED
    BY <1>6, <2>1, GrantTypeFrame DEF TypeOK, Read, session, threads
<1>7. ASSUME NEW c \in Chooser, NEW r \in Choice, choice' = [choice EXCEPT ![c] = r], UNCHANGED <<session, write, claim, history>>, TableType'
      PROVE  TypeOK'
  <2>1. Choice' = Choice
    BY <1>7 DEF Choice, session
  <2> QED
    BY <1>7, <2>1, GrantTypeFrame DEF TypeOK, session
<1>8. ASSUME NEW c \in Chooser, NEW purpose \in Purpose, ChooseStarts(c, purpose) PROVE TypeOK'
  <2>1. [NoChoice EXCEPT !.pc = "started", !.purpose = purpose, !.gen = generation] \in Choice
    BY IdleType DEF Choice, TypeOK, TableType
  <2> QED
    BY <1>7, <1>8, <2>1, GrantTypeFrame DEF ChooseStarts
<1>9. ASSUME NEW c \in Chooser, ShowDialog(c) PROVE TypeOK'
  <2>1. [choice[c] EXCEPT !.pc = "shown", !.inst = cur, !.epoch = epoch] \in Choice
    BY <1>0 DEF Choice, TypeOK
  <2>2. CASE AppOpen
    <3>1. choice' = [choice EXCEPT ![c] = [choice[c] EXCEPT !.pc = "shown", !.inst = cur, !.epoch = epoch]]
      BY <1>9, <2>2 DEF ShowDialog, TypeOK
    <3> QED
      BY <1>7, <1>9, <2>1, <3>1, GrantTypeFrame DEF ShowDialog
  <2>3. CASE ~AppOpen
    BY <1>7, <1>9, <2>3, IdleType, GrantTypeFrame DEF ShowDialog, ChooseEnds
  <2> QED
    BY <2>2, <2>3
<1>10. ASSUME NEW c \in Chooser, Picked(c) PROVE TypeOK'
  <2>1. CASE ChooseEnds(c)
    BY <1>7, <1>10, <2>1, IdleType, GrantTypeFrame DEF Picked, ChooseEnds
  <2>2. CASE ~ChooseEnds(c)
    <3>1. PICK n \in 1 .. (IF choice[c].purpose = "read" THEN MaxPicked ELSE 1) :
              choice' = [choice EXCEPT ![c].pc = "picked", ![c].left = n]
      BY <1>10, <2>2 DEF Picked
    <3>2. n \in 0 .. MaxPicked
      BY GrantAssumption
    <3>3. [choice[c] EXCEPT !.pc = "picked", !.left = n] \in Choice
      BY <3>2 DEF Choice, TypeOK
    <3>4. choice' = [choice EXCEPT ![c] = [choice[c] EXCEPT !.pc = "picked", !.left = n]]
      BY <3>1 DEF TypeOK
    <3> QED
      BY <1>7, <1>10, <3>3, <3>4, GrantTypeFrame DEF Picked
  <2> QED
    BY <2>1, <2>2
<1>11. ASSUME NEW c \in Chooser, Number(c) PROVE TypeOK'
  <2>1. TableType'
    BY <1>11 DEF Number, TypeOK, TableType
  <2>2. CASE ChooseEnds(c)
    BY <1>7, <1>11, <2>1, <2>2, IdleType DEF Number, ChooseEnds
  <2>3. CASE ~ChooseEnds(c)
    <3>1. [choice[c] EXCEPT !.pc = "numbered", !.seq = nextSeq] \in Choice
      BY DEF Choice, TypeOK, TableType
    <3>2. choice' = [choice EXCEPT ![c] = [choice[c] EXCEPT !.pc = "numbered", !.seq = nextSeq]]
      BY <1>11, <2>3 DEF Number, TypeOK
    <3> QED
      BY <1>7, <1>11, <2>1, <3>1, <3>2 DEF Number
  <2> QED
    BY <2>2, <2>3
<1>12. ASSUME NEW c \in Chooser, Insert(c) PROVE TypeOK'
  <2>1. choice[c].inst \in 1 .. Len(insts) /\ choice[c].left # 0 /\ choice[c] \in Choice
    BY <1>0, <1>12 DEF SessionInv, ChoiceInv, TypeOK, Insert, Choice
  <2>2. Chosen(c) \in Entry
    BY <1>12, ChosenType DEF Insert
  <2>3. TableType'
    BY <1>12, <2>2, AdmitType DEF TypeOK, TableType, Insert
  <2>4. CASE ChooseEnds(c)
    BY <1>7, <1>12, <2>3, <2>4, IdleType DEF Insert, ChooseEnds
  <2>5. CASE ~ChooseEnds(c)
    <3>1. choice[c].left - 1 \in 0 .. MaxPicked
      BY <2>1, GrantAssumption DEF Choice
    <3>2. [choice[c] EXCEPT !.pc = "picked", !.left = choice[c].left - 1, !.seq = 0] \in Choice
      BY <2>1, <3>1 DEF Choice
    <3>3. choice' = [choice EXCEPT ![c] = [choice[c] EXCEPT !.pc = "picked", !.left = choice[c].left - 1, !.seq = 0]]
      BY <1>12, <2>5 DEF Insert, TypeOK
    <3> QED
      BY <1>7, <1>12, <2>3, <3>2, <3>3 DEF Insert
  <2> QED
    BY <2>4, <2>5
<1>13. ASSUME NEW w \in Writer, NEW e \in entries, WriteTakes(w, e) PROVE TypeOK'
  <2>1. TableType'
    BY <1>13, ShrinkType DEF TypeOK, TableType, WriteTakes
  <2>2. write' \in [Writer -> [entry : SUBSET Entry, gen : Nat]]
    BY <1>13 DEF TypeOK, TableType, WriteTakes
  <2> QED
    BY <1>13, <2>1, <2>2, GrantTypeFrame DEF TypeOK, WriteTakes, session
<1>14. ASSUME NEW w \in Writer, WriteSucceeds(w) \/ WriteFails(w) PROVE TypeOK'
  <2>1. TableType'
    BY <1>14, AdmitType DEF TypeOK, TableType, WriteSucceeds, WriteFails, WriteReturns
  <2>2. write' \in [Writer -> [entry : SUBSET Entry, gen : Nat]]
    BY <1>14, IdleType DEF TypeOK, WriteSucceeds, WriteFails, WriteReturns
  <2>3. spent' \subseteq Nat /\ ingested' \subseteq Ingested
    <3>1. \A e \in write[w].entry : e.seq \in Nat
      BY DEF TypeOK, Entry
    <3> QED
      BY <1>14, <3>1 DEF TypeOK, WriteSucceeds, WriteFails, WriteReturns
  <2> QED
    BY <1>14, <2>1, <2>2, <2>3, GrantTypeFrame
    DEF TypeOK, WriteSucceeds, WriteFails, WriteReturns, session
<1>15. ASSUME NEW i \in Ingester, NEW r \in KeyClaim, claim' = [claim EXCEPT ![i] = r], UNCHANGED <<session, choice, write>>,
              TableType', spent' \subseteq Nat, ingested' \subseteq Ingested
       PROVE  TypeOK'
  <2>1. KeyClaim' = KeyClaim
    BY <1>15 DEF KeyClaim, session
  <2> QED
    BY <1>15, <2>1, GrantTypeFrame DEF TypeOK, session
<1>16. ASSUME NEW i \in Ingester, IngestEnds(i), UNCHANGED <<session, choice, write>>,
              TableType', spent' \subseteq Nat, ingested' \subseteq Ingested
       PROVE  TypeOK'
  BY <1>15, <1>16, IdleType DEF IngestEnds
<1>17. ASSUME NEW i \in Ingester, IngestStarts(i) PROVE TypeOK'
  <2>1. [claim[i] EXCEPT !.pc = "started", !.seen = epoch] \in KeyClaim
    BY <1>0 DEF KeyClaim, TypeOK
  <2>2. claim' = [claim EXCEPT ![i] = [claim[i] EXCEPT !.pc = "started", !.seen = epoch]]
    BY <1>17 DEF IngestStarts, TypeOK
  <2> QED
    BY <1>15, <1>17, <2>1, <2>2, GrantTypeFrame DEF IngestStarts
<1>18. ASSUME NEW i \in Ingester, IngestReadsApp(i) PROVE TypeOK'
  <2>1. [claim[i] EXCEPT !.pc = "claiming", !.inst = cur] \in KeyClaim
    BY <1>0 DEF KeyClaim, TypeOK
  <2>2. CASE AppOpen
    <3>1. claim' = [claim EXCEPT ![i] = [claim[i] EXCEPT !.pc = "claiming", !.inst = cur]]
      BY <1>18, <2>2 DEF IngestReadsApp, TypeOK
    <3> QED
      BY <1>15, <1>18, <2>1, <3>1, GrantTypeFrame DEF IngestReadsApp
  <2>3. CASE ~AppOpen
    BY <1>16, <1>18, <2>3, GrantTypeFrame DEF IngestReadsApp
  <2> QED
    BY <2>2, <2>3
<1>19. ASSUME NEW i \in Ingester, NEW e \in entries, Claim(i, e) PROVE TypeOK'
  <2>1. TableType'
    BY <1>19, ShrinkType DEF TypeOK, TableType, Claim
  <2>2. CASE IngestEnds(i)
    BY <1>16, <1>19, <2>1, <2>2, GrantTypeFrame DEF Claim
  <2>3. CASE ~IngestEnds(i)
    <3>1. [claim[i] EXCEPT !.pc = "storing", !.entry = {e}, !.gen = generation] \in KeyClaim
      BY DEF KeyClaim, TypeOK, TableType
    <3>2. claim' = [claim EXCEPT ![i] = [claim[i] EXCEPT !.pc = "storing", !.entry = {e}, !.gen = generation]]
      BY <1>19, <2>3 DEF Claim, TypeOK
    <3> QED
      BY <1>15, <1>19, <2>1, <3>1, <3>2, GrantTypeFrame DEF Claim
  <2> QED
    BY <2>2, <2>3
<1>20. ASSUME NEW i \in Ingester, ClaimRefused(i) PROVE TypeOK'
  BY <1>16, <1>20, GrantTypeFrame DEF ClaimRefused
<1>21. ASSUME NEW i \in Ingester, StoreKey(i) PROVE TypeOK'
  <2>1. PICK e \in claim[i].entry :
            \/ UNCHANGED <<ingested, spent>>
            \/ /\ ingested' = ingested \cup {[seq |-> e.seq, by |-> i, into |-> claim[i].inst, inst |-> e.inst,
                                               late |-> epoch # e.epoch]}
               /\ spent' = spent \cup {e.seq}
    BY <1>21 DEF StoreKey
  <2>2. e \in Entry /\ claim[i].inst \in Nat
    BY <1>0 DEF TypeOK, KeyClaim
  <2>3. [seq |-> e.seq, by |-> i, into |-> claim[i].inst, inst |-> e.inst, late |-> epoch # e.epoch] \in Ingested
    BY <2>2 DEF Entry, Ingested
  <2>4. spent' \subseteq Nat /\ ingested' \subseteq Ingested
    BY <2>1, <2>2, <2>3 DEF TypeOK, Entry
  <2> QED
    BY <1>16, <1>21, <2>4, GrantTypeFrame DEF StoreKey
<1>22. CASE UNCHANGED vars
  BY <1>22, GrantTypeFrame DEF TypeOK, vars, session, threads
<1> QED
  BY <1>1, <1>2, <1>3, <1>4, <1>5, <1>6, <1>8, <1>9, <1>10, <1>11, <1>12, <1>13, <1>14, <1>17,
     <1>18, <1>19, <1>20, <1>21, <1>22
     DEF Next, Choosing, Writing, Ingesting

----------------------------------------------------------------------------
(* A grant belongs to the session its dialog was shown in.                 *)

\* While the boundary and the table's generation stand, the invariant of the
\* session carries over to whatever a step leaves alone.
LEMMA SessionFrame ==
    ASSUME SessionInv, UNCHANGED <<session, generation>>
    PROVE  /\ \A g, i, ep : OfSession(g, i, ep)' <=> OfSession(g, i, ep)
           /\ \A c \in Chooser : choice'[c] = choice[c] => ChoiceInv(c)'
           /\ \A w \in Writer : write'[w] = write[w] => WriteInv(w)'
           /\ \A i \in Ingester : claim'[i] = claim[i] => ClaimInv(i)'
           /\ entries' \subseteq entries => GrantsOfThisSession'
           /\ (mover.pc # "idle" => ~gate)'
<1>1. \A g, i, ep : OfSession(g, i, ep)' <=> OfSession(g, i, ep)
  BY DEF OfSession, session
<1>2. ASSUME NEW c \in Chooser, choice'[c] = choice[c] PROVE ChoiceInv(c)'
  BY <1>1, <1>2 DEF SessionInv, ChoiceInv
<1>3. ASSUME NEW w \in Writer, write'[w] = write[w] PROVE WriteInv(w)'
  BY <1>1, <1>3 DEF SessionInv, WriteInv
<1>4. ASSUME NEW i \in Ingester, claim'[i] = claim[i] PROVE ClaimInv(i)'
  BY <1>1, <1>4 DEF SessionInv, ClaimInv, session
<1>5. entries' \subseteq entries => GrantsOfThisSession'
  BY DEF SessionInv, GrantsOfThisSession, session
<1> QED
  BY <1>1, <1>2, <1>3, <1>4, <1>5 DEF SessionInv, session

\* A choice that starts, or ends, promises nothing.
LEMMA IdleInv ==
    ASSUME TypeOK, TypeOK'
    PROVE  /\ \A c \in Chooser : choice'[c] = NoChoice => ChoiceInv(c)'
           /\ \A w \in Writer : write'[w] = NoWrite => WriteInv(w)'
           /\ \A i \in Ingester : claim'[i] = NoClaim => ClaimInv(i)'
<1>1. generation' \in Nat /\ epoch' \in Nat
  BY DEF TypeOK, TableType, SessionType
<1> QED
  BY <1>1 DEF ChoiceInv, WriteInv, ClaimInv, NoChoice, NoWrite, NoClaim

\* Every step keeps the invariant of the session.
LEMMA SessionStep == TypeOK /\ SessionInv /\ [Next]_vars => SessionInv'
<1> SUFFICES ASSUME TypeOK, SessionInv, [Next]_vars PROVE SessionInv'
  OBVIOUS
<1>0. TypeOK'
  BY GrantTypeStep
<1>1. CASE Fence
  <2>1. mover'.pc = "revoke" /\ ~gate' /\ epoch' = epoch + 1 /\ epoch \in Nat /\ UNCHANGED <<table, threads>>
    BY <1>1 DEF Fence, TypeOK, SessionType
  <2>2. \A g, i, ep : OfSession(g, i, ep)'
    BY <2>1 DEF OfSession
  <2>3. ASSUME NEW i \in Ingester PROVE ClaimInv(i)'
    <3>1. claim[i].seen \in Nat /\ claim[i].seen <= epoch
      BY DEF TypeOK, KeyClaim, SessionInv, ClaimInv
    <3>2. claim'[i].seen <= epoch' /\ claim'[i].seen # epoch'
      BY <2>1, <3>1 DEF threads
    <3> QED
      BY <2>1, <2>2, <3>2 DEF SessionInv, ClaimInv, table, threads
  <2>4. ASSUME NEW c \in Chooser PROVE ChoiceInv(c)'
    BY <2>1, <2>2 DEF SessionInv, ChoiceInv, table, threads
  <2>5. ASSUME NEW w \in Writer PROVE WriteInv(w)'
    BY <2>1, <2>2 DEF SessionInv, WriteInv, table, threads
  <2> QED
    BY <2>1, <2>3, <2>4, <2>5 DEF SessionInv, GrantsOfThisSession
<1>2. CASE RevokeAll
  <2>1. mover'.pc = "close" /\ ~gate' /\ generation' = generation + 1 /\ generation \in Nat /\ entries' = {}
        /\ UNCHANGED <<epoch, threads>> /\ mover.pc = "revoke"
    BY <1>2 DEF RevokeAll, TypeOK, SessionType, TableType, SessionInv
  <2>2. ASSUME NEW g \in Nat, g <= generation, NEW i, NEW ep PROVE OfSession(g, i, ep)' /\ g <= generation'
    BY <2>1, <2>2 DEF OfSession
  <2>3. ASSUME NEW i \in Ingester PROVE ClaimInv(i)'
    <3>1. claim[i].gen \in Nat
      BY DEF TypeOK, KeyClaim
    <3> QED
      BY <2>1, <2>2, <3>1 DEF SessionInv, ClaimInv, threads
  <2>4. ASSUME NEW c \in Chooser PROVE ChoiceInv(c)'
    <3>1. choice[c].gen \in Nat
      BY DEF TypeOK, Choice
    <3> QED
      BY <2>1, <2>2, <3>1 DEF SessionInv, ChoiceInv, threads
  <2>5. ASSUME NEW w \in Writer PROVE WriteInv(w)'
    <3>1. write[w].gen \in Nat
      BY DEF TypeOK
    <3> QED
      BY <2>1, <2>2, <3>1 DEF SessionInv, WriteInv, threads
  <2> QED
    BY <2>1, <2>3, <2>4, <2>5 DEF SessionInv, GrantsOfThisSession
<1>3. CASE Close \/ Unlock
  <2>1. mover'.pc = "idle" /\ mover.pc # "revoke" /\ UNCHANGED <<cur, epoch, table, threads>> /\ (gate => gate')
    BY <1>3 DEF Close, Unlock, NoMove, SessionInv
  <2>2. ASSUME NEW g, NEW i, NEW ep, OfSession(g, i, ep) PROVE OfSession(g, i, ep)'
    BY <2>1, <2>2 DEF OfSession, table
  <2>3. ASSUME NEW i \in Ingester PROVE ClaimInv(i)'
    BY <2>1, <2>2 DEF SessionInv, ClaimInv, table, threads
  <2>4. ASSUME NEW c \in Chooser PROVE ChoiceInv(c)'
    BY <2>1, <2>2 DEF SessionInv, ChoiceInv, table, threads
  <2>5. ASSUME NEW w \in Writer PROVE WriteInv(w)'
    BY <2>1, <2>2 DEF SessionInv, WriteInv, table, threads
  <2>6. GrantsOfThisSession'
    BY <2>1 DEF SessionInv, GrantsOfThisSession, table
  <2> QED
    BY <2>1, <2>3, <2>4, <2>5, <2>6 DEF SessionInv
<1>4. CASE Expire \/ \E e \in entries : Read(e)
  BY <1>4, SessionFrame DEF Expire, Read, threads, SessionInv
<1>5. ASSUME NEW c \in Chooser, UNCHANGED <<session, generation, write, claim>>, ChoiceInv(c)', GrantsOfThisSession',
             \A d \in Chooser \ {c} : choice'[d] = choice[d]
      PROVE  SessionInv'
  BY <1>5, SessionFrame DEF SessionInv
<1>6. ASSUME NEW c \in Chooser, NEW purpose \in Purpose, ChooseStarts(c, purpose) PROVE SessionInv'
  <2>1. ChoiceInv(c)'
    BY <1>6 DEF ChooseStarts, ChoiceInv, TypeOK, TableType, table, NoChoice
  <2> QED
    BY <1>5, <1>6, <2>1, SessionFrame DEF ChooseStarts, table, TypeOK
<1>7. ASSUME NEW c \in Chooser, ShowDialog(c) PROVE SessionInv'
  <2>1. CASE AppOpen
    <3>1. choice'[c] = [choice[c] EXCEPT !.pc = "shown", !.inst = cur, !.epoch = epoch]
      BY <1>7, <2>1 DEF ShowDialog, TypeOK
    <3>2. choice'[c].pc = "shown" /\ choice'[c].inst = cur /\ choice'[c].epoch = epoch /\ choice'[c].gen = choice[c].gen
      BY <3>1 DEF TypeOK, Choice
    <3>3. ChoiceInv(c)'
      BY <1>7, <2>1, <3>2 DEF ShowDialog, ChoiceInv, OfSession, AppOpen, SessionInv, session, table
    <3> QED
      BY <1>5, <1>7, <3>3, SessionFrame DEF ShowDialog, ChooseEnds, table, TypeOK
  <2>2. CASE ~AppOpen
    BY <1>0, <1>5, <1>7, <2>2, IdleInv, SessionFrame DEF ShowDialog, ChooseEnds, table, TypeOK
  <2> QED
    BY <2>1, <2>2
<1>8. ASSUME NEW c \in Chooser, Picked(c) PROVE SessionInv'
  <2>1. CASE ChooseEnds(c)
    BY <1>0, <1>5, <1>8, <2>1, IdleInv, SessionFrame DEF Picked, ChooseEnds, table, TypeOK
  <2>2. CASE ~ChooseEnds(c)
    <3>1. PICK n \in 1 .. (IF choice[c].purpose = "read" THEN MaxPicked ELSE 1) :
              choice' = [choice EXCEPT ![c].pc = "picked", ![c].left = n]
      BY <1>8, <2>2 DEF Picked
    <3>2. choice'[c].pc = "picked" /\ choice'[c].left # 0 /\ choice[c].pc = "shown"
          /\ choice'[c].gen = choice[c].gen /\ choice'[c].inst = choice[c].inst /\ choice'[c].epoch = choice[c].epoch
      <4>1. n \in Nat \ {0}
        BY GrantAssumption
      <4> QED
        BY <1>8, <3>1, <4>1 DEF TypeOK, Choice, Picked
    <3>3. ChoiceInv(c)'
      BY <1>8, <3>2, SessionFrame DEF Picked, ChoiceInv, SessionInv, session, table
    <3> QED
      BY <1>5, <1>8, <3>1, <3>3, SessionFrame DEF Picked, table, TypeOK
  <2> QED
    BY <2>1, <2>2
<1>9. ASSUME NEW c \in Chooser, Number(c) PROVE SessionInv'
  <2>1. CASE ChooseEnds(c)
    BY <1>0, <1>5, <1>9, <2>1, IdleInv, SessionFrame DEF Number, ChooseEnds, TypeOK
  <2>2. CASE ~ChooseEnds(c)
    <3>1. choice' = [choice EXCEPT ![c].pc = "numbered", ![c].seq = nextSeq]
      BY <1>9, <2>2 DEF Number
    <3>2. choice'[c].pc = "numbered" /\ choice'[c].left = choice[c].left /\ choice[c].pc = "picked"
          /\ choice'[c].gen = choice[c].gen /\ choice'[c].inst = choice[c].inst /\ choice'[c].epoch = choice[c].epoch
      BY <1>9, <3>1 DEF TypeOK, Choice, Number
    <3>3. ChoiceInv(c)'
      BY <1>9, <3>2, SessionFrame DEF Number, ChoiceInv, SessionInv, session
    <3> QED
      BY <1>5, <1>9, <3>1, <3>3, SessionFrame DEF Number, TypeOK
  <2> QED
    BY <2>1, <2>2
<1>10. ASSUME NEW c \in Chooser, Insert(c) PROVE SessionInv'
  <2>1. ChoiceInv(c) /\ choice[c].pc = "numbered" /\ choice[c] \in Choice
    BY <1>10 DEF SessionInv, Insert, TypeOK
  <2>2. GrantsOfThisSession'
    <3>1. CASE generation # choice[c].gen
      BY <1>10, <3>1, SessionFrame DEF Insert
    <3>2. CASE generation = choice[c].gen
      <4>2. Chosen(c) \in Entry /\ Chosen(c).inst = choice[c].inst /\ Chosen(c).epoch = choice[c].epoch
        BY <2>1, ChosenType
      <4>3. entries' \subseteq entries \cup {Chosen(c)}
        BY <1>10, <3>2, <4>2, AdmitType DEF Insert
      <4>4. mover.pc # "revoke" => gate /\ Chosen(c).inst = cur /\ Chosen(c).epoch = epoch
        BY <2>1, <3>2, <4>2 DEF ChoiceInv, OfSession
      <4> QED
        BY <1>10, <4>3, <4>4 DEF SessionInv, GrantsOfThisSession, Insert, session
    <3> QED
      BY <3>1, <3>2
  <2>3. CASE ChooseEnds(c)
    BY <1>0, <1>5, <1>10, <2>2, <2>3, IdleInv DEF Insert, ChooseEnds, TypeOK
  <2>4. CASE ~ChooseEnds(c)
    <3>1. choice' = [choice EXCEPT ![c].pc = "picked", ![c].left = choice[c].left - 1, ![c].seq = 0] /\ choice[c].left # 1
      BY <1>10, <2>4 DEF Insert, TypeOK
    <3>2. choice'[c].pc = "picked" /\ choice'[c].left = choice[c].left - 1
          /\ choice'[c].gen = choice[c].gen /\ choice'[c].inst = choice[c].inst /\ choice'[c].epoch = choice[c].epoch
      BY <3>1, <2>1 DEF TypeOK, Choice
    <3>3. choice'[c].left # 0
      BY <3>1, <3>2, <2>1 DEF Choice
    <3>4. ChoiceInv(c)'
      BY <1>10, <2>1, <3>2, <3>3, SessionFrame DEF Insert, ChoiceInv, session
    <3> QED
      BY <1>5, <1>10, <2>2, <3>1, <3>4 DEF Insert, TypeOK
  <2> QED
    BY <2>3, <2>4
<1>11. ASSUME NEW w \in Writer, UNCHANGED <<session, generation, choice, claim>>, WriteInv(w)', GrantsOfThisSession',
              \A v \in Writer \ {w} : write'[v] = write[v]
       PROVE  SessionInv'
  BY <1>11, SessionFrame DEF SessionInv
<1>12. ASSUME NEW w \in Writer, NEW e \in entries, WriteTakes(w, e) PROVE SessionInv'
  <2>1. GrantsOfThisSession'
    BY <1>12, SessionFrame DEF WriteTakes
  <2>2. CASE e.purpose # "write"
    BY <1>11, <1>12, <2>1, <2>2, SessionFrame DEF WriteTakes
  <2>3. CASE e.purpose = "write"
    <3>1. write'[w] = [entry |-> {e}, gen |-> generation]
      BY <1>12, <2>3 DEF WriteTakes, TypeOK
    <3>2. OfSession(generation, e.inst, e.epoch)
      BY DEF SessionInv, GrantsOfThisSession, OfSession
    <3>3. WriteInv(w)'
      BY <1>12, <3>1, <3>2, SessionFrame DEF WriteInv, WriteTakes, TypeOK, TableType
    <3> QED
      BY <1>11, <1>12, <2>1, <3>3 DEF WriteTakes, TypeOK
  <2> QED
    BY <2>2, <2>3
<1>13. ASSUME NEW w \in Writer, WriteSucceeds(w) \/ WriteFails(w) PROVE SessionInv'
  <2>1. WriteInv(w)'
    BY <1>0, <1>13, IdleInv DEF WriteSucceeds, WriteFails, WriteReturns, TypeOK
  <2>2. GrantsOfThisSession'
    <3>1. CASE WriteSucceeds(w)
      BY <3>1, SessionFrame DEF WriteSucceeds, WriteReturns
    <3>2. CASE WriteFails(w)
      <4>1. PICK e \in write[w].entry : \/ generation = write[w].gen /\ entries' = Admit(e)
                                        \/ generation # write[w].gen /\ UNCHANGED entries
        BY <3>2 DEF WriteFails
      <4>2. OfSession(write[w].gen, e.inst, e.epoch) /\ e \in Entry
        BY DEF SessionInv, WriteInv, TypeOK
      <4>3. entries' \subseteq entries \/ (generation = write[w].gen /\ entries' \subseteq entries \cup {e})
        BY <4>1, <4>2, AdmitType
      <4> QED
        BY <3>2, <4>2, <4>3
        DEF SessionInv, GrantsOfThisSession, OfSession, WriteFails, WriteReturns, session
    <3> QED
      BY <1>13, <3>1, <3>2
  <2> QED
    BY <1>11, <1>13, <2>1, <2>2 DEF WriteSucceeds, WriteFails, WriteReturns, TypeOK
<1>14. ASSUME NEW i \in Ingester, UNCHANGED <<session, generation, choice, write>>, ClaimInv(i)', entries' \subseteq entries,
              \A j \in Ingester \ {i} : claim'[j] = claim[j]
       PROVE  SessionInv'
  BY <1>14, SessionFrame DEF SessionInv
<1>15. ASSUME NEW i \in Ingester, IngestStarts(i) PROVE SessionInv'
  <2>1. claim'[i].pc = "started" /\ claim'[i].seen = epoch /\ claim'[i].gen = claim[i].gen /\ claim'[i].entry = claim[i].entry
    BY <1>15 DEF IngestStarts, TypeOK, KeyClaim
  <2>2. ClaimInv(i)'
    BY <1>15, <2>1, SessionFrame
    DEF IngestStarts, ClaimInv, SessionInv, TypeOK, SessionType, session, table
  <2> QED
    BY <1>14, <1>15, <2>2 DEF IngestStarts, TypeOK, table
<1>16. ASSUME NEW i \in Ingester, IngestReadsApp(i) PROVE SessionInv'
  <2>1. CASE ~AppOpen
    BY <1>0, <1>14, <1>16, <2>1, IdleInv DEF IngestReadsApp, IngestEnds, TypeOK, table
  <2>2. CASE AppOpen
    <3>1. claim'[i].inst = cur /\ claim'[i].seen = claim[i].seen /\ claim'[i].gen = claim[i].gen /\ claim'[i].entry = claim[i].entry
      BY <1>16, <2>2 DEF IngestReadsApp, TypeOK, KeyClaim
    <3>2. mover.pc = "idle"
      BY <2>2 DEF AppOpen, SessionInv
    <3>3. ClaimInv(i)'
      BY <1>16, <3>1, <3>2, SessionFrame DEF IngestReadsApp, ClaimInv, SessionInv, session, table
    <3> QED
      BY <1>14, <1>16, <3>3 DEF IngestReadsApp, IngestEnds, TypeOK, table
  <2> QED
    BY <2>1, <2>2
<1>17. ASSUME NEW i \in Ingester, NEW e \in entries, Claim(i, e) PROVE SessionInv'
  <2>1. CASE IngestEnds(i)
    BY <1>0, <1>14, <1>17, <2>1, IdleInv DEF Claim, IngestEnds, TypeOK
  <2>2. CASE ~IngestEnds(i)
    <3>1. claim'[i].entry = {e} /\ claim'[i].gen = generation /\ claim'[i].inst = claim[i].inst /\ claim'[i].seen = claim[i].seen
      BY <1>17, <2>2 DEF Claim, TypeOK, KeyClaim
    <3>2. OfSession(generation, e.inst, e.epoch)
      BY DEF SessionInv, GrantsOfThisSession, OfSession
    <3>3. ClaimInv(i)'
      BY <1>17, <3>1, <3>2, SessionFrame DEF Claim, ClaimInv, SessionInv, TypeOK, TableType, session
    <3> QED
      BY <1>14, <1>17, <3>3 DEF Claim, IngestEnds, TypeOK
  <2> QED
    BY <2>1, <2>2
<1>18. ASSUME NEW i \in Ingester, ClaimRefused(i) \/ StoreKey(i) PROVE SessionInv'
  BY <1>0, <1>14, <1>18, IdleInv DEF ClaimRefused, StoreKey, IngestEnds, TypeOK, table
<1>19. CASE UNCHANGED vars
  BY <1>19, SessionFrame DEF vars, table, threads, SessionInv
<1> QED
  BY <1>1, <1>2, <1>3, <1>4, <1>6, <1>7, <1>8, <1>9, <1>10, <1>12, <1>13, <1>15, <1>16, <1>17,
     <1>18, <1>19
     DEF Next, Choosing, Writing, Ingesting

----------------------------------------------------------------------------
(* A grant is in one place.                                                *)

\* A number that no place gains stays where it is, or is gone.
LEMMA PlaceKept ==
    ASSUME NEW s, OnePlaceAt(s), InTable(s)' => InTable(s), s \in spent' => s \in spent,
           \A c \in Chooser : ByChooser(c, s)' => ByChooser(c, s),
           \A w \in Writer : ByWriter(w, s)' => ByWriter(w, s),
           \A i \in Ingester : ByIngester(i, s)' => ByIngester(i, s)
    PROVE  OnePlaceAt(s)'
BY DEF OnePlaceAt

\* What a step leaves alone holds what it held.
LEMMA PlaceFrame ==
    ASSUME NEW s
    PROVE  /\ entries' \subseteq entries => (InTable(s)' => InTable(s))
           /\ \A c \in Chooser : choice'[c] = choice[c] \/ choice'[c].pc # "numbered" => (ByChooser(c, s)' => ByChooser(c, s))
           /\ \A w \in Writer : write'[w] = write[w] \/ write'[w] = NoWrite => (ByWriter(w, s)' => ByWriter(w, s))
           /\ \A i \in Ingester : claim'[i] = claim[i] \/ claim'[i].entry = {} \/ claim'[i].entry = claim[i].entry =>
                (ByIngester(i, s)' => ByIngester(i, s))
BY DEF InTable, ByChooser, ByWriter, ByIngester, NoWrite

\* A chooser that has numbered nothing yet changes only its own choice.
LEMMA QuietChoice ==
    ASSUME TypeOK, NEW c \in Chooser, (\E purpose \in Purpose : ChooseStarts(c, purpose)) \/ ShowDialog(c) \/ Picked(c)
    PROVE  /\ choice'[c].pc # "numbered" /\ \A d \in Chooser \ {c} : choice'[d] = choice[d]
           /\ UNCHANGED <<table, write, claim, history>>
<1>1. CASE \E purpose \in Purpose : ChooseStarts(c, purpose)
  BY <1>1 DEF ChooseStarts, NoChoice, TypeOK
<1>2. CASE ShowDialog(c)
  BY <1>2 DEF ShowDialog, ChooseEnds, NoChoice, TypeOK, Choice
<1>3. CASE Picked(c)
  BY <1>3 DEF Picked, ChooseEnds, NoChoice, TypeOK, Choice
<1> QED
  BY <1>1, <1>2, <1>3

\* Every step keeps a grant in one place.
LEMMA PlaceStep == TypeOK /\ SessionInv /\ PlaceInv /\ [Next]_vars => OnePlace'
<1> SUFFICES ASSUME TypeOK, SessionInv, PlaceInv, [Next]_vars, NEW s \in Nat PROVE OnePlaceAt(s)'
  BY DEF OnePlace
<1>0. OnePlaceAt(s) /\ Issued
  BY DEF PlaceInv, OnePlace
<1>1. CASE Fence \/ RevokeAll \/ Close \/ Unlock \/ Expire \/ UNCHANGED vars \/ \E e \in entries : Read(e)
  <2>1. entries' \subseteq entries /\ UNCHANGED <<threads, history>>
    BY <1>1 DEF Fence, RevokeAll, Close, Unlock, Expire, Read, vars, table
  <2> QED
    BY <1>0, <2>1, PlaceFrame, PlaceKept DEF threads, history
<1>2. ASSUME NEW c \in Chooser, ChooseEnds(c), entries' \subseteq entries, UNCHANGED <<write, claim, history>>
      PROVE  OnePlaceAt(s)'
  BY <1>0, <1>2, PlaceFrame, PlaceKept DEF ChooseEnds, NoChoice, TypeOK, history
<1>3. ASSUME NEW c \in Chooser, (\E purpose \in Purpose : ChooseStarts(c, purpose)) \/ ShowDialog(c) \/ Picked(c)
      PROVE  OnePlaceAt(s)'
  <2>1. choice'[c].pc # "numbered" /\ (\A d \in Chooser \ {c} : choice'[d] = choice[d]) /\ UNCHANGED <<table, write, claim, history>>
    BY <1>3, QuietChoice
  <2> QED
    BY <1>0, <2>1, PlaceFrame, PlaceKept DEF history, table
<1>4. ASSUME NEW c \in Chooser, Number(c) PROVE OnePlaceAt(s)'
  <2>1. CASE ChooseEnds(c)
    BY <1>2, <1>4, <2>1 DEF Number
  <2>2. CASE ~ChooseEnds(c)
    <3>1. choice'[c].pc = "numbered" /\ choice'[c].seq = nextSeq /\ \A d \in Chooser \ {c} : choice'[d] = choice[d]
      BY <1>4, <2>2 DEF Number, TypeOK, Choice
    <3>2. CASE s = nextSeq
      <4>1. s \notin spent /\ ~InTable(s) /\ (\A d \in Chooser : ~ByChooser(d, s)) /\ (\A w \in Writer : ~ByWriter(w, s))
            /\ (\A i \in Ingester : ~ByIngester(i, s))
        BY <1>0, <3>2 DEF Issued, InTable, ByChooser, ByWriter, ByIngester
      <4>2. s \notin spent' /\ ~InTable(s)' /\ (\A d \in Chooser \ {c} : ~ByChooser(d, s)') /\ (\A w \in Writer : ~ByWriter(w, s)')
            /\ (\A i \in Ingester : ~ByIngester(i, s)')
        BY <1>4, <3>1, <4>1, PlaceFrame DEF Number, history
      <4> QED
        BY <4>2 DEF OnePlaceAt
    <3>3. CASE s # nextSeq
      <4>1. ~ByChooser(c, s)'
        BY <3>1, <3>3 DEF ByChooser
      <4> QED
        BY <1>0, <1>4, <3>1, <4>1, PlaceFrame, PlaceKept DEF Number, history
    <3> QED
      BY <3>2, <3>3
  <2> QED
    BY <2>1, <2>2
<1>5. ASSUME NEW c \in Chooser, Insert(c) PROVE OnePlaceAt(s)'
  <2>1. choice[c].pc = "numbered" /\ choice'[c].pc # "numbered" /\ \A d \in Chooser \ {c} : choice'[d] = choice[d]
    BY <1>5 DEF Insert, ChooseEnds, NoChoice, TypeOK, Choice
  <2>2. \A f \in entries' : f \in entries \/ f.seq = choice[c].seq
    BY <1>5, <2>1, ChosenType, AdmitType DEF Insert
  <2>3. CASE s = choice[c].seq
    <3>1. s \notin spent /\ (\A d \in Chooser \ {c} : ~ByChooser(d, s)) /\ (\A w \in Writer : ~ByWriter(w, s))
          /\ (\A i \in Ingester : ~ByIngester(i, s))
      BY <1>0, <2>1, <2>3 DEF OnePlaceAt, ByChooser
    <3>2. s \notin spent' /\ (\A d \in Chooser : ~ByChooser(d, s)') /\ (\A w \in Writer : ~ByWriter(w, s)')
          /\ (\A i \in Ingester : ~ByIngester(i, s)')
      BY <1>5, <2>1, <3>1, PlaceFrame DEF Insert, history, ByChooser
    <3> QED
      BY <3>2 DEF OnePlaceAt
  <2>4. CASE s # choice[c].seq
    <3>1. InTable(s)' => InTable(s)
      BY <2>2, <2>4 DEF InTable
    <3> QED
      BY <1>0, <1>5, <2>1, <3>1, PlaceFrame, PlaceKept DEF Insert, history
  <2> QED
    BY <2>3, <2>4
<1>6. ASSUME NEW w \in Writer, NEW e \in entries, WriteTakes(w, e) PROVE OnePlaceAt(s)'
  <2>1. CASE e.purpose # "write"
    BY <1>0, <1>6, <2>1, PlaceFrame, PlaceKept DEF WriteTakes, history
  <2>2. CASE e.purpose = "write"
    <3>1. write'[w].entry = {e} /\ \A v \in Writer \ {w} : write'[v] = write[v]
      BY <1>6, <2>2 DEF WriteTakes, TypeOK
    <3>2. CASE s = e.seq
      <4>1. s \notin spent /\ (\A c \in Chooser : ~ByChooser(c, s)) /\ (\A v \in Writer : ~ByWriter(v, s))
            /\ (\A i \in Ingester : ~ByIngester(i, s))
        BY <1>0, <3>2 DEF OnePlaceAt, InTable
      <4>2. s \notin spent' /\ (\A c \in Chooser : ~ByChooser(c, s)') /\ (\A v \in Writer \ {w} : ~ByWriter(v, s)')
            /\ (\A i \in Ingester : ~ByIngester(i, s)')
        BY <1>6, <3>1, <4>1, PlaceFrame DEF WriteTakes, history
      <4>3. ~InTable(s)'
        BY <1>0, <1>6, <3>2 DEF Issued, WriteTakes, InTable
      <4> QED
        BY <4>2, <4>3 DEF OnePlaceAt
    <3>3. CASE s # e.seq
      <4>1. ~ByWriter(w, s)'
        BY <3>1, <3>3 DEF ByWriter
      <4> QED
        BY <1>0, <1>6, <3>1, <4>1, PlaceFrame, PlaceKept DEF WriteTakes, history
    <3> QED
      BY <3>2, <3>3
  <2> QED
    BY <2>1, <2>2
<1>7. ASSUME NEW w \in Writer, WriteSucceeds(w) \/ WriteFails(w) PROVE OnePlaceAt(s)'
  <2>1. write'[w] = NoWrite /\ (\A v \in Writer \ {w} : write'[v] = write[v]) /\ UNCHANGED <<choice, claim>>
    BY <1>7 DEF WriteSucceeds, WriteFails, WriteReturns, TypeOK
  <2>2. PICK e \in write[w].entry : /\ spent' \subseteq spent \cup {e.seq} /\ entries' \subseteq entries \cup {e}
                                    /\ spent' = spent \/ entries' = entries
    <3>1. CASE WriteSucceeds(w)
      BY <3>1 DEF WriteSucceeds
    <3>2. CASE WriteFails(w)
      BY <3>2, AdmitType DEF WriteFails, TypeOK
    <3> QED
      BY <1>7, <3>1, <3>2
  <2>3. CASE s = e.seq
    <3>1. s \notin spent /\ ~InTable(s) /\ (\A c \in Chooser : ~ByChooser(c, s)) /\ (\A v \in Writer \ {w} : ~ByWriter(v, s))
          /\ (\A i \in Ingester : ~ByIngester(i, s))
      BY <1>0, <2>3 DEF OnePlaceAt, ByWriter
    <3>2. (\A c \in Chooser : ~ByChooser(c, s)') /\ (\A v \in Writer : ~ByWriter(v, s)')
          /\ (\A i \in Ingester : ~ByIngester(i, s)')
      BY <2>1, <3>1, PlaceFrame DEF ByWriter, NoWrite
    <3>3. s \in spent' => ~InTable(s)'
      BY <2>2, <3>1, PlaceFrame
    <3> QED
      BY <3>2, <3>3 DEF OnePlaceAt
  <2>4. CASE s # e.seq
    <3>1. (InTable(s)' => InTable(s)) /\ (s \in spent' => s \in spent)
      BY <2>2, <2>4 DEF InTable
    <3> QED
      BY <1>0, <2>1, <3>1, PlaceFrame, PlaceKept
  <2> QED
    BY <2>3, <2>4
<1>8. ASSUME NEW i \in Ingester, IngestStarts(i) \/ IngestReadsApp(i) \/ ClaimRefused(i) PROVE OnePlaceAt(s)'
  <2>1. (claim'[i].entry = {} \/ claim'[i].entry = claim[i].entry) /\ \A j \in Ingester \ {i} : claim'[j] = claim[j]
    BY <1>8 DEF IngestStarts, IngestReadsApp, ClaimRefused, IngestEnds, NoClaim, TypeOK, KeyClaim
  <2> QED
    BY <1>0, <1>8, <2>1, PlaceFrame, PlaceKept
    DEF IngestStarts, IngestReadsApp, ClaimRefused, table, history
<1>9. ASSUME NEW i \in Ingester, NEW e \in entries, Claim(i, e) PROVE OnePlaceAt(s)'
  <2>1. CASE IngestEnds(i)
    <3>1. claim'[i].entry = {} /\ \A j \in Ingester \ {i} : claim'[j] = claim[j]
      BY <2>1 DEF IngestEnds, NoClaim, TypeOK
    <3> QED
      BY <1>0, <1>9, <3>1, PlaceFrame, PlaceKept DEF Claim, history
  <2>2. CASE ~IngestEnds(i)
    <3>1. claim'[i].entry = {e} /\ \A j \in Ingester \ {i} : claim'[j] = claim[j]
      BY <1>9, <2>2 DEF Claim, TypeOK, KeyClaim
    <3>2. CASE s = e.seq
      <4>1. s \notin spent /\ (\A c \in Chooser : ~ByChooser(c, s)) /\ (\A v \in Writer : ~ByWriter(v, s))
            /\ (\A j \in Ingester : ~ByIngester(j, s))
        BY <1>0, <3>2 DEF OnePlaceAt, InTable
      <4>2. s \notin spent' /\ (\A c \in Chooser : ~ByChooser(c, s)') /\ (\A v \in Writer : ~ByWriter(v, s)')
            /\ (\A j \in Ingester \ {i} : ~ByIngester(j, s)')
        BY <1>9, <3>1, <4>1, PlaceFrame DEF Claim, history
      <4>3. ~InTable(s)'
        BY <1>0, <1>9, <3>2 DEF Issued, Claim, InTable
      <4> QED
        BY <4>2, <4>3 DEF OnePlaceAt
    <3>3. CASE s # e.seq
      <4>1. ~ByIngester(i, s)'
        BY <3>1, <3>3 DEF ByIngester
      <4> QED
        BY <1>0, <1>9, <3>1, <4>1, PlaceFrame, PlaceKept DEF Claim, history
    <3> QED
      BY <3>2, <3>3
  <2> QED
    BY <2>1, <2>2
<1>10. ASSUME NEW i \in Ingester, StoreKey(i) PROVE OnePlaceAt(s)'
  <2>1. claim'[i].entry = {} /\ \A j \in Ingester \ {i} : claim'[j] = claim[j]
    BY <1>10 DEF StoreKey, IngestEnds, NoClaim, TypeOK
  <2>2. PICK e \in claim[i].entry : spent' \subseteq spent \cup {e.seq}
    BY <1>10 DEF StoreKey
  <2>3. CASE s = e.seq
    <3>1. ~InTable(s) /\ (\A c \in Chooser : ~ByChooser(c, s)) /\ (\A v \in Writer : ~ByWriter(v, s))
          /\ (\A j \in Ingester \ {i} : ~ByIngester(j, s))
      BY <1>0, <2>3 DEF OnePlaceAt, ByIngester
    <3>2. ~InTable(s)' /\ (\A c \in Chooser : ~ByChooser(c, s)') /\ (\A v \in Writer : ~ByWriter(v, s)')
          /\ (\A j \in Ingester : ~ByIngester(j, s)')
      BY <1>10, <2>1, <3>1, PlaceFrame DEF StoreKey, table, ByIngester
    <3> QED
      BY <3>2 DEF OnePlaceAt
  <2>4. CASE s # e.seq
    BY <1>0, <1>10, <2>1, <2>2, <2>4, PlaceFrame, PlaceKept DEF StoreKey, table
  <2> QED
    BY <2>3, <2>4
<1> QED
  BY <1>1, <1>3, <1>4, <1>5, <1>6, <1>7, <1>8, <1>9, <1>10 DEF Next, Choosing, Writing, Ingesting

\* Every step keeps the numbers issued and apart.
LEMMA IssuedStep == TypeOK /\ SessionInv /\ PlaceInv /\ [Next]_vars => Issued'
<1> SUFFICES ASSUME TypeOK, SessionInv, PlaceInv, [Next]_vars PROVE Issued'
  OBVIOUS
<1>0. Issued /\ OnePlace /\ nextSeq \in Nat
  BY DEF PlaceInv, TypeOK, TableType
<1>1. CASE Fence \/ RevokeAll \/ Close \/ Unlock \/ Expire \/ UNCHANGED vars \/ \E e \in entries : Read(e)
  <2>1. entries' \subseteq entries /\ UNCHANGED <<nextSeq, threads, history>>
    BY <1>1 DEF Fence, RevokeAll, Close, Unlock, Expire, Read, vars, table
  <2> QED
    BY <1>0, <2>1 DEF Issued, threads, history
<1>2. ASSUME NEW c \in Chooser, (\E purpose \in Purpose : ChooseStarts(c, purpose)) \/ ShowDialog(c) \/ Picked(c)
      PROVE  Issued'
  <2>1. choice'[c].pc # "numbered" /\ (\A d \in Chooser \ {c} : choice'[d] = choice[d]) /\ UNCHANGED <<table, write, claim, history>>
    BY <1>2, QuietChoice
  <2> QED
    BY <1>0, <2>1 DEF Issued, history, table
<1>3. ASSUME NEW c \in Chooser, Number(c) PROVE Issued'
  <2>1. \A d \in Chooser :
          choice'[d].pc = "numbered" => (choice'[d].seq = nextSeq /\ nextSeq' = nextSeq + 1) \/ choice'[d] = choice[d]
    BY <1>3 DEF Number, ChooseEnds, NoChoice, TypeOK, Choice
  <2>2. nextSeq' \in Nat /\ nextSeq <= nextSeq' /\ UNCHANGED <<entries, write, claim, spent>>
    BY <1>0, <1>3 DEF Number, history
  <2>3. \A n \in Nat : n < nextSeq => n < nextSeq'
    BY <1>0, <2>2
  <2>4. \A d \in Chooser : choice'[d].pc = "numbered" => choice'[d].seq < nextSeq'
    <3> TAKE d \in Chooser
    <3>1. choice[d].seq \in Nat
      BY DEF TypeOK, Choice
    <3> QED
      BY <1>0, <2>1, <2>2, <2>3, <3>1 DEF Issued
  <2>5. (\A n \in spent' : n < nextSeq') /\ (\A e \in entries' : e.seq < nextSeq')
    BY <1>0, <2>2, <2>3 DEF Issued, TypeOK, TableType, Entry
  <2>6. (\A w \in Writer : \A e \in write'[w].entry : e.seq < nextSeq') /\ (\A i \in Ingester : \A e \in claim'[i].entry : e.seq < nextSeq')
    <3>1. \A w \in Writer : write[w].entry \subseteq Entry
      BY DEF TypeOK
    <3>2. \A i \in Ingester : claim[i].entry \subseteq Entry
      BY DEF TypeOK, KeyClaim
    <3> QED
      BY <1>0, <2>2, <2>3, <3>1, <3>2 DEF Issued, Entry
  <2> QED
    BY <1>0, <2>2, <2>4, <2>5, <2>6 DEF Issued
<1>4. ASSUME NEW c \in Chooser, Insert(c) PROVE Issued'
  <2>1. choice[c].pc = "numbered" /\ choice'[c].pc # "numbered" /\ \A d \in Chooser \ {c} : choice'[d] = choice[d]
    BY <1>4 DEF Insert, ChooseEnds, NoChoice, TypeOK, Choice
  <2>2. Chosen(c).seq = choice[c].seq /\ choice[c].seq \in Nat /\ choice[c].seq < nextSeq
    BY <1>0, <2>1, ChosenType DEF Issued, TypeOK, Choice
  <2>3. entries' \subseteq entries \cup {Chosen(c)}
    BY <1>4, <2>1, ChosenType, AdmitType DEF Insert
  <2>4. \A e \in entries : e.seq # choice[c].seq
    BY <1>0, <2>1, <2>2 DEF OnePlace, OnePlaceAt, ByChooser, InTable
  <2>5. (\A e \in entries' : e.seq < nextSeq) /\ (\A e, f \in entries' : e.seq = f.seq => e = f)
    BY <1>0, <2>2, <2>3, <2>4 DEF Issued
  <2> QED
    BY <1>0, <1>4, <2>1, <2>5 DEF Issued, Insert, history
<1>5. ASSUME NEW w \in Writer, NEW e \in entries, WriteTakes(w, e) PROVE Issued'
  <2>1. write'[w] = write[w] \/ write'[w].entry = {e}
    BY <1>5 DEF WriteTakes, TypeOK
  <2>2. \A v \in Writer \ {w} : write'[v] = write[v]
    BY <1>5 DEF WriteTakes, TypeOK
  <2>3. e.seq < nextSeq /\ entries' \subseteq entries /\ UNCHANGED <<nextSeq, choice, claim, spent>>
    BY <1>0, <1>5 DEF Issued, WriteTakes, history
  <2> QED
    BY <1>0, <2>1, <2>2, <2>3 DEF Issued
<1>6. ASSUME NEW w \in Writer, WriteSucceeds(w) \/ WriteFails(w) PROVE Issued'
  <2>1. write'[w].entry = {} /\ (\A v \in Writer \ {w} : write'[v] = write[v]) /\ UNCHANGED <<nextSeq, choice, claim>>
    BY <1>6 DEF WriteSucceeds, WriteFails, WriteReturns, NoWrite, TypeOK
  <2>2. PICK e \in write[w].entry : spent' \subseteq spent \cup {e.seq} /\ entries' \subseteq entries \cup {e}
    <3>1. CASE WriteSucceeds(w)
      BY <3>1 DEF WriteSucceeds
    <3>2. CASE WriteFails(w)
      BY <3>2, AdmitType DEF WriteFails, TypeOK
    <3> QED
      BY <1>6, <3>1, <3>2
  <2>3. e.seq \in Nat
    BY DEF TypeOK, Entry
  <2>4. e.seq < nextSeq /\ \A f \in entries : f.seq # e.seq
    BY <1>0, <2>3 DEF Issued, OnePlace, OnePlaceAt, ByWriter, InTable
  <2>5. (\A f \in entries' : f.seq < nextSeq) /\ (\A f, g \in entries' : f.seq = g.seq => f = g) /\ (\A n \in spent' : n < nextSeq)
    BY <1>0, <2>2, <2>4 DEF Issued
  <2> QED
    BY <1>0, <2>1, <2>5 DEF Issued
<1>7. ASSUME NEW i \in Ingester, IngestStarts(i) \/ IngestReadsApp(i) \/ ClaimRefused(i) PROVE Issued'
  <2>1. claim'[i].entry = {} /\ \A j \in Ingester \ {i} : claim'[j] = claim[j]
    <3>1. claim[i].pc # "storing" /\ claim[i].entry = {}
      BY <1>0, <1>7 DEF Issued, IngestStarts, IngestReadsApp, ClaimRefused
    <3> QED
      BY <1>7, <3>1 DEF IngestStarts, IngestReadsApp, ClaimRefused, IngestEnds, NoClaim, TypeOK, KeyClaim
  <2> QED
    BY <1>0, <1>7, <2>1 DEF Issued, IngestStarts, IngestReadsApp, ClaimRefused, table, history
<1>8. ASSUME NEW i \in Ingester, NEW e \in entries, Claim(i, e) PROVE Issued'
  <2>1. claim'[i].entry = {} \/ (claim'[i].entry = {e} /\ claim'[i].pc = "storing")
    <3>1. CASE IngestEnds(i)
      BY <3>1 DEF IngestEnds, NoClaim, TypeOK
    <3>2. CASE ~IngestEnds(i)
      BY <1>8, <3>2 DEF Claim, TypeOK, KeyClaim
    <3> QED
      BY <3>1, <3>2
  <2>2. \A j \in Ingester \ {i} : claim'[j] = claim[j]
    BY <1>8 DEF Claim, IngestEnds, TypeOK
  <2>3. e.seq < nextSeq /\ entries' \subseteq entries /\ UNCHANGED <<nextSeq, choice, write, spent>>
    BY <1>0, <1>8 DEF Issued, Claim, history
  <2> QED
    BY <1>0, <2>1, <2>2, <2>3 DEF Issued
<1>9. ASSUME NEW i \in Ingester, StoreKey(i) PROVE Issued'
  <2>1. claim'[i].entry = {} /\ (\A j \in Ingester \ {i} : claim'[j] = claim[j]) /\ UNCHANGED <<table, choice, write>>
    BY <1>9 DEF StoreKey, IngestEnds, NoClaim, TypeOK
  <2>2. PICK e \in claim[i].entry : spent' \subseteq spent \cup {e.seq}
    BY <1>9 DEF StoreKey
  <2>3. \A n \in spent' : n < nextSeq
    BY <1>0, <2>2 DEF Issued
  <2> QED
    BY <1>0, <2>1, <2>3 DEF Issued, table
<1> QED
  BY <1>1, <1>2, <1>3, <1>4, <1>5, <1>6, <1>7, <1>8, <1>9 DEF Next, Choosing, Writing, Ingesting

\* Only StoreKey adds to what was ingested: one key, whose grant is used up by
\* it, of a session that still stands.
LEMMA IngestStep ==
    GrantInv /\ [Next]_vars => KeyIngestedOnce' /\ (\A k \in ingested : k.seq \in spent)'
<1> SUFFICES ASSUME GrantInv, [Next]_vars PROVE KeyIngestedOnce' /\ (\A k \in ingested : k.seq \in spent)'
  OBVIOUS
<1>0. TypeOK /\ SessionInv /\ PlaceInv /\ KeyIngestedOnce /\ OnePlace
  BY DEF GrantInv, PlaceInv
<1>1. ASSUME UNCHANGED ingested, spent \subseteq spent' PROVE KeyIngestedOnce' /\ (\A k \in ingested : k.seq \in spent)'
  BY <1>0, <1>1 DEF PlaceInv, KeyIngestedOnce
<1>2. ASSUME NEW i \in Ingester, StoreKey(i) PROVE KeyIngestedOnce' /\ (\A k \in ingested : k.seq \in spent)'
  <2>1. CASE UNCHANGED <<ingested, spent>>
    BY <1>1, <2>1
  <2>2. CASE ~UNCHANGED <<ingested, spent>>
    <3>1. PICK e \in claim[i].entry :
              /\ claim[i].pc = "storing" /\ Fenced(i)
              /\ ingested' = ingested \cup {[seq |-> e.seq, by |-> i, into |-> claim[i].inst, inst |-> e.inst,
                                             late |-> epoch # e.epoch]}
              /\ spent' = spent \cup {e.seq}
      BY <1>2, <2>2 DEF StoreKey
    <3>2. ClaimInv(i)
      BY <1>0 DEF SessionInv
    <3>3. claim[i].inst = e.inst /\ e.epoch = epoch
      BY <3>1, <3>2 DEF ClaimInv, OfSession, Fenced
    <3>4. e.seq \in Nat
      BY <1>0 DEF TypeOK, KeyClaim, Entry
    <3>5. e.seq \notin spent
      BY <1>0, <3>4 DEF OnePlace, OnePlaceAt, ByIngester
    <3>6. \A k \in ingested : k.seq # e.seq
      BY <1>0, <3>5 DEF PlaceInv
    <3> DEFINE new == [seq |-> e.seq, by |-> i, into |-> claim[i].inst, inst |-> e.inst, late |-> epoch # e.epoch]
    <3>7. new.into = new.inst /\ ~new.late /\ new.seq = e.seq
      BY <3>3
    <3>8. ingested' = ingested \cup {new}
      BY <3>1
    <3> HIDE DEF new
    <3>9. KeyIngestedOnce'
      BY <1>0, <3>6, <3>7, <3>8 DEF KeyIngestedOnce
    <3> QED
      BY <1>0, <3>1, <3>7, <3>8, <3>9 DEF PlaceInv
  <2> QED
    BY <2>1, <2>2
<1>3. CASE Fence \/ RevokeAll \/ Close \/ Unlock \/ Expire \/ UNCHANGED vars \/ \E e \in entries : Read(e)
  BY <1>1, <1>3 DEF Fence, RevokeAll, Close, Unlock, Expire, Read, vars, history
<1>4. ASSUME NEW c \in Chooser, Choosing(c) PROVE UNCHANGED ingested /\ spent \subseteq spent'
  BY <1>4 DEF Choosing, ChooseStarts, ShowDialog, Picked, Number, Insert, history
<1>5. ASSUME NEW w \in Writer, Writing(w) PROVE UNCHANGED ingested /\ spent \subseteq spent'
  BY <1>5 DEF Writing, WriteTakes, WriteSucceeds, WriteFails, WriteReturns, history
<1>6. ASSUME NEW i \in Ingester, Ingesting(i), ~StoreKey(i) PROVE UNCHANGED ingested /\ spent \subseteq spent'
  BY <1>6 DEF Ingesting, IngestStarts, IngestReadsApp, ClaimRefused, Claim, history
<1> QED
  BY <1>1, <1>2, <1>3, <1>4, <1>5, <1>6 DEF Next

\* The invariant holds when the application starts.
LEMMA GrantInvInit == Init => GrantInv
<1> SUFFICES ASSUME Init PROVE GrantInv
  OBVIOUS
<1>1. TypeOK
  BY GrantTypeInit
<1>2. SessionInv
  BY DEF Init, SessionInv, GrantsOfThisSession, ChoiceInv, WriteInv, ClaimInv, NoMove,
     NoChoice, NoWrite, NoClaim
<1>3. PlaceInv
  BY DEF Init, PlaceInv, OnePlace, OnePlaceAt, Issued, InTable, ByChooser, ByWriter,
     ByIngester, NoChoice, NoWrite, NoClaim
<1> QED
  BY <1>1, <1>2, <1>3 DEF GrantInv, KeyIngestedOnce, Init

\* The invariant of the session and the places holds throughout.
LEMMA GrantInvariant == Spec => []GrantInv
<1>1. Init => GrantInv
  BY GrantInvInit
<1>2. GrantInv /\ [Next]_vars => GrantInv'
  BY GrantTypeStep, SessionStep, PlaceStep, IssuedStep, IngestStep DEF GrantInv, PlaceInv
<1> QED
  BY <1>1, <1>2, PTL DEF Spec

----------------------------------------------------------------------------
(* The theorems.                                                           *)

\* Threads, table and boundary keep their types, and the table never holds
\* more than MAX_GRANTS grants (FileGrants::admit).
THEOREM GrantsTyped == Spec => []TypeOK
<1>1. GrantInv => TypeOK
  BY DEF GrantInv
<1> QED
  BY <1>1, GrantInvariant, PTL

\* Outside the moment in which a lock or a switch revokes the table, every
\* grant in it was chosen in a dialog shown for the open profile since its
\* last lock (revoke_all, insert, write).
THEOREM GrantsBelongToTheSession == Spec => []GrantsOfThisSession
<1>1. GrantInv => GrantsOfThisSession
  BY DEF GrantInv, SessionInv
<1> QED
  BY <1>1, GrantInvariant, PTL

\* A grant that a write or an ingestion used up never returns to the table:
\* a failed write gives back only the grant it took (FileGrants::write).
THEOREM SpentGrantsStaySpent == Spec => []SpentStaysSpent
<1>1. GrantInv => SpentStaysSpent
  <2> SUFFICES ASSUME GrantInv, NEW e \in entries PROVE e.seq \notin spent
    BY DEF SpentStaysSpent
  <2>1. e.seq \in Nat
    BY DEF GrantInv, TypeOK, TableType, Entry
  <2> QED
    BY <2>1 DEF GrantInv, PlaceInv, OnePlace, OnePlaceAt, InTable
<1> QED
  BY <1>1, GrantInvariant, PTL

\* A private key enters a vault at most once per choice, only the vault its
\* dialog was shown for, and never once a lock or a switch has begun since
\* (ingest_private_key, claim_private_key).
THEOREM KeysIngestedOnce == Spec => []KeyIngestedOnce
<1>1. GrantInv => KeyIngestedOnce
  BY DEF GrantInv
<1> QED
  BY <1>1, GrantInvariant, PTL

----------------------------------------------------------------------------
(* The book of the grants.                                                 *)

\* The numbers that are somewhere.
Accounted == Usable \cup InWrites \cup InClaims \cup spent \cup Numbered

\* The sets of the book, by who has the number, before and after a step.
LEMMA BookMembers ==
    ASSUME NEW s
    PROVE  /\ s \in Usable <=> InTable(s)
           /\ s \in InWrites <=> \E w \in Writer : ByWriter(w, s)
           /\ s \in InClaims <=> \E i \in Ingester : ByIngester(i, s)
           /\ s \in Numbered <=> \E c \in Chooser : ByChooser(c, s)
           /\ s \in Barred <=> \/ \E w \in Writer : ByWriter(w, s) /\ write[w].gen # generation
                               \/ \E i \in Ingester : ByIngester(i, s) /\ claim[i].gen # generation
<1>1. s \in Usable <=> InTable(s)
  BY DEF Usable, InTable
<1>2. s \in InWrites <=> \E w \in Writer : ByWriter(w, s)
  <2> DEFINE Of(w) == {e.seq : e \in write[w].entry}
  <2>1. \A w \in Writer : s \in Of(w) <=> ByWriter(w, s)
    BY DEF ByWriter
  <2>2. InWrites = UNION {Of(w) : w \in Writer}
    BY DEF InWrites
  <2> HIDE DEF Of
  <2>3. s \in UNION {Of(w) : w \in Writer} <=> \E w \in Writer : s \in Of(w)
    OBVIOUS
  <2> QED
    BY <2>1, <2>2, <2>3
<1>3. s \in InClaims <=> \E i \in Ingester : ByIngester(i, s)
  <2> DEFINE Of(i) == {e.seq : e \in claim[i].entry}
  <2>1. \A i \in Ingester : s \in Of(i) <=> ByIngester(i, s)
    BY DEF ByIngester
  <2>2. InClaims = UNION {Of(i) : i \in Ingester}
    BY DEF InClaims
  <2> HIDE DEF Of
  <2>3. s \in UNION {Of(i) : i \in Ingester} <=> \E i \in Ingester : s \in Of(i)
    OBVIOUS
  <2> QED
    BY <2>1, <2>2, <2>3
<1>4. s \in Numbered <=> \E c \in Chooser : ByChooser(c, s)
  BY DEF Numbered, ByChooser
<1>5. s \in Barred <=> \/ \E w \in Writer : ByWriter(w, s) /\ write[w].gen # generation
                      \/ \E i \in Ingester : ByIngester(i, s) /\ claim[i].gen # generation
  <2> DEFINE Ws == {v \in Writer : write[v].gen # generation}
             Is == {j \in Ingester : claim[j].gen # generation}
             OfW(w) == {e.seq : e \in write[w].entry}
             OfI(i) == {e.seq : e \in claim[i].entry}
  <2>1. /\ \A w \in Ws : w \in Writer /\ write[w].gen # generation /\ (s \in OfW(w) <=> ByWriter(w, s))
        /\ \A i \in Is : i \in Ingester /\ claim[i].gen # generation /\ (s \in OfI(i) <=> ByIngester(i, s))
    BY DEF ByWriter, ByIngester
  <2>2. /\ \A w \in Writer : write[w].gen # generation => w \in Ws
        /\ \A i \in Ingester : claim[i].gen # generation => i \in Is
    OBVIOUS
  <2>3. Barred = (UNION {OfW(w) : w \in Ws}) \cup (UNION {OfI(i) : i \in Is})
    BY DEF Barred
  <2> HIDE DEF Ws, Is, OfW, OfI
  <2>4. /\ s \in UNION {OfW(w) : w \in Ws} <=> \E w \in Ws : s \in OfW(w)
        /\ s \in UNION {OfI(i) : i \in Is} <=> \E i \in Is : s \in OfI(i)
    OBVIOUS
  <2> QED
    BY <2>1, <2>2, <2>3, <2>4
<1> QED
  BY <1>1, <1>2, <1>3, <1>4, <1>5

\* The same of the next state.
LEMMA BookMembersNext ==
    ASSUME NEW s
    PROVE  /\ s \in Usable' <=> InTable(s)'
           /\ s \in InWrites' <=> \E w \in Writer : ByWriter(w, s)'
           /\ s \in InClaims' <=> \E i \in Ingester : ByIngester(i, s)'
           /\ s \in Numbered' <=> \E c \in Chooser : ByChooser(c, s)'
           /\ s \in Barred' <=> \/ \E w \in Writer : ByWriter(w, s)' /\ write'[w].gen # generation'
                                \/ \E i \in Ingester : ByIngester(i, s)' /\ claim'[i].gen # generation'
<1>1. s \in Usable' <=> InTable(s)'
  BY DEF Usable, InTable
<1>2. s \in InWrites' <=> \E w \in Writer : ByWriter(w, s)'
  <2> DEFINE Of(w) == {e.seq : e \in write'[w].entry}
  <2>1. \A w \in Writer : s \in Of(w) <=> ByWriter(w, s)'
    BY DEF ByWriter
  <2>2. InWrites' = UNION {Of(w) : w \in Writer}
    BY DEF InWrites
  <2> HIDE DEF Of
  <2>3. s \in UNION {Of(w) : w \in Writer} <=> \E w \in Writer : s \in Of(w)
    OBVIOUS
  <2> QED
    BY <2>1, <2>2, <2>3
<1>3. s \in InClaims' <=> \E i \in Ingester : ByIngester(i, s)'
  <2> DEFINE Of(i) == {e.seq : e \in claim'[i].entry}
  <2>1. \A i \in Ingester : s \in Of(i) <=> ByIngester(i, s)'
    BY DEF ByIngester
  <2>2. InClaims' = UNION {Of(i) : i \in Ingester}
    BY DEF InClaims
  <2> HIDE DEF Of
  <2>3. s \in UNION {Of(i) : i \in Ingester} <=> \E i \in Ingester : s \in Of(i)
    OBVIOUS
  <2> QED
    BY <2>1, <2>2, <2>3
<1>4. s \in Numbered' <=> \E c \in Chooser : ByChooser(c, s)'
  BY DEF Numbered, ByChooser
<1>5. s \in Barred' <=> \/ \E w \in Writer : ByWriter(w, s)' /\ write'[w].gen # generation'
                      \/ \E i \in Ingester : ByIngester(i, s)' /\ claim'[i].gen # generation'
  <2> DEFINE Ws == {v \in Writer : write'[v].gen # generation'}
             Is == {j \in Ingester : claim'[j].gen # generation'}
             OfW(w) == {e.seq : e \in write'[w].entry}
             OfI(i) == {e.seq : e \in claim'[i].entry}
  <2>1. /\ \A w \in Ws : w \in Writer /\ write'[w].gen # generation' /\ (s \in OfW(w) <=> ByWriter(w, s)')
        /\ \A i \in Is : i \in Ingester /\ claim'[i].gen # generation' /\ (s \in OfI(i) <=> ByIngester(i, s)')
    BY DEF ByWriter, ByIngester
  <2>2. /\ \A w \in Writer : write'[w].gen # generation' => w \in Ws
        /\ \A i \in Ingester : claim'[i].gen # generation' => i \in Is
    OBVIOUS
  <2>3. Barred' = (UNION {OfW(w) : w \in Ws}) \cup (UNION {OfI(i) : i \in Is})
    BY DEF Barred
  <2> HIDE DEF Ws, Is, OfW, OfI
  <2>4. /\ s \in UNION {OfW(w) : w \in Ws} <=> \E w \in Ws : s \in OfW(w)
        /\ s \in UNION {OfI(i) : i \in Is} <=> \E i \in Is : s \in OfI(i)
    OBVIOUS
  <2> QED
    BY <2>1, <2>2, <2>3, <2>4
<1> QED
  BY <1>1, <1>2, <1>3, <1>4, <1>5

\* No number beyond the bound has been given.
SerialInv == nextSeq <= MaxSeq

\* Every step keeps the numbers within the bound.
LEMMA SerialStep == TypeOK /\ SerialInv /\ [Next]_vars => SerialInv'
<1> SUFFICES ASSUME TypeOK, SerialInv, [Next]_vars PROVE SerialInv'
  OBVIOUS
<1>0. nextSeq \in Nat /\ MaxSeq \in Nat
  BY GrantAssumption DEF TypeOK, TableType
<1>1. CASE UNCHANGED nextSeq
  BY <1>0, <1>1 DEF SerialInv
<1>2. CASE \E c \in Chooser : Number(c)
  BY <1>0, <1>2 DEF SerialInv, Number
<1>3. ASSUME NEW c \in Chooser, Choosing(c), ~Number(c) PROVE UNCHANGED nextSeq
  <2>1. CASE (\E purpose \in Purpose : ChooseStarts(c, purpose)) \/ ShowDialog(c) \/ Picked(c)
    BY <2>1, QuietChoice DEF table
  <2>2. CASE Insert(c)
    BY <2>2 DEF Insert
  <2> QED
    BY <1>3, <2>1, <2>2 DEF Choosing
<1>4. ASSUME NEW w \in Writer, Writing(w) PROVE UNCHANGED nextSeq
  BY <1>4 DEF Writing, WriteTakes, WriteSucceeds, WriteFails, WriteReturns
<1>5. ASSUME NEW i \in Ingester, Ingesting(i) PROVE UNCHANGED nextSeq
  <2>1. CASE IngestStarts(i) \/ IngestReadsApp(i) \/ ClaimRefused(i)
    BY <2>1 DEF IngestStarts, IngestReadsApp, ClaimRefused, table
  <2>2. CASE StoreKey(i)
    BY <2>2 DEF StoreKey, table
  <2>3. CASE \E e \in entries : Claim(i, e)
    BY <2>3 DEF Claim
  <2> QED
    BY <1>5, <2>1, <2>2, <2>3 DEF Ingesting
<1>6. ASSUME Fence \/ RevokeAll \/ Close \/ Unlock \/ Expire \/ (\E e \in entries : Read(e)) \/ UNCHANGED vars
      PROVE  UNCHANGED nextSeq
  BY <1>6 DEF Fence, RevokeAll, Close, Unlock, Expire, Read, table, vars
<1> QED
  BY <1>1, <1>2, <1>3, <1>4, <1>5, <1>6 DEF Next

\* What is somewhere has been numbered.
LEMMA AccountedIssued ==
    ASSUME TypeOK, Issued
    PROVE  Accounted \subseteq Nat /\ \A s \in Accounted : s < nextSeq
<1> SUFFICES ASSUME NEW s \in Accounted PROVE s \in Nat /\ s < nextSeq
  OBVIOUS
<1>1. CASE s \in spent
  BY <1>1 DEF Issued, TypeOK
<1>2. CASE s \in Usable
  BY <1>2 DEF Issued, TypeOK, TableType, Entry, Usable
<1>3. CASE s \in InWrites
  <2>1. PICK w \in Writer : \E e \in write[w].entry : e.seq = s
    BY <1>3, BookMembers DEF ByWriter
  <2> QED
    BY <2>1 DEF Issued, TypeOK, Entry
<1>4. CASE s \in InClaims
  <2>1. PICK i \in Ingester : \E e \in claim[i].entry : e.seq = s
    BY <1>4, BookMembers DEF ByIngester
  <2> QED
    BY <2>1 DEF Issued, TypeOK, KeyClaim, Entry
<1>5. CASE s \in Numbered
  <2>1. PICK c \in Chooser : choice[c].pc = "numbered" /\ choice[c].seq = s
    BY <1>5, BookMembers DEF ByChooser
  <2> QED
    BY <2>1 DEF Issued, TypeOK, Choice
<1> QED
  BY <1>1, <1>2, <1>3, <1>4, <1>5 DEF Accounted

\* What is no longer anywhere is gone, and what was gone stays so.
LEMMA GoneGains ==
    ASSUME TypeOK, Issued, SerialInv, UNCHANGED nextSeq,
           NEW D, D \subseteq Accounted, Accounted' = Accounted \ D
    PROVE  Gone' = Gone \cup D
<1>1. nextSeq \in Nat /\ MaxSeq \in Nat /\ nextSeq <= MaxSeq
  BY GrantAssumption DEF TypeOK, TableType, SerialInv
<1>2. D \subseteq 0 .. MaxSeq /\ \A s \in D : s < nextSeq
  BY <1>1, AccountedIssued
<1>3. Gone = {s \in 0 .. MaxSeq : s < nextSeq /\ s \notin Accounted}
  BY DEF Gone, Accounted
<1>4. Gone' = {s \in 0 .. MaxSeq : s < nextSeq' /\ s \notin Accounted'}
  BY DEF Gone, Accounted
<1> QED
  BY <1>2, <1>3, <1>4

\* While the same numbers are somewhere, the same are gone.
LEMMA GoneKept ==
    ASSUME UNCHANGED nextSeq, Accounted' = Accounted
    PROVE  Gone' = Gone
<1>1. Gone = {s \in 0 .. MaxSeq : s < nextSeq /\ s \notin Accounted}
  BY DEF Gone, Accounted
<1>2. Gone' = {s \in 0 .. MaxSeq : s < nextSeq' /\ s \notin Accounted'}
  BY DEF Gone, Accounted
<1> QED
  BY <1>1, <1>2

\* Nothing but the number of a choice appears, and then it is a new one.
LEMMA GoneStays ==
    ASSUME TypeOK, nextSeq' = nextSeq + 1, Accounted' = Accounted \cup {nextSeq}
    PROVE  Gone' = Gone
<1>1. nextSeq \in Nat /\ MaxSeq \in Nat
  BY GrantAssumption DEF TypeOK, TableType
<1>2. Gone = {s \in 0 .. MaxSeq : s < nextSeq /\ s \notin Accounted}
  BY DEF Gone, Accounted
<1>3. Gone' = {s \in 0 .. MaxSeq : s < nextSeq' /\ s \notin Accounted'}
  BY DEF Gone, Accounted
<1>4. \A s \in 0 .. MaxSeq : s < nextSeq /\ s \notin Accounted <=> s < nextSeq' /\ s \notin Accounted'
  BY <1>1
<1> QED
  BY <1>2, <1>3, <1>4

\* A grant is in one place, said of the sets.
LEMMA BookDisjoint ==
    ASSUME TypeOK, PlaceInv, NEW s
    PROVE  /\ s \in Usable => s \notin InWrites \cup InClaims \cup spent \cup Numbered
           /\ s \in InWrites => s \notin InClaims \cup spent \cup Numbered
           /\ s \in InClaims => s \notin spent \cup Numbered
           /\ s \in Numbered => s \notin spent
<1>1. CASE s \in Accounted
  <2>1. s \in Nat
    BY <1>1, AccountedIssued DEF PlaceInv
  <2>2. OnePlaceAt(s)
    BY <2>1 DEF PlaceInv, OnePlace
  <2> QED
    BY <2>2, BookMembers DEF OnePlaceAt
<1>2. CASE s \notin Accounted
  BY <1>2 DEF Accounted
<1> QED
  BY <1>1, <1>2

\* The sets a step leaves alone.
LEMMA BookFrame ==
    /\ entries' = entries => Usable' = Usable
    /\ UNCHANGED write => InWrites' = InWrites
    /\ (\A i \in Ingester : claim'[i].entry = claim[i].entry) => InClaims' = InClaims
    /\ (\A c \in Chooser : choice[c].pc = "numbered" \/ choice'[c].pc = "numbered" => choice'[c] = choice[c])
         => Numbered' = Numbered
    /\ UNCHANGED <<write, generation>>
       /\ (\A i \in Ingester : claim'[i] = claim[i] \/ (claim'[i].entry = {} /\ claim[i].entry = {}))
         => Barred' = Barred
<1>1. entries' = entries => Usable' = Usable
  BY DEF Usable
<1>2. UNCHANGED write => InWrites' = InWrites
  BY DEF InWrites
<1>3. ASSUME \A i \in Ingester : claim'[i].entry = claim[i].entry PROVE InClaims' = InClaims
  BY <1>3 DEF InClaims
<1>4. ASSUME \A c \in Chooser : choice[c].pc = "numbered" \/ choice'[c].pc = "numbered" => choice'[c] = choice[c]
      PROVE  Numbered' = Numbered
  <2>1. \A s : s \in Numbered' <=> s \in Numbered
    BY <1>4, BookMembers, BookMembersNext DEF ByChooser
  <2> QED
    BY <2>1
<1>5. ASSUME UNCHANGED <<write, generation>>,
             \A i \in Ingester : claim'[i] = claim[i] \/ (claim'[i].entry = {} /\ claim[i].entry = {})
      PROVE  Barred' = Barred
  <2>1. \A s : s \in Barred' <=> s \in Barred
    BY <1>5, BookMembers, BookMembersNext DEF ByWriter, ByIngester
  <2> QED
    BY <2>1
<1> QED
  BY <1>1, <1>2, <1>3, <1>4, <1>5

\* A grant leaves the table.
LEMMA TableLoses ==
    ASSUME TypeOK, Issued, NEW e \in entries, entries' = entries \ {e}
    PROVE  e.seq \in Usable /\ Usable' = Usable \ {e.seq}
BY DEF Usable, Issued

\* admit makes one more grant usable, or the oldest makes room.
LEMMA TableAdmits ==
    ASSUME TypeOK, Issued, NEW e \in Entry, ~InTable(e.seq), entries' = Admit(e)
    PROVE  \/ Usable' = Usable \cup {e.seq}
           \/ \E d \in Usable \cup {e.seq} :
                (\A x \in Usable \cup {e.seq} : d <= x) /\ Usable' = (Usable \cup {e.seq}) \ {d}
<1> DEFINE all == entries \cup {e}
<1>1. all \subseteq Entry /\ all # {}
  BY DEF TypeOK, TableType
<1>2. Usable \cup {e.seq} = {f.seq : f \in all}
  BY DEF Usable
<1>3. \A f, g \in all : f.seq = g.seq => f = g
  BY DEF Issued, InTable
<1>4. Oldest(all) \in all /\ \A f \in all : Oldest(all).seq <= f.seq
  BY <1>1, OldestExists
<1>5. entries' = all \/ entries' = all \ {Oldest(all)}
  BY DEF Admit
<1>6. CASE entries' = all
  BY <1>2, <1>6 DEF Usable
<1>7. CASE entries' = all \ {Oldest(all)}
  <2>1. Usable' = {f.seq : f \in all \ {Oldest(all)}}
    BY <1>7 DEF Usable
  <2> DEFINE old == Oldest(all)
  <2> HIDE DEF all, old
  <2>2. old \in all /\ \A f \in all : old.seq <= f.seq
    BY <1>4 DEF old
  <2>3. {f.seq : f \in all \ {old}} = {f.seq : f \in all} \ {old.seq}
    BY <1>3, <2>2
  <2>4. old.seq \in Usable \cup {e.seq} /\ \A x \in Usable \cup {e.seq} : old.seq <= x
    BY <1>2, <2>2
  <2> QED
    BY <1>2, <2>1, <2>3, <2>4 DEF old
<1> QED
  BY <1>5, <1>6, <1>7

\* A writer takes a grant at the generation of the table.
LEMMA WriterTakes ==
    ASSUME NEW w \in Writer, NEW e, UNCHANGED <<generation, claim>>,
           write[w].entry = {}, write'[w].entry = {e}, write'[w].gen = generation,
           \A v \in Writer \ {w} : write'[v] = write[v]
    PROVE  InWrites' = InWrites \cup {e.seq} /\ Barred' = Barred
<1>1. \A s : ByWriter(w, s)' <=> s = e.seq
  BY DEF ByWriter
<1>2. \A s : ~ByWriter(w, s)
  BY DEF ByWriter
<1>3. \A s : \A v \in Writer \ {w} : ByWriter(v, s)' <=> ByWriter(v, s)
  BY DEF ByWriter
<1>4. \A s : \A i \in Ingester : ByIngester(i, s)' <=> ByIngester(i, s)
  BY DEF ByIngester
<1>5. \A s : s \in InWrites' <=> s \in InWrites \cup {e.seq}
  BY <1>1, <1>2, <1>3, BookMembers, BookMembersNext
<1>6. \A s : s \in Barred' <=> s \in Barred
  <2> SUFFICES ASSUME NEW s PROVE s \in Barred' <=> s \in Barred
    OBVIOUS
  <2>1. (\E v \in Writer : ByWriter(v, s)' /\ write'[v].gen # generation') <=> \E v \in Writer : ByWriter(v, s) /\ write[v].gen # generation
    BY <1>2, <1>3
  <2>2. (\E i \in Ingester : ByIngester(i, s)' /\ claim'[i].gen # generation') <=> \E i \in Ingester : ByIngester(i, s) /\ claim[i].gen # generation
    BY <1>4
  <2> QED
    BY <2>1, <2>2, BookMembers, BookMembersNext
<1> QED
  BY <1>5, <1>6

\* A writer that alone has a grant lets go of it.
LEMMA WriterReleases ==
    ASSUME NEW w \in Writer, NEW e, UNCHANGED <<generation, claim>>,
           write[w].entry = {e}, write'[w].entry = {},
           \A v \in Writer \ {w} : write'[v] = write[v] /\ ~ByWriter(v, e.seq),
           \A i \in Ingester : ~ByIngester(i, e.seq)
    PROVE  /\ e.seq \in InWrites /\ (e.seq \in Barred <=> write[w].gen # generation)
           /\ InWrites' = InWrites \ {e.seq} /\ Barred' = Barred \ {e.seq}
<1>1. \A s : ByWriter(w, s) <=> s = e.seq
  BY DEF ByWriter
<1>2. \A s : ~ByWriter(w, s)'
  BY DEF ByWriter
<1>3. \A s : \A v \in Writer \ {w} : ByWriter(v, s)' <=> ByWriter(v, s)
  BY DEF ByWriter
<1>4. \A s : \A i \in Ingester : ByIngester(i, s)' <=> ByIngester(i, s)
  BY DEF ByIngester
<1>5. \A s : s \in InWrites' <=> s \in InWrites \ {e.seq}
  BY <1>1, <1>2, <1>3, BookMembers, BookMembersNext
<1>6. \A s : s \in Barred' <=> s \in Barred \ {e.seq}
  <2> SUFFICES ASSUME NEW s PROVE s \in Barred' <=> s \in Barred \ {e.seq}
    OBVIOUS
  <2>1. (\E v \in Writer : ByWriter(v, s)' /\ write'[v].gen # generation')
          <=> (\E v \in Writer : ByWriter(v, s) /\ write[v].gen # generation) /\ s # e.seq
    BY <1>1, <1>2, <1>3
  <2>2. (\E i \in Ingester : ByIngester(i, s)' /\ claim'[i].gen # generation')
          <=> (\E i \in Ingester : ByIngester(i, s) /\ claim[i].gen # generation) /\ s # e.seq
    BY <1>4
  <2> QED
    BY <2>1, <2>2, BookMembers, BookMembersNext
<1>7. e.seq \in InWrites /\ (e.seq \in Barred <=> write[w].gen # generation)
  BY <1>1, BookMembers
<1> QED
  BY <1>5, <1>6, <1>7

\* An ingester claims a grant at the generation of the table.
LEMMA IngesterTakes ==
    ASSUME NEW i \in Ingester, NEW e, UNCHANGED <<generation, write>>,
           claim[i].entry = {}, claim'[i].entry = {e}, claim'[i].gen = generation,
           \A j \in Ingester \ {i} : claim'[j] = claim[j]
    PROVE  InClaims' = InClaims \cup {e.seq} /\ Barred' = Barred
<1>1. \A s : ByIngester(i, s)' <=> s = e.seq
  BY DEF ByIngester
<1>2. \A s : ~ByIngester(i, s)
  BY DEF ByIngester
<1>3. \A s : \A j \in Ingester \ {i} : ByIngester(j, s)' <=> ByIngester(j, s)
  BY DEF ByIngester
<1>4. \A s : \A w \in Writer : ByWriter(w, s)' <=> ByWriter(w, s)
  BY DEF ByWriter
<1>5. \A s : s \in InClaims' <=> s \in InClaims \cup {e.seq}
  BY <1>1, <1>2, <1>3, BookMembers, BookMembersNext
<1>6. \A s : s \in Barred' <=> s \in Barred
  <2> SUFFICES ASSUME NEW s PROVE s \in Barred' <=> s \in Barred
    OBVIOUS
  <2>1. (\E j \in Ingester : ByIngester(j, s)' /\ claim'[j].gen # generation') <=> \E j \in Ingester : ByIngester(j, s) /\ claim[j].gen # generation
    BY <1>2, <1>3
  <2>2. (\E w \in Writer : ByWriter(w, s)' /\ write'[w].gen # generation') <=> \E w \in Writer : ByWriter(w, s) /\ write[w].gen # generation
    BY <1>4
  <2> QED
    BY <2>1, <2>2, BookMembers, BookMembersNext
<1> QED
  BY <1>5, <1>6

\* An ingester that alone has a grant lets go of it.
LEMMA IngesterReleases ==
    ASSUME NEW i \in Ingester, NEW e, UNCHANGED <<generation, write>>,
           claim[i].entry = {e}, claim'[i].entry = {},
           \A j \in Ingester \ {i} : claim'[j] = claim[j] /\ ~ByIngester(j, e.seq),
           \A w \in Writer : ~ByWriter(w, e.seq)
    PROVE  /\ e.seq \in InClaims /\ (e.seq \in Barred <=> claim[i].gen # generation)
           /\ InClaims' = InClaims \ {e.seq} /\ Barred' = Barred \ {e.seq}
<1>1. \A s : ByIngester(i, s) <=> s = e.seq
  BY DEF ByIngester
<1>2. \A s : ~ByIngester(i, s)'
  BY DEF ByIngester
<1>3. \A s : \A j \in Ingester \ {i} : ByIngester(j, s)' <=> ByIngester(j, s)
  BY DEF ByIngester
<1>4. \A s : \A w \in Writer : ByWriter(w, s)' <=> ByWriter(w, s)
  BY DEF ByWriter
<1>5. \A s : s \in InClaims' <=> s \in InClaims \ {e.seq}
  BY <1>1, <1>2, <1>3, BookMembers, BookMembersNext
<1>6. \A s : s \in Barred' <=> s \in Barred \ {e.seq}
  <2> SUFFICES ASSUME NEW s PROVE s \in Barred' <=> s \in Barred \ {e.seq}
    OBVIOUS
  <2>1. (\E j \in Ingester : ByIngester(j, s)' /\ claim'[j].gen # generation')
          <=> (\E j \in Ingester : ByIngester(j, s) /\ claim[j].gen # generation) /\ s # e.seq
    BY <1>1, <1>2, <1>3
  <2>2. (\E w \in Writer : ByWriter(w, s)' /\ write'[w].gen # generation')
          <=> (\E w \in Writer : ByWriter(w, s) /\ write[w].gen # generation) /\ s # e.seq
    BY <1>4
  <2> QED
    BY <2>1, <2>2, BookMembers, BookMembersNext
<1>7. e.seq \in InClaims /\ (e.seq \in Barred <=> claim[i].gen # generation)
  BY <1>1, BookMembers
<1> QED
  BY <1>5, <1>6, <1>7

\* A choice that was numbered ends, or goes on to its next file.
LEMMA ChooserReleases ==
    ASSUME NEW c \in Chooser, choice[c].pc = "numbered", choice'[c].pc # "numbered",
           \A d \in Chooser \ {c} : choice'[d] = choice[d] /\ ~ByChooser(d, choice[c].seq)
    PROVE  choice[c].seq \in Numbered /\ Numbered' = Numbered \ {choice[c].seq}
<1>1. \A s : ByChooser(c, s) <=> s = choice[c].seq
  BY DEF ByChooser
<1>2. \A s : ~ByChooser(c, s)'
  BY DEF ByChooser
<1>3. \A s : \A d \in Chooser \ {c} : ByChooser(d, s)' <=> ByChooser(d, s)
  BY DEF ByChooser
<1>4. \A s : s \in Numbered' <=> s \in Numbered \ {choice[c].seq}
  BY <1>1, <1>2, <1>3, BookMembers, BookMembersNext
<1>5. choice[c].seq \in Numbered
  BY <1>1, BookMembers
<1> QED
  BY <1>4, <1>5

\* What the refinement rests on.
BookInv == TypeOK /\ SessionInv /\ PlaceInv /\ SerialInv

\* The numbers of the book are among those that can be given.
LEMMA AccountedSerial ==
    ASSUME BookInv
    PROVE  Accounted \subseteq 0 .. MaxSeq
BY AccountedIssued, GrantAssumption DEF BookInv, PlaceInv, SerialInv, TypeOK, TableType

\* revoke_all withdraws what is in the table and bars what is taken.
LEMMA RevokeRefines ==
    ASSUME BookInv, RevokeAll
    PROVE  Book!Revoke
<1>1. Usable' = {} /\ UNCHANGED <<nextSeq, choice, write, claim, spent>> /\ generation' = generation + 1
  BY DEF RevokeAll, threads, history, Usable
<1>2. InWrites' = InWrites /\ InClaims' = InClaims /\ Numbered' = Numbered
  BY <1>1, BookFrame
<1>3. Accounted' = Accounted \ Usable
  BY <1>1, <1>2, BookDisjoint DEF Accounted, BookInv
<1>4. Gone' = Gone \cup Usable
  BY <1>1, <1>3, GoneGains DEF BookInv, PlaceInv, Accounted
<1>5. \A w \in Writer : write[w].gen \in Nat /\ write[w].gen <= generation /\ generation \in Nat
  BY DEF BookInv, TypeOK, TableType, SessionInv, WriteInv
<1>6. \A i \in Ingester : claim[i].gen \in Nat /\ claim[i].gen <= generation /\ generation \in Nat
  BY DEF BookInv, TypeOK, TableType, SessionInv, ClaimInv, KeyClaim
<1>7. (\A w \in Writer : write'[w].gen # generation') /\ \A i \in Ingester : claim'[i].gen # generation'
  BY <1>1, <1>5, <1>6
<1>8. \A s : s \in Barred' <=> s \in InWrites' \cup InClaims'
  BY <1>7, BookMembersNext
<1> QED
  BY <1>1, <1>2, <1>4, <1>8 DEF Book!Revoke

\* A grant that leaves the table for nobody is withdrawn.
LEMMA WithdrawRefines ==
    ASSUME BookInv, NEW e \in entries, entries' = entries \ {e},
           UNCHANGED <<generation, nextSeq, choice, write, spent>>,
           \A i \in Ingester : claim'[i] = claim[i] \/ (claim'[i].entry = {} /\ claim[i].entry = {})
    PROVE  Book!Next
<1>1. e.seq \in Usable /\ Usable' = Usable \ {e.seq}
  BY TableLoses DEF BookInv, PlaceInv
<1>2. InWrites' = InWrites /\ InClaims' = InClaims /\ Numbered' = Numbered /\ Barred' = Barred
  BY BookFrame
<1>3. Accounted' = Accounted \ {e.seq} /\ e.seq \in Accounted
  BY <1>1, <1>2, BookDisjoint DEF Accounted, BookInv
<1>4. Gone' = Gone \cup {e.seq}
  BY <1>3, GoneGains DEF BookInv, PlaceInv
<1>5. Book!Withdraw(e.seq)
  BY <1>1, <1>2, <1>4 DEF Book!Withdraw
<1> QED
  BY <1>3, <1>5, AccountedSerial DEF Book!Next

\* A step that moves no grant is a stutter of the book.
LEMMA QuietRefines ==
    ASSUME BookInv, UNCHANGED <<entries, generation, nextSeq, write, spent>>,
           \A c \in Chooser : choice[c].pc = "numbered" \/ choice'[c].pc = "numbered" => choice'[c] = choice[c],
           \A i \in Ingester : claim'[i] = claim[i] \/ (claim'[i].entry = {} /\ claim[i].entry = {})
    PROVE  UNCHANGED Book!vars
<1>1. Usable' = Usable /\ InWrites' = InWrites /\ InClaims' = InClaims /\ Numbered' = Numbered /\ Barred' = Barred
  BY BookFrame
<1>2. Accounted' = Accounted
  BY <1>1 DEF Accounted
<1>3. Gone' = Gone
  BY <1>2, GoneKept
<1> QED
  BY <1>1, <1>3 DEF Book!vars

\* A number that is given to a choice is not yet in the book.
LEMMA NumberRefines ==
    ASSUME BookInv, NEW c \in Chooser, Number(c)
    PROVE  UNCHANGED Book!vars
<1>0. UNCHANGED <<entries, generation, write, claim, spent>> /\ choice[c].pc = "picked"
  BY DEF Number, history
<1>1. CASE ChooseEnds(c) /\ UNCHANGED nextSeq
  <2>1. choice'[c].pc # "numbered" /\ \A d \in Chooser \ {c} : choice'[d] = choice[d]
    BY <1>1 DEF ChooseEnds, NoChoice, BookInv, TypeOK
  <2> QED
    BY <1>0, <1>1, <2>1, QuietRefines
<1>2. CASE choice' = [choice EXCEPT ![c].pc = "numbered", ![c].seq = nextSeq] /\ nextSeq' = nextSeq + 1
  <2>1. choice'[c].pc = "numbered" /\ choice'[c].seq = nextSeq /\ \A d \in Chooser \ {c} : choice'[d] = choice[d]
    BY <1>2 DEF BookInv, TypeOK, Choice
  <2>2. \A s : ByChooser(c, s)' <=> s = nextSeq
    BY <2>1 DEF ByChooser
  <2>3. \A s : ~ByChooser(c, s) /\ \A d \in Chooser \ {c} : ByChooser(d, s)' <=> ByChooser(d, s)
    BY <1>0, <2>1 DEF ByChooser
  <2>4. \A s : s \in Numbered' <=> s \in Numbered \cup {nextSeq}
    BY <2>2, <2>3, BookMembers, BookMembersNext
  <2>5. Usable' = Usable /\ InWrites' = InWrites /\ InClaims' = InClaims /\ Barred' = Barred
    BY <1>0, BookFrame
  <2>6. Accounted' = Accounted \cup {nextSeq}
    BY <1>0, <2>4, <2>5 DEF Accounted
  <2>7. Gone' = Gone
    BY <1>2, <2>6, GoneStays DEF BookInv
  <2> QED
    BY <1>0, <2>5, <2>7 DEF Book!vars
<1> QED
  BY <1>1, <1>2 DEF Number

\* A grant that enters the table: the book's side of admit.
LEMMA EntersRefines ==
    ASSUME BookInv, NEW e \in Entry, ~InTable(e.seq), e.seq \in Accounted, entries' = Admit(e),
           UNCHANGED nextSeq, Accounted' = (Accounted \ (Usable \cup {e.seq})) \cup Usable'
    PROVE  Book!Enters(e.seq)
<1>1. CASE Usable' = Usable \cup {e.seq}
  <2>1. Accounted' = Accounted
    BY <1>1 DEF Accounted
  <2>2. Gone' = Gone
    BY <2>1, GoneKept
  <2> QED
    BY <1>1, <2>2 DEF Book!Enters
<1>2. ASSUME NEW d \in Usable \cup {e.seq}, \A x \in Usable \cup {e.seq} : d <= x,
             Usable' = (Usable \cup {e.seq}) \ {d}
      PROVE  Book!Enters(e.seq)
  <2>1. Accounted' = Accounted \ {d} /\ {d} \subseteq Accounted
    BY <1>2 DEF Accounted
  <2>2. Gone' = Gone \cup {d}
    BY <2>1, GoneGains DEF BookInv, PlaceInv
  <2> QED
    BY <1>2, <2>2 DEF Book!Enters
<1> QED
  BY <1>1, <1>2, TableAdmits DEF BookInv, PlaceInv

\* insert grants the number of the choice, or refuses it for good.
LEMMA InsertRefines ==
    ASSUME BookInv, NEW c \in Chooser, Insert(c)
    PROVE  Book!Next
<1> DEFINE s == choice[c].seq
<1>1. choice[c].pc = "numbered" /\ choice'[c].pc # "numbered" /\ \A d \in Chooser \ {c} : choice'[d] = choice[d]
  BY DEF Insert, ChooseEnds, NoChoice, BookInv, TypeOK, Choice
<1>2. UNCHANGED <<generation, nextSeq, write, claim, spent>>
  BY DEF Insert, history
<1>3. s \in Nat /\ OnePlaceAt(s) /\ ByChooser(c, s)
  BY <1>1 DEF BookInv, TypeOK, Choice, PlaceInv, OnePlace, ByChooser
<1>4. s \in Numbered /\ Numbered' = Numbered \ {s}
  <2>1. \A d \in Chooser \ {c} : ~ByChooser(d, s)
    BY <1>3 DEF OnePlaceAt
  <2> QED
    BY <1>1, <2>1, ChooserReleases
<1>5. InWrites' = InWrites /\ InClaims' = InClaims /\ Barred' = Barred
  BY <1>2, BookFrame
<1>6. s \in Accounted /\ s \in 0 .. MaxSeq /\ s \notin Usable \cup InWrites \cup InClaims \cup spent
  BY <1>4, AccountedSerial, BookDisjoint DEF Accounted, BookInv
<1>7. s \notin Usable \cup InWrites \cup InClaims \cup spent \cup Gone
  BY <1>6 DEF Gone, Accounted
<1>8. CASE entries' = Admit(Chosen(c))
  <2>1. Chosen(c) \in Entry /\ Chosen(c).seq = s
    BY <1>1, ChosenType DEF Chosen, BookInv
  <2>2. ~InTable(s)
    BY <1>6, BookMembers
  <2>3. Accounted' = (Accounted \ (Usable \cup {s})) \cup Usable'
    BY <1>2, <1>4, <1>5, <1>6, BookDisjoint DEF Accounted, BookInv
  <2>4. Book!Enters(s)
    <3> DEFINE e == Chosen(c)
    <3>1. e \in Entry /\ e.seq = s /\ entries' = Admit(e)
      BY <1>8, <2>1
    <3> HIDE DEF e, s
    <3>2. Book!Enters(e.seq)
      BY <1>2, <1>6, <2>2, <2>3, <3>1, EntersRefines
    <3> QED
      BY <3>1, <3>2
  <2>5. Book!Grant(s)
    BY <1>2, <1>5, <1>7, <2>4 DEF Book!Grant, Book!known
  <2> QED
    BY <1>6, <2>5 DEF Book!Next
<1>9. CASE UNCHANGED entries
  <2>1. Usable' = Usable
    BY <1>9, BookFrame
  <2>2. Accounted' = Accounted \ {s}
    BY <1>2, <1>4, <1>5, <1>6, <2>1 DEF Accounted
  <2>3. Gone' = Gone \cup {s}
    BY <1>2, <1>6, <2>2, GoneGains DEF BookInv, PlaceInv
  <2>4. Book!Refuse(s)
    BY <1>2, <1>5, <1>7, <2>1, <2>3 DEF Book!Refuse, Book!known
  <2> QED
    BY <1>6, <2>4 DEF Book!Next
<1> QED
  BY <1>8, <1>9 DEF Insert

\* A write takes its grant, and one for another purpose is withdrawn.
LEMMA WriteTakesRefines ==
    ASSUME BookInv, NEW w \in Writer, NEW e \in entries, WriteTakes(w, e)
    PROVE  Book!Next
<1>1. entries' = entries \ {e} /\ UNCHANGED <<generation, nextSeq, choice, claim, spent>> /\ write[w].entry = {}
  BY DEF WriteTakes, history, NoWrite
<1>2. CASE UNCHANGED write
  BY <1>1, <1>2, WithdrawRefines
<1>3. CASE write' = [write EXCEPT ![w] = [entry |-> {e}, gen |-> generation]]
  <2>1. write'[w].entry = {e} /\ write'[w].gen = generation /\ \A v \in Writer \ {w} : write'[v] = write[v]
    BY <1>3 DEF BookInv, TypeOK
  <2>2. InWrites' = InWrites \cup {e.seq} /\ Barred' = Barred
    BY <1>1, <2>1, WriterTakes
  <2>3. InClaims' = InClaims /\ Numbered' = Numbered
    BY <1>1, BookFrame
  <2>4. e.seq \in Usable /\ Usable' = Usable \ {e.seq}
    BY <1>1, TableLoses DEF BookInv, PlaceInv
  <2>5. Accounted' = Accounted /\ e.seq \in Accounted
    BY <1>1, <2>2, <2>3, <2>4 DEF Accounted
  <2>6. Gone' = Gone
    BY <1>1, <2>5, GoneKept
  <2>7. Book!Take(e.seq)
    BY <1>1, <2>2, <2>3, <2>4, <2>6 DEF Book!Take
  <2> QED
    BY <2>5, <2>7, AccountedSerial DEF Book!Next
<1> QED
  BY <1>2, <1>3 DEF WriteTakes

\* A write uses its grant up, gives it back, or loses it to a revocation.
LEMMA WriteEndsRefines ==
    ASSUME BookInv, NEW w \in Writer, WriteSucceeds(w) \/ WriteFails(w)
    PROVE  Book!Next
<1>1. write'[w].entry = {} /\ (\A v \in Writer \ {w} : write'[v] = write[v]) /\ UNCHANGED <<generation, nextSeq, choice, claim>>
  BY DEF WriteSucceeds, WriteFails, WriteReturns, NoWrite, BookInv, TypeOK
<1>2. PICK e \in write[w].entry :
        \/ spent' = spent \cup {e.seq} /\ UNCHANGED entries
        \/ UNCHANGED spent /\ generation = write[w].gen /\ entries' = Admit(e)
        \/ UNCHANGED spent /\ generation # write[w].gen /\ UNCHANGED entries
  <2>1. CASE WriteSucceeds(w)
    BY <2>1 DEF WriteSucceeds
  <2>2. CASE WriteFails(w)
    BY <2>2 DEF WriteFails
  <2> QED
    BY <2>1, <2>2
<1>3. e \in Entry /\ write[w].entry = {e} /\ e.seq \in Nat /\ OnePlaceAt(e.seq) /\ ByWriter(w, e.seq)
  <2>1. e \in Entry /\ e.seq \in Nat
    BY <1>2 DEF BookInv, TypeOK, Entry
  <2> QED
    BY <1>2, <2>1 DEF BookInv, PlaceInv, OnePlace, Issued, ByWriter
<1>4. /\ e.seq \in InWrites /\ (e.seq \in Barred <=> write[w].gen # generation)
      /\ InWrites' = InWrites \ {e.seq} /\ Barred' = Barred \ {e.seq}
  <2>1. (\A v \in Writer \ {w} : ~ByWriter(v, e.seq)) /\ \A i \in Ingester : ~ByIngester(i, e.seq)
    BY <1>3 DEF OnePlaceAt
  <2> QED
    BY <1>1, <1>3, <2>1, WriterReleases
<1>5. e.seq \notin InClaims \cup spent \cup Numbered \cup Usable /\ e.seq \in Accounted /\ e.seq \in 0 .. MaxSeq
  BY <1>4, BookDisjoint, AccountedSerial DEF BookInv, Accounted
<1>6. InClaims' = InClaims /\ Numbered' = Numbered
  BY <1>1, BookFrame
<1>7. Book!Released(e.seq)
  BY <1>4, <1>5, <1>6 DEF Book!Released
<1>8. CASE spent' = spent \cup {e.seq} /\ UNCHANGED entries
  <2>1. Usable' = Usable
    BY <1>8, BookFrame
  <2>2. Accounted' = Accounted
    BY <1>4, <1>5, <1>6, <1>8, <2>1 DEF Accounted
  <2>3. Gone' = Gone
    BY <1>1, <2>2, GoneKept
  <2>4. Book!Use(e.seq)
    BY <1>4, <1>7, <1>8, <2>1, <2>3 DEF Book!Use
  <2> QED
    BY <1>5, <2>4 DEF Book!Next
<1>9. CASE UNCHANGED spent /\ generation = write[w].gen /\ entries' = Admit(e)
  <2>1. ~InTable(e.seq)
    BY <1>5, BookMembers
  <2>2. Accounted' = (Accounted \ (Usable \cup {e.seq})) \cup Usable'
    BY <1>4, <1>5, <1>6, <1>9, BookDisjoint DEF Accounted, BookInv
  <2>3. Book!Enters(e.seq)
    BY <1>1, <1>3, <1>5, <1>9, <2>1, <2>2, EntersRefines
  <2>4. Book!GiveBack(e.seq)
    BY <1>4, <1>7, <1>9, <2>3 DEF Book!GiveBack
  <2> QED
    BY <1>5, <2>4 DEF Book!Next
<1>10. CASE UNCHANGED spent /\ generation # write[w].gen /\ UNCHANGED entries
  <2>1. Usable' = Usable
    BY <1>10, BookFrame
  <2>2. Accounted' = Accounted \ {e.seq}
    BY <1>4, <1>5, <1>6, <1>10, <2>1 DEF Accounted
  <2>3. Gone' = Gone \cup {e.seq}
    BY <1>1, <1>5, <2>2, GoneGains DEF BookInv, PlaceInv
  <2>4. Book!Lose(e.seq)
    BY <1>4, <1>7, <1>10, <2>1, <2>3 DEF Book!Lose
  <2> QED
    BY <1>5, <2>4 DEF Book!Next
<1> QED
  BY <1>2, <1>8, <1>9, <1>10

\* An ingestion claims its grant, or loses it at once.
LEMMA ClaimRefines ==
    ASSUME BookInv, NEW i \in Ingester, NEW e \in entries, Claim(i, e)
    PROVE  Book!Next
<1>1. entries' = entries \ {e} /\ UNCHANGED <<generation, nextSeq, choice, write, spent>> /\ claim[i].pc = "claiming"
  BY DEF Claim, history
<1>2. claim[i].entry = {}
  BY <1>1 DEF BookInv, PlaceInv, Issued
<1>3. CASE IngestEnds(i)
  <2>1. claim'[i].entry = {} /\ \A j \in Ingester \ {i} : claim'[j] = claim[j]
    BY <1>3 DEF IngestEnds, NoClaim, BookInv, TypeOK
  <2> QED
    BY <1>1, <1>2, <2>1, WithdrawRefines
<1>4. CASE claim' = [claim EXCEPT ![i].pc = "storing", ![i].entry = {e}, ![i].gen = generation]
  <2>1. claim'[i].entry = {e} /\ claim'[i].gen = generation /\ \A j \in Ingester \ {i} : claim'[j] = claim[j]
    BY <1>4 DEF BookInv, TypeOK, KeyClaim
  <2>2. InClaims' = InClaims \cup {e.seq} /\ Barred' = Barred
    BY <1>1, <1>2, <2>1, IngesterTakes
  <2>3. InWrites' = InWrites /\ Numbered' = Numbered
    BY <1>1, BookFrame
  <2>4. e.seq \in Usable /\ Usable' = Usable \ {e.seq}
    BY <1>1, TableLoses DEF BookInv, PlaceInv
  <2>5. Accounted' = Accounted /\ e.seq \in Accounted
    BY <1>1, <2>2, <2>3, <2>4 DEF Accounted
  <2>6. Gone' = Gone
    BY <1>1, <2>5, GoneKept
  <2>7. Book!Take(e.seq)
    BY <1>1, <2>2, <2>3, <2>4, <2>6 DEF Book!Take
  <2> QED
    BY <2>5, <2>7, AccountedSerial DEF Book!Next
<1> QED
  BY <1>3, <1>4 DEF Claim

\* An ingestion uses its grant up only if no revocation came in between;
\* otherwise the grant is lost.
LEMMA StoreKeyRefines ==
    ASSUME BookInv, NEW i \in Ingester, StoreKey(i)
    PROVE  Book!Next
<1>1. claim'[i].entry = {} /\ (\A j \in Ingester \ {i} : claim'[j] = claim[j]) /\ UNCHANGED <<entries, generation, nextSeq, choice, write>>
  BY DEF StoreKey, IngestEnds, NoClaim, BookInv, TypeOK, table
<1>2. PICK e \in claim[i].entry : (spent' = spent \cup {e.seq} /\ generation = claim[i].gen) \/ UNCHANGED spent
  BY DEF StoreKey, Fenced
<1>3. claim[i].entry = {e} /\ e.seq \in Nat /\ OnePlaceAt(e.seq) /\ ByIngester(i, e.seq)
  <2>1. e \in Entry /\ e.seq \in Nat
    BY <1>2 DEF BookInv, TypeOK, KeyClaim, Entry
  <2> QED
    BY <1>2, <2>1 DEF BookInv, PlaceInv, OnePlace, Issued, ByIngester
<1>4. /\ e.seq \in InClaims /\ (e.seq \in Barred <=> claim[i].gen # generation)
      /\ InClaims' = InClaims \ {e.seq} /\ Barred' = Barred \ {e.seq}
  <2>1. (\A j \in Ingester \ {i} : ~ByIngester(j, e.seq)) /\ \A w \in Writer : ~ByWriter(w, e.seq)
    BY <1>3 DEF OnePlaceAt
  <2> QED
    BY <1>1, <1>3, <2>1, IngesterReleases
<1>5. e.seq \notin InWrites \cup spent \cup Numbered \cup Usable /\ e.seq \in Accounted /\ e.seq \in 0 .. MaxSeq
  BY <1>4, BookDisjoint, AccountedSerial DEF BookInv, Accounted
<1>6. Usable' = Usable /\ InWrites' = InWrites /\ Numbered' = Numbered
  BY <1>1, BookFrame
<1>7. Book!Released(e.seq)
  BY <1>4, <1>5, <1>6 DEF Book!Released
<1>8. CASE spent' = spent \cup {e.seq} /\ generation = claim[i].gen
  <2>1. Accounted' = Accounted
    BY <1>4, <1>5, <1>6, <1>8 DEF Accounted
  <2>2. Gone' = Gone
    BY <1>1, <2>1, GoneKept
  <2>3. Book!Use(e.seq)
    BY <1>4, <1>6, <1>7, <1>8, <2>2 DEF Book!Use
  <2> QED
    BY <1>5, <2>3 DEF Book!Next
<1>9. CASE UNCHANGED spent
  <2>1. Accounted' = Accounted \ {e.seq}
    BY <1>4, <1>5, <1>6, <1>9 DEF Accounted
  <2>2. Gone' = Gone \cup {e.seq}
    BY <1>1, <1>5, <2>1, GoneGains DEF BookInv, PlaceInv
  <2>3. Book!Lose(e.seq)
    BY <1>4, <1>6, <1>7, <1>9, <2>2 DEF Book!Lose
  <2> QED
    BY <1>5, <2>3 DEF Book!Next
<1> QED
  BY <1>2, <1>8, <1>9

\* Every step of the table is a step of the book, or none.
LEMMA BookStep == BookInv /\ [Next]_vars => [Book!Next]_(Book!vars)
<1> SUFFICES ASSUME BookInv, [Next]_vars PROVE Book!Next \/ UNCHANGED Book!vars
  OBVIOUS
<1>1. CASE Fence \/ Close \/ Unlock \/ UNCHANGED vars
  <2>1. UNCHANGED <<entries, generation, nextSeq, choice, write, claim, spent>>
    BY <1>1 DEF Fence, Close, Unlock, vars, table, threads, history
  <2> QED
    BY <2>1, QuietRefines
<1>2. CASE RevokeAll
  BY <1>2, RevokeRefines DEF Book!Next
<1>3. CASE Expire \/ \E e \in entries : Read(e)
  <2>1. PICK e \in entries : entries' = entries \ {e} /\ UNCHANGED <<generation, nextSeq, choice, write, claim, spent>>
    BY <1>3 DEF Expire, Read, threads, history
  <2> QED
    BY <2>1, WithdrawRefines
<1>4. ASSUME NEW c \in Chooser, Choosing(c) PROVE Book!Next \/ UNCHANGED Book!vars
  <2>1. CASE (\E purpose \in Purpose : ChooseStarts(c, purpose)) \/ ShowDialog(c) \/ Picked(c)
    <3>1. /\ choice'[c].pc # "numbered" /\ \A d \in Chooser \ {c} : choice'[d] = choice[d]
          /\ UNCHANGED <<table, write, claim, history>>
      BY <2>1, QuietChoice DEF BookInv
    <3>2. choice[c].pc \in {"idle", "started", "shown"}
      <4>1. CASE \E purpose \in Purpose : ChooseStarts(c, purpose)
        BY <4>1 DEF ChooseStarts
      <4> QED
        BY <2>1, <4>1 DEF ShowDialog, Picked
    <3> QED
      BY <3>1, <3>2, QuietRefines DEF table, history
  <2>2. CASE Number(c)
    BY <2>2, NumberRefines
  <2>3. CASE Insert(c)
    BY <2>3, InsertRefines
  <2> QED
    BY <1>4, <2>1, <2>2, <2>3 DEF Choosing
<1>5. ASSUME NEW w \in Writer, Writing(w) PROVE Book!Next
  BY <1>5, WriteTakesRefines, WriteEndsRefines DEF Writing
<1>6. ASSUME NEW i \in Ingester, Ingesting(i) PROVE Book!Next \/ UNCHANGED Book!vars
  <2>1. CASE IngestStarts(i) \/ IngestReadsApp(i) \/ ClaimRefused(i)
    <3>1. claim[i].pc # "storing"
      BY <2>1 DEF IngestStarts, IngestReadsApp, ClaimRefused
    <3>2. claim[i].entry = {}
      BY <3>1 DEF BookInv, PlaceInv, Issued
    <3>3. claim'[i].entry = {} /\ \A j \in Ingester \ {i} : claim'[j] = claim[j]
      <4>1. claim \in [Ingester -> KeyClaim]
        BY DEF BookInv, TypeOK
      <4>2. CASE IngestEnds(i)
        BY <4>1, <4>2 DEF IngestEnds, NoClaim
      <4>3. CASE IngestStarts(i)
        BY <3>2, <4>1, <4>3 DEF IngestStarts, KeyClaim
      <4>4. CASE IngestReadsApp(i) /\ ~IngestEnds(i)
        BY <3>2, <4>1, <4>4 DEF IngestReadsApp, KeyClaim
      <4> QED
        BY <2>1, <4>2, <4>3, <4>4 DEF ClaimRefused
    <3>4. UNCHANGED <<entries, generation, nextSeq, choice, write, spent>>
      BY <2>1 DEF IngestStarts, IngestReadsApp, ClaimRefused, table, history
    <3> QED
      BY <3>2, <3>3, <3>4, QuietRefines
  <2>2. CASE \E e \in entries : Claim(i, e)
    BY <2>2, ClaimRefines
  <2>3. CASE StoreKey(i)
    BY <2>3, StoreKeyRefines
  <2> QED
    BY <1>6, <2>1, <2>2, <2>3 DEF Ingesting
<1> QED
  BY <1>1, <1>2, <1>3, <1>4, <1>5, <1>6 DEF Next

\* FileGrants implements GrantBook: a number is granted once, a revocation
\* takes effect at once, also on what is out of the table at that moment, and
\* a grant that was used, revoked, evicted or lost never comes back.
THEOREM ImplementsGrantBook == Spec => RefinesGrantBook
<1>1. Init => Book!Init /\ SerialInv
  <2> SUFFICES ASSUME Init PROVE Book!Init /\ SerialInv
    OBVIOUS
  <2>1. entries = {} /\ spent = {} /\ nextSeq = 0 /\ MaxSeq \in Nat
    BY GrantAssumption DEF Init
  <2>2. /\ \A w \in Writer : write[w].entry = {}
        /\ \A i \in Ingester : claim[i].entry = {}
    BY DEF Init, NoWrite, NoClaim
  <2>3. \A s : s \notin InWrites /\ s \notin InClaims /\ s \notin Barred
    BY <2>2, BookMembers DEF ByWriter, ByIngester
  <2>4. Usable = {} /\ Gone = {}
    BY <2>1 DEF Usable, Gone
  <2> QED
    BY <2>1, <2>3, <2>4 DEF Book!Init, SerialInv
<1>2. TypeOK /\ SerialInv /\ [Next]_vars => SerialInv'
  BY SerialStep
<1>3. GrantInv => TypeOK
  BY DEF GrantInv
<1>4. GrantInv /\ SerialInv /\ [Next]_vars => [Book!Next]_(Book!vars)
  BY BookStep DEF BookInv, GrantInv
<1> QED
  BY <1>1, <1>2, <1>3, <1>4, GrantInvariant, PTL DEF Spec, RefinesGrantBook, Book!Spec
=============================================================================
