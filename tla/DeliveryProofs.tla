--------------------------- MODULE DeliveryProofs ---------------------------
(***************************************************************************)
(* Proofs about the way of an event from the transactional outbox to its   *)
(* effect, for any number of events, relays and consumers and any faults:  *)
(* what is on the topic was committed and is there once for every publish  *)
(* that did not fail, and in the life of a process an event takes effect   *)
(* once, and once more for each of its claims that was reclaimed.          *)
(***************************************************************************)
EXTENDS EventDelivery, FiniteSetTheorems, WellFoundedInduction, TLAPS

-----------------------------------------------------------------------------
(* The inductive invariant.                                                *)

\* A claimed row is stamped and has one claimer; an unclaim is of a claim.
ClaimsAreOwn ==
  /\ \A r \in Relays : relay[r].at \subseteq relay[r].claims
  /\ \A r \in Relays : \A e \in relay[r].claims : row[e] = "stamped"
  /\ \A r, q \in Relays : relay[r].claims \cap relay[q].claims # {} => r = q

\* Somebody may publish e again: its row is not stamped, or a relay has it.
MayPublish(e) == row[e] # "stamped" \/ \E r \in Relays : e \in relay[r].claims

\* Whoever may publish e finds a copy on the topic only for each failure.
RoomForCopy == \A e \in Events : MayPublish(e) => Copies(e) <= failures[e]

OutboxInv == OutboxTypeOK /\ ClaimsAreOwn /\ RoomForCopy /\ PublishedAsCommitted

\* TypeOK without the outbox.
MemberStates == [pc : {"poll", "record", "claim", "handler", "complete", "release"},
                 position : Nat, todo : SUBSET Nat, commit : SUBSET Nat]

ConsumerTypes ==
  /\ processed \in [Processes -> [Events -> {"none", "claimed", "completed"}]]
  /\ done \in [Processes -> [Events -> Nat]]
  /\ reclaimed \in [Processes -> [Events -> Nat]]
  /\ owner \in Consumers
  /\ committed \in Nat
  /\ member \in [Consumers -> MemberStates]
  /\ effects \in [Events -> Nat]
  /\ passedBy \subseteq Events

\* Offsets a member holds are of the topic, and HandleKey is about one.
Handling(c) == member[c].pc \in {"claim", "handler", "complete", "release"}

FetchedIsThere ==
  \A c \in Consumers : /\ member[c].todo \subseteq DOMAIN log
                       /\ member[c].commit \subseteq DOMAIN log
                       /\ Handling(c) => member[c].todo # {}

\* A member at Complete has had the effect, in the life of its store.
CompletesAfterEffect ==
  \A c \in Consumers : member[c].pc = "complete" => done[Home[c]][Current(c)] > 0

ConsumerInv ==
  FetchedIsThere /\ CompletesAfterEffect /\ CompletedTookEffect /\ ClaimsAreAccounted

Inv == OutboxInv /\ ConsumerTypes /\ ConsumerInv

-----------------------------------------------------------------------------
(* Facts about numbers and sequences.                                      *)

\* A set of naturals has a least element.
LEMMA LeastNatural ==
  ASSUME NEW S, S \subseteq Nat, S # {}
  PROVE  \E x \in S : \A y \in S : x <= y
<1>1. PICK x \in S : \A y \in S : ~ (<<y, x>> \in OpToRel(<, Nat))
  BY NatLessThanWellFounded, WFMin, Zenon
<1>2. \A y \in S : ~ (y < x)
  BY <1>1, Zenon DEF OpToRel
<1> QED BY <1>2

\* Min is in its set.
LEMMA MinIsIn ==
  ASSUME NEW S, S \subseteq Nat, S # {}
  PROVE  Min(S) \in S
BY LeastNatural DEF Min

\* Max of a bounded set of offsets is in it.
LEMMA MaxIsIn ==
  ASSUME NEW S, NEW n \in Nat, S \subseteq 0 .. n, S # {}
  PROVE  Max(S) \in S
<1> DEFINE U == {u \in Nat : \A y \in S : y <= u}
<1>1. U \subseteq Nat /\ n \in U
  OBVIOUS
<1>2. \E x \in U : \A y \in U : x <= y
  <2> HIDE DEF U
  <2> QED BY <1>1, LeastNatural
<1>3. PICK x \in U : \A y \in U : x <= y
  BY <1>2
<1>4. x \in S
  <2>1. SUFFICES ASSUME x \notin S PROVE FALSE
    OBVIOUS
  <2>2. x \in Nat /\ \A y \in S : y \in Nat /\ y < x
    BY <2>1
  <2>3. x - 1 \in Nat /\ \A y \in S : y <= x - 1
    <3>1. PICK z \in S : TRUE
      OBVIOUS
    <3> QED BY <2>2, <3>1
  <2>4. x - 1 \in U
    BY <2>3
  <2> QED BY <1>3, <2>2, <2>4
<1>5. \E z \in S : \A y \in S : z >= y
  BY <1>4
<1> QED BY <1>5 DEF Max

\* The copies of f on the topic are finitely many.
LEMMA CopiesType ==
  ASSUME log \in Seq(Events), NEW f
  PROVE  Copies(f) \in Nat /\ IsFiniteSet({i \in DOMAIN log : log[i] = f})
<1>1. IsFiniteSet(1 .. Len(log))
  BY FS_Interval
<1>2. {i \in DOMAIN log : log[i] = f} \in SUBSET (1 .. Len(log))
  OBVIOUS
<1>3. IsFiniteSet({i \in DOMAIN log : log[i] = f})
  BY <1>1, <1>2, FS_Subset
<1> QED BY <1>3, FS_CardinalityType DEF Copies

\* An append adds a copy of its event and of no other.
LEMMA CopiesAppend ==
  ASSUME log \in Seq(Events), NEW e \in Events, log' = Append(log, e), NEW f
  PROVE  Copies(f)' = IF f = e THEN Copies(f) + 1 ELSE Copies(f)
<1> DEFINE S == {i \in DOMAIN log : log[i] = f}
           T == {i \in DOMAIN log' : log'[i] = f}
<1>1. Len(log) \in Nat /\ DOMAIN log = 1 .. Len(log) /\ DOMAIN log' = 1 .. Len(log) + 1
  OBVIOUS
<1>2. log'[Len(log) + 1] = e /\ \A i \in DOMAIN log : log'[i] = log[i]
  OBVIOUS
<1>3. IsFiniteSet(S)
  BY CopiesType
<1>4. CASE f = e
  <2>1. T = S \cup {Len(log) + 1} /\ Len(log) + 1 \notin S
    BY <1>1, <1>2, <1>4
  <2> QED BY <1>3, <1>4, <2>1, FS_AddElement DEF Copies
<1>5. CASE f # e
  <2>1. T = S
    BY <1>1, <1>2, <1>5
  <2> QED BY <1>5, <2>1 DEF Copies
<1> QED BY <1>4, <1>5

\* An append keeps what is on the topic where it is.
LEMMA AppendKeeps ==
  ASSUME log \in Seq(Events), NEW e \in Events, log' = Append(log, e)
  PROVE  /\ log' \in Seq(Events)
         /\ DOMAIN log \subseteq DOMAIN log' /\ \A i \in DOMAIN log : log'[i] = log[i]
         /\ Range(log)' = Range(log) \cup {e}
<1>1. Len(log) \in Nat /\ DOMAIN log = 1 .. Len(log) /\ DOMAIN log' = 1 .. Len(log) + 1
  OBVIOUS
<1>2. log'[Len(log) + 1] = e /\ \A i \in DOMAIN log : log'[i] = log[i]
  OBVIOUS
<1>3. Range(log)' = Range(log) \cup {e}
  BY <1>1, <1>2 DEF Range
<1> QED BY <1>1, <1>2, <1>3

-----------------------------------------------------------------------------
(* The outbox and its relays.                                              *)

RelayStates == [pc : {"idle", "publish", "unclaim"}, claims : SUBSET Events, at : SUBSET Events]

\* An empty outbox and an empty topic satisfy the outbox invariant.
LEMMA OutboxInitInv ==
  ASSUME OutboxInit
  PROVE  OutboxInv
<1> USE DEF OutboxInit
<1>1. OutboxTypeOK
  BY DEF OutboxTypeOK, Waiting
<1>2. ClaimsAreOwn
  BY DEF ClaimsAreOwn, Waiting
<1>3. \A e \in Events : Copies(e) = 0
  BY FS_EmptySet DEF Copies
<1>4. Range(log) = {}
  BY DEF Range
<1> QED
  BY <1>1, <1>2, <1>3, <1>4 DEF OutboxInv, RoomForCopy, PublishedAsCommitted, OneCopyPerClaim,
     OnlyCommittedIsPublished, Committed

\* Faults are counted.
LEMMA FaultType ==
  ASSUME faults \in Nat, NEW kind, Fault(kind)
  PROVE  faults' \in Nat
BY DEF Fault

\* A step that leaves the topic alone keeps its copies.
LEMMA CopiesUnchanged ==
  ASSUME UNCHANGED log
  PROVE  /\ \A e \in Events : Copies(e)' = Copies(e)
         /\ Range(log)' = Range(log)
BY DEF Copies, Range

\* A relay that goes on without e keeps the rest of its claims.
LEMMA WithoutClaim ==
  ASSUME OutboxTypeOK, NEW r \in Relays, NEW e, relay' = Without(r, e)
  PROVE  /\ relay' \in [Relays -> RelayStates]
         /\ relay'[r].claims = relay[r].claims \ {e} /\ relay'[r].at = {}
         /\ \A q \in Relays : q # r => relay'[q] = relay[q]
BY DEF OutboxTypeOK, RelayStates, Without, Waiting

\* The steps of the producers.
LEMMA ProducerStep ==
  ASSUME OutboxInv, NEW e \in Events, AppendOutboxTx(e) \/ Commit(e) \/ Rollback(e)
  PROVE  OutboxInv'
<1> USE DEF OutboxInv
<1>1. OutboxTypeOK'
  <2>1. CASE AppendOutboxTx(e)
    BY <2>1 DEF OutboxTypeOK, AppendOutboxTx, InsertRow
  <2>2. CASE Commit(e)
    BY <2>2 DEF OutboxTypeOK, Commit
  <2>3. CASE Rollback(e)
    <3>1. faults' \in Nat
      BY <2>3, FaultType DEF OutboxTypeOK, Rollback
    <3> QED BY <2>3, <3>1 DEF OutboxTypeOK, Rollback
  <2> QED BY <2>1, <2>2, <2>3
<1>2. /\ UNCHANGED <<relay, log, failures>>
      /\ row[e] # "stamped" /\ row'[e] # "stamped"
      /\ \A f \in Events : f # e => row'[f] = row[f]
  BY DEF OutboxTypeOK, AppendOutboxTx, InsertRow, Commit, Rollback
<1>3. ClaimsAreOwn'
  BY <1>2 DEF OutboxTypeOK, ClaimsAreOwn
<1>4. RoomForCopy'
  BY <1>2, CopiesUnchanged DEF RoomForCopy, MayPublish
<1>5. OneCopyPerClaim'
  BY <1>2, CopiesUnchanged DEF PublishedAsCommitted, OneCopyPerClaim
<1>6. OnlyCommittedIsPublished'
  BY <1>2, CopiesUnchanged DEF OutboxTypeOK, PublishedAsCommitted, OnlyCommittedIsPublished,
     Committed, AppendOutboxTx, InsertRow, Commit, Rollback
<1> QED BY <1>1, <1>3, <1>4, <1>5, <1>6 DEF PublishedAsCommitted

\* The claim statement, whether or not its rows can be read.
LEMMA ClaimStep ==
  ASSUME OutboxInv, NEW r \in Relays, ClaimOutbox(r) \/ ClaimUnread(r)
  PROVE  OutboxInv'
<1> USE DEF OutboxInv
<1>1. /\ UNCHANGED <<changed, seqno, lastSeq, log, failures>>
      /\ row' = [e \in Events |-> IF e \in Picked THEN "stamped" ELSE row[e]]
  BY DEF ClaimOutbox, ClaimUnread, StampPicked
<1>2. Picked \subseteq Events /\ \A e \in Picked : row[e] = "free"
  BY DEF Picked, Free
<1>3. /\ \/ relay' = relay
         \/ relay' = [relay EXCEPT ![r] = [pc |-> "publish", claims |-> Picked, at |-> {}]]
      /\ faults' \in Nat
  BY FaultType DEF OutboxTypeOK, ClaimOutbox, ClaimUnread
<1>4. relay' \in [Relays -> RelayStates]
  <2>1. [pc |-> "publish", claims |-> Picked, at |-> {}] \in RelayStates
    BY <1>2 DEF RelayStates
  <2>2. relay \in [Relays -> RelayStates]
    BY DEF OutboxTypeOK, RelayStates
  <2> QED BY <1>3, <2>1, <2>2
<1>5. \A q \in Relays : \/ relay'[q] = relay[q]
                        \/ q = r /\ relay'[q].claims = Picked /\ relay'[q].at = {}
  BY <1>3 DEF OutboxTypeOK
<1>6. OutboxTypeOK'
  BY <1>1, <1>3, <1>4 DEF OutboxTypeOK, RelayStates
<1>7. \A e \in Events : row[e] = "stamped" => e \notin Picked /\ row'[e] = "stamped"
  BY <1>1, <1>2
<1>8. ClaimsAreOwn'
  <2>1. \A q \in Relays : relay[q].claims \subseteq Events
    BY DEF OutboxTypeOK
  <2>2. \A q \in Relays : relay[q].claims \cap Picked = {}
    BY <1>2, <2>1 DEF ClaimsAreOwn
  <2>3. \A q \in Relays : \A e \in relay'[q].claims : row'[e] = "stamped"
    BY <1>1, <1>2, <1>5, <1>7, <2>1 DEF ClaimsAreOwn
  <2>4. \A p, q \in Relays : relay'[p].claims \cap relay'[q].claims # {} => p = q
    BY <1>5, <2>2 DEF ClaimsAreOwn
  <2>5. \A q \in Relays : relay'[q].at \subseteq relay'[q].claims
    BY <1>5 DEF ClaimsAreOwn
  <2> QED BY <2>3, <2>4, <2>5 DEF ClaimsAreOwn
<1>9. RoomForCopy'
  BY <1>1, <1>2, <1>5, CopiesUnchanged DEF RoomForCopy, MayPublish
<1>10. OneCopyPerClaim'
  BY <1>1, CopiesUnchanged DEF PublishedAsCommitted, OneCopyPerClaim
<1>11. OnlyCommittedIsPublished'
  BY <1>1, <1>2, CopiesUnchanged DEF PublishedAsCommitted, OnlyCommittedIsPublished, Committed
<1> QED BY <1>6, <1>8, <1>9, <1>10, <1>11 DEF PublishedAsCommitted

\* A publish that succeeds: the one copy the claim stands for.
LEMMA PublishOKStep ==
  ASSUME OutboxInv, NEW r \in Relays, PublishOK(r)
  PROVE  OutboxInv'
<1> USE DEF OutboxInv
<1>1. PICK e \in relay[r].claims : log' = Append(log, e) /\ relay' = Without(r, e)
  BY DEF PublishOK
<1>2. UNCHANGED <<row, changed, seqno, lastSeq, failures, faults>>
  BY DEF PublishOK
<1>3. e \in Events /\ row[e] = "stamped" /\ e \in changed /\ log \in Seq(Events)
  BY DEF OutboxTypeOK, ClaimsAreOwn, PublishedAsCommitted, OnlyCommittedIsPublished, Committed
<1>4. /\ relay' \in [Relays -> RelayStates]
      /\ relay'[r].claims = relay[r].claims \ {e} /\ relay'[r].at = {}
      /\ \A q \in Relays : q # r => relay'[q] = relay[q]
  BY <1>1, WithoutClaim
<1>5. \A f \in Events : Copies(f)' = IF f = e THEN Copies(f) + 1 ELSE Copies(f)
  BY <1>1, <1>3, CopiesAppend
<1>6. OutboxTypeOK'
  BY <1>1, <1>2, <1>3, <1>4, AppendKeeps DEF OutboxTypeOK, RelayStates
<1>7. ClaimsAreOwn'
  BY <1>2, <1>4 DEF ClaimsAreOwn
<1>8. ~ MayPublish(e)'
  BY <1>1, <1>2, <1>3, <1>4 DEF MayPublish, ClaimsAreOwn
<1>9. RoomForCopy'
  BY <1>2, <1>4, <1>5, <1>8 DEF RoomForCopy, MayPublish
<1>10. OneCopyPerClaim'
  <2>1. Copies(e) <= failures[e] /\ Copies(e) \in Nat /\ failures[e] \in Nat
    BY <1>1, <1>3, CopiesType DEF RoomForCopy, MayPublish, OutboxTypeOK
  <2> QED BY <1>2, <1>5, <2>1 DEF PublishedAsCommitted, OneCopyPerClaim
<1>11. OnlyCommittedIsPublished'
  BY <1>1, <1>2, <1>3, AppendKeeps DEF PublishedAsCommitted, OnlyCommittedIsPublished, Committed
<1> QED BY <1>6, <1>7, <1>9, <1>10, <1>11 DEF PublishedAsCommitted

\* A publish that reports an error, with or without a copy on the topic.
LEMMA PublishFailsStep ==
  ASSUME OutboxInv, NEW r \in Relays, PublishFails(r)
  PROVE  OutboxInv'
<1> USE DEF OutboxInv
<1>1. PICK e \in relay[r].claims :
        /\ log' \in {log, Append(log, e)}
        /\ failures' = [failures EXCEPT ![e] = @ + 1]
        /\ relay' = [relay EXCEPT ![r].pc = "unclaim", ![r].at = {e}]
  BY DEF PublishFails
<1>2. UNCHANGED <<row, changed, seqno, lastSeq>> /\ faults' \in Nat
  BY FaultType DEF PublishFails, OutboxTypeOK
<1>3. e \in Events /\ row[e] = "stamped" /\ e \in changed /\ log \in Seq(Events)
  BY DEF OutboxTypeOK, ClaimsAreOwn, PublishedAsCommitted, OnlyCommittedIsPublished, Committed
<1>4. /\ relay' \in [Relays -> RelayStates]
      /\ relay'[r].claims = relay[r].claims /\ relay'[r].at = {e}
      /\ \A q \in Relays : q # r => relay'[q] = relay[q]
  BY <1>1, <1>3 DEF OutboxTypeOK, RelayStates
<1>5. /\ \A f \in Events : Copies(f)' = Copies(f) \/ (f = e /\ Copies(f)' = Copies(f) + 1)
      /\ Range(log)' \subseteq Range(log) \cup {e}
      /\ log' \in Seq(Events)
  BY <1>1, <1>3, CopiesAppend, CopiesUnchanged, AppendKeeps
<1>6. /\ failures' \in [Events -> Nat] /\ failures'[e] = failures[e] + 1
      /\ \A f \in Events : f # e => failures'[f] = failures[f]
  BY <1>1, <1>3 DEF OutboxTypeOK
<1>7. OutboxTypeOK'
  BY <1>2, <1>4, <1>5, <1>6 DEF OutboxTypeOK, RelayStates
<1>8. ClaimsAreOwn'
  BY <1>1, <1>2, <1>4 DEF ClaimsAreOwn
<1>9. \A f \in Events : Copies(f) \in Nat /\ failures[f] \in Nat
  BY <1>3, CopiesType DEF OutboxTypeOK
<1>10. RoomForCopy'
  BY <1>2, <1>4, <1>5, <1>6, <1>9 DEF RoomForCopy, MayPublish
<1>11. OneCopyPerClaim'
  BY <1>2, <1>5, <1>6, <1>9 DEF PublishedAsCommitted, OneCopyPerClaim
<1>12. OnlyCommittedIsPublished'
  BY <1>2, <1>3, <1>5 DEF PublishedAsCommitted, OnlyCommittedIsPublished, Committed
<1> QED BY <1>7, <1>8, <1>10, <1>11, <1>12 DEF PublishedAsCommitted

\* unclaim and a crash: the relay gives claims up, of which one may be free
\* again.
LEMMA GiveUpStep ==
  ASSUME OutboxInv, NEW r \in Relays, Unclaim(r) \/ RelayCrash(r)
  PROVE  OutboxInv'
<1> USE DEF OutboxInv
<1>1. UNCHANGED <<changed, seqno, lastSeq, log, failures>>
  BY DEF Unclaim, RelayCrash
<1>2. /\ faults' \in Nat
      /\ relay' \in [Relays -> RelayStates] /\ relay'[r].at = {}
      /\ \A q \in Relays : q # r => relay'[q] = relay[q]
      /\ \/ row' = row /\ relay'[r].claims \subseteq relay[r].claims
         \/ \E e \in relay[r].claims : /\ row' = [row EXCEPT ![e] = "free"]
                                       /\ relay'[r].claims = relay[r].claims \ {e}
  <2>1. CASE Unclaim(r)
    <3>1. PICK e \in relay[r].at :
            /\ \/ row' = [row EXCEPT ![e] = "free"] /\ UNCHANGED faults
               \/ Fault("unclaim") /\ UNCHANGED row
            /\ relay' = Without(r, e)
      BY <2>1 DEF Unclaim
    <3>2. e \in relay[r].claims
      BY DEF ClaimsAreOwn
    <3>3. /\ relay' \in [Relays -> RelayStates]
          /\ relay'[r].claims = relay[r].claims \ {e} /\ relay'[r].at = {}
          /\ \A q \in Relays : q # r => relay'[q] = relay[q]
      BY <3>1, WithoutClaim
    <3> QED BY <3>1, <3>2, <3>3, FaultType DEF OutboxTypeOK
  <2>2. CASE RelayCrash(r)
    BY <2>2, FaultType DEF RelayCrash, Waiting, OutboxTypeOK, RelayStates
  <2> QED BY <2>1, <2>2
<1>3. OutboxTypeOK'
  BY <1>1, <1>2 DEF OutboxTypeOK, RelayStates
<1>4. ClaimsAreOwn'
  <2>1. CASE row' = row /\ relay'[r].claims \subseteq relay[r].claims
    BY <1>2, <2>1 DEF ClaimsAreOwn
  <2>2. ASSUME NEW e \in relay[r].claims, row' = [row EXCEPT ![e] = "free"],
               relay'[r].claims = relay[r].claims \ {e}
        PROVE  ClaimsAreOwn'
    <3>1. \A q \in Relays : e \notin relay'[q].claims
      BY <1>2, <2>2 DEF ClaimsAreOwn
    <3>2. \A q \in Relays : relay'[q].claims \subseteq relay[q].claims
      BY <1>2, <2>2
    <3>3. \A q \in Relays : relay[q].claims \subseteq Events
      BY DEF OutboxTypeOK
    <3>4. \A f \in Events : f # e => row'[f] = row[f]
      BY <2>2 DEF OutboxTypeOK
    <3> QED BY <1>2, <3>1, <3>2, <3>3, <3>4 DEF ClaimsAreOwn
  <2> QED BY <1>2, <2>1, <2>2
<1>5. \A e \in Events : MayPublish(e)' => MayPublish(e)
  BY <1>2 DEF MayPublish, OutboxTypeOK
<1>6. RoomForCopy'
  BY <1>1, <1>5, CopiesUnchanged DEF RoomForCopy
<1>7. OneCopyPerClaim'
  BY <1>1, CopiesUnchanged DEF PublishedAsCommitted, OneCopyPerClaim
<1>8. OnlyCommittedIsPublished'
  <2>1. \A e \in Events : Committed(e)' <=> Committed(e)
    BY <1>2 DEF Committed, ClaimsAreOwn, OutboxTypeOK
  <2> QED BY <1>1, <2>1, CopiesUnchanged DEF PublishedAsCommitted, OnlyCommittedIsPublished
<1> QED BY <1>3, <1>4, <1>6, <1>7, <1>8 DEF PublishedAsCommitted

\* A step that leaves the outbox alone but for the count of faults.
LEMMA OutboxIdle ==
  ASSUME OutboxInv, UNCHANGED <<row, changed, seqno, lastSeq, relay, log, failures>>,
         faults' \in Nat
  PROVE  OutboxInv'
<1> USE DEF OutboxInv
<1>1. OutboxTypeOK' /\ ClaimsAreOwn'
  BY DEF OutboxTypeOK, ClaimsAreOwn
<1>2. RoomForCopy' /\ PublishedAsCommitted'
  BY CopiesUnchanged DEF RoomForCopy, MayPublish, PublishedAsCommitted, OneCopyPerClaim,
     OnlyCommittedIsPublished, Committed
<1> QED BY <1>1, <1>2

\* Every step of producers and relays keeps the invariant of the outbox.
LEMMA OutboxStep ==
  ASSUME OutboxInv, OutboxNext
  PROVE  OutboxInv'
BY ProducerStep, ClaimStep, PublishOKStep, PublishFailsStep, GiveUpStep DEF OutboxNext, RelayStep

-----------------------------------------------------------------------------
(* The consumers.                                                          *)

\* The record a member is at is on the topic, of a committed event.
LEMMA CurrentIsCommitted ==
  ASSUME Inv, NEW c \in Consumers, member[c].todo # {}
  PROVE  /\ Min(member[c].todo) \in member[c].todo /\ Min(member[c].todo) \in DOMAIN log
         /\ Current(c) \in Events /\ Committed(Current(c))
<1>1. member[c].todo \subseteq DOMAIN log /\ DOMAIN log \subseteq Nat
  BY DEF Inv, ConsumerInv, FetchedIsThere, OutboxInv, OutboxTypeOK
<1>2. Min(member[c].todo) \in member[c].todo
  BY <1>1, MinIsIn
<1>3. Current(c) \in Range(log)
  BY <1>1, <1>2 DEF Current, Range
<1>4. Range(log) \subseteq changed /\ changed \subseteq Events
  BY DEF Inv, OutboxInv, PublishedAsCommitted, OnlyCommittedIsPublished, OutboxTypeOK
<1> QED
  BY <1>1, <1>2, <1>3, <1>4 DEF Inv, OutboxInv, PublishedAsCommitted, OnlyCommittedIsPublished

\* What is on the topic stays where it is.
LogKept == DOMAIN log \subseteq DOMAIN log' /\ \A i \in DOMAIN log : log'[i] = log[i]

\* A member that keeps its records stays at the same one.
LEMMA CurrentStays ==
  ASSUME Inv, LogKept, NEW c \in Consumers, member[c].todo # {},
         member'[c].todo = member[c].todo
  PROVE  Current(c)' = Current(c)
BY CurrentIsCommitted DEF Current, LogKept

\* A member that is at HandleKey has a record at hand.
LEMMA HandlingHasRecord ==
  ASSUME Inv, NEW c \in Consumers, Handling(c)
  PROVE  member[c].todo # {}
BY DEF Inv, ConsumerInv, FetchedIsThere

\* Sets of members are finite, and count as they grow and shrink by one.
LEMMA Counting ==
  ASSUME NEW S, IsFiniteSet(S), NEW T, NEW x
  PROVE  /\ Cardinality(S) \in Nat
         /\ T \subseteq S => Cardinality(T) \in Nat /\ Cardinality(T) <= Cardinality(S)
         /\ T \subseteq S \cup {x} => Cardinality(T) \in Nat /\ Cardinality(T) <= Cardinality(S) + 1
         /\ T \subseteq S \ {x} /\ x \in S =>
              Cardinality(T) \in Nat /\ Cardinality(T) + 1 <= Cardinality(S)
<1>1. Cardinality(S) \in Nat
  BY FS_CardinalityType
<1>2. CASE T \subseteq S
  <2>1. Cardinality(T) \in Nat /\ Cardinality(T) <= Cardinality(S)
    BY <1>2, FS_Subset, FS_CardinalityType
  <2>2. T \subseteq S \ {x} /\ x \in S => Cardinality(T) + 1 <= Cardinality(S)
    <3> SUFFICES ASSUME T \subseteq S \ {x}, x \in S
                 PROVE  Cardinality(T) + 1 <= Cardinality(S)
      OBVIOUS
    <3>1. IsFiniteSet(S \ {x}) /\ Cardinality(S \ {x}) = Cardinality(S) - 1
      BY FS_RemoveElement
    <3>2. Cardinality(T) <= Cardinality(S \ {x})
      BY <3>1, FS_Subset
    <3> QED BY <1>1, <2>1, <3>1, <3>2
  <2> QED BY <1>1, <2>1, <2>2
<1>3. CASE T \subseteq S \cup {x} /\ x \notin S
  <2>1. IsFiniteSet(S \cup {x}) /\ Cardinality(S \cup {x}) = Cardinality(S) + 1
    BY <1>3, FS_AddElement
  <2>2. Cardinality(T) \in Nat /\ Cardinality(T) <= Cardinality(S \cup {x})
    BY <1>3, <2>1, FS_Subset, FS_CardinalityType
  <2> QED BY <1>1, <1>2, <1>3, <2>1, <2>2
<1> QED BY <1>1, <1>2, <1>3

\* The members at work on a record are finitely many, before and after a step.
LEMMA WorkIsFinite ==
  ASSUME NEW p \in Processes, NEW e \in Events
  PROVE  IsFiniteSet(AtWork(p, e)) /\ Cardinality(AtWork(p, e)) \in Nat
<1>1. AtWork(p, e) \subseteq Consumers /\ IsFiniteSet(Consumers)
  BY GroupAssumption DEF AtWork
<1> QED BY <1>1, FS_Subset, FS_CardinalityType

\* c goes on at HandleKey with the record it is at, or turns to another.
GoesOn(c) ==
  /\ Current(c)' = Current(c)
  /\ \/ member'[c].pc = member[c].pc
     \/ member[c].pc = "handler" /\ member'[c].pc = "release"

Busy(c) == member[c].pc \in {"handler", "release", "complete"}

\* An account stays in order when nothing was added to it.
LEMMA AccountStays ==
  ASSUME Inv, NEW p \in Processes, NEW e \in Events,
         AtWork(p, e)' \subseteq AtWork(p, e),
         processed'[p][e] = processed[p][e], done'[p][e] = done[p][e],
         reclaimed'[p][e] = reclaimed[p][e]
  PROVE  done'[p][e] + Cardinality(AtWork(p, e)') + Unclaimed(p, e)' <= 1 + reclaimed'[p][e]
<1>1. /\ Cardinality(AtWork(p, e)) \in Nat /\ Cardinality(AtWork(p, e)') \in Nat
      /\ Cardinality(AtWork(p, e)') <= Cardinality(AtWork(p, e))
  BY WorkIsFinite, Counting
<1>2. done[p][e] \in Nat /\ reclaimed[p][e] \in Nat
  BY DEF Inv, ConsumerTypes
<1>3. done[p][e] + Cardinality(AtWork(p, e)) + Unclaimed(p, e) <= 1 + reclaimed[p][e]
  BY DEF Inv, ConsumerInv, ClaimsAreAccounted
<1>4. Unclaimed(p, e)' = Unclaimed(p, e) /\ Unclaimed(p, e) \in Nat
  BY DEF Unclaimed
<1> QED BY <1>1, <1>2, <1>3, <1>4

\* Steps that start no handler and record nothing.
LEMMA NothingStarts ==
  ASSUME Inv, UNCHANGED <<storeVars, effects>>,
         \A e \in Events : Committed(e) => Committed(e)',
         \A c \in Consumers : Busy(c)' => GoesOn(c)
  PROVE  CompletesAfterEffect' /\ CompletedTookEffect' /\ ClaimsAreAccounted'
<1>1. UNCHANGED <<processed, done, reclaimed, effects>>
  BY DEF storeVars
<1>2. ASSUME NEW p \in Processes, NEW e \in Events
      PROVE  AtWork(p, e)' \subseteq AtWork(p, e)
  BY DEF AtWork, Busy, GoesOn
<1>3. ClaimsAreAccounted'
  BY <1>1, <1>2, AccountStays DEF ClaimsAreAccounted
<1>4. CompletesAfterEffect'
  BY <1>1 DEF Inv, ConsumerInv, CompletesAfterEffect, Busy, GoesOn
<1>5. CompletedTookEffect'
  BY <1>1 DEF Inv, ConsumerInv, CompletedTookEffect
<1> QED BY <1>3, <1>4, <1>5

\* The outbox moves on, or nothing does, and the group does not.
LEMMA ConsumersIdle ==
  ASSUME Inv, LogKept, changed \subseteq changed', UNCHANGED consumerVars, OutboxInv'
  PROVE  Inv'
<1>1. \A e \in Events : Committed(e) => Committed(e)'
  BY DEF Inv, OutboxInv, PublishedAsCommitted, OnlyCommittedIsPublished
<1>2. ConsumerTypes' /\ member' = member
  BY DEF Inv, ConsumerTypes, consumerVars, storeVars
<1>3. \A c \in Consumers : Handling(c) => Current(c)' = Current(c)
  BY <1>2, HandlingHasRecord, CurrentStays
<1>4. \A c \in Consumers : Busy(c)' => GoesOn(c)
  BY <1>2, <1>3 DEF Busy, GoesOn, Handling
<1>5. FetchedIsThere'
  BY <1>2 DEF Inv, ConsumerInv, FetchedIsThere, LogKept, Handling
<1>6. CompletesAfterEffect' /\ CompletedTookEffect' /\ ClaimsAreAccounted'
  BY <1>1, <1>4, NothingStarts DEF consumerVars
<1> QED BY <1>2, <1>5, <1>6 DEF Inv, ConsumerInv

\* What the steps of a member leave alone of the outbox.
OutboxKept ==
  UNCHANGED <<row, changed, seqno, lastSeq, relay, log, failures>> /\ faults' \in Nat

\* Steps of the group that start no handler: members poll, skip, acknowledge
\* or give up.
LEMMA GroupQuiet ==
  ASSUME Inv, OutboxKept, UNCHANGED <<storeVars, effects>>,
         owner' \in Consumers, committed' \in Nat, passedBy' \subseteq Events,
         member' \in [Consumers -> MemberStates],
         \A c \in Consumers :
           /\ member'[c].todo \subseteq DOMAIN log /\ member'[c].commit \subseteq DOMAIN log
           /\ Handling(c)' => member'[c].todo # {}
           /\ Busy(c)' => GoesOn(c)
  PROVE  Inv'
<1>1. OutboxInv'
  BY OutboxIdle DEF Inv, OutboxKept
<1>2. \A e \in Events : Committed(e) => Committed(e)'
  BY DEF OutboxKept, Committed
<1>3. FetchedIsThere'
  BY DEF FetchedIsThere, OutboxKept, Handling
<1>4. CompletesAfterEffect' /\ CompletedTookEffect' /\ ClaimsAreAccounted'
  BY <1>2, NothingStarts
<1>5. ConsumerTypes'
  BY DEF Inv, ConsumerTypes, storeVars
<1> QED BY <1>1, <1>3, <1>4, <1>5 DEF Inv, ConsumerInv

\* While c takes a step the others stay at their records.
LEMMA OthersStay ==
  ASSUME Inv, LogKept, NEW c \in Consumers,
         \A d \in Consumers : d # c => member'[d] = member[d]
  PROVE  \A d \in Consumers : d # c /\ Busy(d) => Current(d)' = Current(d)
BY HandlingHasRecord, CurrentStays DEF Busy, Handling

\* The same of a single member.
LEMMA MemberQuiet ==
  ASSUME Inv, OutboxKept, UNCHANGED <<storeVars, effects>>, NEW c \in Consumers,
         owner' \in Consumers, committed' \in Nat, passedBy' \subseteq Events,
         member' \in [Consumers -> MemberStates],
         \A d \in Consumers : d # c => member'[d] = member[d],
         member'[c].todo \subseteq DOMAIN log, member'[c].commit \subseteq DOMAIN log,
         Handling(c)' => member'[c].todo # {},
         Busy(c)' => GoesOn(c)
  PROVE  Inv'
<1>1. LogKept
  BY DEF OutboxKept, LogKept
<1>2. \A d \in Consumers : d # c /\ Busy(d)' => GoesOn(d)
  BY <1>1, OthersStay DEF Busy, GoesOn
<1>3. \A d \in Consumers : d # c =>
        /\ member'[d].todo \subseteq DOMAIN log /\ member'[d].commit \subseteq DOMAIN log
        /\ Handling(d)' => member'[d].todo # {}
  BY DEF Inv, ConsumerInv, FetchedIsThere, Handling
<1> QED BY <1>2, <1>3, GroupQuiet

\* HandleKey is done with the record, acknowledged or not.
LEMMA LeavesRecord ==
  ASSUME Inv, NEW c \in Consumers, member[c].todo # {}, member' = Acked(c) \/ Refused(c)
  PROVE  /\ member' \in [Consumers -> MemberStates]
         /\ \A d \in Consumers : d # c => member'[d] = member[d]
         /\ member'[c].todo \subseteq DOMAIN log /\ member'[c].commit \subseteq DOMAIN log
         /\ member'[c].pc = "record"
         /\ Refused(c) \/ Duplicate(c) => passedBy' \subseteq Events
<1> DEFINE offset == Min(member[c].todo)
<1>1. offset \in DOMAIN log /\ offset \in Nat /\ Current(c) \in Events
  BY CurrentIsCommitted DEF Inv, OutboxInv, OutboxTypeOK
<1>2. /\ member \in [Consumers -> MemberStates]
      /\ member[c].todo \subseteq DOMAIN log /\ member[c].commit \subseteq DOMAIN log
      /\ passedBy \subseteq Events
  BY DEF Inv, ConsumerTypes, ConsumerInv, FetchedIsThere
<1>3. \/ member' = [member EXCEPT ![c].pc = "record", ![c].todo = @ \ {offset},
                                  ![c].commit = @ \cup {offset}]
      \/ member' = [member EXCEPT ![c].pc = "record", ![c].todo = @ \ {offset}]
  BY DEF Acked, Refused
<1>4. Refused(c) \/ Duplicate(c) => passedBy' \subseteq Events
  BY <1>1, <1>2 DEF Refused, Duplicate
<1> HIDE DEF offset
<1> QED BY <1>1, <1>2, <1>3, <1>4 DEF MemberStates

\* HandleKey goes on with the record.
LEMMA GoesTo ==
  ASSUME Inv, NEW c \in Consumers, member[c].todo # {}, LogKept,
         NEW pc \in {"claim", "handler", "complete", "release"}, member' = Goto(c, pc)
  PROVE  /\ member' \in [Consumers -> MemberStates]
         /\ \A d \in Consumers : d # c => member'[d] = member[d]
         /\ member'[c].todo = member[c].todo /\ member'[c].commit = member[c].commit
         /\ member[c].todo \subseteq DOMAIN log /\ member[c].commit \subseteq DOMAIN log
         /\ member'[c].pc = pc /\ Current(c)' = Current(c)
<1>1. /\ member' \in [Consumers -> MemberStates]
      /\ \A d \in Consumers : d # c => member'[d] = member[d]
      /\ member'[c].todo = member[c].todo /\ member'[c].commit = member[c].commit
      /\ member'[c].pc = pc
  BY DEF Goto, Inv, ConsumerTypes, MemberStates
<1> QED BY <1>1, CurrentStays DEF Inv, ConsumerInv, FetchedIsThere

\* The types the steps of a member leave in order.
LEMMA GroupTypes ==
  ASSUME Inv
  PROVE  owner \in Consumers /\ committed \in Nat /\ passedBy \subseteq Events /\ faults \in Nat
BY DEF Inv, ConsumerTypes, OutboxInv, OutboxTypeOK

\* Fetching a batch hands out offsets of the topic only.
LEMMA PollStep ==
  ASSUME Inv, NEW c \in Consumers, PollFetches(c) \/ PollFails(c)
  PROVE  Inv'
<1>1. PICK last \in (member[c].position + 1) .. Len(log) :
        \/ member' = [member EXCEPT ![c].pc = "record", ![c].position = last,
                                    ![c].todo = (member[c].position + 1) .. last]
        \/ member' = [member EXCEPT ![c].position = last]
  BY DEF PollFetches, PollFails
<1>2. /\ member[c].position \in Nat /\ Len(log) \in Nat /\ DOMAIN log = 1 .. Len(log)
      /\ member \in [Consumers -> MemberStates]
      /\ member[c].todo \subseteq DOMAIN log /\ member[c].commit \subseteq DOMAIN log
      /\ passedBy \subseteq Events /\ log \in Seq(Events)
  <2>1. log \in Seq(Events)
    BY DEF Inv, OutboxInv, OutboxTypeOK
  <2>2. Len(log) \in Nat /\ DOMAIN log = 1 .. Len(log)
    BY <2>1
  <2>3. /\ member \in [Consumers -> MemberStates] /\ passedBy \subseteq Events
        /\ member[c].position \in Nat
    BY DEF Inv, ConsumerTypes, MemberStates
  <2>4. member[c].todo \subseteq DOMAIN log /\ member[c].commit \subseteq DOMAIN log
    BY DEF Inv, ConsumerInv, FetchedIsThere
  <2> QED BY <2>1, <2>2, <2>3, <2>4
<1>3. last \in Nat /\ (member[c].position + 1) .. last \subseteq DOMAIN log
  BY <1>2
<1>4. /\ member' \in [Consumers -> MemberStates]
      /\ \A d \in Consumers : d # c => member'[d] = member[d]
      /\ member'[c].pc \in {"poll", "record"}
      /\ member'[c].todo \subseteq DOMAIN log /\ member'[c].commit = member[c].commit
  <2>1. CASE member' = [member EXCEPT ![c].position = last] /\ member[c].pc = "poll"
    BY <1>2, <1>3, <2>1 DEF MemberStates
  <2>2. CASE member' = [member EXCEPT ![c].pc = "record", ![c].position = last,
                                      ![c].todo = (member[c].position + 1) .. last]
    <3> DEFINE fetched == (member[c].position + 1) .. last
    <3>1. fetched \subseteq Nat /\ fetched \subseteq DOMAIN log
      BY <1>2, <1>3
    <3>2. member' = [member EXCEPT ![c].pc = "record", ![c].position = last, ![c].todo = fetched]
      BY <2>2
    <3> HIDE DEF fetched
    <3> QED BY <1>2, <1>3, <3>1, <3>2 DEF MemberStates
  <2> QED BY <1>1, <2>1, <2>2 DEF PollFetches, PollFails
<1>5. OutboxKept
  BY GroupTypes, FaultType DEF PollFetches, PollFails, OutboxKept, outboxVars
<1>6. passedBy' \subseteq Events
  <2>1. CASE PollFetches(c)
    BY <1>2, <2>1 DEF PollFetches
  <2>2. CASE PollFails(c)
    <3>1. PICK n \in (member[c].position + 1) .. Len(log) :
            passedBy' = passedBy \cup {log[i] : i \in (member[c].position + 1) .. n}
      BY <2>2 DEF PollFails
    <3>2. \A i \in (member[c].position + 1) .. n : log[i] \in Events
      BY <1>2, <3>1
    <3> QED BY <1>2, <3>1, <3>2
  <2> QED BY <2>1, <2>2
<1>7. UNCHANGED <<storeVars, effects, owner, committed>>
  BY DEF PollFetches, PollFails
<1> QED
  BY <1>2, <1>4, <1>5, <1>6, <1>7, GroupTypes, MemberQuiet DEF Handling, Busy

\* Committing an offset leaves what members are at untouched.
LEMMA CommitStep ==
  ASSUME Inv, NEW c \in Consumers, CommitRecords(c) \/ CommitFails(c)
  PROVE  Inv'
<1>1. /\ member' = [member EXCEPT ![c].pc = "poll", ![c].commit = {}]
      /\ UNCHANGED <<storeVars, effects, owner, passedBy>>
  BY DEF CommitRecords, CommitFails
<1>2. member \in [Consumers -> MemberStates] /\ member[c].todo \subseteq DOMAIN log
      /\ member[c].commit \subseteq DOMAIN log
  BY DEF Inv, ConsumerTypes, ConsumerInv, FetchedIsThere
<1>3. /\ member' \in [Consumers -> MemberStates]
      /\ \A d \in Consumers : d # c => member'[d] = member[d]
      /\ member'[c].pc = "poll" /\ member'[c].todo = member[c].todo /\ member'[c].commit = {}
  BY <1>1, <1>2 DEF MemberStates
<1>4. committed' \in Nat
  <2>1. CASE UNCHANGED committed
    BY <2>1, GroupTypes
  <2>2. CASE member[c].commit # {} /\ committed' = Max(member[c].commit)
    <3>1. Len(log) \in Nat /\ DOMAIN log = 1 .. Len(log)
      BY DEF Inv, OutboxInv, OutboxTypeOK
    <3>2. member[c].commit \subseteq 0 .. Len(log)
      BY <1>2, <3>1
    <3> QED BY <2>2, <3>1, <3>2, MaxIsIn
  <2> QED BY <2>1, <2>2 DEF CommitRecords, CommitFails
<1>5. OutboxKept
  BY GroupTypes, FaultType DEF CommitRecords, CommitFails, OutboxKept, outboxVars
<1> QED BY <1>1, <1>2, <1>3, <1>4, <1>5, GroupTypes, MemberQuiet DEF Handling, Busy

\* A key already recorded is acknowledged, another one goes on to be claimed.
LEMMA SeenStep ==
  ASSUME Inv, NEW c \in Consumers, HandleSeen(c)
  PROVE  Inv'
<1>1. OutboxKept /\ LogKept
  BY GroupTypes DEF HandleSeen, OutboxKept, outboxVars, LogKept
<1>2. member[c].todo # {} /\ UNCHANGED <<storeVars, effects, owner, committed>>
  BY DEF HandleSeen
<1>3. CASE Duplicate(c)
  <2>1. member' = Acked(c)
    BY <1>3 DEF Duplicate
  <2> QED BY <1>1, <1>2, <1>3, <2>1, LeavesRecord, GroupTypes, MemberQuiet DEF Handling, Busy
<1>4. CASE member' = Goto(c, "claim") /\ UNCHANGED passedBy
  BY <1>1, <1>2, <1>4, GoesTo, GroupTypes, MemberQuiet DEF Handling, Busy
<1> QED BY <1>3, <1>4 DEF HandleSeen

\* A message whose key could not be read or claimed is refused, unclaimed.
LEMMA StoreDownStep ==
  ASSUME Inv, NEW c \in Consumers, StoreDown(c)
  PROVE  Inv'
<1>1. OutboxKept
  BY GroupTypes, FaultType DEF StoreDown, OutboxKept
<1>2. /\ Refused(c) /\ UNCHANGED <<storeVars, effects, owner, committed>>
      /\ member[c].todo # {}
  BY HandlingHasRecord DEF StoreDown, Handling
<1> QED BY <1>1, <1>2, LeavesRecord, GroupTypes, MemberQuiet DEF Handling, Busy

\* A handler that failed has had no effect and is on its way to release.
LEMMA HandlerFailsStep ==
  ASSUME Inv, NEW c \in Consumers, HandlerFails(c)
  PROVE  Inv'
<1>1. OutboxKept /\ LogKept
  BY GroupTypes, FaultType DEF HandlerFails, OutboxKept, LogKept
<1>2. /\ UNCHANGED <<storeVars, effects, owner, committed, passedBy>>
      /\ member[c].pc = "handler" /\ member[c].todo # {} /\ member' = Goto(c, "release")
  BY HandlingHasRecord DEF HandlerFails, Handling
<1>3. GoesOn(c)
  BY <1>1, <1>2, GoesTo DEF GoesOn
<1> QED BY <1>1, <1>2, <1>3, GoesTo, GroupTypes, MemberQuiet

\* The new owner polls from the committed offset; whoever is at a record
\* stays at it.
LEMMA RebalanceStep ==
  ASSUME Inv, NEW d \in Consumers, Rebalance(d)
  PROVE  Inv'
<1>1. OutboxKept /\ LogKept
  BY GroupTypes, FaultType DEF Rebalance, OutboxKept, LogKept
<1>2. /\ owner' = d /\ UNCHANGED <<storeVars, effects, committed, passedBy>>
      /\ member' = [c \in Consumers |->
           [member[c] EXCEPT !.position = IF c = d THEN committed ELSE 0]]
  BY DEF Rebalance
<1>3. /\ member' \in [Consumers -> MemberStates]
      /\ \A c \in Consumers :
           /\ member'[c].pc = member[c].pc /\ member'[c].todo = member[c].todo
           /\ member'[c].commit = member[c].commit
  BY <1>2, GroupTypes DEF Inv, ConsumerTypes, MemberStates
<1>4. \A c \in Consumers : Busy(c)' => GoesOn(c)
  BY <1>1, <1>3, HandlingHasRecord, CurrentStays DEF Busy, Handling, GoesOn
<1> QED
  BY <1>1, <1>2, <1>3, <1>4, GroupTypes, GroupQuiet
     DEF Inv, ConsumerInv, FetchedIsThere, Handling

\* What is left to show of a step of c that starts or ends the work on a
\* record: the account of that record in the store of c.
LEMMA WorkStep ==
  ASSUME Inv, OutboxKept, NEW c \in Consumers, NEW e \in Events, NEW p \in Processes,
         e = Current(c), p = Home[c],
         processed' \in [Processes -> [Events -> {"none", "claimed", "completed"}]],
         done' \in [Processes -> [Events -> Nat]],
         effects' \in [Events -> Nat], passedBy' \subseteq Events,
         UNCHANGED <<reclaimed, owner, committed>>,
         member' \in [Consumers -> MemberStates],
         \A d \in Consumers : d # c => member'[d] = member[d],
         member'[c].todo \subseteq DOMAIN log, member'[c].commit \subseteq DOMAIN log,
         Handling(c)' => member'[c].todo # {},
         Busy(c)' => Current(c)' = e,
         \A q \in Processes, f \in Events : q # p \/ f # e =>
           processed'[q][f] = processed[q][f] /\ done'[q][f] = done[q][f],
         \A f \in Events : effects'[f] > 0 => Committed(f),
         done'[p][e] >= done[p][e],
         processed'[p][e] = "completed" \/ member'[c].pc = "complete" => done'[p][e] > 0,
         done'[p][e] + Cardinality(AtWork(p, e)') + Unclaimed(p, e)' <= 1 + reclaimed[p][e]
  PROVE  Inv'
<1>1. OutboxInv'
  BY OutboxIdle DEF Inv, OutboxKept
<1>2. FetchedIsThere'
  BY DEF Inv, ConsumerInv, FetchedIsThere, OutboxKept, Handling
<1>3. ConsumerTypes'
  BY DEF Inv, ConsumerTypes
<1>4. LogKept
  BY DEF OutboxKept, LogKept
<1>5. \A d \in Consumers : d # c /\ Busy(d) => Current(d)' = Current(d)
  BY <1>4, OthersStay
<1>6. CompletesAfterEffect'
  <2> SUFFICES ASSUME NEW d \in Consumers, member'[d].pc = "complete"
               PROVE  done'[Home[d]][Current(d)'] > 0
    BY DEF CompletesAfterEffect
  <2>1. CASE d = c
    BY <2>1 DEF Busy
  <2>2. CASE d # c
    <3>1. /\ member[d].pc = "complete" /\ Current(d)' = Current(d)
          /\ member[d].todo # {}
      BY <1>5, <2>2, HandlingHasRecord DEF Busy, Handling
    <3>2. Current(d) \in Events /\ Home[d] \in Processes
      BY <3>1, CurrentIsCommitted, GroupAssumption
    <3>3. done[Home[d]][Current(d)] > 0 /\ done[Home[d]][Current(d)] \in Nat
      BY <3>1, <3>2 DEF Inv, ConsumerInv, CompletesAfterEffect, ConsumerTypes
    <3>4. CASE Home[d] = p /\ Current(d) = e
      <4>1. done'[p][e] \in Nat
        OBVIOUS
      <4> QED BY <3>1, <3>3, <3>4, <4>1
    <3>5. CASE Home[d] # p \/ Current(d) # e
      BY <3>1, <3>2, <3>3, <3>5
    <3> QED BY <3>4, <3>5
  <2> QED BY <2>1, <2>2
<1>7. CompletedTookEffect'
  <2>1. \A f \in Events : effects'[f] > 0 => Committed(f)'
    BY DEF Committed, OutboxKept
  <2>2. \A q \in Processes, f \in Events : processed'[q][f] = "completed" => done'[q][f] > 0
    BY DEF Inv, ConsumerInv, CompletedTookEffect
  <2> QED BY <2>1, <2>2 DEF CompletedTookEffect
<1>8. ClaimsAreAccounted'
  <2> SUFFICES ASSUME NEW q \in Processes, NEW f \in Events, q # p \/ f # e
               PROVE  done'[q][f] + Cardinality(AtWork(q, f)') + Unclaimed(q, f)'
                        <= 1 + reclaimed'[q][f]
    BY DEF ClaimsAreAccounted
  <2>1. AtWork(q, f)' \subseteq AtWork(q, f)
    BY <1>5 DEF AtWork, Busy
  <2> QED BY <2>1, AccountStays
<1> QED BY <1>1, <1>2, <1>3, <1>6, <1>7, <1>8 DEF Inv, ConsumerInv

\* What HandleKey knows of the record it is at and of its account.
LEMMA WorkFacts ==
  ASSUME Inv, NEW c \in Consumers, member[c].todo # {}, NEW e, NEW p,
         e = Current(c), p = Home[c]
  PROVE  /\ e \in Events /\ p \in Processes /\ Committed(e)
         /\ processed \in [Processes -> [Events -> {"none", "claimed", "completed"}]]
         /\ done \in [Processes -> [Events -> Nat]]
         /\ done[p][e] \in Nat /\ reclaimed[p][e] \in Nat
         /\ effects \in [Events -> Nat]
         /\ \A f \in Events : effects[f] > 0 => Committed(f)
         /\ processed[p][e] = "completed" => done[p][e] > 0
         /\ IsFiniteSet(AtWork(p, e)) /\ Cardinality(AtWork(p, e)) \in Nat
         /\ done[p][e] + Cardinality(AtWork(p, e)) + Unclaimed(p, e) <= 1 + reclaimed[p][e]
<1>1. e \in Events /\ p \in Processes /\ Committed(e)
  BY CurrentIsCommitted, GroupAssumption
<1>2. IsFiniteSet(AtWork(p, e)) /\ Cardinality(AtWork(p, e)) \in Nat
  BY <1>1, WorkIsFinite
<1> QED BY <1>1, <1>2 DEF Inv, ConsumerTypes, ConsumerInv, CompletedTookEffect, ClaimsAreAccounted

\* Claiming takes the place the free key stood for.
LEMMA ClaimKeyStep ==
  ASSUME Inv, NEW c \in Consumers, HandleClaim(c)
  PROVE  Inv'
<1>0. PICK e, p : e = Current(c) /\ p = Home[c]
  OBVIOUS
<1>1. OutboxKept /\ LogKept
  BY GroupTypes DEF HandleClaim, OutboxKept, outboxVars, LogKept
<1>2. /\ UNCHANGED <<owner, committed, effects, done, reclaimed>>
      /\ member[c].pc = "claim" /\ member[c].todo # {}
  BY HandlingHasRecord DEF HandleClaim, Handling
<1>3. CASE Duplicate(c) /\ UNCHANGED processed
  <2>1. member' = Acked(c)
    BY <1>3 DEF Duplicate
  <2> QED BY <1>1, <1>2, <1>3, <2>1, LeavesRecord, GroupTypes, MemberQuiet
          DEF Handling, Busy, storeVars
<1>4. CASE /\ processed[p][e] = "none"
           /\ processed' = [processed EXCEPT ![p][e] = "claimed"]
           /\ member' = Goto(c, "handler") /\ UNCHANGED passedBy
  <2>1. /\ member' \in [Consumers -> MemberStates]
        /\ \A d \in Consumers : d # c => member'[d] = member[d]
        /\ member'[c].todo = member[c].todo /\ member'[c].commit = member[c].commit
        /\ member[c].todo \subseteq DOMAIN log /\ member[c].commit \subseteq DOMAIN log
        /\ member'[c].pc = "handler" /\ Current(c)' = e
    BY <1>0, <1>1, <1>2, <1>4, GoesTo
  <2>2. /\ e \in Events /\ p \in Processes
        /\ processed \in [Processes -> [Events -> {"none", "claimed", "completed"}]]
        /\ done \in [Processes -> [Events -> Nat]] /\ effects \in [Events -> Nat]
        /\ done[p][e] \in Nat /\ reclaimed[p][e] \in Nat
        /\ \A f \in Events : effects[f] > 0 => Committed(f)
        /\ IsFiniteSet(AtWork(p, e)) /\ Cardinality(AtWork(p, e)) \in Nat
        /\ done[p][e] + Cardinality(AtWork(p, e)) + Unclaimed(p, e) <= 1 + reclaimed[p][e]
    BY <1>0, <1>2, WorkFacts
  <2>3. /\ processed' \in [Processes -> [Events -> {"none", "claimed", "completed"}]]
        /\ processed'[p][e] = "claimed"
        /\ \A q \in Processes, f \in Events : q # p \/ f # e =>
             processed'[q][f] = processed[q][f]
    BY <1>4, <2>2
  <2>4. \A d \in Consumers : d # c /\ Busy(d) => Current(d)' = Current(d)
    BY <1>1, <2>1, OthersStay
  <2>5. AtWork(p, e)' \subseteq AtWork(p, e) \cup {c}
    BY <2>1, <2>4 DEF AtWork, Busy
  <2>6. Cardinality(AtWork(p, e)') \in Nat
        /\ Cardinality(AtWork(p, e)') <= Cardinality(AtWork(p, e)) + 1
    BY <2>2, <2>5, Counting
  <2>7. Unclaimed(p, e) = 1 /\ Unclaimed(p, e)' = 0
    BY <1>4, <2>3 DEF Unclaimed
  <2>8. done'[p][e] + Cardinality(AtWork(p, e)') + Unclaimed(p, e)' <= 1 + reclaimed[p][e]
    BY <1>2, <2>2, <2>6, <2>7
  <2> QED
    BY <1>0, <1>1, <1>2, <1>4, <2>1, <2>2, <2>3, <2>8, GroupTypes, WorkStep
<1> QED BY <1>0, <1>3, <1>4 DEF HandleClaim, Claimable

\* The effect takes the place of the work.
LEMMA HandlerOKStep ==
  ASSUME Inv, NEW c \in Consumers, HandlerOK(c)
  PROVE  Inv'
<1>0. PICK e, p : e = Current(c) /\ p = Home[c]
  OBVIOUS
<1>1. OutboxKept /\ LogKept
  BY GroupTypes DEF HandlerOK, OutboxKept, outboxVars, LogKept
<1>2. /\ UNCHANGED <<processed, reclaimed, owner, committed, passedBy>>
      /\ member[c].pc = "handler" /\ member[c].todo # {}
      /\ effects' = [effects EXCEPT ![e] = @ + 1] /\ done' = [done EXCEPT ![p][e] = @ + 1]
      /\ member' = Goto(c, "complete")
  BY <1>0, HandlingHasRecord DEF HandlerOK, Handling
<1>3. /\ member' \in [Consumers -> MemberStates]
      /\ \A d \in Consumers : d # c => member'[d] = member[d]
      /\ member'[c].todo = member[c].todo /\ member'[c].commit = member[c].commit
      /\ member[c].todo \subseteq DOMAIN log /\ member[c].commit \subseteq DOMAIN log
      /\ member'[c].pc = "complete" /\ Current(c)' = e
  BY <1>0, <1>1, <1>2, GoesTo
<1>4. /\ e \in Events /\ p \in Processes /\ Committed(e)
      /\ processed \in [Processes -> [Events -> {"none", "claimed", "completed"}]]
      /\ done \in [Processes -> [Events -> Nat]] /\ effects \in [Events -> Nat]
      /\ done[p][e] \in Nat /\ reclaimed[p][e] \in Nat
      /\ \A f \in Events : effects[f] > 0 => Committed(f)
      /\ IsFiniteSet(AtWork(p, e)) /\ Cardinality(AtWork(p, e)) \in Nat
      /\ done[p][e] + Cardinality(AtWork(p, e)) + Unclaimed(p, e) <= 1 + reclaimed[p][e]
  BY <1>0, <1>2, WorkFacts
<1>5. /\ done' \in [Processes -> [Events -> Nat]] /\ done'[p][e] = done[p][e] + 1
      /\ \A q \in Processes, f \in Events : q # p \/ f # e => done'[q][f] = done[q][f]
  BY <1>2, <1>4
<1>6. /\ effects' \in [Events -> Nat]
      /\ \A f \in Events : effects'[f] > 0 => Committed(f)
  BY <1>2, <1>4
<1>7. \A d \in Consumers : d # c /\ Busy(d) => Current(d)' = Current(d)
  BY <1>1, <1>3, OthersStay
<1>8. c \in AtWork(p, e) /\ AtWork(p, e)' \subseteq AtWork(p, e) \ {c}
  BY <1>0, <1>2, <1>3, <1>7 DEF AtWork, Busy
<1>9. Cardinality(AtWork(p, e)') \in Nat
      /\ Cardinality(AtWork(p, e)') + 1 <= Cardinality(AtWork(p, e))
  BY <1>4, <1>8, Counting
<1>10. Unclaimed(p, e)' = Unclaimed(p, e) /\ Unclaimed(p, e) \in Nat
  BY <1>2 DEF Unclaimed
<1>11. done'[p][e] + Cardinality(AtWork(p, e)') + Unclaimed(p, e)' <= 1 + reclaimed[p][e]
  BY <1>4, <1>5, <1>9, <1>10
<1>12. done'[p][e] >= done[p][e] /\ done'[p][e] > 0
  BY <1>4, <1>5
<1> QED
  BY <1>0, <1>1, <1>2, <1>3, <1>4, <1>5, <1>6, <1>11, <1>12, GroupTypes, WorkStep

\* Completing marks an effect that has happened.
LEMMA CompleteStep ==
  ASSUME Inv, NEW c \in Consumers, HandleComplete(c)
  PROVE  Inv'
<1>0. PICK e, p : e = Current(c) /\ p = Home[c]
  OBVIOUS
<1>1. OutboxKept /\ LogKept
  BY GroupTypes, FaultType DEF HandleComplete, OutboxKept, LogKept
<1>2. /\ UNCHANGED <<owner, committed, effects, done, reclaimed>>
      /\ member[c].pc = "complete" /\ member[c].todo # {}
  BY HandlingHasRecord DEF HandleComplete, Handling
<1>3. CASE Refused(c) /\ UNCHANGED processed
  BY <1>1, <1>2, <1>3, LeavesRecord, GroupTypes, MemberQuiet DEF Handling, Busy, storeVars
<1>4. CASE /\ \/ processed' = processed
              \/ processed' = [processed EXCEPT ![p][e] = "completed"]
           /\ member' = Acked(c) /\ UNCHANGED passedBy
  <2>1. /\ member' \in [Consumers -> MemberStates]
        /\ \A d \in Consumers : d # c => member'[d] = member[d]
        /\ member'[c].todo \subseteq DOMAIN log /\ member'[c].commit \subseteq DOMAIN log
        /\ member'[c].pc = "record"
    BY <1>2, <1>4, LeavesRecord
  <2>2. /\ e \in Events /\ p \in Processes
        /\ processed \in [Processes -> [Events -> {"none", "claimed", "completed"}]]
        /\ done \in [Processes -> [Events -> Nat]] /\ effects \in [Events -> Nat]
        /\ done[p][e] \in Nat /\ reclaimed[p][e] \in Nat
        /\ \A f \in Events : effects[f] > 0 => Committed(f)
        /\ IsFiniteSet(AtWork(p, e)) /\ Cardinality(AtWork(p, e)) \in Nat
        /\ done[p][e] + Cardinality(AtWork(p, e)) + Unclaimed(p, e) <= 1 + reclaimed[p][e]
    BY <1>0, <1>2, WorkFacts
  <2>3. done[p][e] > 0
    BY <1>0, <1>2 DEF Inv, ConsumerInv, CompletesAfterEffect
  <2>4. /\ processed' \in [Processes -> [Events -> {"none", "claimed", "completed"}]]
        /\ processed'[p][e] \in {processed[p][e], "completed"}
        /\ \A q \in Processes, f \in Events : q # p \/ f # e =>
             processed'[q][f] = processed[q][f]
    <3>1. CASE processed' = processed
      BY <2>2, <3>1
    <3>2. CASE processed' = [processed EXCEPT ![p][e] = "completed"]
      BY <2>2, <3>2
    <3> QED BY <1>4, <3>1, <3>2
  <2>5. \A d \in Consumers : d # c /\ Busy(d) => Current(d)' = Current(d)
    BY <1>1, <2>1, OthersStay
  <2>6. AtWork(p, e)' \subseteq AtWork(p, e)
    BY <2>1, <2>5 DEF AtWork, Busy
  <2>7. Cardinality(AtWork(p, e)') \in Nat
        /\ Cardinality(AtWork(p, e)') <= Cardinality(AtWork(p, e))
    BY <2>2, <2>6, Counting
  <2>8. Unclaimed(p, e)' <= Unclaimed(p, e) /\ Unclaimed(p, e) \in Nat /\ Unclaimed(p, e)' \in Nat
    BY <2>4 DEF Unclaimed
  <2>9. done'[p][e] + Cardinality(AtWork(p, e)') + Unclaimed(p, e)' <= 1 + reclaimed[p][e]
    BY <1>2, <2>2, <2>7, <2>8
  <2>10. ~ Handling(c)' /\ ~ Busy(c)'
    BY <2>1 DEF Handling, Busy
  <2> QED
    BY <1>0, <1>1, <1>2, <1>4, <2>1, <2>2, <2>3, <2>4, <2>9, <2>10, GroupTypes, WorkStep
<1> QED BY <1>0, <1>3, <1>4 DEF HandleComplete

\* A released key stands for the effect its handler did not have.
LEMMA ReleaseStep ==
  ASSUME Inv, NEW c \in Consumers, HandleRelease(c)
  PROVE  Inv'
<1>0. PICK e, p : e = Current(c) /\ p = Home[c]
  OBVIOUS
<1>1. OutboxKept /\ LogKept
  BY GroupTypes, FaultType DEF HandleRelease, OutboxKept, LogKept
<1>2. /\ UNCHANGED <<owner, committed, effects, done, reclaimed>> /\ Refused(c)
      /\ member[c].pc = "release" /\ member[c].todo # {}
  BY HandlingHasRecord DEF HandleRelease, Handling
<1>3. CASE UNCHANGED processed
  BY <1>1, <1>2, <1>3, LeavesRecord, GroupTypes, MemberQuiet DEF Handling, Busy, storeVars
<1>4. CASE processed' = [processed EXCEPT ![p][e] = "none"]
  <2>1. /\ member' \in [Consumers -> MemberStates]
        /\ \A d \in Consumers : d # c => member'[d] = member[d]
        /\ member'[c].todo \subseteq DOMAIN log /\ member'[c].commit \subseteq DOMAIN log
        /\ member'[c].pc = "record" /\ passedBy' \subseteq Events
    BY <1>2, LeavesRecord
  <2>2. /\ e \in Events /\ p \in Processes
        /\ processed \in [Processes -> [Events -> {"none", "claimed", "completed"}]]
        /\ done \in [Processes -> [Events -> Nat]] /\ effects \in [Events -> Nat]
        /\ done[p][e] \in Nat /\ reclaimed[p][e] \in Nat
        /\ \A f \in Events : effects[f] > 0 => Committed(f)
        /\ IsFiniteSet(AtWork(p, e)) /\ Cardinality(AtWork(p, e)) \in Nat
        /\ done[p][e] + Cardinality(AtWork(p, e)) + Unclaimed(p, e) <= 1 + reclaimed[p][e]
    BY <1>0, <1>2, WorkFacts
  <2>3. /\ processed' \in [Processes -> [Events -> {"none", "claimed", "completed"}]]
        /\ processed'[p][e] = "none"
        /\ \A q \in Processes, f \in Events : q # p \/ f # e =>
             processed'[q][f] = processed[q][f]
    BY <1>4, <2>2
  <2>4. \A d \in Consumers : d # c /\ Busy(d) => Current(d)' = Current(d)
    BY <1>1, <2>1, OthersStay
  <2>5. c \in AtWork(p, e) /\ AtWork(p, e)' \subseteq AtWork(p, e) \ {c}
    BY <1>0, <1>2, <2>1, <2>4 DEF AtWork, Busy
  <2>6. Cardinality(AtWork(p, e)') \in Nat
        /\ Cardinality(AtWork(p, e)') + 1 <= Cardinality(AtWork(p, e))
    BY <2>2, <2>5, Counting
  <2>7. Unclaimed(p, e) \in Nat /\ Unclaimed(p, e)' = 1
    BY <2>3 DEF Unclaimed
  <2>8. done'[p][e] + Cardinality(AtWork(p, e)') + Unclaimed(p, e)' <= 1 + reclaimed[p][e]
    BY <1>2, <2>2, <2>6, <2>7
  <2>9. ~ Handling(c)' /\ ~ Busy(c)' /\ processed'[p][e] # "completed"
    BY <2>1, <2>3 DEF Handling, Busy
  <2> QED
    BY <1>0, <1>1, <1>2, <2>1, <2>2, <2>3, <2>8, <2>9, GroupTypes, WorkStep
<1> QED BY <1>0, <1>3, <1>4 DEF HandleRelease

\* A reclaimed claim leaves a free key, which its count allows for.
LEMMA ReclaimStep ==
  ASSUME Inv, NEW p \in Processes, ReclaimStale(p)
  PROVE  Inv'
<1>1. OutboxKept /\ LogKept /\ OutboxInv'
  <2>1. OutboxKept /\ LogKept
    BY GroupTypes, FaultType DEF ReclaimStale, OutboxKept, LogKept
  <2> QED BY <2>1, OutboxIdle DEF Inv, OutboxKept
<1>2. PICK stale \in SUBSET {e \in Events : processed[p][e] = "claimed"} :
        /\ processed' = [processed EXCEPT
             ![p] = [e \in Events |-> IF e \in stale THEN "none" ELSE @[e]]]
        /\ reclaimed' = [reclaimed EXCEPT
             ![p] = [e \in Events |-> IF e \in stale THEN @[e] + 1 ELSE @[e]]]
  BY DEF ReclaimStale
<1>3. UNCHANGED <<done, owner, committed, member, effects, passedBy>>
  BY DEF ReclaimStale
<1>4. ConsumerTypes
  BY DEF Inv
<1>5. /\ processed' \in [Processes -> [Events -> {"none", "claimed", "completed"}]]
      /\ reclaimed' \in [Processes -> [Events -> Nat]]
  BY <1>2, <1>4 DEF ConsumerTypes
<1>6. \A q \in Processes, e \in Events :
        IF q = p /\ e \in stale
          THEN /\ processed[q][e] = "claimed" /\ processed'[q][e] = "none"
               /\ reclaimed'[q][e] = reclaimed[q][e] + 1
          ELSE processed'[q][e] = processed[q][e] /\ reclaimed'[q][e] = reclaimed[q][e]
  BY <1>2, <1>4 DEF ConsumerTypes
<1>7. \A c \in Consumers : Handling(c) => Current(c)' = Current(c)
  BY <1>1, <1>3, HandlingHasRecord, CurrentStays
<1>8. FetchedIsThere' /\ CompletesAfterEffect' /\ ConsumerTypes'
  <2>1. FetchedIsThere'
    BY <1>1, <1>3 DEF Inv, ConsumerInv, FetchedIsThere, OutboxKept, Handling
  <2>2. CompletesAfterEffect'
    BY <1>3, <1>7 DEF Inv, ConsumerInv, CompletesAfterEffect, Handling
  <2> QED BY <1>3, <1>4, <1>5, <2>1, <2>2 DEF ConsumerTypes
<1>9. CompletedTookEffect'
  BY <1>1, <1>3, <1>6 DEF Inv, ConsumerInv, CompletedTookEffect, OutboxKept, Committed
<1>10. ClaimsAreAccounted'
  <2> SUFFICES ASSUME NEW q \in Processes, NEW e \in Events
               PROVE  done'[q][e] + Cardinality(AtWork(q, e)') + Unclaimed(q, e)'
                        <= 1 + reclaimed'[q][e]
    BY DEF ClaimsAreAccounted
  <2>1. AtWork(q, e)' \subseteq AtWork(q, e)
    BY <1>3, <1>7 DEF AtWork, Handling
  <2>2. CASE q = p /\ e \in stale
    <3>1. /\ done[q][e] \in Nat /\ reclaimed[q][e] \in Nat
          /\ done[q][e] + Cardinality(AtWork(q, e)) + Unclaimed(q, e) <= 1 + reclaimed[q][e]
      BY <1>4 DEF ConsumerTypes, Inv, ConsumerInv, ClaimsAreAccounted
    <3>2. Unclaimed(q, e) = 0 /\ Unclaimed(q, e)' = 1
      BY <1>6, <2>2 DEF Unclaimed
    <3>3. /\ Cardinality(AtWork(q, e)) \in Nat /\ Cardinality(AtWork(q, e)') \in Nat
          /\ Cardinality(AtWork(q, e)') <= Cardinality(AtWork(q, e))
      BY <2>1, WorkIsFinite, Counting
    <3> QED BY <1>3, <1>6, <2>2, <3>1, <3>2, <3>3
  <2>3. CASE ~ (q = p /\ e \in stale)
    BY <1>3, <1>6, <2>1, <2>3, AccountStays
  <2> QED BY <2>2, <2>3
<1> QED BY <1>1, <1>8, <1>9, <1>10 DEF Inv, ConsumerInv

\* A process that stops takes its store and its accounts with it.
LEMMA CrashStep ==
  ASSUME Inv, NEW p \in Processes, ProcessCrash(p)
  PROVE  Inv'
<1>1. OutboxKept /\ LogKept /\ OutboxInv'
  <2>1. OutboxKept /\ LogKept
    BY GroupTypes, FaultType DEF ProcessCrash, OutboxKept, LogKept
  <2> QED BY <2>1, OutboxIdle DEF Inv, OutboxKept
<1>2. /\ processed' = [processed EXCEPT ![p] = [e \in Events |-> "none"]]
      /\ done' = [done EXCEPT ![p] = NothingYet]
      /\ reclaimed' = [reclaimed EXCEPT ![p] = NothingYet]
      /\ UNCHANGED <<owner, committed, effects, passedBy>>
  BY DEF ProcessCrash
<1>3. ConsumerTypes /\ NothingYet \in [Events -> Nat]
  BY DEF Inv, NothingYet
<1>4. \A c \in Consumers :
        /\ Home[c] # p => member'[c] = member[c]
        /\ Home[c] = p => /\ member'[c] \in MemberStates /\ member'[c].pc = "poll"
                          /\ member'[c].todo = {} /\ member'[c].commit = {}
  BY GroupTypes DEF ProcessCrash, Polling, MemberStates
<1>5. ConsumerTypes'
  <2>1. member' \in [Consumers -> MemberStates]
    <3>1. member' = [c \in Consumers |-> member'[c]]
      BY DEF ProcessCrash
    <3>2. \A c \in Consumers : member'[c] \in MemberStates
      BY <1>3, <1>4 DEF ConsumerTypes
    <3> QED BY <3>1, <3>2
  <2>2. /\ processed' \in [Processes -> [Events -> {"none", "claimed", "completed"}]]
        /\ done' \in [Processes -> [Events -> Nat]]
        /\ reclaimed' \in [Processes -> [Events -> Nat]]
    BY <1>2, <1>3 DEF ConsumerTypes
  <2> QED BY <1>2, <1>3, <2>1, <2>2 DEF ConsumerTypes
<1>6. FetchedIsThere'
  BY <1>1, <1>4 DEF Inv, ConsumerInv, FetchedIsThere, OutboxKept, Handling
<1>7. \A c \in Consumers : Home[c] # p /\ Handling(c) => Current(c)' = Current(c)
  BY <1>1, <1>4, HandlingHasRecord, CurrentStays
<1>8. /\ \A e \in Events : /\ processed'[p][e] = "none" /\ done'[p][e] = 0
                           /\ reclaimed'[p][e] = 0
      /\ \A q \in Processes : q # p => /\ processed'[q] = processed[q] /\ done'[q] = done[q]
                                       /\ reclaimed'[q] = reclaimed[q]
  BY <1>2, <1>3 DEF ConsumerTypes, NothingYet
<1>9. CompletesAfterEffect'
  <2> SUFFICES ASSUME NEW c \in Consumers, member'[c].pc = "complete"
               PROVE  done'[Home[c]][Current(c)'] > 0
    BY DEF CompletesAfterEffect
  <2>1. Home[c] # p /\ member[c].pc = "complete" /\ Home[c] \in Processes
    BY <1>4, GroupAssumption
  <2>2. Current(c)' = Current(c) /\ done[Home[c]][Current(c)] > 0
    BY <1>7, <2>1 DEF Handling, Inv, ConsumerInv, CompletesAfterEffect
  <2> QED BY <1>8, <2>1, <2>2
<1>10. CompletedTookEffect'
  <2>1. \A q \in Processes, e \in Events : processed'[q][e] = "completed" => done'[q][e] > 0
    BY <1>8 DEF Inv, ConsumerInv, CompletedTookEffect
  <2>2. \A e \in Events : effects'[e] > 0 => Committed(e)'
    BY <1>1, <1>2 DEF Inv, ConsumerInv, CompletedTookEffect, OutboxKept, Committed
  <2> QED BY <2>1, <2>2 DEF CompletedTookEffect
<1>11. ClaimsAreAccounted'
  <2> SUFFICES ASSUME NEW q \in Processes, NEW e \in Events
               PROVE  done'[q][e] + Cardinality(AtWork(q, e)') + Unclaimed(q, e)'
                        <= 1 + reclaimed'[q][e]
    BY DEF ClaimsAreAccounted
  <2>1. CASE q = p
    <3>1. AtWork(q, e)' = {}
      BY <1>4, <2>1 DEF AtWork
    <3>2. Cardinality(AtWork(q, e)') = 0
      BY <3>1, FS_EmptySet
    <3>3. Unclaimed(q, e)' = 1
      BY <1>8, <2>1 DEF Unclaimed
    <3> QED BY <1>8, <2>1, <3>2, <3>3
  <2>2. CASE q # p
    <3>1. AtWork(q, e)' \subseteq AtWork(q, e)
      BY <1>4, <1>7, <2>2 DEF AtWork, Handling
    <3> QED BY <1>8, <2>2, <3>1, AccountStays
  <2> QED BY <2>1, <2>2
<1> QED BY <1>1, <1>5, <1>6, <1>9, <1>10, <1>11 DEF Inv, ConsumerInv

-----------------------------------------------------------------------------
(* The theorems.                                                           *)

\* Nothing written and nobody at work.
LEMMA DeliveryInit ==
  ASSUME Init
  PROVE  Inv
<1>1. OutboxInv
  BY OutboxInitInv DEF Init
<1>2. Polling(0) \in MemberStates /\ Polling(0).pc = "poll" /\ Polling(0).todo = {}
      /\ Polling(0).commit = {}
  BY DEF Polling, MemberStates
<1>3. \A c \in Consumers : member[c] = Polling(0)
  BY DEF Init
<1>4. ConsumerTypes
  BY <1>2 DEF Init, ConsumerTypes, NothingYet
<1>5. FetchedIsThere /\ CompletesAfterEffect
  BY <1>2, <1>3 DEF FetchedIsThere, CompletesAfterEffect, Handling
<1>6. ClaimsAreAccounted
  <2> SUFFICES ASSUME NEW p \in Processes, NEW e \in Events
               PROVE  done[p][e] + Cardinality(AtWork(p, e)) + Unclaimed(p, e)
                        <= 1 + reclaimed[p][e]
    BY DEF ClaimsAreAccounted
  <2>1. AtWork(p, e) = {}
    BY <1>2, <1>3 DEF AtWork
  <2>2. Cardinality(AtWork(p, e)) = 0
    BY <2>1, FS_EmptySet
  <2>3. done[p][e] = 0 /\ reclaimed[p][e] = 0 /\ Unclaimed(p, e) = 1
    BY DEF Init, NothingYet, Unclaimed
  <2> QED BY <2>2, <2>3
<1>7. CompletedTookEffect
  BY DEF Init, NothingYet, CompletedTookEffect
<1> QED BY <1>1, <1>4, <1>5, <1>6, <1>7 DEF Inv, ConsumerInv

\* What is on the topic stays, and what is committed too, whatever the outbox
\* does.
LEMMA OutboxMovesOn ==
  ASSUME Inv, OutboxNext
  PROVE  LogKept /\ changed \subseteq changed'
<1>1. log \in Seq(Events) /\ \A r \in Relays : relay[r].claims \subseteq Events
  BY DEF Inv, OutboxInv, OutboxTypeOK
<1>2. log' = log \/ \E e \in Events : log' = Append(log, e)
  BY <1>1 DEF OutboxNext, RelayStep, AppendOutboxTx, Commit, Rollback, ClaimOutbox, ClaimUnread,
     PublishOK, PublishFails, Unclaim, RelayCrash
<1>3. changed \subseteq changed'
  BY DEF OutboxNext, RelayStep, AppendOutboxTx, Commit, Rollback, ClaimOutbox, ClaimUnread,
     PublishOK, PublishFails, Unclaim, RelayCrash
<1> QED BY <1>1, <1>2, <1>3, AppendKeeps DEF LogKept

\* Every step keeps the invariant.
LEMMA DeliveryStep ==
  ASSUME Inv, [Next]_vars
  PROVE  Inv'
<1>1. CASE OutboxNext /\ UNCHANGED consumerVars
  BY <1>1, OutboxMovesOn, OutboxStep, ConsumersIdle DEF Inv
<1>2. CASE UNCHANGED vars
  <2>1. OutboxInv'
    BY <1>2, OutboxIdle DEF vars, outboxVars, Inv, OutboxInv, OutboxTypeOK
  <2> QED BY <1>2, <2>1, ConsumersIdle DEF vars, outboxVars, LogKept
<1> QED
  BY <1>1, <1>2, PollStep, CommitStep, SeenStep, ClaimKeyStep, StoreDownStep, HandlerOKStep,
     HandlerFailsStep, CompleteStep, ReleaseStep, RebalanceStep, ReclaimStep,
     CrashStep DEF Next, ConsumerStep

\* The invariant holds throughout, and with it the types.
THEOREM DeliveryInvariant == Spec => []Inv
BY DeliveryInit, DeliveryStep, PTL DEF Spec

\* Rows, relays, the topic and the poll loops keep their types.
THEOREM DeliveryTypeCorrect == Spec => []TypeOK
<1>1. Inv => TypeOK
  BY DEF Inv, OutboxInv, ConsumerTypes, MemberStates, TypeOK
<1> QED BY <1>1, DeliveryInvariant, PTL

\* AppendOutboxTx and the relays: the topic holds committed events only, and
\* a second copy of one only after a publish of it reported an error, through
\* any claims, crashes and unclaims of any number of relays.
THEOREM TopicIsAsCommitted == Spec => []PublishedAsCommitted
<1>1. Inv => PublishedAsCommitted
  BY DEF Inv, OutboxInv
<1> QED BY <1>1, DeliveryInvariant, PTL

\* HandleKey: while a process lives an event takes effect in it once, and
\* once more for each claim ReclaimStale dropped, however often the event is
\* published and delivered and however many members handle it; what is
\* recorded as completed had its effect.
THEOREM EffectsAreSingle == Spec => []DeliveryInv
<1>1. Inv => DeliveryInv
  <2> SUFFICES ASSUME Inv PROVE OncePerStore
    BY DEF Inv, ConsumerInv, DeliveryInv
  <2> SUFFICES ASSUME NEW p \in Processes, NEW e \in Events
               PROVE  done[p][e] <= 1 + reclaimed[p][e]
    BY DEF OncePerStore
  <2>1. done[p][e] + Cardinality(AtWork(p, e)) + Unclaimed(p, e) <= 1 + reclaimed[p][e]
    BY DEF Inv, ConsumerInv, ClaimsAreAccounted
  <2>2. done[p][e] \in Nat /\ reclaimed[p][e] \in Nat /\ Unclaimed(p, e) \in Nat
    BY DEF Inv, ConsumerTypes, Unclaimed
  <2>3. Cardinality(AtWork(p, e)) \in Nat
    BY WorkIsFinite
  <2> QED BY <2>1, <2>2, <2>3
<1> QED BY <1>1, DeliveryInvariant, PTL
=============================================================================
