-------------------------- MODULE FileOutboxProofs --------------------------
(***************************************************************************)
(* Proofs about the JSONL outbox for every set of events, batch limit and  *)
(* number of faults: the relay's checkpoint passes an unpublished record   *)
(* only under a number used before, and records first reach the bus in     *)
(* file order.                                                             *)
(***************************************************************************)
EXTENDS FileOutbox, FiniteSetTheorems, WellFoundedInduction, TLAPS

\* The least element of a set of naturals, as Min chooses it.
LEMMA MinIsLeast ==
  ASSUME NEW S \in SUBSET Nat, S # {}
  PROVE  Min(S) \in S /\ \A n \in S : Min(S) <= n
<1>1. \E x \in S : \A y \in S : ~(<<y, x>> \in OpToRel(<, Nat))
  BY NatLessThanWellFounded, WFMin
<1>2. PICK x \in S : \A y \in S : ~(<<y, x>> \in OpToRel(<, Nat))
  BY <1>1
<1>3. \A y \in S : x <= y
  <2>1. SUFFICES ASSUME NEW y \in S, y < x PROVE FALSE
    OBVIOUS
  <2>2. <<y, x>> \in OpToRel(<, Nat)
    BY <2>1 DEF OpToRel
  <2> QED BY <1>2, <2>2
<1> QED BY <1>3 DEF Min

\* The greatest element of a bounded set of naturals, as Max chooses it: the
\* least of its upper bounds.
LEMMA MaxIsGreatest ==
  ASSUME NEW S \in SUBSET Nat, S # {}, NEW b \in Nat, \A n \in S : n <= b
  PROVE  Max(S) \in S /\ \A n \in S : n <= Max(S)
<1> DEFINE Bounds == {k \in Nat : \A n \in S : n <= k}
<1> DEFINE k == Min(Bounds)
<1>1. k \in Bounds /\ \A j \in Bounds : k <= j
  BY MinIsLeast
<1> HIDE DEF k
<1>2. k \in S
  <2>1. SUFFICES ASSUME k \notin S PROVE FALSE
    OBVIOUS
  <2>2. \A n \in S : n <= k - 1
    BY <1>1, <2>1
  <2>3. k - 1 \in Nat
    <3>1. PICK n \in S : n <= k - 1
      BY <2>2
    <3>2. n \in Nat /\ k \in Nat
      BY <1>1
    <3> QED BY <3>1, <3>2
  <2>4. k - 1 \in Bounds
    BY <2>2, <2>3
  <2> QED BY <1>1, <2>4
<1> QED BY <1>1, <1>2 DEF Max

\* NewFileStore recovers a number no smaller than any in the file, and none
\* that was not given out.
LEMMA RecoveredCovers ==
  ASSUME TypeOK, CountersAgree
  PROVE  RecoveredSeq \in Nat /\ \A n \in DOMAIN file : n <= RecoveredSeq
<1>1. CASE DOMAIN file = {}
  BY <1>1 DEF RecoveredSeq
<1>2. CASE DOMAIN file # {}
  <2>1. DOMAIN file \in SUBSET Nat /\ seq \in Nat /\ \A n \in DOMAIN file : n <= seq
    BY DEF TypeOK, CountersAgree
  <2>2. Max(DOMAIN file) \in DOMAIN file /\ \A n \in DOMAIN file : n <= Max(DOMAIN file)
    BY <1>2, <2>1, MaxIsGreatest
  <2> QED BY <1>2, <2>1, <2>2 DEF RecoveredSeq
<1> QED BY <1>1, <1>2

\* Pending leaves no gap: with a record it returns every earlier one that
\* comes after the number asked for.
LEMMA PendingHasNoGap ==
  ASSUME TypeOK, NEW from \in Nat, NEW m \in Pending(from), NEW n \in DOMAIN file,
         from < n, n < m
  PROVE  n \in Pending(from)
<1> DEFINE Unread == {k \in DOMAIN file : k > from}
<1> DEFINE Upto(j) == {k \in Unread : k <= j}
<1>1. m \in Unread /\ Cardinality(Upto(m)) <= BatchLimit
  BY DEF Pending
<1>2. m \in Nat /\ n \in Nat /\ DOMAIN file \subseteq Nat
  BY <1>1 DEF TypeOK
<1>3. IsFiniteSet(Upto(m)) /\ Cardinality(Upto(m)) \in Nat
  <2>1. Upto(m) \in SUBSET Nat /\ \A k \in Upto(m) : k <= m
    BY <1>2
  <2>2. IsFiniteSet(Upto(m))
    BY <1>2, <2>1, FS_BoundedSetOfNaturals
  <2> QED BY <2>2, FS_CardinalityType
<1>4. Upto(n) \in SUBSET Upto(m)
  BY <1>2
<1>5. Cardinality(Upto(n)) <= Cardinality(Upto(m)) /\ Cardinality(Upto(n)) \in Nat
  BY <1>3, <1>4, FS_Subset, FS_CardinalityType
<1>6. Cardinality(Upto(n)) <= BatchLimit
  BY <1>1, <1>3, <1>5, OutboxAssumption
<1>7. n \in Unread
  BY <1>2 DEF TypeOK
<1> QED BY <1>6, <1>7 DEF Pending

-----------------------------------------------------------------------------
\* What the invariant says of a relay that has nothing in hand.
LEMMA RestIsFine ==
  Resting.pc = "idle" /\ DOMAIN Resting.batch = {} /\ Resting.last = 0
    /\ Broken.pc \in {"idle", "dead"} /\ DOMAIN Broken.batch = {} /\ Broken.last = 0
    /\ Resting = [pc |-> Resting.pc, batch |-> Resting.batch, from |-> Resting.from,
                  last |-> Resting.last]
    /\ Broken = [pc |-> Broken.pc, batch |-> Broken.batch, from |-> Broken.from,
                 last |-> Broken.last]
    /\ Resting.batch \in [DOMAIN Resting.batch -> Events]
    /\ Broken.batch \in [DOMAIN Broken.batch -> Events]
BY DEF Resting, Broken

\* An empty outbox satisfies the invariant.
LEMMA OutboxInit == Init => OutboxInv
<1>1. SUFFICES ASSUME Init PROVE OutboxInv
  OBVIOUS
<1>2. DOMAIN file = {} /\ file \in [DOMAIN file -> Events]
  BY <1>1 DEF Init
<1>3. relay = Resting /\ checkpoint = 0
  BY <1>1 DEF Init
<1>4. TypeOK
  <2>1. torn \in BOOLEAN /\ bare = 0 /\ swallowed = {}
    BY <1>1 DEF Init
  <2>2. seq \in Nat /\ checkpoint \in Nat /\ faults \in Nat
    BY <1>1 DEF Init
  <2>3. published \subseteq Events /\ tried \subseteq Events /\ acked \subseteq Events
    BY <1>1 DEF Init
  <2> QED BY <1>2, <1>3, <2>1, <2>2, <2>3, RestIsFine DEF TypeOK
<1>5. NothingSkipped /\ PassSkipsNothing
  BY <1>2, <1>3, RestIsFine DEF NothingSkipped, PassSkipsNothing
<1>6. CountersAgree
  BY <1>2, <1>3, RestIsFine DEF CountersAgree, Numbered
<1> QED BY <1>4, <1>5, <1>6 DEF OutboxInv

\* Bytes glued to the last line take a record from the file; if the relay had
\* it, its number is kept in mind.
LEMMA GlueKeeps ==
  ASSUME OutboxInv, Glue, torn' \in BOOLEAN, seq' = seq + 1,
         published' = published, checkpoint' = checkpoint, relay' = relay,
         tried' \subseteq Events, acked' \subseteq Events, faults' \in Nat
  PROVE  OutboxInv'
<1>1. /\ DOMAIN file' = DOMAIN file \ {bare}
      /\ \A n \in DOMAIN file' : file'[n] = file[n]
      /\ file' \in [DOMAIN file' -> Events]
      /\ bare' = 0
      /\ swallowed \subseteq swallowed' /\ swallowed' \subseteq Nat
  BY DEF Glue, Restrict, OutboxInv, TypeOK
<1>2. ASSUME NEW n \in Nat, Numbered(n), Reached(n) PROVE Numbered(n)'
  BY <1>1, <1>2 DEF Numbered, Glue
<1>3. ASSUME NEW n, Reissued(n) PROVE Reissued(n)'
  BY <1>1, <1>3 DEF Reissued
<1>4. TypeOK'
  BY <1>1 DEF OutboxInv, TypeOK
<1>5. NothingSkipped' /\ PassSkipsNothing'
  <2>1. NothingSkipped'
    BY <1>1, <1>3 DEF OutboxInv, NothingSkipped
  <2>2. PassSkipsNothing'
    BY <1>1, <1>3 DEF OutboxInv, PassSkipsNothing
  <2> QED BY <2>1, <2>2
<1>6. CountersAgree'
  <2>1. seq \in Nat /\ \A n \in DOMAIN file : n \in Nat /\ n <= seq
    BY DEF OutboxInv, TypeOK, CountersAgree
  <2>2. \A n \in DOMAIN file' : n <= seq'
    BY <1>1, <2>1
  <2>3. \A n \in DOMAIN relay.batch : n \in Nat /\ relay.last < n /\ n <= seq /\ Numbered(n)
    BY DEF OutboxInv, TypeOK, CountersAgree
  <2>4. \A n \in DOMAIN relay.batch : Numbered(n)'
    BY <1>2, <2>3 DEF Reached
  <2>5. Numbered(checkpoint)'
    <3>1. checkpoint \in Nat /\ Numbered(checkpoint)
      BY DEF OutboxInv, TypeOK, CountersAgree
    <3>2. Reached(checkpoint)
      BY <3>1 DEF Reached
    <3>3. \A n \in Nat : n = checkpoint => Numbered(n)'
      BY <1>2, <3>1, <3>2
    <3> QED BY <3>1, <3>3 DEF Numbered
  <2>6. relay.pc = "idle" \/ Numbered(relay.last)'
    <3>1. SUFFICES ASSUME relay.pc # "idle" PROVE Numbered(relay.last)'
      OBVIOUS
    <3>2. relay.last \in Nat /\ Numbered(relay.last)
      BY <3>1 DEF OutboxInv, TypeOK, CountersAgree
    <3>3. Reached(relay.last)
      BY <3>2 DEF Reached
    <3>4. \A n \in Nat : n = relay.last => Numbered(n)'
      BY <1>2, <3>2, <3>3
    <3> QED BY <3>2, <3>4 DEF Numbered
  <2>7. \A n \in DOMAIN relay.batch : n <= seq'
    BY <2>1, <2>3
  <2> QED BY <2>2, <2>3, <2>4, <2>5, <2>6, <2>7 DEF CountersAgree
<1> QED BY <1>4, <1>5, <1>6 DEF OutboxInv

\* A record written gets a number no record in the file has.  When checkpoint
\* or relay are past it, they stand at a record that was swallowed.
LEMMA RecordKeeps ==
  ASSUME OutboxInv, NEW e \in Events, file' = Put(file, seq + 1, e),
         bare' \in {bare, seq + 1}, torn' \in BOOLEAN, swallowed' = swallowed, seq' = seq + 1,
         published' = published, checkpoint' = checkpoint, relay' = relay,
         tried' \subseteq Events, acked' \subseteq Events, faults' \in Nat
  PROVE  OutboxInv'
<1>0. PICK s : s = seq + 1
  OBVIOUS
<1>1. seq \in Nat /\ s \in Nat /\ \A n \in DOMAIN file : n \in Nat /\ n <= seq
  BY <1>0 DEF OutboxInv, TypeOK, CountersAgree
<1>2. /\ DOMAIN file' = DOMAIN file \cup {s}
      /\ \A n \in DOMAIN file : file'[n] = file[n]
      /\ file'[s] = e
      /\ file' \in [DOMAIN file' -> Events]
  BY <1>0, <1>1 DEF Put, OutboxInv, TypeOK
<1>3. ASSUME NEW k \in Nat, Numbered(k), s <= k PROVE Reissued(s)'
  <2>1. k # 0 /\ k \notin DOMAIN file
    BY <1>0, <1>1, <1>3
  <2> QED BY <1>3, <2>1 DEF Numbered, Reissued
<1>4. \A n : Reissued(n) => Reissued(n)'
  BY DEF Reissued
<1>5. \A n : Numbered(n) => Numbered(n)'
  BY <1>2 DEF Numbered
<1>6. TypeOK'
  <2>1. DOMAIN file' \subseteq Nat \ {0} /\ bare' \in DOMAIN file' \cup {0} /\ seq' \in Nat
    BY <1>0, <1>1, <1>2 DEF OutboxInv, TypeOK
  <2> QED BY <1>2, <2>1 DEF OutboxInv, TypeOK
<1>7. NothingSkipped'
  <2>1. checkpoint \in Nat /\ Numbered(checkpoint)
    BY DEF OutboxInv, TypeOK, CountersAgree
  <2>2. s <= checkpoint => Reissued(s)'
    BY <1>3, <2>1
  <2> QED BY <1>2, <1>4, <2>2 DEF OutboxInv, NothingSkipped
<1>8. PassSkipsNothing'
  <2>1. SUFFICES ASSUME relay.pc \in {"publish", "save"}
                 PROVE  PassSkipsNothing'
    BY DEF PassSkipsNothing
  <2>2. relay.last \in Nat /\ Numbered(relay.last)
    BY <2>1 DEF OutboxInv, TypeOK, CountersAgree
  <2>3. s <= relay.last => Reissued(s)'
    BY <1>3, <2>2
  <2>4. \A n \in DOMAIN file' : n <= relay.last => file'[n] \in published \/ Reissued(n)'
    BY <1>2, <1>4, <2>1, <2>3 DEF OutboxInv, PassSkipsNothing
  <2>5. \A m \in DOMAIN relay.batch : m \in Nat /\ m <= seq
    BY DEF OutboxInv, TypeOK, CountersAgree
  <2>6. relay.pc = "publish" =>
          \A n \in DOMAIN file' : \A m \in DOMAIN relay.batch :
            relay.last < n /\ n <= m => n \in DOMAIN relay.batch /\ relay.batch[n] = file'[n]
    BY <1>0, <1>1, <1>2, <2>1, <2>5 DEF OutboxInv, PassSkipsNothing
  <2> QED BY <2>4, <2>6 DEF PassSkipsNothing
<1>9. CountersAgree'
  <2>1. \A n \in DOMAIN file' : n <= seq'
    BY <1>0, <1>1, <1>2
  <2>2. \A n \in DOMAIN relay.batch : relay.last < n /\ n <= seq' /\ Numbered(n)'
    BY <1>1, <1>5 DEF OutboxInv, TypeOK, CountersAgree
  <2>3. Numbered(checkpoint)' /\ (relay.pc = "idle" \/ Numbered(relay.last)')
    BY <1>2 DEF OutboxInv, CountersAgree, Numbered
  <2> QED BY <2>1, <2>2, <2>3 DEF CountersAgree
<1> QED BY <1>6, <1>7, <1>8, <1>9 DEF OutboxInv

\* So does a line, whole or in part.
LEMMA WriteKeeps ==
  ASSUME OutboxInv, NEW e \in Events, WriteLine(e) \/ WritePart(e), seq' = seq + 1,
         published' = published, checkpoint' = checkpoint, relay' = relay,
         tried' \subseteq Events, acked' \subseteq Events, faults' \in Nat
  PROVE  OutboxInv'
<1>1. torn' \in BOOLEAN
  BY DEF WriteLine, WritePart
<1>2. CASE Glue
  BY <1>1, <1>2, GlueKeeps
<1>3. CASE file' = Put(file, seq + 1, e) /\ bare' \in {bare, seq + 1} /\ swallowed' = swallowed
  BY <1>1, <1>3, RecordKeeps
<1> QED BY <1>2, <1>3 DEF WriteLine, WritePart

\* The record at the head of the batch is the first the pass has not done.
LEMMA HeadOfBatch ==
  ASSUME OutboxInv, DOMAIN relay.batch # {}, relay.pc = "publish"
  PROVE  /\ NextRecord \in DOMAIN relay.batch /\ NextRecord \in Nat
         /\ NextEvent \in Events
         /\ relay.last < NextRecord
         /\ \A n \in DOMAIN relay.batch : n # NextRecord => NextRecord < n
         /\ \A n \in DOMAIN file : n < NextRecord => file[n] \in published \/ Reissued(n)
         /\ NextRecord \in DOMAIN file => file[NextRecord] = NextEvent
<1>1. DOMAIN relay.batch \in SUBSET Nat
  BY DEF OutboxInv, TypeOK
<1>2. NextRecord \in DOMAIN relay.batch /\ \A n \in DOMAIN relay.batch : NextRecord <= n
  BY <1>1, MinIsLeast DEF NextRecord
<1> HIDE DEF NextRecord
<1>3. NextRecord \in Nat /\ relay.last \in Nat /\ relay.last < NextRecord
  BY <1>1, <1>2 DEF OutboxInv, TypeOK, CountersAgree
<1>4. NextEvent \in Events
  BY <1>2 DEF NextEvent, OutboxInv, TypeOK
<1>5. ASSUME NEW n \in DOMAIN file, relay.last < n, n <= NextRecord
      PROVE  n = NextRecord /\ relay.batch[n] = file[n]
  <2>1. n \in DOMAIN relay.batch /\ relay.batch[n] = file[n]
    BY <1>2, <1>5 DEF OutboxInv, PassSkipsNothing
  <2> QED BY <1>1, <1>2, <1>5, <2>1
<1>6. ASSUME NEW n \in DOMAIN file, n < NextRecord
      PROVE  file[n] \in published \/ Reissued(n)
  <2>1. n \in Nat
    BY DEF OutboxInv, TypeOK
  <2>2. n <= relay.last
    BY <1>3, <1>5, <1>6, <2>1
  <2> QED BY <2>2 DEF OutboxInv, PassSkipsNothing
<1>7. NextRecord \in DOMAIN file => file[NextRecord] = NextEvent
  BY <1>3, <1>5 DEF NextEvent
<1>8. \A n \in DOMAIN relay.batch : n # NextRecord => NextRecord < n
  BY <1>1, <1>2
<1> QED BY <1>2, <1>3, <1>4, <1>6, <1>7, <1>8

\* A relay that drops its pass keeps the invariant.
LEMMA RestKeeps ==
  ASSUME OutboxInv, relay' \in {Resting, Broken},
         UNCHANGED <<twin, fileVars, seq, tried, acked>>,
         Numbered(checkpoint'), checkpoint' \in Nat,
         \A n \in DOMAIN file : n <= checkpoint' => file[n] \in published \/ Reissued(n),
         published \subseteq published', published' \subseteq Events, faults' \in Nat
  PROVE  OutboxInv'
<1>1. /\ relay'.pc \in {"idle", "dead"} /\ DOMAIN relay'.batch = {} /\ relay'.last = 0
      /\ relay'.batch \in [DOMAIN relay'.batch -> Events]
      /\ relay' = [pc |-> relay'.pc, batch |-> relay'.batch, from |-> relay'.from,
                   last |-> relay'.last]
  <2>1. CASE relay' = Resting
    BY <2>1, RestIsFine
  <2>2. CASE relay' = Broken
    BY <2>2, RestIsFine
  <2> QED BY <2>1, <2>2
<1>2. UNCHANGED <<file, torn, bare, swallowed, seq, tried, acked>>
  BY DEF fileVars
<1>3. TypeOK'
  BY <1>1, <1>2 DEF OutboxInv, TypeOK
<1>4. NothingSkipped' /\ PassSkipsNothing'
  BY <1>1, <1>2 DEF NothingSkipped, PassSkipsNothing, Reissued
<1>5. CountersAgree'
  BY <1>1, <1>2 DEF OutboxInv, CountersAgree, Numbered
<1> QED BY <1>3, <1>4, <1>5 DEF OutboxInv

\* A pass under way has done everything up to its last record.
LEMMA GiveUpKeeps ==
  ASSUME OutboxInv, relay.pc = "publish", GiveUpBatch,
         UNCHANGED <<twin, fileVars, seq, checkpoint, tried, acked>>,
         published \subseteq published', published' \subseteq Events, faults' \in Nat
  PROVE  OutboxInv'
<1>1. CASE relay' = [relay EXCEPT !.pc = "save", !.batch = <<>>]
  <2>0. relay' = [pc |-> "save", batch |-> Resting.batch, from |-> relay.from,
                  last |-> relay.last]
    BY <1>1 DEF Resting, OutboxInv, TypeOK
  <2>1. /\ relay'.pc = "save" /\ DOMAIN relay'.batch = {} /\ relay'.last = relay.last
        /\ relay'.batch \in [DOMAIN relay'.batch -> Events]
        /\ relay' = [pc |-> relay'.pc, batch |-> relay'.batch, from |-> relay'.from,
                     last |-> relay'.last]
    BY <2>0, RestIsFine
  <2>2. UNCHANGED <<file, torn, bare, swallowed, seq, checkpoint, tried, acked>>
    BY DEF fileVars
  <2>3. TypeOK'
    BY <2>1, <2>2 DEF OutboxInv, TypeOK
  <2>4. NothingSkipped' /\ PassSkipsNothing'
    BY <2>1, <2>2 DEF OutboxInv, NothingSkipped, PassSkipsNothing, Reissued
  <2>5. CountersAgree'
    BY <2>1, <2>2 DEF OutboxInv, CountersAgree, Numbered
  <2> QED BY <2>3, <2>4, <2>5 DEF OutboxInv
<1>2. CASE relay' = Resting
  <2>1. checkpoint \in Nat /\ Numbered(checkpoint) /\ NothingSkipped
    BY DEF OutboxInv, TypeOK, CountersAgree
  <2> QED BY <1>2, <2>1, RestKeeps DEF NothingSkipped
<1> QED BY <1>1, <1>2 DEF GiveUpBatch

\* Every append, relay step and crash keeps the invariant.
LEMMA OutboxStep == OutboxInv /\ [Next]_vars => OutboxInv'
<1>1. SUFFICES ASSUME OutboxInv, [Next]_vars PROVE OutboxInv'
  OBVIOUS
<1> USE <1>1
<1>0. checkpoint \in Nat /\ Numbered(checkpoint) /\ NothingSkipped /\ published \subseteq Events
  BY DEF OutboxInv, TypeOK, CountersAgree
<1>2. ASSUME NEW e \in Events, Append(e) PROVE OutboxInv'
  <2>1. tried' \subseteq Events /\ acked' \subseteq Events /\ faults' \in Nat
    BY <1>2 DEF Append, Number, OutboxInv, TypeOK
  <2> QED BY <1>2, <2>1, WriteKeeps DEF Append, Number
<1>3. ASSUME NEW e \in Events, AppendUnsynced(e) PROVE OutboxInv'
  <2>1. tried' \subseteq Events /\ acked' \subseteq Events /\ faults' \in Nat
    BY <1>3 DEF AppendUnsynced, Number, Fault, OutboxInv, TypeOK
  <2> QED BY <1>3, <2>1, WriteKeeps DEF AppendUnsynced, Number
<1>4. ASSUME NEW e \in Events, AppendFails(e) PROVE OutboxInv'
  <2>1. /\ tried' \subseteq Events /\ acked' \subseteq Events /\ faults' \in Nat
        /\ seq' = seq + 1 /\ UNCHANGED <<checkpoint, relay, published>>
    BY <1>4 DEF AppendFails, Number, Fault, OutboxInv, TypeOK
  <2>2. CASE WritePart(e)
    BY <2>1, <2>2, WriteKeeps
  <2>3. CASE UNCHANGED fileVars
    <3>1. UNCHANGED <<file, torn, bare, swallowed>>
      BY <2>3 DEF fileVars
    <3>2. seq \in Nat /\ \A n \in DOMAIN file \cup DOMAIN relay.batch : n \in Nat /\ n <= seq
      BY DEF OutboxInv, TypeOK, CountersAgree
    <3>3. TypeOK'
      BY <2>1, <3>1, <3>2 DEF OutboxInv, TypeOK
    <3>4. NothingSkipped' /\ PassSkipsNothing'
      BY <2>1, <3>1 DEF OutboxInv, NothingSkipped, PassSkipsNothing, Reissued
    <3>5. CountersAgree'
      BY <2>1, <3>1, <3>2 DEF OutboxInv, CountersAgree, Numbered
    <3> QED BY <3>3, <3>4, <3>5 DEF OutboxInv
  <2> QED BY <1>4, <2>2, <2>3 DEF AppendFails
<1>5. CASE ReadPending
  <2>1. PICK from \in {0, checkpoint} :
          relay' = [pc |-> "publish", batch |-> Restrict(file, Pending(from)),
                    from |-> from, last |-> from]
    BY <1>5 DEF ReadPending
  <2>2. from \in Nat /\ Numbered(from) /\ from <= checkpoint
    BY <1>0, <2>1 DEF Numbered
  <2>3. /\ UNCHANGED <<file, torn, bare, swallowed, seq, checkpoint, published, tried, acked>>
        /\ faults' \in Nat
    BY <1>5 DEF ReadPending, fileVars, Fault, OutboxInv, TypeOK
  <2>4. /\ Pending(from) \subseteq DOMAIN file
        /\ \A n \in Pending(from) : n \in Nat /\ from < n /\ n <= seq
    BY <2>2 DEF Pending, OutboxInv, TypeOK, CountersAgree
  <2>5. /\ relay'.pc = "publish" /\ DOMAIN relay'.batch = Pending(from) /\ relay'.last = from
        /\ \A n \in Pending(from) : relay'.batch[n] = file[n]
        /\ relay' = [pc |-> relay'.pc, batch |-> relay'.batch, from |-> relay'.from,
                     last |-> relay'.last]
        /\ relay'.batch = [n \in Pending(from) |-> file[n]]
    BY <2>1 DEF Restrict
  <2>6. relay'.batch \in [DOMAIN relay'.batch -> Events]
    BY <2>4, <2>5 DEF OutboxInv, TypeOK
  <2>7. TypeOK'
    BY <2>2, <2>3, <2>4, <2>5, <2>6 DEF OutboxInv, TypeOK
  <2>8. \A n \in DOMAIN file : \A m \in Pending(from) :
          from < n /\ n <= m => n \in Pending(from)
    <3>1. SUFFICES ASSUME NEW n \in DOMAIN file, NEW m \in Pending(from), from < n, n <= m
                   PROVE  n \in Pending(from)
      OBVIOUS
    <3>2. n = m \/ n < m
      BY <2>4, <3>1 DEF OutboxInv, TypeOK
    <3> QED BY <2>2, <3>1, <3>2, PendingHasNoGap DEF OutboxInv
  <2>9. PassSkipsNothing'
    <3>1. \A n \in DOMAIN file : n <= from => n <= checkpoint
      BY <1>0, <2>2 DEF OutboxInv, TypeOK
    <3> QED BY <2>3, <2>5, <2>8, <3>1 DEF OutboxInv, NothingSkipped, PassSkipsNothing, Reissued
  <2>10. NothingSkipped'
    BY <2>3 DEF OutboxInv, NothingSkipped, Reissued
  <2>11. CountersAgree'
    BY <2>2, <2>3, <2>4, <2>5 DEF OutboxInv, CountersAgree, Numbered
  <2> QED BY <2>7, <2>9, <2>10, <2>11 DEF OutboxInv
<1>6. CASE PublishOK
  <2>1. relay.pc = "publish" /\ DOMAIN relay.batch # {}
    BY <1>6 DEF PublishOK
  <2> DEFINE h == NextRecord
  <2>2. /\ h \in DOMAIN relay.batch /\ h \in Nat /\ relay.last < h /\ NextEvent \in Events
        /\ \A n \in DOMAIN relay.batch : n # h => h < n
        /\ \A n \in DOMAIN file : n < h => file[n] \in published \/ Reissued(n)
        /\ h \in DOMAIN file => file[h] = NextEvent
    BY <2>1, HeadOfBatch
  <2>3. /\ relay' = [relay EXCEPT !.batch = Restrict(@, DOMAIN @ \ {h}), !.last = h]
        /\ published' = published \cup {NextEvent}
        /\ UNCHANGED <<file, torn, bare, swallowed, seq, checkpoint, tried, acked, faults>>
    BY <1>6 DEF PublishOK, fileVars
  <2> HIDE DEF h
  <2>4. /\ relay'.pc = "publish" /\ relay'.last = h
        /\ relay'.batch = Restrict(relay.batch, DOMAIN relay.batch \ {h})
        /\ relay' = [pc |-> relay'.pc, batch |-> relay'.batch, from |-> relay'.from,
                     last |-> relay'.last]
    BY <2>1, <2>3 DEF OutboxInv, TypeOK
  <2>5. /\ DOMAIN relay'.batch = DOMAIN relay.batch \ {h}
        /\ \A n \in DOMAIN relay'.batch : relay'.batch[n] = relay.batch[n]
        /\ relay'.batch \in [DOMAIN relay'.batch -> Events]
    BY <2>4 DEF Restrict, OutboxInv, TypeOK
  <2>6. TypeOK'
    BY <2>2, <2>3, <2>4, <2>5 DEF OutboxInv, TypeOK
  <2>7. NothingSkipped'
    BY <2>3 DEF OutboxInv, NothingSkipped, Reissued
  <2>8. CountersAgree'
    BY <2>2, <2>3, <2>4, <2>5 DEF OutboxInv, CountersAgree, Numbered
  <2>9. PassSkipsNothing'
    <3>1. DOMAIN file \subseteq Nat /\ DOMAIN relay.batch \subseteq Nat /\ relay.last \in Nat
      BY DEF OutboxInv, TypeOK
    <3>2. \A n \in DOMAIN file : n <= h => file[n] \in published' \/ Reissued(n)
      BY <2>2, <2>3, <3>1
    <3>3. \A n \in DOMAIN file : \A m \in DOMAIN relay'.batch :
            h < n /\ n <= m => n \in DOMAIN relay'.batch /\ relay'.batch[n] = file[n]
      BY <2>1, <2>2, <2>5, <3>1 DEF OutboxInv, PassSkipsNothing
    <3> QED BY <2>3, <2>4, <3>2, <3>3 DEF PassSkipsNothing, Reissued
  <2> QED BY <2>6, <2>7, <2>8, <2>9 DEF OutboxInv
<1>7. CASE PublishFails
  <2>1. relay.pc = "publish" /\ DOMAIN relay.batch # {}
    BY <1>7 DEF PublishFails
  <2>2. NextEvent \in Events
    BY <2>1, HeadOfBatch
  <2>3. published \subseteq published' /\ published' \subseteq Events /\ faults' \in Nat
    BY <1>7, <2>2 DEF PublishFails, Fault, OutboxInv, TypeOK
  <2> QED BY <1>7, <2>1, <2>3, GiveUpKeeps DEF PublishFails
<1>8. CASE BatchDone
  <2>1. /\ relay'.pc = "save" /\ relay'.batch = relay.batch /\ relay'.last = relay.last
        /\ relay' = [pc |-> relay'.pc, batch |-> relay'.batch, from |-> relay'.from,
                     last |-> relay'.last]
    BY <1>8 DEF BatchDone, OutboxInv, TypeOK
  <2>2. /\ UNCHANGED <<file, torn, bare, swallowed, seq, checkpoint, published, tried, acked, faults>>
        /\ relay.pc = "publish"
    BY <1>8 DEF BatchDone, fileVars
  <2>3. TypeOK'
    BY <2>1, <2>2 DEF OutboxInv, TypeOK
  <2>4. NothingSkipped' /\ PassSkipsNothing'
    BY <2>1, <2>2 DEF OutboxInv, NothingSkipped, PassSkipsNothing, Reissued
  <2>5. CountersAgree'
    BY <2>1, <2>2 DEF OutboxInv, CountersAgree, Numbered
  <2> QED BY <2>3, <2>4, <2>5 DEF OutboxInv
<1>9. CASE SaveCheckpoint
  <2>1. CASE checkpoint' = relay.last /\ relay' = Resting /\ UNCHANGED faults
    <3>1. relay.last \in Nat /\ Numbered(relay.last) /\ faults' \in Nat
      BY <1>9, <2>1 DEF SaveCheckpoint, OutboxInv, TypeOK, CountersAgree
    <3>2. \A n \in DOMAIN file : n <= relay.last => file[n] \in published \/ Reissued(n)
      BY <1>9 DEF SaveCheckpoint, OutboxInv, PassSkipsNothing
    <3> QED BY <1>0, <1>9, <2>1, <3>1, <3>2, RestKeeps DEF SaveCheckpoint, Numbered
  <2>2. CASE Fault /\ relay' = Broken /\ UNCHANGED checkpoint
    <3>1. faults' \in Nat
      BY <2>2 DEF Fault, OutboxInv, TypeOK
    <3> QED BY <1>0, <1>9, <2>2, <3>1, RestKeeps DEF SaveCheckpoint, NothingSkipped, Numbered
  <2> QED BY <1>9, <2>1, <2>2 DEF SaveCheckpoint
<1>10. CASE Crash
  <2>1. RecoveredSeq \in Nat /\ \A n \in DOMAIN file : n <= RecoveredSeq
    BY RecoveredCovers DEF OutboxInv
  <2>2. /\ UNCHANGED <<file, torn, bare, swallowed, checkpoint, published, tried, acked>>
        /\ seq' = RecoveredSeq /\ relay' = Resting /\ faults' \in Nat
    BY <1>10 DEF Crash, Fault, fileVars, OutboxInv, TypeOK
  <2> HIDE DEF RecoveredSeq
  <2>3. TypeOK'
    BY <2>1, <2>2, RestIsFine DEF OutboxInv, TypeOK
  <2>4. NothingSkipped' /\ PassSkipsNothing'
    BY <2>2, RestIsFine DEF OutboxInv, NothingSkipped, PassSkipsNothing, Reissued
  <2>5. CountersAgree'
    BY <2>1, <2>2, RestIsFine DEF OutboxInv, CountersAgree, Numbered
  <2> QED BY <2>3, <2>4, <2>5 DEF OutboxInv
<1>11. CASE UNCHANGED vars
  BY <1>11 DEF vars, fileVars, OutboxInv, TypeOK, NothingSkipped, PassSkipsNothing,
               CountersAgree, Reissued, Numbered
<1>12. CASE ReadFails
  <2>1. faults' \in Nat
    BY <1>12 DEF ReadFails, Fault, OutboxInv, TypeOK
  <2> QED BY <1>0, <1>12, <2>1, RestKeeps DEF ReadFails, NothingSkipped, Numbered
<1> QED
  BY <1>2, <1>3, <1>4, <1>5, <1>6, <1>7, <1>8, <1>9, <1>10, <1>11, <1>12 DEF Next, RelayStep

-----------------------------------------------------------------------------
\* OutboxInv, the strengthening of NothingSkipped by what a pass under way has
\* done and where the counters stand, holds throughout.
THEOREM OutboxInvariant == Spec => []OutboxInv
BY OutboxInit, OutboxStep, PTL DEF Spec

\* The relay skips a record only under a number that a swallowed line had
\* used: all else the checkpoint has passed was published, through torn
\* writes, failed publishes, lost checkpoints and crashes.
THEOREM CheckpointSkipsNothing == Spec => []NothingSkipped
<1>1. OutboxInv => NothingSkipped
  BY DEF OutboxInv
<1> QED BY <1>1, OutboxInvariant, PTL

-----------------------------------------------------------------------------
\* An event stands in the file once, as every append is of an event not tried
\* before, and a record in the relay's hands stands there under no other number.
EventsOnce ==
  /\ \A n \in DOMAIN file : file[n] \in tried
  /\ \A n, m \in DOMAIN file : file[n] = file[m] => n = m
  /\ \A k \in DOMAIN relay.batch : relay.batch[k] \in tried
  /\ \A k \in DOMAIN relay.batch, n \in DOMAIN file : file[n] = relay.batch[k] => n = k

\* EventsOnce is inductive given OutboxInv.
LEMMA EventsOnceStep == OutboxInv /\ EventsOnce /\ [Next]_vars => EventsOnce'
<1>1. SUFFICES ASSUME OutboxInv, EventsOnce, [Next]_vars PROVE EventsOnce'
  OBVIOUS
<1>2. ASSUME NEW e \in Events, Number(e), WriteLine(e) \/ WritePart(e), UNCHANGED relay
      PROVE  EventsOnce'
  <2>1. e \notin tried /\ tried' = tried \cup {e}
    BY <1>2 DEF Number
  <2>2. CASE Glue
    <3>1. /\ DOMAIN file' \subseteq DOMAIN file
          /\ \A n \in DOMAIN file' : file'[n] = file[n]
      BY <2>2 DEF Glue, Restrict
    <3> QED BY <1>1, <1>2, <2>1, <3>1 DEF EventsOnce
  <2>3. CASE file' = Put(file, seq + 1, e)
    <3>1. seq + 1 \notin DOMAIN file
      BY <1>1 DEF OutboxInv, TypeOK, CountersAgree
    <3>2. /\ DOMAIN file' = DOMAIN file \cup {seq + 1}
          /\ file'[seq + 1] = e
          /\ \A n \in DOMAIN file : file'[n] = file[n]
      BY <2>3, <3>1 DEF Put
    <3> QED BY <1>1, <1>2, <2>1, <3>2 DEF EventsOnce
  <2> QED BY <1>2, <2>2, <2>3 DEF WriteLine, WritePart
<1>3. ASSUME file' = file, tried \subseteq tried',
             \A k \in DOMAIN relay'.batch :
               k \in DOMAIN relay.batch /\ relay'.batch[k] = relay.batch[k]
      PROVE  EventsOnce'
  BY <1>1, <1>3 DEF EventsOnce
<1>4. ASSUME NEW e \in Events, Append(e) \/ AppendFails(e) \/ AppendUnsynced(e)
      PROVE  EventsOnce'
  <2>1. UNCHANGED relay /\ Number(e)
    BY <1>4 DEF Append, AppendFails, AppendUnsynced
  <2>2. CASE WriteLine(e) \/ WritePart(e)
    BY <1>2, <2>1, <2>2
  <2>3. CASE UNCHANGED fileVars
    BY <1>3, <2>1, <2>3 DEF fileVars, Number
  <2> QED BY <1>4, <2>2, <2>3 DEF Append, AppendFails, AppendUnsynced
<1>5. CASE ReadPending
  <2>1. PICK from \in {0, checkpoint} :
          relay' = [pc |-> "publish", batch |-> Restrict(file, Pending(from)),
                    from |-> from, last |-> from]
    BY <1>5 DEF ReadPending
  <2>2. Pending(from) \subseteq DOMAIN file
    BY DEF Pending
  <2>3. /\ DOMAIN relay'.batch \subseteq DOMAIN file
        /\ \A k \in DOMAIN relay'.batch : relay'.batch[k] = file[k]
    BY <2>1, <2>2 DEF Restrict
  <2>4. UNCHANGED <<file, tried>>
    BY <1>5 DEF ReadPending, fileVars
  <2> QED BY <1>1, <2>3, <2>4 DEF EventsOnce
<1>6. ASSUME relay' \in {Resting, Broken} \/ DOMAIN relay'.batch = {}, file' = file, tried' = tried
      PROVE  EventsOnce'
  <2>1. DOMAIN relay'.batch = {}
    BY <1>6, RestIsFine
  <2> QED BY <1>3, <1>6, <2>1
<1>7. CASE PublishOK
  <2>1. /\ relay' = [relay EXCEPT !.batch = Restrict(@, DOMAIN @ \ {NextRecord}),
                                  !.last = NextRecord]
        /\ UNCHANGED <<file, tried>>
    BY <1>7 DEF PublishOK, fileVars
  <2>2. relay'.batch = Restrict(relay.batch, DOMAIN relay.batch \ {NextRecord})
    BY <1>1, <2>1 DEF OutboxInv, TypeOK
  <2>3. \A k \in DOMAIN relay'.batch :
          k \in DOMAIN relay.batch /\ relay'.batch[k] = relay.batch[k]
    BY <2>2 DEF Restrict
  <2> QED BY <1>3, <2>1, <2>3
<1>8. CASE PublishFails
  <2>1. GiveUpBatch /\ UNCHANGED <<file, tried>>
    BY <1>8 DEF PublishFails, fileVars
  <2>2. relay' = Resting \/ DOMAIN relay'.batch = {}
    <3>1. CASE relay' = [relay EXCEPT !.pc = "save", !.batch = <<>>]
      <4>1. relay'.batch = <<>>
        BY <1>1, <3>1 DEF OutboxInv, TypeOK
      <4> QED BY <4>1
    <3> QED BY <2>1, <3>1 DEF GiveUpBatch
  <2> QED BY <1>6, <2>1, <2>2
<1>9. CASE BatchDone
  <2>1. relay' = [relay EXCEPT !.pc = "save"] /\ UNCHANGED <<file, tried>>
    BY <1>9 DEF BatchDone, fileVars
  <2>2. relay'.batch = relay.batch
    BY <1>1, <2>1 DEF OutboxInv, TypeOK
  <2> QED BY <1>3, <2>1, <2>2
<1>10. ASSUME ReadFails \/ SaveCheckpoint \/ Crash PROVE EventsOnce'
  <2>1. relay' \in {Resting, Broken} /\ UNCHANGED <<file, tried>>
    BY <1>10 DEF ReadFails, SaveCheckpoint, Crash, fileVars
  <2> QED BY <1>6, <2>1
<1>11. CASE UNCHANGED vars
  BY <1>3, <1>11 DEF vars, fileVars
<1> QED BY <1>1, <1>4, <1>5, <1>7, <1>8, <1>9, <1>10, <1>11 DEF Next, RelayStep

\* Records first reach the bus in file order.
THEOREM FirstPublishedInOrder == Spec => PublishedInOrder
<1> DEFINE Step ==
      \A n \in DOMAIN file : \A m \in DOMAIN file :
        n < m /\ file[m] \in published' \ published =>
          file[n] \in published \/ Reissued(n)
<1>1. Init => EventsOnce
  BY RestIsFine DEF Init, EventsOnce
<1>2. OutboxInv /\ EventsOnce /\ [Next]_vars => [Step]_vars
  <2>1. SUFFICES ASSUME OutboxInv, EventsOnce, Next,
                        NEW n \in DOMAIN file, NEW m \in DOMAIN file,
                        n < m, file[m] \in published', file[m] \notin published
                 PROVE  file[n] \in published \/ Reissued(n)
    OBVIOUS
  <2>2. relay.pc = "publish" /\ DOMAIN relay.batch # {} /\ file[m] = NextEvent
    BY <2>1 DEF Next, Append, AppendFails, AppendUnsynced, RelayStep, ReadPending, ReadFails,
                PublishOK, PublishFails, BatchDone, SaveCheckpoint, Crash
  <2>3. /\ NextRecord \in DOMAIN relay.batch
        /\ \A k \in DOMAIN file : k < NextRecord => file[k] \in published \/ Reissued(k)
    BY <2>1, <2>2, HeadOfBatch
  <2>4. m = NextRecord
    BY <2>1, <2>2, <2>3 DEF EventsOnce, NextEvent
  <2> QED BY <2>1, <2>3, <2>4
<1>3. Spec => []EventsOnce
  BY <1>1, EventsOnceStep, OutboxInvariant, PTL DEF Spec
<1> QED BY <1>2, <1>3, OutboxInvariant, PTL DEF Spec, PublishedInOrder
=============================================================================
