------------------------ MODULE LedgerServiceProofs -------------------------
(***************************************************************************)
(* Proofs about LedgerService, for any movements, handlers, process lives  *)
(* and failing writes.  Two arguments.  The snapshot: whoever changes      *)
(* memory leaves a mark, the mark is handed from the client's buffer to a  *)
(* goroutine to the flag, and the flusher clears the flag before it reads. *)
(* The events: an event is at every moment in one place, and a change of   *)
(* this life is never made twice, since stages only advance.               *)
(***************************************************************************)
EXTENDS LedgerService, FiniteSetTheorems, SequenceTheorems, TLAPS

Records == [pc : {"idle", "hooks", "mark", "emit"},
            change : BOOLEAN, events : Seq(Event), notices : Seq(Event)]

\* The types, with what the flusher holds and the room for another life.
Types ==
  /\ TypeOK
  /\ flusher = [pc |-> flusher.pc, snap |-> flusher.snap]
  /\ flusher.pc = "snapped" => flusher.snap \in [Movements -> Protocol!Stages]
  /\ process # "up" => life < MaxLives

\* Every change of memory is marked until a flush has read it.
MarkInv ==
  /\ NoLostChange
  /\ process # "up" => flusher.pc = "idle"
  /\ \A t \in Threads : thread[t].change => thread[t].pc = "mark"

Carried(t) == Range(thread[t].events)

\* An event has one place inside the process, or has left it.
PlaceInv ==
  /\ IsInjective(pendingEvents) /\ Range(pendingEvents) \subseteq applied
  /\ \A t \in Threads :
       /\ IsInjective(thread[t].events) /\ Carried(t) \subseteq applied
       /\ Carried(t) \cap Range(pendingEvents) = {}
       /\ thread[t].pc \in {"idle", "hooks"} => thread[t].events = <<>>
       /\ \A e \in Range(thread[t].notices) : e.stage = "expired"
       /\ \A u \in Threads : u # t => Carried(t) \cap Carried(u) = {}

Left == {e \in Event : outbox[e] > 0} \cup dropped

LeftInv ==
  /\ Left \cap Range(pendingEvents) = {}
  /\ \A t \in Threads : Left \cap Carried(t) = {}
  /\ \A e \in Left : e.stage # "expired" =>
       /\ e \in applied
       /\ outbox[e] = IF e \in dropped THEN 0 ELSE 1

\* Memory has come at least as far as the change.
Reached(e) ==
  IF e.stage = "open" THEN mem[e.movement] # "none" ELSE mem[e.movement] = e.stage

\* The changes made: none is lost while the process is up, and none of this
\* life can be made again.
AppliedInv ==
  \A e \in applied :
    /\ e \in Event /\ e.stage # "expired" /\ e.life <= life
    /\ process = "up" /\ e.life = life =>
         /\ Reached(e)
         /\ \/ e \in Range(pendingEvents)
            \/ \E t \in Threads : e \in Carried(t)
            \/ e \in Left

EventInv == PlaceInv /\ LeftInv /\ AppliedInv

ServiceInv == Types /\ MarkInv /\ EventInv

-----------------------------------------------------------------------------
(* Sequences without repetition.                                           *)

\* What a concatenation holds.
LEMMA ConcatRange ==
  ASSUME NEW S, NEW s \in Seq(S), NEW u \in Seq(S)
  PROVE  /\ s \o u \in Seq(S)
         /\ Range(s \o u) = Range(s) \cup Range(u)
         /\ IsInjective(s) /\ IsInjective(u) /\ Range(s) \cap Range(u) = {} =>
              IsInjective(s \o u)
<1> DEFINE m == Len(s)  n == Len(u)  c == s \o u
<1>1. /\ m \in Nat /\ n \in Nat /\ c \in Seq(S) /\ Len(c) = m + n
      /\ \A i \in 1 .. m + n : c[i] = IF i <= m THEN s[i] ELSE u[i - m]
  BY ConcatProperties, LenProperties
<1>2. DOMAIN s = 1 .. m /\ DOMAIN u = 1 .. n /\ DOMAIN c = 1 .. m + n
  BY <1>1, LenProperties
<1> HIDE DEF m, n, c
<1>3. /\ \A i \in 1 .. m : i \in 1 .. m + n /\ c[i] = s[i]
      /\ \A i \in 1 .. n : i + m \in 1 .. m + n /\ c[i + m] = u[i]
      /\ \A i \in 1 .. m + n : i \in 1 .. m \/ (i - m \in 1 .. n /\ c[i] = u[i - m])
  BY <1>1
<1>4. Range(c) = Range(s) \cup Range(u)
  BY <1>2, <1>3 DEF Range
<1>5. ASSUME IsInjective(s), IsInjective(u), Range(s) \cap Range(u) = {}
      PROVE  IsInjective(c)
  <2>1. SUFFICES ASSUME NEW i \in 1 .. m + n, NEW j \in 1 .. m + n, c[i] = c[j]
                 PROVE  i = j
    BY <1>2 DEF IsInjective
  <2>2. CASE i \in 1 .. m /\ j \in 1 .. m
    BY <1>2, <1>3, <1>5, <2>1, <2>2 DEF IsInjective
  <2>3. CASE i \in 1 .. m /\ j - m \in 1 .. n /\ c[j] = u[j - m]
    BY <1>2, <1>3, <1>5, <2>1, <2>3 DEF Range
  <2>4. CASE j \in 1 .. m /\ i - m \in 1 .. n /\ c[i] = u[i - m]
    BY <1>2, <1>3, <1>5, <2>1, <2>4 DEF Range
  <2>5. CASE i - m \in 1 .. n /\ c[i] = u[i - m] /\ j - m \in 1 .. n /\ c[j] = u[j - m]
    <3>1. i - m = j - m
      BY <1>2, <1>5, <2>1, <2>5 DEF IsInjective
    <3> QED BY <1>1, <3>1
  <2> QED BY <1>3, <2>2, <2>3, <2>4, <2>5
<1> QED BY <1>1, <1>4, <1>5 DEF c

\* What is left once the first element is taken.
LEMMA TailRange ==
  ASSUME NEW S, NEW s \in Seq(S), s # <<>>
  PROVE  /\ Head(s) \in Range(s) /\ Tail(s) \in Seq(S)
         /\ Range(Tail(s)) \subseteq Range(s)
         /\ IsInjective(s) =>
              IsInjective(Tail(s)) /\ Range(Tail(s)) = Range(s) \ {Head(s)}
<1> DEFINE n == Len(s)  r == Tail(s)
<1>1. /\ n \in Nat \ {0} /\ r \in Seq(S) /\ Len(r) = n - 1
      /\ \A i \in 1 .. Len(r) : r[i] = s[i + 1]
  BY HeadTailProperties, EmptySeq
<1>2. DOMAIN s = 1 .. n /\ DOMAIN r = 1 .. n - 1 /\ Head(s) = s[1]
  BY <1>1, LenProperties
<1> HIDE DEF n, r
<1>3. /\ 1 \in 1 .. n
      /\ \A i \in 1 .. n - 1 : i + 1 \in 1 .. n /\ r[i] = s[i + 1] /\ i + 1 # 1
      /\ \A i \in 1 .. n : i = 1 \/ (i - 1 \in 1 .. n - 1 /\ r[i - 1] = s[i])
  BY <1>1
<1>4. Head(s) \in Range(s) /\ Range(r) \subseteq Range(s)
  BY <1>2, <1>3 DEF Range
<1>5. ASSUME IsInjective(s) PROVE IsInjective(r) /\ Range(r) = Range(s) \ {Head(s)}
  <2>1. \A i, j \in 1 .. n - 1 : r[i] = r[j] => i = j
    <3>1. SUFFICES ASSUME NEW i \in 1 .. n - 1, NEW j \in 1 .. n - 1, r[i] = r[j]
                   PROVE  i = j
      OBVIOUS
    <3>2. i + 1 = j + 1
      BY <1>2, <1>3, <1>5, <3>1 DEF IsInjective
    <3> QED BY <1>1, <3>1, <3>2
  <2>2. \A i \in 1 .. n - 1 : r[i] # Head(s)
    BY <1>2, <1>3, <1>5 DEF IsInjective
  <2> QED BY <1>2, <1>3, <1>4, <2>1, <2>2 DEF IsInjective, Range
<1> QED BY <1>1, <1>4, <1>5 DEF r

\* The first element of a concatenation.
LEMMA ConcatHead ==
  ASSUME NEW S, NEW s \in Seq(S), s # <<>>, NEW u \in Seq(S)
  PROVE  Head(s \o u) = Head(s)
<1>1. Len(s) \in Nat \ {0} /\ Len(u) \in Nat
  BY EmptySeq, LenProperties
<1>2. 1 \in 1 .. Len(s) + Len(u) /\ 1 <= Len(s)
  BY <1>1
<1>3. s \o u \in Seq(S) /\ (s \o u)[1] = s[1]
  BY <1>2, ConcatProperties
<1> QED BY <1>3

\* ByID lists each element of a finite set once.
LEMMA ByIDLists ==
  ASSUME NEW S, IsFiniteSet(S)
  PROVE  ByID(S) \in Seq(S) /\ IsInjective(ByID(S)) /\ Range(ByID(S)) = S
<1> DEFINE n == Cardinality(S)  q == ByID(S)
<1>1. n \in Nat /\ \E f \in [1 .. n -> S] : IsInjective(f)
  BY FS_CardinalityType DEF ExistsBijection, Bijection, Injection
<1>2. q \in [1 .. n -> S] /\ IsInjective(q)
  BY <1>1 DEF ByID
<1> HIDE DEF q
<1>3. IsFiniteSet(1 .. n) /\ Cardinality(1 .. n) = n
  BY <1>1, FS_Interval
<1>4. q \in Surjection(1 .. n, S)
  BY <1>2, <1>3, FS_Injection DEF Injection
<1>5. Range(q) = S
  BY <1>2, <1>4 DEF Surjection, Range
<1> QED BY <1>1, <1>2, <1>5 DEF q

\* The events of a list of movements, as Change makes them.
LEMMA ListedEvents ==
  ASSUME Types, NEW order \in Seq(Movements), IsInjective(order),
         NEW stage \in {"open", "posted", "voided", "expired"}
  PROVE  LET news == [i \in 1 .. Len(order) |-> MkEvent(order[i], stage)]
         IN  /\ news \in Seq(Event) /\ IsInjective(news)
             /\ Range(news) = {MkEvent(m, stage) : m \in Range(order)}
<1> DEFINE n == Len(order)
           news == [i \in 1 .. n |-> MkEvent(order[i], stage)]
<1>1. n \in Nat /\ DOMAIN order = 1 .. n /\ \A i \in 1 .. n : order[i] \in Movements
  BY LenProperties
<1>2. \A m \in Movements : MkEvent(m, stage) \in Event /\ MkEvent(m, stage).movement = m
  BY DEF MkEvent, Event, Types, TypeOK
<1> HIDE DEF n
<1>3. news \in [1 .. n -> Event]
  BY <1>1, <1>2
<1>4. \A i, j \in 1 .. n : news[i] = news[j] => i = j
  BY <1>1, <1>2 DEF IsInjective
<1>5. Range(news) = {MkEvent(m, stage) : m \in Range(order)}
  BY <1>1 DEF Range
<1> QED BY <1>1, <1>3, <1>4, <1>5, LenProperties DEF IsInjective, n

-----------------------------------------------------------------------------
(* The types.                                                              *)

\* The sweeper's pendings are finitely many movements.
LEMMA SweptAreListed ==
  ASSUME NEW ms \in SUBSET Movements
  PROVE  /\ ByID(ms) \in Seq(Movements) /\ IsInjective(ByID(ms)) /\ Range(ByID(ms)) = ms
<1>1. IsFiniteSet(ms)
  BY ServiceAssumption, FS_Subset
<1> QED BY <1>1, ByIDLists, SeqMonotonic

\* One movement, in a list of its own.
LEMMA OneIsListed ==
  ASSUME NEW m \in Movements
  PROVE  <<m>> \in Seq(Movements) /\ IsInjective(<<m>>) /\ Range(<<m>>) = {m}
  BY DEF IsInjective, Range

\* The critical section of a call or of the sweeper.
LEMMA ChangeTypes ==
  ASSUME Types, NEW ms \in SUBSET Movements, NEW stage \in {"open", "posted", "voided"},
         NEW order \in Seq(Movements), IsInjective(order), Change(ms, stage, order)
  PROVE  /\ mem' \in [Movements -> Protocol!Stages] /\ pendingChange' \in BOOLEAN
         /\ pendingEvents' \in Seq(Event)
<1>1. mem' \in [Movements -> Protocol!Stages] /\ pendingChange' \in BOOLEAN
  BY DEF Change, Types, TypeOK, Protocol!Stages
<1> DEFINE news == [i \in 1 .. Len(order) |-> MkEvent(order[i], stage)]
<1>2. news \in Seq(Event) /\ pendingEvents' = pendingEvents \o news
  BY ListedEvents DEF Change
<1> HIDE DEF news
<1>3. pendingEvents' \in Seq(Event)
  BY <1>2, ConcatRange DEF Types, TypeOK
<1> QED BY <1>1, <1>3

\* The first event owed, and what is owed after it.
LEMMA FirstOwed ==
  ASSUME Types, NEW t \in Threads, Owed(t) # <<>>
  PROVE  /\ Head(Owed(t)) \in Event /\ AfterAppend(thread[t]) \in Records
         /\ AfterAppend(thread[t]).pc = thread[t].pc
         /\ AfterAppend(thread[t]).change = thread[t].change
         /\ \/ /\ thread[t].events # <<>> /\ Head(Owed(t)) = Head(thread[t].events)
               /\ AfterAppend(thread[t]).events = Tail(thread[t].events)
               /\ AfterAppend(thread[t]).notices = thread[t].notices
            \/ /\ thread[t].events = <<>> /\ thread[t].notices # <<>>
               /\ Head(Owed(t)) = Head(thread[t].notices)
               /\ AfterAppend(thread[t]).events = <<>>
               /\ AfterAppend(thread[t]).notices = Tail(thread[t].notices)
<1>1. PICK r \in Records : r = thread[t]
  BY DEF Types, TypeOK, Records
<1>2. r.events \in Seq(Event) /\ r.notices \in Seq(Event) /\ Owed(t) = r.events \o r.notices
  BY <1>1 DEF Records, Owed
<1>3. CASE r.events # <<>>
  <2>1. Head(r.events) \in Event /\ Tail(r.events) \in Seq(Event)
    BY <1>2, <1>3, HeadTailProperties
  <2>2. Head(Owed(t)) = Head(r.events)
    BY <1>2, <1>3, ConcatHead
  <2> QED BY <1>1, <1>2, <1>3, <2>1, <2>2 DEF AfterAppend, Records
<1>4. CASE r.events = <<>>
  <2>1. Owed(t) = r.notices
    BY <1>2, <1>4, ConcatEmptySeq
  <2>2. Head(r.notices) \in Event /\ Tail(r.notices) \in Seq(Event)
    BY <1>2, <2>1, HeadTailProperties
  <2> QED BY <1>1, <1>2, <1>4, <2>1, <2>2 DEF AfterAppend, Records
<1> QED BY <1>3, <1>4

\* The stages the routes lead from and to.
LEMMA RouteStages ==
  ASSUME NEW route \in Routes
  PROVE  /\ Accepts(route) \in {"none", "open"}
         /\ Outcome(route) \in {"open", "posted", "voided"}
         /\ Outcome(route) = "open" => Accepts(route) = "none"
  BY DEF Routes, Accepts, Outcome

\* A goroutine moves, and the client, the files and the process may change
\* within their types.
LEMMA ThreadTypes ==
  ASSUME Types, NEW t \in Threads, NEW r \in Records, thread' = [thread EXCEPT ![t] = r],
         mem' \in [Movements -> Protocol!Stages], pendingChange' \in BOOLEAN,
         pendingEvents' \in Seq(Event), dirty' \in BOOLEAN,
         outbox' \in [Event -> Nat], dropped' \subseteq Event, faults' \in 0 .. MaxFaults,
         UNCHANGED <<flusher, disk, persistErr, process, life>>
  PROVE  Types'
<1>1. thread' \in [Threads -> Records]
  BY DEF Types, TypeOK, Records
<1>2. Event' = Event
  BY DEF Event
<1> QED BY <1>1, <1>2 DEF Types, TypeOK, Records, Protocol!Stages

\* Idle is a goroutine's record.
LEMMA IdleType == Idle \in Records
  BY EmptySeq DEF Idle, Records

\* Every step keeps the types.
LEMMA TypesStep == Types /\ [Next]_vars => Types'
<1>1. SUFFICES ASSUME Types, [Next]_vars PROVE Types'
  OBVIOUS
<1> USE <1>1
<1>2. ASSUME NEW t \in Handlers, NEW route \in Routes, NEW m \in Movements, Call(t, route, m)
      PROVE  Types'
  <2>1. PICK r : r = [thread[t] EXCEPT !.pc = "hooks"]
    OBVIOUS
  <2>2. t \in Threads /\ r \in Records /\ thread' = [thread EXCEPT ![t] = r]
    BY <1>2, <2>1 DEF Call, Threads, Types, TypeOK, Records
  <2>3. /\ mem' \in [Movements -> Protocol!Stages] /\ pendingChange' \in BOOLEAN
        /\ pendingEvents' \in Seq(Event)
    <3>1. CASE Change({m}, Outcome(route), <<m>>)
      <4>1. PICK ms \in SUBSET Movements, stage \in {"open", "posted", "voided"},
                 order \in Seq(Movements) :
              ms = {m} /\ stage = Outcome(route) /\ order = <<m>> /\ IsInjective(order)
        BY OneIsListed, RouteStages
      <4> QED BY <3>1, <4>1, ChangeTypes
    <3>2. CASE UNCHANGED clientVars
      BY <3>2 DEF clientVars, Types, TypeOK
    <3> QED BY <1>2, <3>1, <3>2 DEF Call
  <2> QED BY <1>2, <2>2, <2>3, ThreadTypes DEF Call, storeVars, Types, TypeOK
<1>3. ASSUME NEW ms \in SUBSET Movements, Sweep(ms) PROVE Types'
  <2> DEFINE notices == [i \in 1 .. Len(ByID(ms)) |-> MkEvent(ByID(ms)[i], "expired")]
  <2>1. PICK r : r = [thread[Sweeper] EXCEPT !.pc = "hooks", !.notices = notices]
    OBVIOUS
  <2>2. notices \in Seq(Event)
    BY SweptAreListed, ListedEvents
  <2>3. Sweeper \in Threads /\ thread' = [thread EXCEPT ![Sweeper] = r]
    BY <1>3, <2>1 DEF Sweep, Threads
  <2> HIDE DEF notices
  <2>4. r \in Records
    BY <2>1, <2>2, <2>3 DEF Types, TypeOK, Records
  <2>5. /\ mem' \in [Movements -> Protocol!Stages] /\ pendingChange' \in BOOLEAN
        /\ pendingEvents' \in Seq(Event)
    <3>1. CASE Change(ms, "voided", ByID(ms))
      BY <3>1, ChangeTypes, SweptAreListed
    <3>2. CASE UNCHANGED clientVars
      BY <3>2 DEF clientVars, Types, TypeOK
    <3> QED BY <1>3, <3>1, <3>2 DEF Sweep
  <2> QED BY <1>3, <2>3, <2>4, <2>5, ThreadTypes DEF Sweep, storeVars, Types, TypeOK
<1>4. ASSUME NEW t \in Threads, TakeHooks(t) PROVE Types'
  <2>1. PICK r : r = [thread[t] EXCEPT !.pc = "mark", !.change = pendingChange,
                                       !.events = pendingEvents]
    OBVIOUS
  <2>2. r \in Records /\ thread' = [thread EXCEPT ![t] = r]
    BY <1>4, <2>1 DEF TakeHooks, Types, TypeOK, Records
  <2> QED BY <1>4, <2>2, ThreadTypes, EmptySeq DEF TakeHooks, storeVars, Types, TypeOK
<1>5. ASSUME NEW t \in Threads, MarkDirty(t) PROVE Types'
  <2>1. PICK r : r = [thread[t] EXCEPT !.pc = "emit", !.change = FALSE]
    OBVIOUS
  <2>2. r \in Records /\ thread' = [thread EXCEPT ![t] = r]
    BY <1>5, <2>1 DEF MarkDirty, Types, TypeOK, Records
  <2>3. dirty' \in BOOLEAN
    BY <1>5 DEF MarkDirty, Types, TypeOK
  <2> QED BY <1>5, <2>2, <2>3, ThreadTypes DEF MarkDirty, clientVars, storeVars, Types, TypeOK
<1>6. ASSUME NEW t \in Threads, Emit(t) PROVE Types'
  <2>1. PICK r : r = AfterAppend(thread[t])
    OBVIOUS
  <2>2. r \in Records /\ thread' = [thread EXCEPT ![t] = r] /\ outbox' \in [Event -> Nat]
    BY <1>6, <2>1, FirstOwed DEF Emit, AppendNext, Types, TypeOK
  <2> QED BY <1>6, <2>2, ThreadTypes DEF Emit, clientVars, Types, TypeOK
<1>7. ASSUME NEW t \in Threads, EmitFails(t) PROVE Types'
  <2>1. PICK r : r = AfterAppend(thread[t])
    OBVIOUS
  <2>2. r \in Records /\ thread' = [thread EXCEPT ![t] = r] /\ dropped' \subseteq Event
    BY <1>7, <2>1, FirstOwed DEF EmitFails, AppendNext, Types, TypeOK
  <2>3. faults' \in 0 .. MaxFaults
    BY <1>7, ServiceAssumption DEF EmitFails, Types, TypeOK
  <2> QED BY <1>7, <2>2, <2>3, ThreadTypes DEF EmitFails, clientVars, Types, TypeOK
<1>8. ASSUME NEW t \in Threads, Respond(t) PROVE Types'
  BY <1>8, IdleType, ThreadTypes DEF Respond, clientVars, storeVars, Types, TypeOK
<1>9. ASSUME FlusherStep PROVE Types'
  <2>1. CASE SwapDirty
    BY <2>1 DEF SwapDirty, clientVars, storeVars, Types, TypeOK, Event, Protocol!Stages
  <2>2. CASE Snapshot
    BY <2>2 DEF Snapshot, clientVars, storeVars, Types, TypeOK, Event, Protocol!Stages
  <2>3. CASE Persist
    BY <2>3 DEF Persist, clientVars, Resting, Types, TypeOK, Event, Protocol!Stages
  <2>4. CASE PersistFails
    <3>1. faults' \in 0 .. MaxFaults
      BY <2>4, ServiceAssumption DEF PersistFails, Types, TypeOK
    <3> QED BY <2>4, <3>1 DEF PersistFails, clientVars, Resting, Types, TypeOK, Event,
         Protocol!Stages
  <2> QED BY <1>9, <2>1, <2>2, <2>3, <2>4 DEF FlusherStep
<1>10. ASSUME ProcessMemoryLost, UNCHANGED <<disk, outbox, dropped, life, faults>>,
              mem' \in [Movements -> Protocol!Stages], life < MaxLives,
              process' \in {"killed", "shutdown"}
       PROVE  Types'
  <2>1. thread' \in [Threads -> Records] /\ pendingEvents' \in Seq(Event)
    BY <1>10, IdleType, EmptySeq DEF ProcessMemoryLost
  <2> QED BY <1>10, <2>1 DEF ProcessMemoryLost, Resting, Types, TypeOK, Records, Event,
       Protocol!Stages
<1>11. CASE Kill
  BY <1>10, <1>11 DEF Kill, Types, TypeOK
<1>12. CASE Shutdown
  BY <1>10, <1>12 DEF Shutdown, Types, TypeOK
<1>13. CASE Restart
  <2>1. life' \in 1 .. MaxLives
    BY <1>13, ServiceAssumption DEF Restart, Types, TypeOK
  <2> QED BY <1>13, <2>1 DEF Restart, storeVars, Types, TypeOK, Event, Protocol!Stages
<1>14. CASE UNCHANGED vars
  BY <1>14 DEF vars, Types, TypeOK, Event, Protocol!Stages
<1> QED BY <1>2, <1>3, <1>4, <1>5, <1>6, <1>7, <1>8, <1>9, <1>11, <1>12, <1>13, <1>14
     DEF Next, ThreadStep

-----------------------------------------------------------------------------
(* The snapshot.                                                           *)

\* A goroutine moves while the flusher rests where it is: what was marked
\* stays marked, and a change of memory is.
LEMMA MarkKept ==
  ASSUME Types, MarkInv, NEW t \in Threads, NEW r \in Records,
         thread' = [thread EXCEPT ![t] = r], r.change => r.pc = "mark",
         UNCHANGED <<flusher, disk, persistErr, process>>,
         Marked => dirty' \/ pendingChange' \/ r.change
                     \/ \E u \in Threads : u # t /\ thread[u].change,
         mem' # mem => pendingChange'
  PROVE  MarkInv'
<1>1. thread'[t] = r /\ \A u \in Threads : u # t => thread'[u] = thread[u]
  BY DEF Types, TypeOK
<1>2. Marked => Marked'
  BY <1>1 DEF Marked
<1>3. mem' # mem => Marked'
  BY DEF Marked
<1> QED BY <1>1, <1>2, <1>3 DEF MarkInv, NoLostChange

\* Every step keeps the marks.
LEMMA MarkStep == Types /\ MarkInv /\ [Next]_vars => MarkInv'
<1>1. SUFFICES ASSUME Types, MarkInv, [Next]_vars PROVE MarkInv'
  OBVIOUS
<1> USE <1>1
<1>2. ASSUME NEW t \in Threads
      PROVE  /\ thread[t] \in Records
             /\ Marked => dirty \/ pendingChange \/ thread[t].change
                            \/ \E u \in Threads : u # t /\ thread[u].change
             /\ thread[t].change => thread[t].pc = "mark"
  BY DEF Types, TypeOK, Records, Marked, MarkInv
<1>3. ASSUME NEW t \in Handlers, NEW route \in Routes, NEW m \in Movements, Call(t, route, m)
      PROVE  MarkInv'
  <2>1. PICK r : r = [thread[t] EXCEPT !.pc = "hooks"]
    OBVIOUS
  <2>2. t \in Threads /\ thread[t] \in Records /\ thread[t].pc = "idle" /\ ~thread[t].change
    BY <1>2, <1>3 DEF Call, Running, Threads, MarkInv
  <2>3. r \in Records /\ thread' = [thread EXCEPT ![t] = r] /\ ~r.change
    BY <1>3, <2>1, <2>2 DEF Call, Records
  <2>4. (mem' # mem => pendingChange') /\ (pendingChange => pendingChange')
    BY <1>3 DEF Call, Change, clientVars
  <2> QED BY <1>2, <1>3, <2>2, <2>3, <2>4, MarkKept DEF Call, storeVars
<1>4. ASSUME NEW ms \in SUBSET Movements, Sweep(ms) PROVE MarkInv'
  <2> DEFINE notices == [i \in 1 .. Len(ByID(ms)) |-> MkEvent(ByID(ms)[i], "expired")]
  <2>1. PICK r : r = [thread[Sweeper] EXCEPT !.pc = "hooks", !.notices = notices]
    OBVIOUS
  <2>2. /\ Sweeper \in Threads /\ thread[Sweeper] \in Records /\ thread[Sweeper].pc = "idle"
        /\ ~thread[Sweeper].change
    BY <1>2, <1>4 DEF Sweep, Running, Threads, MarkInv
  <2>3. notices \in Seq(Event) /\ thread' = [thread EXCEPT ![Sweeper] = r]
    BY <1>4, <2>1, SweptAreListed, ListedEvents DEF Sweep
  <2> HIDE DEF notices
  <2>4. r \in Records /\ ~r.change
    BY <2>1, <2>2, <2>3 DEF Records
  <2>5. (mem' # mem => pendingChange') /\ (pendingChange => pendingChange')
    BY <1>4 DEF Sweep, Change, clientVars
  <2> QED BY <1>2, <1>4, <2>2, <2>3, <2>4, <2>5, MarkKept DEF Sweep, storeVars
<1>5. ASSUME NEW t \in Threads, TakeHooks(t) PROVE MarkInv'
  <2>1. PICK r : r = [thread[t] EXCEPT !.pc = "mark", !.change = pendingChange,
                                       !.events = pendingEvents]
    OBVIOUS
  <2>2. ~thread[t].change
    BY <1>2, <1>5 DEF TakeHooks, Running
  <2>3. /\ r \in Records /\ thread' = [thread EXCEPT ![t] = r]
        /\ r.change = pendingChange /\ r.pc = "mark"
    BY <1>5, <2>1 DEF TakeHooks, Types, TypeOK, Records
  <2> QED BY <1>2, <1>5, <2>2, <2>3, MarkKept DEF TakeHooks, storeVars
<1>6. ASSUME NEW t \in Threads, MarkDirty(t) PROVE MarkInv'
  <2>1. PICK r : r = [thread[t] EXCEPT !.pc = "emit", !.change = FALSE]
    OBVIOUS
  <2>2. r \in Records /\ thread' = [thread EXCEPT ![t] = r] /\ r.change = FALSE
    BY <1>6, <2>1 DEF MarkDirty, Types, TypeOK, Records
  <2>3. (dirty \/ thread[t].change) => dirty'
    BY <1>6 DEF MarkDirty
  <2> QED BY <1>2, <1>6, <2>2, <2>3, MarkKept DEF MarkDirty, clientVars, storeVars
<1>7. ASSUME NEW t \in Threads, Emit(t) \/ EmitFails(t) PROVE MarkInv'
  <2>1. PICK r : r = AfterAppend(thread[t])
    OBVIOUS
  <2>2. /\ r \in Records /\ thread' = [thread EXCEPT ![t] = r]
        /\ r.change = thread[t].change /\ r.pc = thread[t].pc
    BY <1>7, <2>1, FirstOwed DEF Emit, EmitFails, AppendNext
  <2>3. UNCHANGED <<mem, pendingChange, dirty, flusher, disk, persistErr, process>>
    BY <1>7 DEF Emit, EmitFails, clientVars
  <2>4. (r.change => r.pc = "mark") /\ (thread[t].change => r.change)
    BY <1>2, <2>2
  <2> QED BY <1>2, <2>2, <2>3, <2>4, MarkKept
<1>8. ASSUME NEW t \in Threads, Respond(t) PROVE MarkInv'
  <2>1. ~thread[t].change /\ ~Idle.change
    BY <1>2, <1>8 DEF Respond, Running, Idle
  <2> QED BY <1>2, <1>8, <2>1, IdleType, MarkKept DEF Respond, clientVars, storeVars
<1>9. CASE SwapDirty
  BY <1>9 DEF SwapDirty, clientVars, storeVars, MarkInv, NoLostChange, Types
<1>10. CASE Snapshot
  BY <1>10 DEF Snapshot, clientVars, storeVars, MarkInv, NoLostChange
<1>11. CASE Persist
  BY <1>11 DEF Persist, Resting, clientVars, MarkInv, NoLostChange, Marked
<1>12. CASE PersistFails
  BY <1>12 DEF PersistFails, Resting, clientVars, MarkInv, NoLostChange
<1>13. CASE Kill \/ Shutdown
  BY <1>13 DEF Kill, Shutdown, ProcessMemoryLost, Resting, Idle, MarkInv, NoLostChange
<1>14. CASE Restart
  BY <1>14 DEF Restart, storeVars, MarkInv, NoLostChange
<1>15. CASE UNCHANGED vars
  BY <1>15 DEF vars, MarkInv, NoLostChange, Marked
<1> QED BY <1>3, <1>4, <1>5, <1>6, <1>7, <1>8, <1>9, <1>10, <1>11, <1>12, <1>13, <1>14, <1>15
     DEF Next, ThreadStep, FlusherStep

-----------------------------------------------------------------------------
(* The events.                                                             *)

\* One goroutine moves: what the others carry stays.
LEMMA OthersCarry ==
  ASSUME Types, NEW t \in Threads, NEW r, thread' = [thread EXCEPT ![t] = r]
  PROVE  /\ thread'[t] = r /\ Carried(t)' = Range(r.events)
         /\ \A u \in Threads : u # t => thread'[u] = thread[u] /\ Carried(u)' = Carried(u)
  BY DEF Types, TypeOK, Carried

\* A goroutine moves and carries the same events.
LEMMA SameEvents ==
  ASSUME Types, EventInv, NEW t \in Threads, NEW r \in Records,
         thread' = [thread EXCEPT ![t] = r], r.events = thread[t].events,
         r.pc \in {"idle", "hooks"} => r.events = <<>>,
         \A e \in Range(r.notices) : e.stage = "expired",
         UNCHANGED <<mem, pendingEvents, outbox, dropped, process, life, applied>>
  PROVE  EventInv'
<1>1. \A u \in Threads : /\ Carried(u)' = Carried(u) /\ thread'[u].events = thread[u].events
                         /\ u # t => thread'[u] = thread[u]
  BY OthersCarry DEF Carried
<1>2. thread'[t] = r /\ Left' = Left
  BY OthersCarry DEF Left, Event
<1>3. PlaceInv'
  BY <1>1, <1>2 DEF EventInv, PlaceInv
<1>4. LeftInv'
  BY <1>1, <1>2 DEF EventInv, LeftInv
<1>5. AppliedInv'
  BY <1>1, <1>2 DEF EventInv, AppliedInv, Reached, Event
<1> QED BY <1>3, <1>4, <1>5 DEF EventInv

\* An accepted call, or a sweep: the events of the change are new, since the
\* stage they tell of was not reached in this life, and go to the buffer.
LEMMA ChangeEvents ==
  ASSUME Types, EventInv, process = "up",
         NEW t \in Threads, NEW r \in Records,
         thread' = [thread EXCEPT ![t] = r], r.events = thread[t].events,
         r.pc \in {"idle", "hooks"} => r.events = <<>>,
         \A e \in Range(r.notices) : e.stage = "expired",
         UNCHANGED <<outbox, dropped, process, life>>,
         NEW ms \in SUBSET Movements, NEW stage \in {"open", "posted", "voided"},
         NEW order \in Seq(Movements), IsInjective(order), Range(order) = ms,
         \A m \in ms : mem[m] \in {"none", "open"} /\ (stage = "open" => mem[m] = "none"),
         Change(ms, stage, order)
  PROVE  EventInv'
<1> DEFINE news == [i \in 1 .. Len(order) |-> MkEvent(order[i], stage)]
           New == {MkEvent(m, stage) : m \in ms}
<1>1. news \in Seq(Event) /\ IsInjective(news) /\ Range(news) = New
  <2>1. stage \in {"open", "posted", "voided", "expired"}
    OBVIOUS
  <2>2. /\ news \in Seq(Event) /\ IsInjective(news)
        /\ Range(news) = {MkEvent(m, stage) : m \in Range(order)}
    BY <2>1, ListedEvents
  <2> HIDE DEF news
  <2> QED BY <2>2
<1>2. /\ pendingEvents' = pendingEvents \o news /\ applied' = applied \cup New
      /\ mem' = [m \in Movements |-> IF m \in ms THEN stage ELSE mem[m]]
  BY DEF Change
<1>3. \A e \in New : /\ e \in Event /\ e.stage = stage /\ e.life = life
                     /\ e.movement \in ms
  BY DEF MkEvent, Event, Types, TypeOK
<1> HIDE DEF news, New
<1>4. New \cap applied = {}
  BY <1>3 DEF EventInv, AppliedInv, Reached
<1>5. Range(pendingEvents) \cap New = {}
  BY <1>4 DEF EventInv, PlaceInv
<1>6. Range(pendingEvents)' = Range(pendingEvents) \cup New /\ IsInjective(pendingEvents)'
  BY <1>1, <1>2, <1>5, ConcatRange DEF EventInv, PlaceInv, Types, TypeOK
<1>7. \A u \in Threads : /\ Carried(u)' = Carried(u) /\ thread'[u].events = thread[u].events
                         /\ u # t => thread'[u] = thread[u]
  BY OthersCarry DEF Carried
<1>8. thread'[t] = r /\ Left' = Left
  BY OthersCarry DEF Left, Event
<1>9. \A u \in Threads : New \cap Carried(u) = {}
  BY <1>4 DEF EventInv, PlaceInv
<1>10. New \cap Left = {}
  BY <1>3, <1>4 DEF EventInv, LeftInv
<1>11. PlaceInv'
  BY <1>2, <1>6, <1>7, <1>8, <1>9 DEF EventInv, PlaceInv
<1>12. LeftInv'
  BY <1>2, <1>6, <1>7, <1>8, <1>10 DEF EventInv, LeftInv
<1>13. AppliedInv'
  <2>1. ASSUME NEW e \in applied, process' = "up", e.life = life' PROVE Reached(e)'
    <3>1. Reached(e) /\ e \in Event /\ e.movement \in Movements
      BY <2>1 DEF EventInv, AppliedInv, Event
    <3>2. CASE e.movement \in ms
      BY <1>2, <3>1, <3>2 DEF Reached, Event
    <3>3. CASE e.movement \notin ms
      BY <1>2, <3>1, <3>3 DEF Reached
    <3> QED BY <3>2, <3>3
  <2>2. ASSUME NEW e \in New PROVE Reached(e)'
    BY <1>2, <1>3 DEF Reached
  <2>3. life \in Int
    BY DEF Types, TypeOK
  <2>4. ASSUME NEW e \in applied'
        PROVE  /\ e \in Event /\ e.stage # "expired" /\ e.life <= life
               /\ e.life = life =>
                    \/ e \in Range(pendingEvents)' \/ e \in Left'
                    \/ \E u \in Threads : e \in Carried(u)'
    BY <1>2, <1>3, <1>6, <1>7, <1>8, <2>3, <2>4 DEF EventInv, AppliedInv
  <2> QED BY <1>2, <2>1, <2>2, <2>4 DEF AppliedInv, Event
<1> QED BY <1>11, <1>12, <1>13 DEF EventInv

\* runHooks takes the whole buffer: its events change place.
LEMMA TakeHooksEvents ==
  ASSUME Types, EventInv, NEW t \in Threads, TakeHooks(t)
  PROVE  EventInv'
<1>1. PICK r : r = [thread[t] EXCEPT !.pc = "mark", !.change = pendingChange,
                                     !.events = pendingEvents]
  OBVIOUS
<1>2. /\ thread' = [thread EXCEPT ![t] = r] /\ r.events = pendingEvents /\ r.pc = "mark"
      /\ r.notices = thread[t].notices
  BY <1>1 DEF TakeHooks, Types, TypeOK
<1>3. /\ pendingEvents' = <<>> /\ Range(pendingEvents') = {} /\ IsInjective(pendingEvents')
      /\ UNCHANGED <<mem, outbox, dropped, process, life, applied>>
  BY DEF TakeHooks, storeVars, Range, IsInjective
<1>4. Carried(t) = {}
  BY DEF TakeHooks, Running, EventInv, PlaceInv, Carried, Range
<1>5. /\ thread'[t] = r /\ Carried(t)' = Range(pendingEvents)
      /\ \A u \in Threads : u # t => thread'[u] = thread[u] /\ Carried(u)' = Carried(u)
  BY <1>2, OthersCarry
<1>6. Left' = Left
  BY <1>3 DEF Left, Event
<1>7. PlaceInv'
  BY <1>2, <1>3, <1>5 DEF EventInv, PlaceInv
<1>8. LeftInv'
  BY <1>3, <1>5, <1>6 DEF EventInv, LeftInv
<1>9. AppliedInv'
  BY <1>3, <1>4, <1>5, <1>6 DEF EventInv, AppliedInv, Reached, Event
<1> QED BY <1>7, <1>8, <1>9 DEF EventInv

\* An append, done or failed: the event leaves the process.
LEMMA AppendEvents ==
  ASSUME Types, EventInv, NEW t \in Threads, Emit(t) \/ EmitFails(t)
  PROVE  EventInv'
<1>1. PICK r, x : r = AfterAppend(thread[t]) /\ x = Head(Owed(t))
  OBVIOUS
<1>2. /\ thread' = [thread EXCEPT ![t] = r] /\ thread[t].pc = "emit" /\ Owed(t) # <<>>
      /\ UNCHANGED <<mem, pendingEvents, process, life, applied>>
      /\ \/ outbox' = [outbox EXCEPT ![x] = @ + 1] /\ dropped' = dropped
         \/ outbox' = outbox /\ dropped' = dropped \cup {x}
  BY <1>1 DEF Emit, EmitFails, AppendNext, Running, clientVars
<1>3. x \in Event /\ r.pc = "emit"
  BY <1>1, <1>2, FirstOwed
<1>4. thread[t].events \in Seq(Event) /\ thread[t].notices \in Seq(Event)
  BY DEF Types, TypeOK
<1>5. /\ IsInjective(r.events) /\ \A e \in Range(r.notices) : e.stage = "expired"
      /\ Range(r.events) = Carried(t) \ {x}
      /\ x \in Carried(t) \/ x.stage = "expired"
  <2>1. CASE /\ thread[t].events # <<>> /\ x = Head(thread[t].events)
             /\ r.events = Tail(thread[t].events) /\ r.notices = thread[t].notices
    BY <1>4, <2>1, TailRange DEF EventInv, PlaceInv, Carried
  <2>2. CASE /\ thread[t].events = <<>> /\ thread[t].notices # <<>>
             /\ x = Head(thread[t].notices) /\ r.events = <<>>
             /\ r.notices = Tail(thread[t].notices)
    <3>1. IsInjective(r.events) /\ Range(r.events) = {} /\ Carried(t) = {}
      BY <2>2 DEF IsInjective, Range, Carried
    <3>2. x \in Range(thread[t].notices) /\ Range(r.notices) \subseteq Range(thread[t].notices)
      BY <1>4, <2>2, TailRange
    <3> QED BY <3>1, <3>2 DEF EventInv, PlaceInv
  <2> QED BY <1>1, <1>2, <2>1, <2>2, FirstOwed
<1>6. /\ thread'[t] = r /\ Carried(t)' = Carried(t) \ {x}
      /\ \A u \in Threads : u # t => thread'[u] = thread[u] /\ Carried(u)' = Carried(u)
  BY <1>2, <1>5, OthersCarry
<1>7. Left' = Left \cup {x} /\ \A e \in Event : e # x => outbox'[e] = outbox[e]
  <2>1. outbox \in [Event -> Nat] /\ outbox[x] \in Nat
    BY <1>3 DEF Types, TypeOK
  <2>2. Left' = {e \in Event : outbox'[e] > 0} \cup dropped'
    BY DEF Left, Event
  <2>3. CASE outbox' = [outbox EXCEPT ![x] = @ + 1] /\ dropped' = dropped
    <3>1. outbox'[x] > 0 /\ \A e \in Event : e # x => outbox'[e] = outbox[e]
      BY <1>3, <2>1, <2>3
    <3> QED BY <1>3, <2>2, <2>3, <3>1 DEF Left
  <2>4. CASE outbox' = outbox /\ dropped' = dropped \cup {x}
    BY <2>2, <2>4 DEF Left
  <2> QED BY <1>2, <2>3, <2>4
<1>8. /\ x \in Carried(t) => x \in applied /\ x \notin Left
      /\ x \in applied => x.stage # "expired"
  BY DEF EventInv, PlaceInv, LeftInv, AppliedInv
<1>9. x.stage # "expired" => outbox'[x] = IF x \in dropped' THEN 0 ELSE 1
  <2>1. SUFFICES ASSUME x.stage # "expired" PROVE outbox'[x] = IF x \in dropped' THEN 0 ELSE 1
    OBVIOUS
  <2>2. x \notin Left
    BY <1>5, <1>8, <2>1
  <2>3. outbox[x] = 0 /\ x \notin dropped
    BY <1>3, <2>2 DEF Left, Types, TypeOK
  <2> QED BY <1>2, <1>3, <2>3 DEF Types, TypeOK
<1>10. x \notin Range(pendingEvents) /\ \A u \in Threads : u # t => x \notin Carried(u)
  BY <1>5, <1>8 DEF EventInv, PlaceInv, AppliedInv
<1>11. PlaceInv'
  BY <1>2, <1>3, <1>5, <1>6 DEF EventInv, PlaceInv
<1>12. LeftInv'
  <2>1. Left' \cap Range(pendingEvents)' = {} /\ \A u \in Threads : Left' \cap Carried(u)' = {}
    BY <1>2, <1>6, <1>7, <1>10 DEF EventInv, LeftInv
  <2>2. ASSUME NEW e \in Left', e.stage # "expired"
        PROVE  e \in applied' /\ outbox'[e] = IF e \in dropped' THEN 0 ELSE 1
    <3>1. CASE e = x
      BY <1>2, <1>5, <1>8, <1>9, <2>2, <3>1
    <3>2. CASE e # x
      <4>1. e \in Left /\ e \in Event
        BY <1>7, <2>2, <3>2 DEF Left, Types, TypeOK
      <4> QED BY <1>2, <1>7, <2>2, <3>2, <4>1 DEF EventInv, LeftInv
    <3> QED BY <3>1, <3>2
  <2> QED BY <2>1, <2>2 DEF LeftInv
<1>13. AppliedInv'
  BY <1>2, <1>6, <1>7 DEF EventInv, AppliedInv, Reached, Event
<1> QED BY <1>11, <1>12, <1>13 DEF EventInv

\* Every step keeps the events in their places.
LEMMA EventStep == Types /\ EventInv /\ [Next]_vars => EventInv'
<1>1. SUFFICES ASSUME Types, EventInv, [Next]_vars PROVE EventInv'
  OBVIOUS
<1> USE <1>1
<1>2. ASSUME NEW t \in Threads
      PROVE  /\ thread[t] \in Records
             /\ thread[t].pc \in {"idle", "hooks"} => thread[t].events = <<>>
             /\ \A e \in Range(thread[t].notices) : e.stage = "expired"
  BY DEF Types, TypeOK, Records, EventInv, PlaceInv
<1>3. ASSUME NEW t \in Handlers, NEW route \in Routes, NEW m \in Movements, Call(t, route, m)
      PROVE  EventInv'
  <2>1. PICK r : r = [thread[t] EXCEPT !.pc = "hooks"]
    OBVIOUS
  <2>2. t \in Threads /\ thread[t].pc = "idle" /\ process = "up"
    BY <1>3 DEF Call, Running, Threads
  <2>3. /\ r \in Records /\ thread' = [thread EXCEPT ![t] = r]
        /\ r.events = thread[t].events /\ r.events = <<>> /\ r.notices = thread[t].notices
    BY <1>2, <1>3, <2>1, <2>2 DEF Call, Records
  <2>4. \A e \in Range(r.notices) : e.stage = "expired"
    BY <1>2, <2>2, <2>3
  <2>5. UNCHANGED <<outbox, dropped, process, life>>
    BY <1>3 DEF Call, storeVars
  <2>6. CASE mem[m] = Accepts(route) /\ Change({m}, Outcome(route), <<m>>)
    <3>1. PICK ms \in SUBSET Movements, stage \in {"open", "posted", "voided"},
               order \in Seq(Movements) :
            /\ ms = {m} /\ stage = Outcome(route) /\ order = <<m>>
            /\ IsInjective(order) /\ Range(order) = ms
      BY OneIsListed, RouteStages
    <3>2. \A k \in ms : mem[k] \in {"none", "open"} /\ (stage = "open" => mem[k] = "none")
      BY <2>6, <3>1, RouteStages
    <3>3. Change(ms, stage, order)
      BY <2>6, <3>1
    <3> QED BY <2>2, <2>3, <2>4, <2>5, <3>1, <3>2, <3>3, ChangeEvents
  <2>7. CASE UNCHANGED clientVars
    BY <2>2, <2>3, <2>4, <2>5, <2>7, SameEvents DEF clientVars
  <2> QED BY <1>3, <2>6, <2>7 DEF Call
<1>4. ASSUME NEW ms \in SUBSET Movements, Sweep(ms) PROVE EventInv'
  <2> DEFINE notices == [i \in 1 .. Len(ByID(ms)) |-> MkEvent(ByID(ms)[i], "expired")]
  <2>1. PICK r : r = [thread[Sweeper] EXCEPT !.pc = "hooks", !.notices = notices]
    OBVIOUS
  <2>2. Sweeper \in Threads /\ thread[Sweeper].pc = "idle" /\ process = "up"
    BY <1>4 DEF Sweep, Running, Threads
  <2>3. /\ notices \in Seq(Event)
        /\ Range(notices) = {MkEvent(m, "expired") : m \in Range(ByID(ms))}
    BY SweptAreListed, ListedEvents
  <2>4. thread' = [thread EXCEPT ![Sweeper] = r] /\ UNCHANGED <<outbox, dropped, process, life>>
    BY <1>4, <2>1 DEF Sweep, storeVars
  <2> HIDE DEF notices
  <2>5. /\ r \in Records /\ r.events = thread[Sweeper].events /\ r.events = <<>>
        /\ r.notices = notices
    BY <1>2, <2>1, <2>2, <2>3 DEF Records
  <2>6. \A e \in Range(r.notices) : e.stage = "expired"
    BY <2>3, <2>5 DEF MkEvent
  <2>7. CASE Change(ms, "voided", ByID(ms))
    <3>1. \A m \in ms : mem[m] \in {"none", "open"}
      BY <1>4 DEF Sweep
    <3>2. PICK stage \in {"open", "posted", "voided"}, order \in Seq(Movements) :
            /\ stage = "voided" /\ order = ByID(ms)
            /\ IsInjective(order) /\ Range(order) = ms
      BY SweptAreListed
    <3>3. Change(ms, stage, order)
      BY <2>7, <3>2
    <3> QED BY <2>2, <2>4, <2>5, <2>6, <3>1, <3>2, <3>3, ChangeEvents
  <2>8. CASE UNCHANGED clientVars
    BY <2>2, <2>4, <2>5, <2>6, <2>8, SameEvents DEF clientVars
  <2> QED BY <1>4, <2>7, <2>8 DEF Sweep
<1>5. ASSUME NEW t \in Threads, TakeHooks(t) PROVE EventInv'
  BY <1>5, TakeHooksEvents
<1>6. ASSUME NEW t \in Threads, MarkDirty(t) PROVE EventInv'
  <2>1. PICK r : r = [thread[t] EXCEPT !.pc = "emit", !.change = FALSE]
    OBVIOUS
  <2>2. /\ r \in Records /\ thread' = [thread EXCEPT ![t] = r] /\ r.pc = "emit"
        /\ r.events = thread[t].events /\ r.notices = thread[t].notices
    BY <1>2, <1>6, <2>1 DEF MarkDirty, Records
  <2>3. UNCHANGED <<mem, pendingEvents, outbox, dropped, process, life, applied>>
    BY <1>6 DEF MarkDirty, clientVars, storeVars
  <2> QED BY <1>2, <2>2, <2>3, SameEvents
<1>7. ASSUME NEW t \in Threads, Emit(t) \/ EmitFails(t) PROVE EventInv'
  BY <1>7, AppendEvents
<1>8. ASSUME NEW t \in Threads, Respond(t) PROVE EventInv'
  <2>1. thread[t].events = <<>>
    <3>1. thread[t].events \in Seq(Event) /\ thread[t].notices \in Seq(Event)
      BY DEF Types, TypeOK
    <3> QED BY <1>8, <3>1, ConcatEqualIffEmpty DEF Respond, Owed
  <2>2. Idle.events = <<>> /\ Range(Idle.notices) = {}
    BY DEF Idle, Range
  <2>3. UNCHANGED <<mem, pendingEvents, outbox, dropped, process, life, applied>>
    BY <1>8 DEF Respond, clientVars, storeVars
  <2>4. thread' = [thread EXCEPT ![t] = Idle]
    BY <1>8 DEF Respond
  <2> QED BY <2>1, <2>2, <2>3, <2>4, IdleType, SameEvents
<1>9. ASSUME UNCHANGED <<mem, pendingEvents, thread, outbox, dropped, process, life, applied>>
      PROVE  EventInv'
  BY <1>9 DEF EventInv, PlaceInv, LeftInv, AppliedInv, Left, Carried, Reached, Event
<1>10. CASE FlusherStep
  BY <1>9, <1>10 DEF FlusherStep, SwapDirty, Snapshot, Persist, PersistFails, clientVars,
     storeVars
<1>11. CASE Kill \/ Shutdown
  <2>1. /\ pendingEvents' = <<>> /\ thread' = [t \in Threads |-> Idle]
        /\ process' # "up" /\ UNCHANGED <<applied, outbox, dropped, life>>
    BY <1>11 DEF Kill, Shutdown, ProcessMemoryLost
  <2>2. /\ Range(pendingEvents') = {} /\ IsInjective(pendingEvents') /\ IsInjective(<<>>)
        /\ Range(<<>>) = {}
    BY <2>1 DEF Range, IsInjective
  <2>3. /\ \A t \in Threads : /\ thread'[t].events = <<>> /\ thread'[t].notices = <<>>
                              /\ Carried(t)' = {}
        /\ Left' = Left
    BY <2>1, <2>2 DEF Idle, Carried, Left, Event
  <2>4. PlaceInv'
    BY <2>1, <2>2, <2>3 DEF PlaceInv
  <2>5. LeftInv'
    BY <2>1, <2>2, <2>3 DEF EventInv, LeftInv
  <2>6. AppliedInv'
    BY <2>1 DEF EventInv, AppliedInv, Event
  <2> QED BY <2>4, <2>5, <2>6 DEF EventInv
<1>12. CASE Restart
  <2>1. /\ UNCHANGED <<pendingEvents, thread, outbox, dropped, applied>>
        /\ life' = life + 1 /\ life \in Int
    BY <1>12 DEF Restart, storeVars, Types, TypeOK
  <2>2. PlaceInv' /\ LeftInv'
    BY <2>1 DEF EventInv, PlaceInv, LeftInv, Left, Carried, Event
  <2>3. \A e \in applied : e.life \in Int /\ e.life <= life' /\ e.life # life'
    BY <2>1 DEF EventInv, AppliedInv, Event
  <2>4. AppliedInv'
    BY <2>1, <2>3 DEF EventInv, AppliedInv, Event
  <2> QED BY <2>2, <2>4 DEF EventInv
<1>13. CASE UNCHANGED vars
  BY <1>9, <1>13 DEF vars
<1> QED BY <1>3, <1>4, <1>5, <1>6, <1>7, <1>8, <1>10, <1>11, <1>12, <1>13
     DEF Next, ThreadStep

-----------------------------------------------------------------------------
\* A fresh process over an empty snapshot.
LEMMA ServiceInit == Init => ServiceInv
<1>1. SUFFICES ASSUME Init PROVE ServiceInv
  OBVIOUS
<1>2. /\ pendingEvents = <<>> /\ thread \in [Threads -> Records]
      /\ \A t \in Threads : /\ thread[t].events = <<>> /\ thread[t].notices = <<>>
                            /\ thread[t].change = FALSE
  BY <1>1, IdleType DEF Init, Idle
<1>3. 1 \in 1 .. MaxLives /\ 0 \in 0 .. MaxFaults /\ pendingEvents \in Seq(Event)
  BY <1>2, ServiceAssumption, EmptySeq
<1>4. Types
  BY <1>1, <1>2, <1>3 DEF Init, Types, TypeOK, Records, Resting, Protocol!Stages
<1>5. MarkInv
  BY <1>1, <1>2 DEF Init, MarkInv, NoLostChange, Resting
<1>6. /\ Range(pendingEvents) = {} /\ IsInjective(pendingEvents)
      /\ \A t \in Threads : /\ Carried(t) = {} /\ IsInjective(thread[t].events)
                            /\ Range(thread[t].notices) = {}
  BY <1>2 DEF Range, IsInjective, Carried
<1>7. Left = {}
  BY <1>1 DEF Init, Left
<1>8. EventInv
  BY <1>1, <1>2, <1>6, <1>7 DEF Init, EventInv, PlaceInv, LeftInv, AppliedInv
<1> QED BY <1>4, <1>5, <1>8 DEF ServiceInv

\* The types, the marks and the places of the events hold throughout.
THEOREM ServiceInvariant == Spec => []ServiceInv
<1>1. ServiceInv /\ [Next]_vars => ServiceInv'
  BY TypesStep, MarkStep, EventStep DEF ServiceInv
<1> QED BY <1>1, ServiceInit, PTL DEF Spec

\* Type correctness of the ledger service.
THEOREM ServiceTypeCorrect == Spec => []TypeOK
<1>1. ServiceInv => TypeOK
  BY DEF ServiceInv, Types
<1> QED BY <1>1, ServiceInvariant, PTL

\* No change of the client's memory is missed by runPersistFlusher: between
\* its Swap(false), the hooks that run outside the mutex and the write of the
\* snapshot, memory differs from disk only while a mark is under way.
THEOREM NoChangeIsLost == Spec => []NoLostChange
<1>1. ServiceInv => NoLostChange
  BY DEF ServiceInv, MarkInv
<1> QED BY <1>1, ServiceInvariant, PTL

\* A set that has an element and no two.
LEMMA OneElement ==
  ASSUME NEW S, NEW x \in S, \A y \in S : y = x
  PROVE  Cardinality(S) = 1
<1>1. S = {x}
  OBVIOUS
<1> QED BY <1>1, FS_Singleton

\* What the places of an event add up to.
LEMMA CopiesAddUp ==
  ASSUME Types, EventInv, NEW e \in Event, e.stage # "expired"
  PROVE  Copies(e) = IF \/ e \in Range(pendingEvents)
                        \/ \E t \in Threads : e \in Carried(t)
                        \/ e \in Left
                     THEN 1 ELSE 0
<1> DEFINE buffered == InSeq(e, pendingEvents)
           carried == InThreads(e)
           sent == outbox[e] + (IF e \in dropped THEN 1 ELSE 0)
<1>1. Cardinality(buffered) = IF e \in Range(pendingEvents) THEN 1 ELSE 0
  <2>1. CASE e \in Range(pendingEvents)
    <3>1. PICK i \in DOMAIN pendingEvents : pendingEvents[i] = e
      BY <2>1 DEF Range
    <3>2. i \in buffered /\ \A j \in buffered : j = i
      BY <3>1 DEF InSeq, EventInv, PlaceInv, IsInjective
    <3> QED BY <2>1, <3>2, OneElement
  <2>2. CASE e \notin Range(pendingEvents)
    <3>1. buffered = {}
      BY <2>2 DEF InSeq, Range
    <3> QED BY <2>2, <3>1, FS_EmptySet
  <2> QED BY <2>1, <2>2
<1>2. Cardinality(carried) = IF \E t \in Threads : e \in Carried(t) THEN 1 ELSE 0
  <2>1. \A p : p \in carried <=>
          \E t \in Threads : \E i \in DOMAIN thread[t].events :
            p = <<t, i>> /\ thread[t].events[i] = e
    BY DEF InThreads, InSeq
  <2>2. ASSUME NEW t \in Threads, e \in Carried(t) PROVE Cardinality(carried) = 1
    <3>1. PICK i \in DOMAIN thread[t].events : thread[t].events[i] = e
      BY <2>2 DEF Carried, Range
    <3>2. <<t, i>> \in carried
      BY <2>1, <3>1
    <3>3. ASSUME NEW p \in carried PROVE p = <<t, i>>
      <4>1. PICK u \in Threads :
              \E j \in DOMAIN thread[u].events : p = <<u, j>> /\ thread[u].events[j] = e
        BY <2>1, <3>3
      <4>2. PICK j \in DOMAIN thread[u].events : p = <<u, j>> /\ thread[u].events[j] = e
        BY <4>1
      <4>3. u = t
        BY <2>2, <4>2 DEF EventInv, PlaceInv, Carried, Range
      <4>4. j = i
        BY <3>1, <4>2, <4>3 DEF EventInv, PlaceInv, IsInjective
      <4> QED BY <4>2, <4>3, <4>4
    <3> HIDE DEF carried
    <3> QED BY <3>2, <3>3, OneElement
  <2>3. CASE ~\E t \in Threads : e \in Carried(t)
    <3>1. carried = {}
      BY <2>1, <2>3 DEF Carried, Range
    <3> QED BY <2>3, <3>1, FS_EmptySet
  <2> QED BY <2>2, <2>3
<1>3. sent = IF e \in Left THEN 1 ELSE 0
  <2>1. outbox[e] \in Nat
    BY DEF Types, TypeOK
  <2>2. CASE e \in Left
    <3>1. outbox[e] = IF e \in dropped THEN 0 ELSE 1
      BY <2>2 DEF EventInv, LeftInv
    <3> QED BY <2>2, <3>1
  <2>3. CASE e \notin Left
    BY <2>1, <2>3 DEF Left
  <2> QED BY <2>2, <2>3
<1>4. Copies(e) = Cardinality(buffered) + Cardinality(carried) + sent
  <2>1. PICK nb, nc, no, nd :
          /\ nb = Cardinality(buffered)
          /\ nc = Cardinality(carried)
          /\ no = outbox[e]
          /\ nd = (IF e \in dropped THEN 1 ELSE 0)
    OBVIOUS
  <2>2. nb \in Int /\ nc \in Int /\ no \in Int /\ nd \in Int
    BY <1>1, <1>2, <2>1 DEF Types, TypeOK
  <2>3. ((nb + nc) + no) + nd = (nb + nc) + (no + nd)
    BY <2>2
  <2> QED BY <2>1, <2>3 DEF Copies
<1> HIDE DEF buffered, carried, sent
<1>5. /\ e \in Range(pendingEvents) =>
           e \notin Left /\ ~\E t \in Threads : e \in Carried(t)
      /\ (\E t \in Threads : e \in Carried(t)) => e \notin Left
  BY DEF EventInv, PlaceInv, LeftInv
<1> QED BY <1>1, <1>2, <1>3, <1>4, <1>5

\* runHooks lets any goroutine take and emit the events of others, appends
\* fail and processes die; still every change of this life has exactly one
\* event, no change has two, and no event tells of a change not made.
THEOREM EveryChangeHasOneEvent == Spec => []OneEventPerChange
<1>1. ServiceInv => OneEventPerChange
  <2>1. SUFFICES ASSUME ServiceInv, NEW e \in Event
                 PROVE  /\ process = "up" /\ e \in applied /\ e.life = life => Copies(e) = 1
                        /\ e.stage # "expired" => Copies(e) <= (IF e \in applied THEN 1 ELSE 0)
    BY DEF OneEventPerChange
  <2>2. Types /\ EventInv
    BY <2>1 DEF ServiceInv
  <2>3. e \in applied => e.stage # "expired"
    BY <2>2 DEF EventInv, AppliedInv
  <2>4. ASSUME process = "up", e \in applied, e.life = life PROVE Copies(e) = 1
    BY <2>2, <2>3, <2>4, CopiesAddUp DEF EventInv, AppliedInv
  <2>5. ASSUME e.stage # "expired", e \notin applied PROVE Copies(e) = 0
    BY <2>2, <2>5, CopiesAddUp DEF EventInv, PlaceInv, LeftInv
  <2>6. ASSUME e.stage # "expired" PROVE Copies(e) \in {0, 1}
    BY <2>2, <2>6, CopiesAddUp
  <2> QED BY <2>4, <2>5, <2>6
<1> QED BY <1>1, ServiceInvariant, PTL
=============================================================================
