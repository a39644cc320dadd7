--------------------------- MODULE PlatformProofs ---------------------------
(***************************************************************************)
(* Proofs about the services of Platform, for every value of their         *)
(* constants.  A behaviour of Platform is one of a single service, so what *)
(* is shown of a service's own steps holds of the platform.                *)
(***************************************************************************)
EXTENDS Platform, RegistersProofs, Integers, Sequences, FiniteSets, TLAPS

-----------------------------------------------------------------------------
(* Step-up.                                                                *)

\* Recovery codes and tickets of the step-up service pass once, apart from
\* the cases that SingleUse names (stepup/service.go, ticket.go).
THEOREM StepUpSingleUse == Spec => []SingleUse
<1> DEFINE Holds == service = "step_up" => CodesInv /\ TicketsInv
<1>1. Init => Holds
  <2>1. Init /\ service = "step_up" => SU!Init
    BY DEF Init
  <2> QED BY <2>1, RegistersAssumption, InitCodes, InitTickets
<1>2. Holds /\ [Next]_vars => Holds'
  <2>1. [Next]_vars /\ service' = "step_up" => service = "step_up" /\ [SU!Next]_SU!vars
    BY DEF Next, vars, SU!vars
  <2> QED BY <2>1, RegistersAssumption, CodesKept, TicketsKept
<1>3. Holds => SingleUse
  BY DEF SingleUse, SU!SingleUse, CodesInv, TicketsInv
<1> HIDE DEF Holds
<1> QED BY <1>1, <1>2, <1>3, PTL DEF Spec

-----------------------------------------------------------------------------
(* The breach register.                                                    *)

BreachInv == service = "breach" => BR!RegisterInv

\* A legal transition keeps a record truthful (breachWorkflow).
LEMMA TransitionTruthful ==
  ASSUME NEW c \in BR!Record, BR!Truthful(c), NEW to \in BR!Statuses, time \in Nat,
         BR!LegalStep(c.status, to)
  PROVE  /\ BR!Moved(c, to) \in BR!Record /\ BR!Truthful(BR!Moved(c, to))
         /\ c.notifiedAt # BR!Never =>
              /\ BR!Moved(c, to).notifiedAt = c.notifiedAt
              /\ BR!Moved(c, to).late = c.late
              /\ BR!Moved(c, to).status = "closed"
<1>1. \/ c.status = "detected" /\ to = "assessed"
      \/ c.status = "assessed" /\ to = "notified"
      \/ c.status = "notified" /\ to = "closed"
  BY DEF BR!LegalStep, BR!Workflow
<1> DEFINE n == BR!Moved(c, to)
           history == Append(c.history, to)
           notifiedAt == IF to = "notified" THEN time ELSE c.notifiedAt
           late == IF to = "notified" THEN time > c.deadline ELSE c.late
<1>2. history \in Seq(BR!Statuses) /\ notifiedAt \in Int
  BY DEF BR!Record
<1>0. late \in BOOLEAN
  <2>1. c.late \in BOOLEAN
    BY DEF BR!Record
  <2>2. CASE to = "notified"
    BY <2>2 DEF BR!Record
  <2>3. CASE to # "notified"
    BY <2>1, <2>3, Zenon
  <2> QED BY <2>2, <2>3
<1>3. n = [[[[c EXCEPT !.status = to] EXCEPT !.history = history]
                EXCEPT !.notifiedAt = notifiedAt] EXCEPT !.late = late]
  BY DEF BR!Moved
<1>4. /\ to = "notified" => notifiedAt = time /\ late = (time > c.deadline)
      /\ to # "notified" => notifiedAt = c.notifiedAt /\ late = c.late
  OBVIOUS
<1> HIDE DEF history, notifiedAt, late, n
<1>5. n \in BR!Record
  BY <1>0, <1>2, <1>3 DEF BR!Record
<1>6. n.status = to /\ n.deadline = c.deadline /\ n.notifiedAt = notifiedAt /\ n.late = late
  BY <1>3 DEF BR!Record
<1>7. BR!Truthful(n)
  BY <1>1, <1>4, <1>6 DEF BR!Truthful
<1> QED BY <1>1, <1>4, <1>5, <1>6, <1>7 DEF BR!Truthful, n

\* BreachCreate and the two halves of a transition keep the register sound,
\* and the notification it records.
LEMMA BreachStep ==
  ASSUME BR!Parameters, BR!RegisterInv, [BR!Next]_BR!vars
  PROVE  BR!RegisterInv' /\ BR!KeepsNotification
<1> USE DEF BR!RegisterInv
<1>1. CASE BR!BreachCreate
  <2>1. PICK detected \in 0 .. time :
          store' = Append(store, [status |-> "detected", history |-> <<"detected">>,
                                  deadline |-> detected + breach.NotifyWindow,
                                  notifiedAt |-> BR!Never, late |-> FALSE])
    BY <1>1 DEF BR!BreachCreate
  <2> DEFINE new == [status |-> "detected", history |-> <<"detected">>,
                     deadline |-> detected + breach.NotifyWindow,
                     notifiedAt |-> BR!Never, late |-> FALSE]
  <2>2. new \in BR!Record /\ BR!Truthful(new)
    BY DEF BR!Record, BR!Truthful, BR!Statuses, BR!Never, BR!Parameters
  <2>3. store' = Append(store, new)
    BY <2>1
  <2> HIDE DEF new
  <2>4. /\ store' \in Seq(BR!Record) /\ Len(store') = Len(store) + 1
        /\ store'[Len(store) + 1] = new
        /\ \A b \in 1 .. Len(store) : store'[b] = store[b]
    BY <2>2, <2>3
  <2> DEFINE len == Len(store)
  <2>7. len \in Nat /\ DOMAIN store = 1 .. len /\ DOMAIN store' = 1 .. (len + 1)
    BY <2>4
  <2> HIDE DEF len
  <2>5. /\ DOMAIN store \subseteq DOMAIN store'
        /\ \A b \in DOMAIN store' : b \in DOMAIN store \/ b = len + 1
    BY <2>7
  <2>6. BR!KeepsNotification
    BY <2>4 DEF BR!KeepsNotification, BR!Truthful
  <2> QED BY <1>1, <2>2, <2>4, <2>5, <2>6, <2>7 DEF len, BR!BreachCreate, BR!Asked, BR!Truthful
<1>2. CASE BR!Tick
  BY <1>2 DEF BR!Tick, BR!Asked, BR!Truthful, BR!KeepsNotification
<1>3. ASSUME NEW r \in breach.Requests, NEW b \in 1 .. Len(store), NEW to \in BR!Statuses,
             BR!TransitionRead(r, b, to)
      PROVE  BR!RegisterInv' /\ BR!KeepsNotification
  BY <1>3 DEF BR!TransitionRead, BR!Asked, BR!Truthful, BR!KeepsNotification, BR!Done
<1>4. ASSUME NEW r \in breach.Requests, BR!TransitionPut(r)
      PROVE  BR!RegisterInv' /\ BR!KeepsNotification
  <2> DEFINE q == local[r]
             n == BR!Moved(q.copy, q.to)
  <2>1. /\ q.breach \in DOMAIN store /\ q.copy \in BR!Record /\ q.to \in BR!Statuses
        /\ BR!Truthful(q.copy) /\ BR!LegalStep(q.copy.status, q.to)
        /\ store' = [store EXCEPT ![q.breach] = n]
        /\ store[q.breach] # q.copy => q.breach \in excepted'
        /\ UNCHANGED time
    BY <1>4 DEF BR!TransitionPut, BR!Asked
  <2>2. /\ n \in BR!Record /\ BR!Truthful(n)
        /\ q.copy.notifiedAt # BR!Never =>
             n.notifiedAt = q.copy.notifiedAt /\ n.late = q.copy.late /\ n.status = "closed"
    BY <2>1, TransitionTruthful
  <2>3. local' = [local EXCEPT ![r] = BR!Done]
    BY <1>4 DEF BR!TransitionPut
  <2> HIDE DEF q, n
  <2>4. store' \in Seq(BR!Record) /\ DOMAIN store' = DOMAIN store
    BY <2>1, <2>2
  <2>5. \A b \in DOMAIN store : store'[b] = IF b = q.breach THEN n ELSE store[b]
    BY <2>1
  <2>6. BR!RegisterInv'
    BY <2>1, <2>2, <2>3, <2>4, <2>5 DEF BR!Asked, BR!Truthful, BR!Done
  <2>7. BR!KeepsNotification
    BY <2>1, <2>2, <2>5 DEF BR!KeepsNotification, BR!Truthful
  <2> QED BY <2>6, <2>7
<1>5. CASE UNCHANGED BR!vars
  BY <1>5 DEF BR!vars, BR!Asked, BR!Truthful, BR!KeepsNotification
<1> QED BY <1>1, <1>2, <1>3, <1>4, <1>5 DEF BR!Next

\* breach.go: once a breach records when the regulator was told, the time
\* and whether it was late stay, unless two transitions of it overlapped.
THEOREM NotificationStays == Spec => NotificationIsKept
<1>1. Init => BreachInv
  BY DEF Init, BreachInv, BR!Init, BR!RegisterInv, BR!Asked, BR!New
<1>2. BreachInv /\ [Next]_vars => BreachInv' /\ (service = "breach" => BR!KeepsNotification)
  <2> SUFFICES ASSUME BreachInv, [Next]_vars, service = "breach" \/ service' = "breach"
               PROVE  BreachInv' /\ BR!KeepsNotification
    BY DEF BreachInv
  <2>1. service = "breach" /\ [BR!Next]_BR!vars
    BY DEF Next, vars, BR!vars
  <2> QED BY <2>1, BreachStep, PlatformAssumption DEF BreachInv
<1> QED BY <1>1, <1>2, PTL DEF Spec, NotificationIsKept

-----------------------------------------------------------------------------
(* The caches of Keycloak's keys.                                          *)

KeysInv == service = "keys" => KC!CacheInv

\* Keycloak adds or withdraws a key: no cached key was withdrawn before the
\* last fetch, and no verification began after the withdrawal.
LEMMA RealmStep ==
  ASSUME KC!Parameters, KC!CacheInv, NEW k \in keyCache.Kids, KC!Add(k) \/ KC!Withdraw(k)
  PROVE  KC!CacheInv'
<1> USE DEF KC!CacheInv, KC!CacheTypes, KC!Published, KC!Future, KC!Parameters
<1>1. /\ UNCHANGED <<mode, store, count, local, time, excepted>>
      /\ \/ mirror[k] = -2 /\ mirror' = [mirror EXCEPT ![k] = -1]
         \/ mirror[k] = -1 /\ mirror' = [mirror EXCEPT ![k] = time]
  BY DEF KC!Add, KC!Withdraw, KC!Valid
<1>2. KC!CacheTypes'
  BY <1>1 DEF KC!Shaped
<1>3. \A j \in keyCache.Kids :
        /\ mirror[j] \in Int /\ mirror'[j] \in Int
        /\ \/ mirror'[j] = mirror[j]
           \/ mirror[j] = -2 /\ mirror'[j] = -1
           \/ mirror[j] = -1 /\ mirror'[j] = time
  BY <1>1
<1>4. KC!CachedWasPublished'
  BY <1>1, <1>3 DEF KC!CachedWasPublished
<1>5. \A c \in keyCache.Checks : KC!Shaped(local[c])
  OBVIOUS
<1>6. KC!FindsItAgain'
  <2> SUFFICES ASSUME mode = "service", NEW c \in keyCache.Checks \ excepted
               PROVE  /\ local[c].pc = "age" /\ local[c].found => local[c].kid \in store
                      /\ local[c].pc = "again" =>
                           /\ count >= local[c].at
                           /\ mirror'[local[c].kid] = -1 => local[c].kid \in store
    BY <1>1 DEF KC!FindsItAgain
  <2> QED BY <1>3, <1>5 DEF KC!FindsItAgain, KC!Shaped
<1>7. KC!KeysFollowRealm'
  <2> SUFFICES ASSUME mode = "service", NEW c \in keyCache.Checks \ excepted, local[c].pc = "done"
               PROVE  LET state == mirror'[local[c].kid] IN
                        /\ local[c].accepted = TRUE => state \in {-1, -2} \/ local[c].at - state <= keyCache.TTL
                        /\ local[c].accepted = FALSE => state # -1
    BY <1>1 DEF KC!KeysFollowRealm, KC!Judged
  <2> DEFINE kid == local[c].kid
             accepted == local[c].accepted
  <2>1. kid \in keyCache.Kids /\ mirror[kid] # -2 /\ local[c].at \in Nat /\ local[c].at <= time
    BY <1>5 DEF KC!Shaped
  <2>2. /\ accepted = TRUE => mirror[kid] \in {-1, -2} \/ local[c].at - mirror[kid] <= keyCache.TTL
        /\ accepted = FALSE => mirror[kid] # -1
    BY DEF KC!KeysFollowRealm, KC!Judged
  <2> HIDE DEF kid, accepted
  <2>3. /\ accepted = TRUE => mirror'[kid] \in {-1, -2} \/ local[c].at - mirror'[kid] <= keyCache.TTL
        /\ accepted = FALSE => mirror'[kid] # -1
    BY <1>3, <2>1, <2>2
  <2> QED BY <2>3 DEF kid, accepted
<1> QED BY <1>2, <1>4, <1>6, <1>7

\* What CacheInv asks of the local state of an undisturbed verification.
CheckFine(me) ==
  /\ me.pc = "age" /\ me.found => me.kid \in store
  /\ me.pc = "again" => count >= me.at /\ (mirror[me.kid] = -1 => me.kid \in store)
  /\ me.pc = "done" /\ me.accepted = TRUE =>
       mirror[me.kid] \in {-1, -2} \/ me.at - mirror[me.kid] <= keyCache.TTL
  /\ me.pc = "done" /\ me.accepted = FALSE => mirror[me.kid] # -1

ChecksFine == mode = "service" => \A c \in keyCache.Checks \ excepted : CheckFine(local[c])

\* The invariant, verification by verification.
LEMMA CacheParts == KC!CacheInv <=> KC!CacheTypes /\ KC!CachedWasPublished /\ ChecksFine
BY DEF ChecksFine, KC!CacheInv, KC!FindsItAgain, KC!KeysFollowRealm, KC!Judged, CheckFine, KC!Published,
       KC!Future

\* keyFor and verifyJWT between their accesses to the cache.
LEMMA LocalCheckStep ==
  ASSUME KC!CacheInv, UNCHANGED <<mode, mirror, store, count, time>>,
         excepted \subseteq excepted', NEW c \in keyCache.Checks, NEW me,
         local' = [local EXCEPT ![c] = me], KC!Shaped(me),
         mode = "service" /\ c \notin excepted' => CheckFine(me)
  PROVE  KC!CacheInv'
<1>1. KC!CacheTypes /\ KC!CachedWasPublished
  BY DEF KC!CacheInv
<1>2. \A d \in keyCache.Checks : local'[d] = IF d = c THEN me ELSE local[d]
  BY <1>1 DEF KC!CacheTypes
<1>3. KC!CacheTypes'
  BY <1>1, <1>2 DEF KC!CacheTypes, KC!Shaped
<1>4. KC!CachedWasPublished'
  BY <1>1 DEF KC!CachedWasPublished
<1>5. ChecksFine'
  BY <1>2, CacheParts DEF ChecksFine, CheckFine
<1> QED BY <1>3, <1>4, <1>5, CacheParts, PTL

\* Each step of a verification that does not replace the set.
LEMMA VerificationStep ==
  ASSUME KC!Parameters, KC!CacheInv, NEW c \in keyCache.Checks,
         \/ \E k \in keyCache.Kids : KC!Lookup(c, k)
         \/ KC!Age(c) \/ KC!Fetch(c) \/ KC!FetchFails(c) \/ KC!Again(c)
  PROVE  KC!CacheInv'
<1> DEFINE me == local[c]
<1>0. /\ KC!CacheTypes /\ KC!CachedWasPublished /\ KC!Shaped(me)
      /\ mode = "service" /\ c \notin excepted => CheckFine(me)
  BY CacheParts DEF KC!CacheTypes, ChecksFine
<1>1. ASSUME NEW k \in keyCache.Kids, KC!Lookup(c, k) PROVE KC!CacheInv'
  <2> DEFINE found == k \in store
             new == IF mode = "service" THEN [pc |-> "age", kid |-> k, found |-> found, at |-> time]
                    ELSE IF found \/ time - count <= keyCache.TTL
                    THEN [pc |-> "done", kid |-> k, accepted |-> found, at |-> time]
                    ELSE [pc |-> "fetch", kid |-> k, found |-> found, at |-> time]
  <2>1. local' = [local EXCEPT ![c] = new] /\ UNCHANGED <<mode, mirror, store, count, time, excepted>>
    BY <1>1 DEF KC!Lookup
  <2>2. mirror[k] # KC!Future /\ time \in Nat
    BY <1>0, <1>1 DEF KC!Lookup, KC!Valid, KC!CacheTypes, KC!Published, KC!Future
  <2>3. KC!Shaped(new)
    BY <2>2 DEF KC!Shaped
  <2>4. mode = "service" => CheckFine(new)
    BY DEF CheckFine
  <2> HIDE DEF new
  <2> QED BY <2>1, <2>3, <2>4, LocalCheckStep
<1>2. CASE KC!Age(c)
  <2>1. CASE me.found /\ time - count < keyCache.TTL
    <3> DEFINE new == [pc |-> "done", kid |-> me.kid, accepted |-> TRUE, at |-> me.at]
    <3>1. /\ me.pc = "age" /\ local' = [local EXCEPT ![c] = new]
          /\ UNCHANGED <<mode, mirror, store, count, time, excepted>>
      BY <1>2, <2>1 DEF KC!Age, KC!Verdict
    <3>2. KC!Shaped(new)
      BY <1>0, <3>1 DEF KC!Shaped
    <3>3. mode = "service" /\ c \notin excepted => CheckFine(new)
      <4> SUFFICES ASSUME mode = "service", c \notin excepted
                   PROVE  mirror[me.kid] = -1 \/ me.at - mirror[me.kid] <= keyCache.TTL
        BY DEF CheckFine
      <4>1. me.kid \in store /\ ~ keyCache.Checks \subseteq excepted
        BY <1>0, <2>1, <3>1 DEF CheckFine
      <4>2. mirror[me.kid] = -1 \/ mirror[me.kid] >= count
        BY <1>0, <4>1 DEF KC!CachedWasPublished, KC!Published
      <4>3. /\ me.at \in Nat /\ me.at <= time /\ time \in Nat /\ count \in Int
            /\ mirror[me.kid] \in Int /\ keyCache.TTL \in Nat
        BY <1>0, <3>1, <4>1 DEF KC!Shaped, KC!CacheTypes, KC!Published, KC!Future, KC!Parameters
      <4> QED BY <2>1, <4>2, <4>3
    <3> HIDE DEF new
    <3> QED BY <3>1, <3>2, <3>3, LocalCheckStep
  <2>2. CASE ~(me.found /\ time - count < keyCache.TTL)
    <3> DEFINE new == [me EXCEPT !.pc = "fetch"]
    <3>1. /\ me.pc = "age" /\ local' = [local EXCEPT ![c] = new]
          /\ UNCHANGED <<mode, mirror, store, count, time, excepted>>
      BY <1>2, <2>2 DEF KC!Age, KC!Goto
    <3>2. KC!Shaped(new)
      BY <1>0, <3>1 DEF KC!Shaped
    <3>3. CheckFine(new)
      BY <1>0, <3>1 DEF CheckFine, KC!Shaped
    <3> HIDE DEF new
    <3> QED BY <3>1, <3>2, <3>3, LocalCheckStep
  <2> QED BY <2>1, <2>2
<1>3. CASE KC!Fetch(c)
  <2> DEFINE new == [pc |-> "install", kid |-> me.kid, doc |-> KC!Valid, at |-> me.at]
  <2>1. /\ me.pc = "fetch" /\ local' = [local EXCEPT ![c] = new]
        /\ UNCHANGED <<mode, mirror, store, count, time, excepted>>
    BY <1>3 DEF KC!Fetch
  <2>2. KC!Shaped(new)
    BY <1>0, <2>1 DEF KC!Shaped, KC!Valid, KC!Published, KC!Future
  <2>3. CheckFine(new)
    BY DEF CheckFine
  <2> HIDE DEF new
  <2> QED BY <2>1, <2>2, <2>3, LocalCheckStep
<1>4. CASE KC!FetchFails(c)
  <2> DEFINE new == IF mode = "service" THEN [me EXCEPT !.pc = "again"]
                    ELSE [pc |-> "done", kid |-> me.kid, accepted |-> FALSE, at |-> me.at]
  <2>1. /\ me.pc = "fetch" /\ local' = [local EXCEPT ![c] = new]
        /\ UNCHANGED <<mode, mirror, store, count, time>> /\ excepted' = excepted \cup {c}
    BY <1>4 DEF KC!FetchFails, KC!Goto, KC!Verdict
  <2>2. KC!Shaped(new)
    BY <1>0, <2>1 DEF KC!Shaped
  <2> HIDE DEF new
  <2> QED BY <2>1, <2>2, LocalCheckStep
<1>5. CASE KC!Again(c)
  <2> DEFINE new == [pc |-> "done", kid |-> me.kid, accepted |-> me.kid \in store, at |-> me.at]
  <2>1. /\ me.pc = "again" /\ local' = [local EXCEPT ![c] = new]
        /\ UNCHANGED <<mode, mirror, store, count, time, excepted>>
    BY <1>5 DEF KC!Again, KC!Verdict
  <2>2. KC!Shaped(new)
    BY <1>0, <2>1 DEF KC!Shaped
  <2>3. mode = "service" /\ c \notin excepted => CheckFine(new)
    <3> SUFFICES ASSUME mode = "service", c \notin excepted
                 PROVE  CheckFine(new)
      OBVIOUS
    <3>1. /\ count >= me.at /\ (mirror[me.kid] = -1 => me.kid \in store)
          /\ ~ keyCache.Checks \subseteq excepted
      BY <1>0, <2>1 DEF CheckFine
    <3>2. me.kid \in store => mirror[me.kid] = -1 \/ mirror[me.kid] >= count
      BY <1>0, <3>1 DEF KC!CachedWasPublished, KC!Published
    <3>3. /\ me.at \in Nat /\ count \in Int /\ me.kid \in keyCache.Kids
          /\ mirror[me.kid] \in Int /\ keyCache.TTL \in Nat
      BY <1>0, <2>1 DEF KC!Shaped, KC!CacheTypes, KC!Published, KC!Future, KC!Parameters
    <3>4. me.kid \in store => mirror[me.kid] = -1 \/ me.at - mirror[me.kid] <= keyCache.TTL
      BY <3>1, <3>2, <3>3
    <3> QED BY <3>1, <3>4 DEF CheckFine
  <2> HIDE DEF new
  <2> QED BY <2>1, <2>2, <2>3, LocalCheckStep
<1> QED BY <1>1, <1>2, <1>3, <1>4, <1>5

\* refresh replaces the set: it disturbs everybody else who is at it, and a
\* set that came late disturbs all.
LEMMA InstallStep ==
  ASSUME KC!Parameters, KC!CacheInv, NEW c \in keyCache.Checks, KC!Install(c)
  PROVE  KC!CacheInv'
<1> DEFINE me == local[c]
           new == [me EXCEPT !.pc = "again"]
<1>1. /\ KC!CacheTypes /\ KC!CachedWasPublished /\ KC!Shaped(me) /\ ChecksFine
      /\ time \in Nat /\ count \in Int /\ count <= time
  BY CacheParts DEF KC!CacheTypes
<1>2. /\ me.pc = "install" /\ store' = me.doc /\ count' = time
      /\ excepted \subseteq excepted' /\ KC!UnderWay \ {c} \subseteq excepted'
      /\ me.doc # KC!Valid => keyCache.Checks \subseteq excepted'
      /\ local' = [local EXCEPT ![c] = new] /\ UNCHANGED <<mode, mirror, time>>
  BY DEF KC!Install, KC!Goto, KC!Replaced
<1>3. /\ me.doc \subseteq keyCache.Kids /\ \A k \in me.doc : mirror[k] # KC!Future
      /\ me.kid \in keyCache.Kids /\ mirror[me.kid] # KC!Future
      /\ me.at \in Nat /\ me.at <= time
      /\ me = [pc |-> me.pc, kid |-> me.kid, doc |-> me.doc, at |-> me.at]
  BY <1>1, <1>2 DEF KC!Shaped
<1>4. new.pc = "again" /\ new.kid = me.kid /\ new.at = me.at
  BY <1>3
<1> HIDE DEF new
<1>5. KC!Shaped(new)
  BY <1>3, <1>4 DEF KC!Shaped
<1>6. \A d \in keyCache.Checks : local'[d] = IF d = c THEN new ELSE local[d]
  BY <1>1, <1>2 DEF KC!CacheTypes
<1>7. KC!CacheTypes'
  BY <1>1, <1>2, <1>3, <1>5, <1>6 DEF KC!CacheTypes, KC!Shaped
<1>8. KC!CachedWasPublished'
  BY <1>2 DEF KC!CachedWasPublished, KC!Valid
<1>9. ChecksFine'
  <2> SUFFICES ASSUME mode = "service", NEW d \in keyCache.Checks, d \notin excepted'
               PROVE  CheckFine(local[d])'
    BY <1>2 DEF ChecksFine
  <2>1. CASE d = c
    BY <1>1, <1>2, <1>3, <1>4, <1>6, <2>1 DEF CheckFine, KC!Valid, KC!Published
  <2>2. CASE d # c
    <3>1. local'[d] = local[d] /\ local[d].pc \in {"new", "done"} /\ CheckFine(local[d])
      BY <1>1, <1>2, <1>6, <2>2 DEF KC!UnderWay, ChecksFine
    <3> QED BY <1>2, <3>1 DEF CheckFine
  <2> QED BY <2>1, <2>2
<1> QED BY <1>7, <1>8, <1>9, CacheParts, PTL

\* Any step of the cache.
LEMMA CacheStep ==
  ASSUME KC!Parameters, KC!CacheInv, [KC!Next]_KC!vars
  PROVE  KC!CacheInv'
<1>1. CASE KC!Tick
  <2>1. KC!CacheTypes'
    BY <1>1 DEF KC!Tick, KC!CacheInv, KC!CacheTypes, KC!Shaped
  <2> QED BY <1>1, <2>1 DEF KC!Tick, KC!CacheInv, KC!CachedWasPublished, KC!FindsItAgain,
                            KC!KeysFollowRealm, KC!Judged
<1>2. CASE UNCHANGED KC!vars
  BY <1>2 DEF KC!vars, KC!CacheInv, KC!CacheTypes, KC!Shaped, KC!CachedWasPublished,
              KC!FindsItAgain, KC!KeysFollowRealm, KC!Judged
<1> QED BY <1>1, <1>2, RealmStep, VerificationStep, InstallStep DEF KC!Next

\* keyFor: for any number of verifications, keys and lost fetches, a service
\* trusts a key for TTL after Keycloak has withdrawn it and no longer, and
\* refuses none that is published, but for the cases KeysFollowRealm names.
THEOREM KeysAreFollowed == Spec => []KeysFollowRealm
<1>1. Init => KeysInv
  <2> SUFFICES ASSUME KC!Init PROVE KC!CacheInv
    BY DEF Init, KeysInv
  <2> USE DEF KC!Init, KC!Published, KC!Future
  <2>1. KC!CacheTypes
    BY PlatformAssumption DEF KC!CacheTypes, KC!Shaped, KC!New, KC!Valid, KC!Parameters, KC!Verifiers
  <2>2. KC!CachedWasPublished
    BY DEF KC!CachedWasPublished, KC!Valid
  <2>3. \A c \in keyCache.Checks : local[c].pc = "new"
    BY DEF KC!New
  <2> QED BY <2>1, <2>2, <2>3 DEF KC!CacheInv, KC!FindsItAgain, KC!KeysFollowRealm, KC!Judged
<1>2. KeysInv /\ [Next]_vars => KeysInv'
  <2> SUFFICES ASSUME KeysInv, [Next]_vars, service' = "keys"
               PROVE  KC!CacheInv'
    BY DEF KeysInv
  <2>1. service = "keys" /\ [KC!Next]_KC!vars
    BY DEF Next, vars, KC!vars
  <2> QED BY <2>1, CacheStep, PlatformAssumption DEF KeysInv
<1>3. KeysInv => KeysFollowRealm
  BY DEF KeysInv, KeysFollowRealm, KC!CacheInv
<1> QED BY <1>1, <1>2, <1>3, PTL DEF Spec

-----------------------------------------------------------------------------
(* Audit evidence.                                                         *)

AuditInv == service = "evidence" => AE!EvidenceInv

\* The hash at the end of the file.
LEMMA EndIsNat == AE!LogInOrder => AE!EndOfFile \in Nat /\ Len(store) \in Nat
<1> SUFFICES ASSUME AE!LogInOrder PROVE AE!EndOfFile \in Nat /\ Len(store) \in Nat
  OBVIOUS
<1>1. store \in Seq([seq : Nat, hashed : AE!Hashes])
  BY DEF AE!LogInOrder
<1>2. store # <<>> => store[Len(store)] \in [seq : Nat, hashed : AE!Hashes]
  <2> DEFINE Lines == [seq : Nat, hashed : AE!Hashes]
  <2>1. store \in Seq(Lines)
    BY <1>1
  <2> HIDE DEF Lines
  <2>2. store # <<>> => store[Len(store)] \in Lines
    BY <2>1
  <2> QED BY <2>2 DEF Lines
<1> QED BY <1>1, <1>2 DEF AE!EndOfFile, AE!Hashes

\* What a step of one writer keeps: the shapes of the local states.
LEMMA WriterMoves ==
  ASSUME AE!EvidenceTypes, NEW x \in evidence.Writers, NEW me, AE!WriterShaped(me),
         local' = [local EXCEPT ![x] = me]
  PROVE  /\ local' = [y \in evidence.Writers |-> local'[y]]
         /\ \A y \in evidence.Writers : AE!WriterShaped(local'[y])
         /\ \A y \in evidence.Writers : local'[y] = IF y = x THEN me ELSE local[y]
BY DEF AE!EvidenceTypes

\* A step of AuditLog.Append puts no object and leaves those who do.
LEMMA PutsUndisturbed ==
  ASSUME AE!EvidenceInv, NEW x \in evidence.Writers, NEW me, AE!WriterShaped(me),
         local[x].pc \notin {"blob", "object"}, me.pc \notin {"blob", "object"},
         local' = [local EXCEPT ![x] = me], UNCHANGED <<mirror, past, w>>
  PROVE  AE!PutsInTurn' /\ AE!EvidenceVerifies'
<1>1. \A y \in evidence.Writers : local'[y] = IF y = x THEN me ELSE local[y]
  BY WriterMoves DEF AE!EvidenceInv
<1>2. \A id \in evidence.Ids :
        /\ AE!Putting(id)' = AE!Putting(id)
        /\ \A y \in AE!Putting(id) : local'[y] = local[y]
  BY <1>1 DEF AE!Putting
<1> QED BY <1>2 DEF AE!EvidenceInv, AE!PutsInTurn, AE!EvidenceVerifies, AE!Verifies

\* Hash: a second append at the same time disturbs the log.
LEMMA HashStep ==
  ASSUME AE!EvidenceInv, NEW x \in evidence.Writers, AE!Hash(x)
  PROVE  AE!EvidenceInv'
<1> DEFINE h == [event |-> sent + 1, hashedSeq |-> u, prev |-> v]
           me == [pc |-> "write", hashed |-> h]
<1>1. /\ local[x] = AE!Resting /\ sent' = sent + 1
      /\ local' = [local EXCEPT ![x] = me]
      /\ excepted' = (excepted \/ \E y \in evidence.Writers : local[y].pc \in {"write", "remember"})
      /\ UNCHANGED <<store, mode, count, u, v, mirror, past, w, faults>>
  BY DEF AE!Hash, AE!Hashed, AE!wormVars
<1>2. AE!WriterShaped(me)
  BY DEF AE!WriterShaped
<1>3. /\ local' = [y \in evidence.Writers |-> local'[y]]
      /\ \A y \in evidence.Writers : AE!WriterShaped(local'[y])
      /\ \A y \in evidence.Writers : local'[y] = IF y = x THEN me ELSE local[y]
  BY <1>1, <1>2, WriterMoves DEF AE!EvidenceInv
<1>4. AE!EvidenceTypes'
  <2>1. excepted' \in BOOLEAN
    BY <1>1
  <2>2. sent' \in Nat
    BY <1>1 DEF AE!EvidenceInv, AE!EvidenceTypes
  <2> HIDE DEF me
  <2> QED BY <1>1, <1>3, <2>1, <2>2 DEF AE!EvidenceInv, AE!EvidenceTypes, AE!WriterShaped
<1>5. AE!PutsInTurn' /\ AE!EvidenceVerifies'
  <2>1. local[x].pc = "rest" /\ me.pc = "write"
    BY <1>1 DEF AE!Resting
  <2> HIDE DEF me
  <2> QED BY <1>1, <1>2, <2>1, PutsUndisturbed
<1>6. AE!UntouchedChainVerifies'
  BY <1>1 DEF AE!EvidenceInv, AE!UntouchedChainVerifies, AE!ChainValid
<1>7. ~excepted' => AE!LogInOrder'
  <2> SUFFICES ASSUME ~excepted' PROVE AE!LogInOrder'
    OBVIOUS
  <2>1. ~excepted /\ AE!LogInOrder /\ \A y \in evidence.Writers : local[y].pc \notin {"write", "remember"}
    BY <1>1 DEF AE!EvidenceInv
  <2>2. u = Len(store) + 1 /\ v = AE!EndOfFile /\ u \in Nat /\ v \in Nat /\ sent + 1 \in Nat
    <3>1. u = Len(store) + 1 /\ v = AE!EndOfFile
      BY <2>1 DEF AE!LogInOrder
    <3>2. AE!EndOfFile \in Nat /\ Len(store) \in Nat
      BY <2>1, EndIsNat
    <3> QED BY <3>1, <3>2 DEF AE!EvidenceInv, AE!EvidenceTypes
  <2>3. h \in AE!Hashes
    BY <2>2 DEF AE!Hashes
  <2>4. \A y \in evidence.Writers :
          /\ local'[y].pc = "write" => y = x /\ local'[y].hashed = h
          /\ local'[y].pc # "remember"
    BY <1>3, <2>1
  <2>5. h.hashedSeq = u /\ h.prev = v
    OBVIOUS
  <2> HIDE DEF h, me
  <2> QED BY <1>1, <2>1, <2>2, <2>3, <2>4, <2>5 DEF AE!LogInOrder, AE!Appending, AE!EndOfFile
<1> QED BY <1>4, <1>5, <1>6, <1>7 DEF AE!EvidenceInv

\* AppendLog.Append: behind the line that the hash was computed over.
LEMMA WriteLineStep ==
  ASSUME AE!EvidenceInv, NEW x \in evidence.Writers, AE!WriteLine(x)
  PROVE  AE!EvidenceInv'
<1> DEFINE me == local[x]
           new == [pc |-> "remember", hashed |-> me.hashed]
           line == [seq |-> count + 1, hashed |-> me.hashed]
<1>1. me.pc = "write"
  BY DEF AE!WriteLine
<1>2. local' = [local EXCEPT ![x] = new]
  BY DEF AE!WriteLine
<1>3. /\ count' = count + 1 /\ store' = (IF "torn" \in mode THEN store ELSE Append(store, line))
      /\ mode' = (IF "torn" \in mode THEN {"garbled"} ELSE {})
      /\ UNCHANGED <<u, v, sent, excepted, mirror, past, w>>
  BY DEF AE!WriteLine, AE!Written, AE!wormVars, AE!Line
<1>4. AE!WriterShaped(new) /\ new.pc = "remember" /\ new.hashed = me.hashed
  BY DEF AE!WriterShaped
<1>5. line.seq = count + 1 /\ line.hashed = me.hashed /\ line = [seq |-> count + 1, hashed |-> me.hashed]
  OBVIOUS
<1> HIDE DEF me, new, line
<1>6. /\ local' = [y \in evidence.Writers |-> local'[y]]
      /\ \A y \in evidence.Writers : AE!WriterShaped(local'[y])
      /\ \A y \in evidence.Writers : local'[y] = IF y = x THEN new ELSE local[y]
  BY <1>2, <1>4, WriterMoves DEF AE!EvidenceInv
<1>7. AE!EvidenceTypes'
  BY <1>3, <1>6 DEF AE!EvidenceInv, AE!EvidenceTypes, AE!WriterShaped
<1>8. AE!PutsInTurn' /\ AE!EvidenceVerifies'
  BY <1>1, <1>2, <1>3, <1>4, PutsUndisturbed DEF me
<1>9. ~excepted => AE!LogInOrder' /\ AE!ChainValid'
  <2> SUFFICES ASSUME ~excepted PROVE AE!LogInOrder' /\ AE!ChainValid'
    OBVIOUS
  <2>1. AE!LogInOrder /\ AE!ChainValid
    BY DEF AE!EvidenceInv, AE!UntouchedChainVerifies
  <2>2. /\ store \in Seq([seq : Nat, hashed : AE!Hashes]) /\ count = Len(store) /\ mode = {}
        /\ me.hashed \in AE!Hashes /\ me.hashed.hashedSeq = u /\ me.hashed.prev = v
        /\ \A y \in evidence.Writers : local[y].pc \in {"write", "remember"} => y = x
    BY <1>1, <2>1 DEF AE!LogInOrder, AE!Appending, me
  <2>3. u = Len(store) + 1 /\ v = AE!EndOfFile
    BY <1>1, <2>1, <2>2 DEF AE!LogInOrder, me
  <2>4. line \in [seq : Nat, hashed : AE!Hashes]
    BY <1>5, <2>2
  <2>5. /\ store' = Append(store, line) /\ store' \in Seq([seq : Nat, hashed : AE!Hashes])
        /\ Len(store') = Len(store) + 1 /\ Len(store) \in Nat /\ store' # <<>>
        /\ DOMAIN store' = 1..(Len(store) + 1) /\ DOMAIN store = 1..Len(store)
    BY <1>3, <2>2, <2>4
  <2>6. store'[Len(store) + 1] = line /\ \A i \in 1..Len(store) : store'[i] = store[i]
    BY <2>2, <2>4, <2>5
  <2>7. \A i \in DOMAIN store' : store'[i].seq = i
    BY <1>5, <2>1, <2>2, <2>5, <2>6 DEF AE!LogInOrder
  <2>8. \A y \in evidence.Writers : local'[y].pc \in {"write", "remember"} =>
          y = x /\ local'[y].pc = "remember" /\ local'[y].hashed = store'[Len(store')].hashed
    BY <1>4, <1>5, <1>6, <2>2, <2>5, <2>6
  <2>9. local'[x].pc = "remember"
    BY <1>4, <1>6
  <2>10. AE!LogInOrder'
    BY <1>3, <2>2, <2>5, <2>7, <2>8, <2>9 DEF AE!LogInOrder, AE!Appending
  <2>11. AE!ChainValid'
    <3> SUFFICES ASSUME NEW i \in DOMAIN store'
                 PROVE  /\ store'[i].hashed.hashedSeq = store'[i].seq
                        /\ store'[i].hashed.prev = IF i = 1 THEN 0 ELSE store'[i - 1].hashed.event
      BY DEF AE!ChainValid
    <3>1. CASE i \in 1..Len(store)
      <4>1. i # 1 => i - 1 \in 1..Len(store)
        BY <2>5, <3>1
      <4> QED BY <2>1, <2>5, <2>6, <3>1, <4>1 DEF AE!ChainValid
    <3>2. CASE i = Len(store) + 1
      <4>1. CASE store = <<>>
        BY <1>5, <2>2, <2>3, <2>6, <3>2, <4>1 DEF AE!EndOfFile
      <4>2. CASE store # <<>>
        <5>1. Len(store) \in 1..Len(store) /\ i # 1 /\ i - 1 = Len(store)
          BY <2>2, <2>5, <3>2, <4>2
        <5> QED BY <1>5, <2>2, <2>3, <2>6, <3>2, <4>2, <5>1 DEF AE!EndOfFile
      <4> QED BY <4>1, <4>2
    <3> QED BY <2>5, <3>1, <3>2
  <2> QED BY <2>10, <2>11
<1> QED BY <1>3, <1>7, <1>8, <1>9 DEF AE!EvidenceInv, AE!UntouchedChainVerifies

\* A write that fails disturbs the log for good.
LEMMA WriteFailsStep ==
  ASSUME AE!EvidenceInv, NEW x \in evidence.Writers, AE!WriteFails(x)
  PROVE  AE!EvidenceInv'
<1>1. /\ local[x].pc = "write" /\ local' = [local EXCEPT ![x] = AE!Resting]
      /\ excepted' = TRUE /\ UNCHANGED <<sent, mirror, past, w>>
  BY DEF AE!WriteFails, AE!wormVars
<1>2. AE!WriterShaped(AE!Resting) /\ AE!Resting.pc = "rest"
  BY DEF AE!WriterShaped, AE!Resting
<1>3. AE!EvidenceTypes'
  BY <1>1, <1>2, WriterMoves DEF AE!EvidenceInv, AE!EvidenceTypes, AE!WriterShaped
<1>4. AE!PutsInTurn' /\ AE!EvidenceVerifies'
  BY <1>1, <1>2, PutsUndisturbed
<1> QED BY <1>1, <1>3, <1>4 DEF AE!EvidenceInv, AE!UntouchedChainVerifies

\* Append remembers the number and the hash of the line it has written.
LEMMA RememberStep ==
  ASSUME AE!EvidenceInv, NEW x \in evidence.Writers, AE!Remember(x)
  PROVE  AE!EvidenceInv'
<1>1. /\ local[x].pc = "remember" /\ local' = [local EXCEPT ![x] = AE!Resting]
      /\ u' = count + 1 /\ v' = local[x].hashed.event
      /\ UNCHANGED <<store, mode, count, sent, excepted, mirror, past, w>>
  BY DEF AE!Remember, AE!wormVars
<1>2. AE!WriterShaped(AE!Resting) /\ AE!Resting.pc = "rest"
  BY DEF AE!WriterShaped, AE!Resting
<1>3. /\ local' = [y \in evidence.Writers |-> local'[y]]
      /\ \A y \in evidence.Writers : AE!WriterShaped(local'[y])
      /\ \A y \in evidence.Writers : local'[y] = IF y = x THEN AE!Resting ELSE local[y]
  BY <1>1, <1>2, WriterMoves DEF AE!EvidenceInv
<1>4. AE!EvidenceTypes'
  BY <1>1, <1>3 DEF AE!EvidenceInv, AE!EvidenceTypes, AE!WriterShaped
<1>5. AE!PutsInTurn' /\ AE!EvidenceVerifies'
  BY <1>1, <1>2, PutsUndisturbed
<1>6. AE!UntouchedChainVerifies'
  BY <1>1 DEF AE!EvidenceInv, AE!UntouchedChainVerifies, AE!ChainValid
<1>7. ~excepted => AE!LogInOrder'
  <2> SUFFICES ASSUME ~excepted PROVE AE!LogInOrder'
    OBVIOUS
  <2>1. AE!LogInOrder /\ \A y \in evidence.Writers : local[y].pc \in {"write", "remember"} => y = x
    BY <1>1 DEF AE!EvidenceInv, AE!LogInOrder, AE!Appending
  <2>2. u' = Len(store) + 1 /\ v' = AE!EndOfFile
    BY <1>1, <2>1 DEF AE!LogInOrder, AE!EndOfFile
  <2>3. \A y \in evidence.Writers : local'[y].pc \notin {"write", "remember"}
    BY <1>2, <1>3, <2>1
  <2> QED BY <1>1, <2>1, <2>2, <2>3 DEF AE!LogInOrder, AE!Appending, AE!EndOfFile
<1> QED BY <1>1, <1>4, <1>5, <1>6, <1>7 DEF AE!EvidenceInv

\* OpenAuditLog: in an undisturbed file the last number is the greatest.
LEMMA ReopenStep ==
  ASSUME AE!EvidenceInv, AE!Reopen
  PROVE  AE!EvidenceInv'
<1> DEFINE seqs == {store[i].seq : i \in DOMAIN store}
<1>1. /\ count' = (IF seqs = {} THEN 0 ELSE CHOOSE m \in seqs : \A k \in seqs : k <= m)
      /\ "garbled" \notin mode =>
           /\ u' = (IF store = <<>> THEN 1 ELSE store[Len(store)].seq + 1)
           /\ v' = AE!EndOfFile
      /\ local' = [x \in evidence.Writers |-> AE!Resting]
      /\ UNCHANGED <<store, sent, mirror, past, w>>
  BY DEF AE!Reopen, AE!NumberAfter, AE!EndOfFile, AE!wormVars
<1>2. (UNCHANGED <<mode, excepted>>) \/ excepted' = TRUE
  BY DEF AE!Reopen
<1>3. \A x \in evidence.Writers : local'[x] = AE!Resting /\ local'[x].pc = "rest"
  BY <1>1 DEF AE!Resting
<1>4. AE!EvidenceTypes'
  <2>1. excepted' \in BOOLEAN
    BY <1>2 DEF AE!EvidenceInv, AE!EvidenceTypes
  <2> QED BY <1>1, <1>3, <2>1 DEF AE!EvidenceInv, AE!EvidenceTypes, AE!WriterShaped
<1>5. AE!PutsInTurn' /\ AE!EvidenceVerifies'
  BY <1>1, <1>3 DEF AE!EvidenceInv, AE!PutsInTurn, AE!Putting, AE!EvidenceVerifies, AE!Verifies
<1>6. AE!UntouchedChainVerifies'
  BY <1>1, <1>2 DEF AE!EvidenceInv, AE!UntouchedChainVerifies, AE!ChainValid
<1>7. ~excepted' => AE!LogInOrder'
  <2> SUFFICES ASSUME ~excepted' PROVE AE!LogInOrder'
    OBVIOUS
  <2>1. AE!LogInOrder /\ mode' = mode /\ mode = {}
    BY <1>2 DEF AE!EvidenceInv, AE!LogInOrder
  <2>2. /\ Len(store) \in Nat /\ DOMAIN store = 1..Len(store)
        /\ \A i \in 1..Len(store) : store[i].seq = i
        /\ store = <<>> <=> Len(store) = 0
    BY <2>1 DEF AE!LogInOrder
  <2>3. count' = Len(store)
    <3>1. seqs = 1..Len(store)
      BY <2>2
    <3> HIDE DEF seqs
    <3>2. CASE Len(store) = 0
      BY <1>1, <3>1, <3>2
    <3>3. CASE Len(store) # 0
      <4>1. Len(store) \in seqs /\ \A k \in seqs : k <= Len(store)
        BY <2>2, <3>1, <3>3
      <4>2. count' \in seqs /\ \A k \in seqs : k <= count'
        BY <1>1, <4>1
      <4> QED BY <2>2, <3>1, <4>1, <4>2
    <3> QED BY <3>2, <3>3
  <2>4. u' = Len(store) + 1 /\ v' = AE!EndOfFile
    BY <1>1, <2>1, <2>2
  <2> QED BY <1>1, <1>3, <2>1, <2>3, <2>4 DEF AE!LogInOrder, AE!Appending, AE!EndOfFile
<1> QED BY <1>4, <1>5, <1>6, <1>7 DEF AE!EvidenceInv

\* A step of WormStore.Put appends nothing and leaves those who do.
LEMMA LogUndisturbed ==
  ASSUME AE!EvidenceInv, NEW x \in evidence.Writers, NEW me, AE!WriterShaped(me),
         local[x].pc \notin {"write", "remember"}, me.pc \notin {"write", "remember"},
         local' = [local EXCEPT ![x] = me],
         UNCHANGED <<store, mode, count, u, v, sent, excepted>>
  PROVE  (~excepted' => AE!LogInOrder') /\ AE!UntouchedChainVerifies'
<1>1. \A y \in evidence.Writers : local'[y] = IF y = x THEN me ELSE local[y]
  BY WriterMoves DEF AE!EvidenceInv
<1>2. AE!Appending' = AE!Appending /\ \A y \in AE!Appending : local'[y] = local[y]
  BY <1>1 DEF AE!Appending
<1>3. \A y \in evidence.Writers \ AE!Appending : local'[y].pc \notin {"write", "remember"}
  BY <1>1 DEF AE!Appending
<1>4. AE!UntouchedChainVerifies'
  BY DEF AE!EvidenceInv, AE!UntouchedChainVerifies, AE!ChainValid
<1>5. ASSUME ~excepted' PROVE AE!LogInOrder'
  <2>1. AE!LogInOrder
    BY <1>5 DEF AE!EvidenceInv
  <2>2. \A y \in evidence.Writers :
          /\ local'[y].pc = "write" <=> local[y].pc = "write"
          /\ local'[y].pc = "remember" <=> local[y].pc = "remember"
          /\ local[y].pc \in {"write", "remember"} => local'[y].hashed = local[y].hashed
    BY <1>1
  <2> QED BY <1>2, <2>1, <2>2 DEF AE!LogInOrder, AE!EndOfFile
<1> QED BY <1>4, <1>5

\* WormStore.Put checks: a second request under way, or one that overlooks
\* an object, exposes the id.
LEMMA PutCheckStep ==
  ASSUME AE!EvidenceInv, NEW x \in evidence.Writers, NEW id \in evidence.Ids,
         NEW content \in evidence.Contents, AE!PutCheck(x, id, content)
  PROVE  AE!EvidenceInv'
<1> DEFINE me == [pc |-> "blob", id |-> id, content |-> content]
<1>1. /\ local[x] = AE!Resting /\ local[x].pc = "rest"
      /\ local' = [local EXCEPT ![x] = me]
      /\ w' = IF AE!Putting(id) # {} \/ past[id] # AE!Nothing THEN w \cup {id} ELSE w
      /\ UNCHANGED <<store, mode, count, u, v, sent, excepted, mirror, past>>
  BY DEF AE!PutCheck, AE!Resting, AE!auditVars
<1>2. AE!WriterShaped(me) /\ me.pc = "blob" /\ me.id = id
  BY DEF AE!WriterShaped
<1> HIDE DEF me
<1>3. (~excepted' => AE!LogInOrder') /\ AE!UntouchedChainVerifies'
  BY <1>1, <1>2, LogUndisturbed
<1>4. /\ local' = [y \in evidence.Writers |-> local'[y]]
      /\ \A y \in evidence.Writers : AE!WriterShaped(local'[y])
      /\ \A y \in evidence.Writers : local'[y] = IF y = x THEN me ELSE local[y]
  BY <1>1, <1>2, WriterMoves DEF AE!EvidenceInv
<1>5. AE!EvidenceTypes'
  BY <1>1, <1>4 DEF AE!EvidenceInv, AE!EvidenceTypes, AE!WriterShaped
<1>6. AE!PutsInTurn'
  <2> SUFFICES ASSUME NEW i \in evidence.Ids \ w'
               PROVE  /\ \A y, z \in AE!Putting(i)' : y = z
                      /\ \A y \in AE!Putting(i)' : past[i] = AE!Nothing
                            /\ (local'[y].pc = "object" => mirror[i] = local'[y].content)
    BY <1>1 DEF AE!PutsInTurn
  <2>1. i \notin w /\ (i = id => AE!Putting(id) = {} /\ past[id] = AE!Nothing)
    BY <1>1
  <2>2. AE!Putting(i)' = IF i = id THEN {x} ELSE AE!Putting(i)
    BY <1>1, <1>2, <1>4, <2>1 DEF AE!Putting
  <2>3. \A y \in AE!Putting(i) : local'[y] = local[y]
    BY <1>1, <1>4 DEF AE!Putting
  <2> QED BY <1>1, <1>2, <1>4, <2>1, <2>2, <2>3 DEF AE!EvidenceInv, AE!PutsInTurn
<1>7. AE!EvidenceVerifies'
  BY <1>1 DEF AE!EvidenceInv, AE!EvidenceVerifies, AE!Verifies
<1> QED BY <1>3, <1>5, <1>6, <1>7 DEF AE!EvidenceInv

\* The blob, the object, or a failure: the request that holds an id alone
\* finds no object of it, and writes one over its own blob.
LEMMA PutStep ==
  ASSUME AE!EvidenceInv, NEW x \in evidence.Writers,
         AE!PutBlob(x) \/ AE!PutObject(x) \/ AE!PutFails(x)
  PROVE  AE!EvidenceInv'
<1> DEFINE me == local[x]
           next == [pc |-> "object", id |-> me.id, content |-> me.content]
           new == IF AE!PutBlob(x) THEN next ELSE AE!Resting
<1>1. /\ me.pc \in {"blob", "object"} /\ me.id \in evidence.Ids /\ me.content \in evidence.Contents
      /\ [me EXCEPT !.pc = "object"] = next
  <2>1. me.pc \in {"blob", "object"}
    BY DEF AE!PutBlob, AE!PutObject, AE!PutFails
  <2>2. me \in [pc : {"blob", "object"}, id : evidence.Ids, content : evidence.Contents]
    BY <2>1 DEF AE!EvidenceInv, AE!EvidenceTypes, AE!WriterShaped, AE!Resting
  <2> QED BY <2>2
<1>2. /\ local' = [local EXCEPT ![x] = new]
      /\ UNCHANGED <<store, mode, count, u, v, sent, excepted, w>>
  BY <1>1 DEF AE!PutBlob, AE!PutObject, AE!PutFails, AE!auditVars, AE!wormVars
<1>3. \/ AE!PutBlob(x) /\ mirror' = [mirror EXCEPT ![me.id] = me.content] /\ past' = past /\ new = next
      \/ /\ me.pc = "object" /\ mirror' = mirror /\ new = AE!Resting
         /\ past' = IF past[me.id] = AE!Nothing THEN [past EXCEPT ![me.id] = me.content] ELSE past
      \/ mirror' = mirror /\ past' = past /\ new = AE!Resting
  BY DEF AE!PutBlob, AE!PutObject, AE!PutFails, AE!wormVars
<1>4. /\ AE!WriterShaped(AE!Resting) /\ AE!Resting.pc = "rest"
      /\ AE!WriterShaped(next) /\ next.pc = "object" /\ next.id = me.id /\ next.content = me.content
  BY <1>1 DEF AE!WriterShaped, AE!Resting
<1>5. AE!WriterShaped(new) /\ new.pc \in {"rest", "object"}
  BY <1>4
<1> HIDE DEF me, next, new
<1>6. (~excepted' => AE!LogInOrder') /\ AE!UntouchedChainVerifies'
  BY <1>1, <1>2, <1>5, LogUndisturbed DEF me
<1>7. /\ local' = [y \in evidence.Writers |-> local'[y]]
      /\ \A y \in evidence.Writers : AE!WriterShaped(local'[y])
      /\ \A y \in evidence.Writers : local'[y] = IF y = x THEN new ELSE local[y]
  BY <1>2, <1>5, WriterMoves DEF AE!EvidenceInv
<1>8. AE!EvidenceTypes'
  <2>1. /\ mirror' \in [evidence.Ids -> evidence.Contents \cup {AE!Nothing}]
        /\ past' \in [evidence.Ids -> evidence.Contents \cup {AE!Nothing}]
    BY <1>1, <1>3 DEF AE!EvidenceInv, AE!EvidenceTypes
  <2> QED BY <1>2, <1>7, <2>1 DEF AE!EvidenceInv, AE!EvidenceTypes, AE!WriterShaped
<1>9. \A i \in evidence.Ids :
        /\ i # me.id => mirror'[i] = mirror[i] /\ past'[i] = past[i]
        /\ mirror'[me.id] = (IF new = next THEN me.content ELSE mirror[me.id])
        /\ new = next => past' = past
        /\ past'[me.id] = past[me.id] \/ (me.pc = "object" /\ new = AE!Resting /\ past'[me.id] = me.content)
  <2>1. next # AE!Resting
    BY <1>4
  <2> QED BY <1>1, <1>3, <2>1 DEF AE!EvidenceInv, AE!EvidenceTypes
<1>10. AE!PutsInTurn' /\ AE!EvidenceVerifies'
  <2> SUFFICES ASSUME NEW i \in evidence.Ids \ w
               PROVE  /\ \A y, z \in AE!Putting(i)' : y = z
                      /\ \A y \in AE!Putting(i)' : past'[i] = AE!Nothing
                            /\ (local'[y].pc = "object" => mirror'[i] = local'[y].content)
                      /\ past'[i] # AE!Nothing => mirror'[i] = past'[i]
    BY <1>2 DEF AE!PutsInTurn, AE!EvidenceVerifies, AE!Verifies
  <2>0. /\ \A y, z \in AE!Putting(i) : y = z
        /\ \A y \in AE!Putting(i) : past[i] = AE!Nothing
             /\ (local[y].pc = "object" => mirror[i] = local[y].content)
        /\ past[i] # AE!Nothing => mirror[i] = past[i]
    BY DEF AE!EvidenceInv, AE!PutsInTurn, AE!EvidenceVerifies, AE!Verifies
  <2>1. CASE i # me.id
    <3>1. AE!Putting(i)' = AE!Putting(i) /\ \A y \in AE!Putting(i) : local'[y] = local[y]
      BY <1>1, <1>4, <1>5, <1>7, <2>1 DEF AE!Putting, me, new
    <3> QED BY <1>9, <2>0, <2>1, <3>1
  <2>2. CASE i = me.id
    <3>1. AE!Putting(i) = {x}
      BY <1>1, <2>0, <2>2 DEF AE!Putting, me
    <3>2. past[i] = AE!Nothing /\ (me.pc = "object" => mirror[i] = me.content)
      BY <2>0, <3>1 DEF me
    <3>3. CASE new = next
      <4>1. AE!Putting(i)' = {x}
        BY <1>4, <1>7, <2>2, <3>1, <3>3 DEF AE!Putting
      <4> QED BY <1>4, <1>7, <1>9, <2>2, <3>2, <3>3, <4>1
    <3>4. CASE new # next
      <4>1. new = AE!Resting /\ AE!Putting(i)' = {}
        BY <1>3, <1>4, <1>7, <3>1, <3>4 DEF AE!Putting
      <4> QED BY <1>9, <2>2, <3>2, <3>4, <4>1
    <3> QED BY <3>3, <3>4
  <2> QED BY <2>1, <2>2
<1> QED BY <1>6, <1>8, <1>10 DEF AE!EvidenceInv

\* audit-evidence verifies what it holds, for any number of requests: the
\* hash chain, unless appends overlapped or one failed (evidence.go, Append),
\* and every object that was put by one request at a time.
THEOREM EvidenceAlwaysStands == Spec => []EvidenceStands
<1>1. Init => AuditInv
  <2> SUFFICES ASSUME AE!Init PROVE AE!EvidenceInv
    BY DEF Init, AuditInv
  <2>1. \A x \in evidence.Writers : local[x] = AE!Resting /\ local[x].pc = "rest"
    BY DEF AE!Init, AE!Resting
  <2>2. AE!EvidenceTypes
    BY <2>1 DEF AE!Init, AE!EvidenceTypes, AE!WriterShaped
  <2>3. AE!LogInOrder /\ AE!UntouchedChainVerifies
    BY <2>1 DEF AE!Init, AE!LogInOrder, AE!Appending, AE!EndOfFile, AE!UntouchedChainVerifies, AE!ChainValid
  <2>4. AE!PutsInTurn /\ AE!EvidenceVerifies
    BY <2>1 DEF AE!Init, AE!PutsInTurn, AE!Putting, AE!EvidenceVerifies
  <2> QED BY <2>2, <2>3, <2>4 DEF AE!EvidenceInv
<1>2. AuditInv /\ [Next]_vars => AuditInv'
  <2> SUFFICES ASSUME AuditInv, [Next]_vars, service' = "evidence"
               PROVE  AE!EvidenceInv'
    BY DEF AuditInv
  <2>1. service = "evidence" /\ [AE!Next]_AE!vars
    BY DEF Next, vars, AE!vars, AE!auditVars, AE!wormVars
  <2>2. AE!EvidenceInv
    BY <2>1 DEF AuditInv
  <2>3. CASE UNCHANGED AE!vars
    <3> USE <2>2, <2>3 DEF AE!vars, AE!auditVars, AE!wormVars
    <3>1. AE!EvidenceTypes'
      BY DEF AE!EvidenceInv, AE!EvidenceTypes, AE!WriterShaped
    <3>2. ~excepted' => AE!LogInOrder'
      BY DEF AE!EvidenceInv, AE!LogInOrder, AE!Appending, AE!EndOfFile
    <3>3. AE!PutsInTurn' /\ AE!UntouchedChainVerifies' /\ AE!EvidenceVerifies'
      BY DEF AE!EvidenceInv, AE!PutsInTurn, AE!Putting, AE!UntouchedChainVerifies, AE!ChainValid,
             AE!EvidenceVerifies, AE!Verifies
    <3> QED BY <3>1, <3>2, <3>3 DEF AE!EvidenceInv
  <2> QED BY <2>1, <2>2, <2>3, HashStep, WriteLineStep, WriteFailsStep, RememberStep, ReopenStep,
             PutCheckStep, PutStep DEF AE!Next
<1>3. AuditInv => EvidenceStands
  BY DEF AuditInv, EvidenceStands, AE!EvidenceInv, AE!EvidenceStands
<1> QED BY <1>1, <1>2, <1>3, PTL DEF Spec

-----------------------------------------------------------------------------
(* The client of TigerBeetle.                                              *)

RealClientInv == service = "real_client" => RC!ClientInv

\* A step of a call that is not over keeps the invariant, if the call ends
\* up with the truth and announces only an id that is new to the cluster.
LEMMA CallStep ==
  ASSUME RC!ClientInv, RC!ClusterDecidesOnce', store \subseteq store',
         NEW c \in realClient.Calls, local[c].pc # "done",
         NEW me, RC!CallShaped(me),
         me.pc \in {"create", "check"} => RC!SendsItsOwn(me),
         me.pc = "done" /\ me.answer \in {"ok", "exists"} => RC!SendsItsOwn(me) /\ me.send \in store',
         local' = [local EXCEPT ![c] = me],
         NEW told \in BOOLEAN, sent' = [sent EXCEPT ![c] = told],
         told => /\ me.pc = "done" /\ me.op \in {"plain", "pending"} /\ me.answer = "ok"
                 /\ \A t \in store : t.id # me.id
  PROVE  RC!ClientInv'
<1>1. /\ local' = [d \in realClient.Calls |-> local'[d]]
      /\ \A d \in realClient.Calls : local'[d] = IF d = c THEN me ELSE local[d]
  BY DEF RC!ClientInv
<1>2. /\ sent' \in [realClient.Calls -> BOOLEAN]
      /\ \A d \in realClient.Calls : sent'[d] = IF d = c THEN told ELSE sent[d]
  BY DEF RC!ClientInv
<1>3. \A d \in realClient.Calls : RC!CallShaped(local'[d])
  BY <1>1 DEF RC!ClientInv
<1>4. \A d \in realClient.Calls : RC!TellsTheTruth(local[d])'
  <2> SUFFICES ASSUME NEW d \in realClient.Calls PROVE RC!TellsTheTruth(local[d])'
    OBVIOUS
  <2>1. CASE d = c
    BY <1>1, <2>1 DEF RC!TellsTheTruth
  <2>2. CASE d # c
    <3>1. RC!TellsTheTruth(local[d]) /\ local'[d] = local[d]
      BY <1>1, <2>2 DEF RC!ClientInv
    <3> QED BY <3>1 DEF RC!TellsTheTruth, RC!SendsItsOwn
  <2> QED BY <2>1, <2>2
<1>5. \A d \in realClient.Calls : sent'[d] => RC!Succeeded(d, {"plain", "pending"})'
  BY <1>1, <1>2 DEF RC!ClientInv, RC!Succeeded
<1>6. \A d \in realClient.Calls : sent[d] => d # c /\ local[d].send \in store /\ local[d].send.id = local[d].id
  BY DEF RC!ClientInv, RC!Succeeded, RC!TellsTheTruth, RC!SendsItsOwn
<1>7. RC!AnnouncedOnce'
  BY <1>1, <1>2, <1>6 DEF RC!ClientInv, RC!AnnouncedOnce
<1> QED BY <1>1, <1>2, <1>3, <1>4, <1>5, <1>7 DEF RC!ClientInv, RC!CallShaped

\* The same where the cluster and the events stay as they are.
LEMMA QuietCallStep ==
  ASSUME RC!ClientInv, UNCHANGED <<store, sent>>,
         NEW c \in realClient.Calls, local[c].pc # "done",
         NEW me, RC!CallShaped(me),
         me.pc \in {"create", "check"} => RC!SendsItsOwn(me),
         me.pc = "done" /\ me.answer \in {"ok", "exists"} => RC!SendsItsOwn(me) /\ me.send \in store,
         local' = [local EXCEPT ![c] = me]
  PROVE  RC!ClientInv'
<1>1. sent[c] = FALSE /\ sent' = [sent EXCEPT ![c] = FALSE]
  BY DEF RC!ClientInv, RC!Succeeded
<1>2. RC!ClusterDecidesOnce'
  BY DEF RC!ClientInv, RC!ClusterDecidesOnce
<1> QED BY <1>1, <1>2, CallStep

\* A call begins.
LEMMA BeginStep ==
  ASSUME RC!ClientInv, NEW c \in realClient.Calls, NEW op, NEW id, NEW postId, NEW amount, NEW code,
         \/ op \in {"plain", "pending"} /\ RC!CallCreate(c, op, id, amount, code)
         \/ op \in {"post", "postAs", "void"} /\ RC!CallResolve(c, op, id, postId, amount, code)
  PROVE  RC!ClientInv'
<1>1. local[c].pc = "new" /\ UNCHANGED <<store, sent>>
  BY DEF RC!CallCreate, RC!CallResolve, RC!New
<1>2. CASE op \in {"plain", "pending"} /\ RC!CallCreate(c, op, id, amount, code)
  <2> DEFINE t == RC!Transfer(id, op, RC!NoId, amount, code)
             me == [pc |-> "create", op |-> op, id |-> id, postId |-> id, amount |-> amount,
                    code |-> code, answer |-> "none", send |-> t]
  <2>1. local' = [local EXCEPT ![c] = me]
    BY <1>2 DEF RC!CallCreate, RC!Sending, RC!Started
  <2>2. RC!CallShaped(me) /\ me.pc = "create"
    BY <1>2 DEF RC!CallShaped
  <2>3. RC!SendsItsOwn(me)
    BY <1>2 DEF RC!SendsItsOwn, RC!Transfer
  <2> HIDE DEF me
  <2> QED BY <1>1, <2>1, <2>2, <2>3, QuietCallStep
<1>3. CASE op \in {"post", "postAs", "void"} /\ RC!CallResolve(c, op, id, postId, amount, code)
  <2> DEFINE me == [pc |-> "lookup", op |-> op, id |-> id, postId |-> postId, amount |-> amount,
                    code |-> code, answer |-> "none", send |-> RC!NothingToSend]
  <2>1. local' = [local EXCEPT ![c] = me]
    BY <1>3 DEF RC!CallResolve, RC!Started
  <2>2. RC!CallShaped(me) /\ me.pc = "lookup"
    BY <1>3 DEF RC!CallShaped
  <2> HIDE DEF me
  <2> QED BY <1>1, <2>1, <2>2, QuietCallStep
<1> QED BY <1>2, <1>3

\* What a call under way becomes when two of its fields change.
LEMMA TwoFields ==
  ASSUME NEW me,
         me \in [pc : {me.pc}, op : {me.op}, id : {me.id}, postId : {me.postId}, amount : {me.amount},
                code : {me.code}, answer : {me.answer}, send : {me.send}],
         NEW pc, NEW val
  PROVE  /\ [me EXCEPT !.pc = pc, !.answer = val] =
              [pc |-> pc, op |-> me.op, id |-> me.id, postId |-> me.postId, amount |-> me.amount,
               code |-> me.code, answer |-> val, send |-> me.send]
         /\ [me EXCEPT !.pc = pc, !.send = val] =
              [pc |-> pc, op |-> me.op, id |-> me.id, postId |-> me.postId, amount |-> me.amount,
               code |-> me.code, answer |-> me.answer, send |-> val]
<1> DEFINE one == [me EXCEPT !.pc = pc]
<1>1. /\ one \in [pc : {pc}, op : {me.op}, id : {me.id}, postId : {me.postId}, amount : {me.amount},
                  code : {me.code}, answer : {me.answer}, send : {me.send}]
      /\ one = [pc |-> pc, op |-> me.op, id |-> me.id, postId |-> me.postId, amount |-> me.amount,
                code |-> me.code, answer |-> me.answer, send |-> me.send]
  OBVIOUS
<1>2. /\ [me EXCEPT !.pc = pc, !.answer = val] = [one EXCEPT !.answer = val]
      /\ [me EXCEPT !.pc = pc, !.send = val] = [one EXCEPT !.send = val]
  OBVIOUS
<1> HIDE DEF one
<1>3. [one EXCEPT !.answer = val] =
              [pc |-> pc, op |-> me.op, id |-> me.id, postId |-> me.postId, amount |-> me.amount,
               code |-> me.code, answer |-> val, send |-> me.send]
  BY <1>1
<1>4. [one EXCEPT !.send = val] =
              [pc |-> pc, op |-> me.op, id |-> me.id, postId |-> me.postId, amount |-> me.amount,
               code |-> me.code, answer |-> me.answer, send |-> val]
  BY <1>1
<1> QED BY <1>2, <1>3, <1>4

\* What becomes of a call under way with an answer.
LEMMA AnsweredCall ==
  ASSUME NEW me, RC!CallShaped(me), me.pc # "new", NEW code, NEW you, you = RC!Answer(me, code)
  PROVE  /\ RC!CallShaped(you) /\ you.pc = "done" /\ you.answer = code
         /\ you.op = me.op /\ you.id = me.id /\ you.send = me.send
<1>1. /\ me = [pc |-> me.pc, op |-> me.op, id |-> me.id, postId |-> me.postId, amount |-> me.amount,
               code |-> me.code, answer |-> me.answer, send |-> me.send]
      /\ me.op \in {"plain", "pending", "post", "postAs", "void"}
  BY DEF RC!CallShaped, RC!New
<1>2. me \in [pc : {me.pc}, op : {me.op}, id : {me.id}, postId : {me.postId}, amount : {me.amount},
             code : {me.code}, answer : {me.answer}, send : {me.send}]
  BY <1>1
<1>3. you = [pc |-> "done", op |-> me.op, id |-> me.id, postId |-> me.postId, amount |-> me.amount,
             code |-> me.code, answer |-> code, send |-> me.send]
  BY <1>2, TwoFields DEF RC!Answer
<1> QED BY <1>1, <1>3 DEF RC!CallShaped

\* What becomes of it with a transfer to send.
LEMMA SendingCall ==
  ASSUME NEW me, RC!CallShaped(me), me.pc # "new", NEW t, NEW you, you = RC!Sending(me, t)
  PROVE  /\ RC!CallShaped(you) /\ you.pc = "create" /\ you.op = me.op /\ you.id = me.id /\ you.send = t
<1>1. /\ me = [pc |-> me.pc, op |-> me.op, id |-> me.id, postId |-> me.postId, amount |-> me.amount,
               code |-> me.code, answer |-> me.answer, send |-> me.send]
      /\ me.op \in {"plain", "pending", "post", "postAs", "void"}
  BY DEF RC!CallShaped, RC!New
<1>2. me \in [pc : {me.pc}, op : {me.op}, id : {me.id}, postId : {me.postId}, amount : {me.amount},
             code : {me.code}, answer : {me.answer}, send : {me.send}]
  BY <1>1
<1>3. you = [pc |-> "create", op |-> me.op, id |-> me.id, postId |-> me.postId, amount |-> me.amount,
             code |-> me.code, answer |-> me.answer, send |-> t]
  BY <1>2, TwoFields DEF RC!Sending
<1> QED BY <1>1, <1>3 DEF RC!CallShaped

\* What becomes of it when another look is needed.
LEMMA CheckingCall ==
  ASSUME NEW me, RC!CallShaped(me), me.pc = "create", NEW you, you = [me EXCEPT !.pc = "check"]
  PROVE  /\ RC!CallShaped(you) /\ you.pc = "check" /\ you.op = me.op /\ you.id = me.id
         /\ you.send = me.send
<1>1. /\ me = [pc |-> me.pc, op |-> me.op, id |-> me.id, postId |-> me.postId, amount |-> me.amount,
               code |-> me.code, answer |-> me.answer, send |-> me.send]
      /\ me.op \in {"plain", "pending", "post", "postAs", "void"}
  BY DEF RC!CallShaped, RC!New
<1>2. me \in [pc : {me.pc}, op : {me.op}, id : {me.id}, postId : {me.postId}, amount : {me.amount},
             code : {me.code}, answer : {me.answer}, send : {me.send}]
  BY <1>1
<1>3. you = [pc |-> "check", op |-> me.op, id |-> me.id, postId |-> me.postId, amount |-> me.amount,
             code |-> me.code, answer |-> me.answer, send |-> me.send]
  BY <1>2
<1> QED BY <1>1, <1>3 DEF RC!CallShaped

\* PostPending, PostPendingAs and VoidPending look the hold up.
LEMMA LookupStep ==
  ASSUME RC!ClientInv, NEW c \in realClient.Calls, RC!Lookup(c)
  PROVE  RC!ClientInv'
<1> DEFINE me == local[c]
<1>1. me.pc = "lookup" /\ UNCHANGED <<store, sent>> /\ RC!CallShaped(me)
  BY DEF RC!Lookup, RC!ClientInv
<1>2. ASSUME NEW code, code \notin {"ok", "exists"}, local' = [local EXCEPT ![c] = RC!Answer(me, code)]
      PROVE  RC!ClientInv'
  <2>1. PICK you : you = RC!Answer(me, code)
    OBVIOUS
  <2>2. RC!CallShaped(you) /\ you.pc = "done" /\ you.answer = code
    BY <1>1, <2>1, AnsweredCall
  <2> QED BY <1>1, <1>2, <2>1, <2>2, QuietCallStep
<1>3. ASSUME NEW p, local' = [local EXCEPT ![c] = RC!Sending(me, RC!Resolving(me, p))]
      PROVE  RC!ClientInv'
  <2>1. PICK you : you = RC!Sending(me, RC!Resolving(me, p))
    OBVIOUS
  <2>2. /\ RC!CallShaped(you) /\ you.pc = "create" /\ you.op = me.op /\ you.id = me.id
        /\ you.send = RC!Resolving(me, p)
    BY <1>1, <2>1, SendingCall
  <2>3. me.op \in {"post", "postAs", "void"}
    BY <1>1 DEF RC!CallShaped, RC!New
  <2>4. RC!SendsItsOwn(you)
    BY <2>2, <2>3 DEF RC!SendsItsOwn, RC!Resolving, RC!Transfer
  <2> QED BY <1>1, <1>3, <2>1, <2>2, <2>4, QuietCallStep
<1>4. \/ local' = [local EXCEPT ![c] = RC!Answer(me, "pending_transfer_not_found")]
      \/ local' = [local EXCEPT ![c] = RC!Answer(me, "pending_transfer_has_different_attr")]
      \/ \E p : local' = [local EXCEPT ![c] = RC!Sending(me, RC!Resolving(me, p))]
  BY DEF RC!Lookup
<1>5. ASSUME NEW code \in {"pending_transfer_not_found", "pending_transfer_has_different_attr"}
      PROVE  code \notin {"ok", "exists"}
  OBVIOUS
<1> HIDE DEF me
<1> QED BY <1>2, <1>3, <1>4, <1>5

\* What the results of the cluster tell.
LEMMA ResultsTell ==
  ASSUME NEW t, NEW result \in RC!Results(t)
  PROVE  /\ result = "exists" => t \in store
         /\ result = "ok" =>
              /\ \A s \in store : s.id # t.id
              /\ t.kind \in {"post", "void"} =>
                   \A s \in store : ~(s.kind \in {"post", "void"} /\ s.pendingId = t.pendingId)
         /\ RC!TransferResultCode(result) = "ok" <=> result = "ok"
         /\ RC!TransferResultCode(result) = "exists" <=> result = "exists"
<1>1. /\ RC!TransferResultCode(result) = "ok" <=> result = "ok"
      /\ RC!TransferResultCode(result) = "exists" <=> result = "exists"
  BY DEF RC!TransferResultCode
<1>2. CASE \E s \in store : s.id = t.id
  <2>1. result = IF t \in store THEN "exists" ELSE "exists_with_different_attributes"
    BY <1>2 DEF RC!Results
  <2> QED BY <1>1, <2>1
<1>3. CASE ~ \E s \in store : s.id = t.id
  <2>1. result # "exists"
    BY <1>3 DEF RC!Results
  <2>2. result = "ok" /\ t.kind \in {"post", "void"} => RC!Resolution(t.pendingId) = {}
    BY <1>3 DEF RC!Results
  <2> QED BY <1>1, <1>3, <2>1, <2>2 DEF RC!Resolution
<1> QED BY <1>2, <1>3

\* createOne: the cluster decides, and the reply may be lost.
LEMMA CreateStep ==
  ASSUME RC!ClientInv, NEW c \in realClient.Calls, RC!Create(c)
  PROVE  RC!ClientInv'
<1> DEFINE me == local[c]
           t == me.send
<1>1. PICK result \in RC!Results(t) :
        /\ store' = IF result = "ok" THEN store \cup {t} ELSE store
        /\ \/ /\ local' = [local EXCEPT ![c] = RC!AfterCreate(c, RC!TransferResultCode(result))]
              /\ sent' = [sent EXCEPT ![c] = me.op \in {"plain", "pending"}
                                              /\ RC!TransferResultCode(result) = "ok"]
           \/ /\ local' = [local EXCEPT ![c] = RC!Answer(me, "error")]
              /\ UNCHANGED sent
  BY DEF RC!Create, RC!EmitsOn
<1>2. PICK code : code = RC!TransferResultCode(result)
  OBVIOUS
<1>3. /\ code = "exists" => t \in store
      /\ code = "ok" => t \in store' /\ \A s \in store : s.id # t.id
      /\ result = "ok" => \A s \in store : s.id # t.id
      /\ result = "ok" /\ t.kind \in {"post", "void"} =>
           \A s \in store : ~(s.kind \in {"post", "void"} /\ s.pendingId = t.pendingId)
  BY <1>1, <1>2, ResultsTell
<1>4. me.pc = "create" /\ RC!CallShaped(me) /\ RC!SendsItsOwn(me)
  BY DEF RC!Create, RC!ClientInv, RC!TellsTheTruth
<1>5. store \subseteq store'
  BY <1>1
<1>6. RC!ClusterDecidesOnce'
  <2>1. RC!ClusterDecidesOnce
    BY DEF RC!ClientInv
  <2>2. store' = store \/ (store' = store \cup {t} /\ result = "ok")
    BY <1>1
  <2> HIDE DEF t
  <2> QED BY <1>3, <2>1, <2>2 DEF RC!ClusterDecidesOnce
<1>7. CASE /\ local' = [local EXCEPT ![c] = RC!AfterCreate(c, code)]
           /\ sent' = [sent EXCEPT ![c] = me.op \in {"plain", "pending"} /\ code = "ok"]
  <2>1. PICK told \in BOOLEAN : told = (me.op \in {"plain", "pending"} /\ code = "ok")
    OBVIOUS
  <2>2. sent' = [sent EXCEPT ![c] = told]
    BY <1>7, <2>1
  <2>3. CASE me.op = "postAs" /\ code = "exists"
    <3>1. PICK you : you = [me EXCEPT !.pc = "check"]
      OBVIOUS
    <3>2. /\ RC!CallShaped(you) /\ you.pc = "check" /\ you.op = me.op /\ you.id = me.id
          /\ you.send = me.send
      BY <1>4, <3>1, CheckingCall
    <3>3. RC!SendsItsOwn(you) /\ ~told
      BY <1>4, <2>1, <2>3, <3>2 DEF RC!SendsItsOwn
    <3>4. local' = [local EXCEPT ![c] = you]
      BY <1>7, <2>3, <3>1 DEF RC!AfterCreate
    <3> QED BY <1>4, <1>5, <1>6, <2>2, <3>2, <3>3, <3>4, CallStep
  <2>4. CASE ~(me.op = "postAs" /\ code = "exists")
    <3>1. PICK you : you = RC!Answer(me, code)
      OBVIOUS
    <3>2. /\ RC!CallShaped(you) /\ you.pc = "done" /\ you.answer = code
          /\ you.op = me.op /\ you.id = me.id /\ you.send = me.send
      BY <1>4, <3>1, AnsweredCall
    <3>3. RC!SendsItsOwn(you) /\ (you.answer \in {"ok", "exists"} => you.send \in store')
      BY <1>3, <1>4, <1>5, <3>2 DEF RC!SendsItsOwn
    <3>4. local' = [local EXCEPT ![c] = you]
      BY <1>7, <2>4, <3>1 DEF RC!AfterCreate
    <3>5. told => /\ you.op \in {"plain", "pending"} /\ you.answer = "ok"
                  /\ \A s \in store : s.id # you.id
      BY <1>3, <1>4, <2>1, <3>2 DEF RC!SendsItsOwn
    <3> QED BY <1>4, <1>5, <1>6, <2>2, <3>2, <3>3, <3>4, <3>5, CallStep
  <2> QED BY <2>3, <2>4
<1>8. CASE local' = [local EXCEPT ![c] = RC!Answer(me, "error")] /\ UNCHANGED sent
  <2>1. PICK you : you = RC!Answer(me, "error")
    OBVIOUS
  <2>2. RC!CallShaped(you) /\ you.pc = "done" /\ you.answer = "error"
    BY <1>4, <2>1, AnsweredCall
  <2>3. sent[c] = FALSE /\ sent' = [sent EXCEPT ![c] = FALSE]
    BY <1>4, <1>8 DEF RC!ClientInv, RC!Succeeded
  <2> QED BY <1>4, <1>5, <1>6, <1>8, <2>1, <2>2, <2>3, CallStep
<1> QED BY <1>1, <1>2, <1>7, <1>8

\* The request is lost, or PostPendingAs looks at the transfer it found.
LEMMA AnswerStep ==
  ASSUME RC!ClientInv, NEW c \in realClient.Calls, RC!CreateUnsent(c) \/ RC!Check(c)
  PROVE  RC!ClientInv'
<1> DEFINE me == local[c]
<1>1. /\ me.pc \in {"create", "check"} /\ UNCHANGED <<store, sent>> /\ RC!CallShaped(me)
      /\ RC!SendsItsOwn(me)
  BY DEF RC!CreateUnsent, RC!Check, RC!ClientInv, RC!TellsTheTruth
<1>2. PICK code : /\ local' = [local EXCEPT ![c] = RC!Answer(me, code)]
                  /\ code = "ok" => me.send \in store
                  /\ code # "exists"
  BY DEF RC!CreateUnsent, RC!Check
<1>3. PICK you : you = RC!Answer(me, code)
  OBVIOUS
<1>4. /\ RC!CallShaped(you) /\ you.pc = "done" /\ you.answer = code
      /\ you.op = me.op /\ you.id = me.id /\ you.send = me.send
  BY <1>1, <1>3, AnsweredCall
<1>5. RC!SendsItsOwn(you)
  BY <1>1, <1>4 DEF RC!SendsItsOwn
<1> QED BY <1>1, <1>2, <1>3, <1>4, <1>5, QuietCallStep

\* real.go, for any number of calls and faults: no two callers are told that
\* one hold was posted and that it was voided, and no transfer is announced
\* twice.
THEOREM OneOutcomeIsTold == Spec => []OneOutcomeToldOnce
<1>1. Init => RealClientInv
  <2> SUFFICES ASSUME RC!Init PROVE RC!ClientInv
    BY DEF Init, RealClientInv
  <2>1. \A c \in realClient.Calls : local[c] = RC!New /\ local[c].pc = "new" /\ sent[c] = FALSE
    BY DEF RC!Init, RC!New
  <2>2. \A c \in realClient.Calls : RC!CallShaped(local[c]) /\ RC!TellsTheTruth(local[c])
    BY <2>1 DEF RC!CallShaped, RC!TellsTheTruth
  <2> QED BY <2>1, <2>2 DEF RC!Init, RC!ClientInv, RC!ClusterDecidesOnce, RC!AnnouncedOnce
<1>2. RealClientInv /\ [Next]_vars => RealClientInv'
  <2> SUFFICES ASSUME RealClientInv, [Next]_vars, service' = "real_client"
               PROVE  RC!ClientInv'
    BY DEF RealClientInv
  <2>1. service = "real_client" /\ [RC!Next]_RC!vars
    BY DEF Next, vars, RC!vars
  <2>2. RC!ClientInv
    BY <2>1 DEF RealClientInv
  <2>3. CASE UNCHANGED RC!vars
    BY <2>2, <2>3 DEF RC!vars, RC!ClientInv, RC!ClusterDecidesOnce, RC!CallShaped, RC!TellsTheTruth,
         RC!SendsItsOwn, RC!Succeeded, RC!AnnouncedOnce
  <2>4. ASSUME NEW c \in realClient.Calls, NEW op \in {"plain", "pending"}, NEW id, NEW a, NEW k,
               RC!CallCreate(c, op, id, a, k)
        PROVE  RC!ClientInv'
    BY <2>2, <2>4, BeginStep
  <2>5. ASSUME NEW c \in realClient.Calls, NEW op \in {"post", "postAs", "void"}, NEW id, NEW p, NEW a,
               NEW k, RC!CallResolve(c, op, id, p, a, k)
        PROVE  RC!ClientInv'
    BY <2>2, <2>5, BeginStep
  <2> QED BY <2>1, <2>2, <2>3, <2>4, <2>5, LookupStep, CreateStep, AnswerStep DEF RC!Next
<1>3. RealClientInv => OneOutcomeToldOnce
  <2> SUFFICES ASSUME RC!ClientInv PROVE RC!NeverPostedAndVoided
    BY DEF RealClientInv, OneOutcomeToldOnce, RC!OneOutcomeToldOnce, RC!ClientInv
  <2> SUFFICES ASSUME NEW c \in realClient.Calls, NEW d \in realClient.Calls,
                      RC!Succeeded(c, {"post", "postAs"}), RC!Succeeded(d, {"void"})
               PROVE  local[c].id # local[d].id
    BY DEF RC!NeverPostedAndVoided
  <2>1. /\ local[c].send \in store /\ local[c].send.kind = "post" /\ local[c].send.pendingId = local[c].id
        /\ local[d].send \in store /\ local[d].send.kind = "void" /\ local[d].send.pendingId = local[d].id
    BY DEF RC!ClientInv, RC!TellsTheTruth, RC!SendsItsOwn, RC!Succeeded
  <2> QED BY <2>1 DEF RC!ClientInv, RC!ClusterDecidesOnce
<1> QED BY <1>1, <1>2, <1>3, PTL DEF Spec

-----------------------------------------------------------------------------
(* Users and sessions of the admin API.                                    *)

SessionsInv == service = "sessions" => AS!SessionInv

\* Ids tell users of different e-mails apart, and from no user.
LEMMA IdsApart ==
  ASSUME NEW e, NEW f, NEW m \in Nat, NEW n \in Nat, NEW x \in AS!UserRecords(e, m),
         NEW y, y = AS!NoUser \/ y \in AS!UserRecords(f, n), x.id = y.id
  PROVE  e = f /\ y # AS!NoUser
<1>1. x.id \in {e} \X (1..m) /\ x.id[1] = e /\ x.id[2] >= 1
  BY DEF AS!UserRecords
<1>2. AS!NoUser.id[2] = 0
  BY DEF AS!NoUser, AS!Id
<1>3. y # AS!NoUser
  BY <1>1, <1>2
<1>4. y.id[1] = f
  BY <1>3 DEF AS!UserRecords
<1> QED BY <1>1, <1>3, <1>4

\* json.Marshal keeps all but the hash.
LEMMA SerialisedUser ==
  ASSUME NEW e, NEW m, NEW n \in AS!UserRecords(e, m)
  PROVE  /\ AS!Serialised(n) \in AS!UserRecords(e, m)
         /\ AS!Serialised(n).id = n.id /\ AS!Serialised(n).minIat = n.minIat
BY DEF AS!UserRecords, AS!Serialised, AS!NoHash

\* A user is written to memory and, if Postgres takes it, to its row.
LEMMA UserWritten ==
  ASSUME AS!SessionInv, NEW e \in sessions.Emails, NEW n \in AS!UserRecords(e, count'),
         store' = [store EXCEPT ![e] = n], AS!Upsert(e, n),
         count' \in Nat, count <= count', u' \in Nat, UNCHANGED <<sent, local, time>>,
         past \subseteq past', past' \subseteq sent,
         \A t \in past' \ past : t.sub = n.id,
         \A t \in past' : t.iat <= time /\ (t.sub = n.id => t.iat <= n.minIat)
  PROVE  AS!SessionInv'
<1> DEFINE row == AS!Serialised(n)
<1>1. row \in AS!UserRecords(e, count') /\ row.id = n.id /\ row.minIat = n.minIat
  BY SerialisedUser
<1>2. \/ mirror' = [mirror EXCEPT ![e] = row] /\ excepted' = excepted \ {n.id}
      \/ mirror' = mirror /\ excepted' = excepted \cup {n.id}
  BY DEF AS!Upsert
<1> HIDE DEF row
<1>3. /\ count \in Nat \ {0} /\ time \in Nat
      /\ \A f \in sessions.Emails :
           /\ store[f] = AS!NoUser \/ store[f] \in AS!UserRecords(f, count)
           /\ mirror[f] = AS!NoUser \/ mirror[f] \in AS!UserRecords(f, count)
      /\ store = [f \in sessions.Emails |-> store[f]] /\ mirror = [f \in sessions.Emails |-> mirror[f]]
  BY DEF AS!SessionInv, AS!SessionTypes, AS!UserShaped, AS!UserRecords
<1>4. \A f \in sessions.Emails : AS!UserRecords(f, count) \subseteq AS!UserRecords(f, count')
  <2>1. 1..count \subseteq 1..count'
    BY <1>3
  <2> QED BY <2>1 DEF AS!UserRecords
<1>5. /\ store' = [f \in sessions.Emails |-> store'[f]]
      /\ \A f \in sessions.Emails : store'[f] = IF f = e THEN n ELSE store[f]
  BY <1>3
<1>6. /\ mirror' = [f \in sessions.Emails |-> mirror'[f]]
      /\ \A f \in sessions.Emails : mirror'[f] = mirror[f] \/ (f = e /\ mirror'[f] = row)
      /\ \A f \in sessions.Emails : f # e => mirror'[f] = mirror[f]
      /\ mirror'[e] = row \/ (mirror'[e] = mirror[e] /\ excepted' = excepted \cup {n.id})
  BY <1>2, <1>3
<1>7. AS!SessionTypes'
  <2>1. \A f \in sessions.Emails :
          /\ store'[f] = AS!NoUser \/ store'[f] \in AS!UserRecords(f, count')
          /\ mirror'[f] = AS!NoUser \/ mirror'[f] \in AS!UserRecords(f, count')
    BY <1>1, <1>3, <1>4, <1>5, <1>6
  <2>2. \A l \in sessions.Logins : local[l].pc = "issue" =>
          \E f \in sessions.Emails : local[l].user # AS!NoUser /\ local[l].user \in AS!UserRecords(f, count')
    BY <1>4 DEF AS!SessionInv, AS!SessionTypes, AS!UserShaped
  <2>3. local = [l \in sessions.Logins |-> local[l]]
    BY DEF AS!SessionInv, AS!SessionTypes
  <2>4. count' # 0
    BY <1>3
  <2> QED BY <1>3, <1>5, <1>6, <2>1, <2>2, <2>3, <2>4 DEF AS!SessionTypes, AS!UserShaped
<1>8. AS!StampedAfterEpoch'
  <2>1. 1..count \subseteq 1..count'
    BY <1>3
  <2> DEFINE known == sessions.Emails \X (1..count)
             knownNow == sessions.Emails \X (1..count')
  <2>2. known \subseteq knownNow
    BY <2>1
  <2>3. \A t \in sent : t.sub \in known /\ t.iat \in Nat /\ t.epoch \in Nat /\ t.epoch < t.iat
    BY DEF AS!SessionInv, AS!StampedAfterEpoch
  <2>4. sent' = sent
    OBVIOUS
  <2> HIDE DEF known, knownNow
  <2>5. \A t \in sent' : t.sub \in knownNow /\ t.iat \in Nat /\ t.epoch \in Nat /\ t.epoch < t.iat
    BY <2>2, <2>3, <2>4
  <2> QED BY <2>5 DEF AS!StampedAfterEpoch, knownNow
<1>9. ASSUME NEW f \in sessions.Emails, NEW t \in past', t.sub \notin excepted'
      PROVE  /\ store'[f].id = t.sub => t.iat <= store'[f].minIat
             /\ mirror'[f].id = t.sub => t.iat <= mirror'[f].minIat
  <2>0. \A y \in {store[f], mirror[f]} : t \in past /\ t.sub \notin excepted /\ y.id = t.sub => t.iat <= y.minIat
    BY DEF AS!SessionInv, AS!Outlived
  <2>1. CASE t.sub = n.id
    <3>1. f # e => store[f].id # t.sub /\ mirror[f].id # t.sub
      <4>1. PICK m : m = count'
        OBVIOUS
      <4>2. m \in Nat /\ count \in Nat /\ n \in AS!UserRecords(e, m)
        BY <1>3, <4>1
      <4>3. \A y \in {store[f], mirror[f]} : y = AS!NoUser \/ y \in AS!UserRecords(f, count)
        BY <1>3
      <4>4. \A y \in {store[f], mirror[f]} : n.id = y.id => e = f
        BY <4>2, <4>3, IdsApart
      <4> QED BY <2>1, <4>4
    <3> QED BY <1>1, <1>5, <1>6, <1>9, <2>1, <3>1
  <2>2. CASE t.sub # n.id
    BY <1>1, <1>2, <1>5, <1>6, <1>9, <2>0, <2>2
  <2> QED BY <2>1, <2>2
<1> QED BY <1>7, <1>8, <1>9 DEF AS!SessionInv, AS!Outlived

\* UserCreate: nobody has a token of the new id.
LEMMA CreateUserStep ==
  ASSUME AS!SessionInv, NEW e \in sessions.Emails, NEW role \in sessions.Roles, AS!UserCreate(e, role)
  PROVE  AS!SessionInv'
<1>1. PICK n : n = AS!User(AS!Id(e, count + 1), role, u + 1)
  OBVIOUS
<1>2. /\ store' = [store EXCEPT ![e] = n] /\ AS!Upsert(e, store'[e]) /\ count' = count + 1 /\ u' = u + 1
      /\ UNCHANGED <<sent, local, time, past>>
  BY <1>1 DEF AS!UserCreate
<1>3. count \in Nat /\ u \in Nat /\ time \in Nat /\ store = [f \in sessions.Emails |-> store[f]]
  BY DEF AS!SessionInv, AS!SessionTypes
<1>4. store'[e] = n
  BY <1>2, <1>3
<1>5. n \in AS!UserRecords(e, count') /\ n.id = <<e, count + 1>>
  BY <1>1, <1>2, <1>3 DEF AS!User, AS!Id, AS!UserRecords
<1>6. \A t \in past : t \in sent /\ t.iat <= time /\ t.sub # n.id
  <2> SUFFICES ASSUME NEW t \in past PROVE t \in sent /\ t.iat <= time /\ t.sub # n.id
    OBVIOUS
  <2>1. t \in sent /\ t.iat <= time /\ t.sub \in sessions.Emails \X (1..count)
    BY DEF AS!SessionInv, AS!StampedAfterEpoch
  <2>2. t.sub[2] <= count /\ n.id[2] = count + 1
    BY <1>3, <1>5, <2>1
  <2> QED BY <1>3, <2>1, <2>2
<1> QED BY <1>2, <1>3, <1>4, <1>5, <1>6, UserWritten

\* UserUpdate: the epoch moves to the clock, and with it end all tokens that
\* are not stamped ahead of it.
LEMMA UpdateUserStep ==
  ASSUME AS!SessionInv, NEW e \in sessions.Emails, AS!UserUpdate(e)
  PROVE  AS!SessionInv'
<1> DEFINE old == store[e]
<1>1. /\ count \in Nat /\ u \in Nat /\ time \in Nat /\ store = [f \in sessions.Emails |-> store[f]]
      /\ old \in AS!UserRecords(e, count)
  BY DEF AS!SessionInv, AS!SessionTypes, AS!UserShaped, AS!UserUpdate
<1>2. PICK c \in AS!Changed(old) :
        /\ store' = [store EXCEPT ![e] = AS!BumpEpoch(c)]
        /\ u' = IF c.hash = old.hash THEN u ELSE c.hash
  BY DEF AS!UserUpdate
<1>3. c \in AS!UserRecords(e, count) /\ c.id = old.id
  <2>1. \/ \E r \in sessions.Roles : c = [old EXCEPT !.role = r]
        \/ \E s \in {"active", "disabled"} : c = [old EXCEPT !.status = s]
        \/ c = [old EXCEPT !.hash = u + 1]
    BY <1>2 DEF AS!Changed
  <2> HIDE DEF old
  <2>2. ASSUME NEW r \in sessions.Roles, c = [old EXCEPT !.role = r]
        PROVE  c \in AS!UserRecords(e, count) /\ c.id = old.id
    BY <1>1, <2>2 DEF AS!UserRecords
  <2>3. ASSUME NEW s \in {"active", "disabled"}, c = [old EXCEPT !.status = s]
        PROVE  c \in AS!UserRecords(e, count) /\ c.id = old.id
    BY <1>1, <2>3 DEF AS!UserRecords
  <2>4. CASE c = [old EXCEPT !.hash = u + 1]
    BY <1>1, <2>4 DEF AS!UserRecords
  <2> QED BY <2>1, <2>2, <2>3, <2>4
<1>4. PICK n : n = AS!BumpEpoch(c)
  OBVIOUS
<1>5. n \in AS!UserRecords(e, count) /\ n.id = old.id /\ n.minIat = time
  BY <1>1, <1>3, <1>4 DEF AS!BumpEpoch, AS!UserRecords
<1>6. u' \in Nat
  BY <1>1, <1>2, <1>3 DEF AS!UserRecords
<1>7. /\ store' = [store EXCEPT ![e] = n] /\ AS!Upsert(e, n) /\ past' = past \cup AS!Ended(old)
      /\ UNCHANGED <<sent, local, time, count>>
  BY <1>1, <1>2, <1>4 DEF AS!UserUpdate
<1>8. /\ past \subseteq sent /\ \A t \in past : t.iat <= time
      /\ \A t \in AS!Ended(old) : t \in sent /\ t.iat <= time /\ t.sub = n.id
  BY <1>5 DEF AS!SessionInv, AS!Ended
<1> HIDE DEF old
<1> QED BY <1>1, <1>5, <1>6, <1>7, <1>8, UserWritten

\* UserDelete: the row stays, and the user counts as unsaved.
LEMMA DeleteUserStep ==
  ASSUME AS!SessionInv, NEW e \in sessions.Emails, AS!UserDelete(e)
  PROVE  AS!SessionInv'
<1>1. /\ store' = [store EXCEPT ![e] = AS!NoUser] /\ excepted' = excepted \cup {store[e].id}
      /\ past' = past \cup AS!Ended(store[e])
      /\ UNCHANGED <<mirror, sent, local, time, count, u>>
  BY DEF AS!UserDelete
<1>2. AS!SessionTypes /\ AS!StampedAfterEpoch /\ count \in Nat
  BY DEF AS!SessionInv, AS!SessionTypes
<1>3. \A f \in sessions.Emails : store'[f] = IF f = e THEN AS!NoUser ELSE store[f]
  BY <1>1, <1>2 DEF AS!SessionTypes
<1>4. AS!SessionTypes'
  BY <1>1, <1>2, <1>3 DEF AS!SessionTypes, AS!UserShaped, AS!UserRecords
<1>5. AS!StampedAfterEpoch'
  BY <1>1, <1>2 DEF AS!StampedAfterEpoch
<1>6. past' \subseteq sent' /\ \A t \in past' : t.iat <= time'
  BY <1>1 DEF AS!SessionInv, AS!Ended
<1>7. ASSUME NEW f \in sessions.Emails, NEW t \in past', t.sub \notin excepted'
      PROVE  /\ store'[f].id = t.sub => t.iat <= store'[f].minIat
             /\ mirror'[f].id = t.sub => t.iat <= mirror'[f].minIat
  <2>1. t \in past /\ t.sub \notin excepted
    BY <1>1, <1>7 DEF AS!Ended
  <2>2. t.sub # AS!NoUser.id
    <3>1. t.sub \in sessions.Emails \X (1..count)
      BY <2>1 DEF AS!SessionInv, AS!StampedAfterEpoch
    <3>2. t.sub[2] # 0 /\ AS!NoUser.id[2] = 0
      BY <1>2, <3>1 DEF AS!NoUser, AS!Id
    <3> QED BY <3>2
  <2> QED BY <1>1, <1>3, <2>1, <2>2 DEF AS!SessionInv, AS!Outlived
<1> QED BY <1>4, <1>5, <1>6, <1>7 DEF AS!SessionInv, AS!Outlived

\* handleLogin copies the user.
LEMMA LoginReadStep ==
  ASSUME AS!SessionInv, NEW l \in sessions.Logins, NEW e \in sessions.Emails, NEW p, AS!LoginRead(l, e, p)
  PROVE  AS!SessionInv'
<1>1. /\ local' = [local EXCEPT ![l] = [pc |-> "issue", user |-> store[e]]] /\ store[e] # AS!NoUser
      /\ UNCHANGED <<store, mirror, sent, time, count, u, past, excepted>>
  BY DEF AS!LoginRead
<1>2. \A k \in sessions.Logins :
        local'[k] = IF k = l THEN [pc |-> "issue", user |-> store[e]] ELSE local[k]
  BY <1>1 DEF AS!SessionInv, AS!SessionTypes
<1>3. AS!SessionTypes'
  BY <1>1, <1>2 DEF AS!SessionInv, AS!SessionTypes, AS!UserShaped
<1> QED BY <1>1, <1>3 DEF AS!SessionInv, AS!StampedAfterEpoch, AS!Outlived

\* issueJWT stamps the token after the epoch of the copy.
LEMMA LoginIssueStep ==
  ASSUME AS!SessionInv, NEW l \in sessions.Logins, AS!LoginIssue(l)
  PROVE  AS!SessionInv'
<1> DEFINE copy == local[l].user
<1>1. /\ local[l].pc = "issue" /\ local' = [local EXCEPT ![l] = [pc |-> "done"]]
      /\ sent' = sent \cup {AS!Token(copy)}
      /\ UNCHANGED <<store, mirror, time, count, u, past, excepted>>
  BY DEF AS!LoginIssue
<1>2. PICK e \in sessions.Emails : copy \in AS!UserRecords(e, count)
  BY <1>1 DEF AS!SessionInv, AS!SessionTypes, AS!UserShaped
<1>3. /\ copy.id \in sessions.Emails \X (1..count) /\ copy.minIat \in Nat /\ time \in Nat
      /\ AS!Stamp(copy) \in Nat /\ copy.minIat < AS!Stamp(copy)
  BY <1>2 DEF AS!UserRecords, AS!Stamp, AS!SessionInv, AS!SessionTypes
<1>4. PICK t : t = AS!Token(copy)
  OBVIOUS
<1>5. t.sub \in sessions.Emails \X (1..count) /\ t.iat \in Nat /\ t.epoch \in Nat /\ t.epoch < t.iat
  BY <1>3, <1>4 DEF AS!Token
<1>6. AS!StampedAfterEpoch'
  BY <1>1, <1>4, <1>5 DEF AS!SessionInv, AS!StampedAfterEpoch
<1>7. \A k \in sessions.Logins : local'[k] = IF k = l THEN [pc |-> "done"] ELSE local[k]
  BY <1>1 DEF AS!SessionInv, AS!SessionTypes
<1>8. AS!SessionTypes'
  BY <1>1, <1>7 DEF AS!SessionInv, AS!SessionTypes, AS!UserShaped
<1> QED BY <1>1, <1>6, <1>8 DEF AS!SessionInv, AS!Outlived

\* hydrate: memory is what Postgres has.
LEMMA RestartStep ==
  ASSUME AS!SessionInv, AS!Restart
  PROVE  AS!SessionInv'
<1>1. /\ store' = mirror
      /\ local' = [l \in sessions.Logins |-> IF local[l].pc = "issue" THEN AS!Idle ELSE local[l]]
      /\ UNCHANGED <<mirror, sent, time, count, u, past, excepted>>
  BY DEF AS!Restart
<1>2. \A l \in sessions.Logins : local'[l].pc # "issue"
  BY <1>1 DEF AS!Idle
<1>3. AS!SessionTypes'
  BY <1>1, <1>2 DEF AS!SessionInv, AS!SessionTypes, AS!UserShaped
<1> QED BY <1>1, <1>3 DEF AS!SessionInv, AS!StampedAfterEpoch, AS!Outlived

\* handlers_admin.go and auth.go, for any number of users, logins, changes,
\* failed writes and restarts: a token that a change was to end is accepted
\* only if Postgres has missed a change of its user, and one that carries the
\* current epoch works.
THEOREM SessionsEndWithTheirEpoch == Spec => []SessionsFollowUsers
<1>1. Init => SessionsInv
  <2> SUFFICES ASSUME AS!Init PROVE AS!SessionInv
    BY DEF Init, SessionsInv
  <2>1. PICK r \in sessions.Roles : r = CHOOSE q \in sessions.Roles : q # "admin"
    BY PlatformAssumption DEF AS!Parameters
  <2>2. \A e \in sessions.Emails : store[e] \in AS!UserRecords(e, count) /\ mirror[e] = AS!Serialised(store[e])
    BY <2>1 DEF AS!Init, AS!User, AS!Id, AS!UserRecords
  <2>3. \A e \in sessions.Emails : mirror[e] \in AS!UserRecords(e, count)
    BY <2>2, SerialisedUser
  <2>4. \A l \in sessions.Logins : local[l].pc # "issue"
    BY DEF AS!Init, AS!Idle
  <2>5. AS!SessionTypes
    <3>1. count = 1 /\ time = 1 /\ u = 1 /\ local = [l \in sessions.Logins |-> local[l]]
      BY DEF AS!Init
    <3>2. store = [e \in sessions.Emails |-> store[e]] /\ mirror = [e \in sessions.Emails |-> mirror[e]]
      BY DEF AS!Init
    <3>3. time \in Nat /\ count \in Nat \ {0} /\ u \in Nat
      BY <3>1
    <3>4. local = [l \in sessions.Logins |-> local[l]]
      BY <3>1
    <3> QED BY <2>2, <2>3, <2>4, <3>2, <3>3, <3>4 DEF AS!SessionTypes, AS!UserShaped
  <2> QED BY <2>5 DEF AS!Init, AS!SessionInv, AS!StampedAfterEpoch, AS!Outlived
<1>2. SessionsInv /\ [Next]_vars => SessionsInv'
  <2> SUFFICES ASSUME SessionsInv, [Next]_vars, service' = "sessions"
               PROVE  AS!SessionInv'
    BY DEF SessionsInv
  <2>1. service = "sessions" /\ [AS!Next]_AS!vars
    BY DEF Next, vars, AS!vars
  <2>2. AS!SessionInv
    BY <2>1 DEF SessionsInv
  <2>3. CASE AS!Tick
    <3>1. time \in Nat /\ time' = time + 1 /\ UNCHANGED <<store, mirror, sent, local, count, u, past, excepted>>
      BY <2>2, <2>3 DEF AS!Tick, AS!SessionInv, AS!SessionTypes
    <3>2. AS!SessionTypes'
      <4>1. time' \in Nat
        BY <3>1
      <4> QED BY <2>2, <3>1, <4>1 DEF AS!SessionInv, AS!SessionTypes, AS!UserShaped
    <3>3. \A t \in past : t.iat \in Nat /\ t.iat <= time'
      BY <2>2, <3>1 DEF AS!SessionInv, AS!StampedAfterEpoch
    <3> QED BY <2>2, <3>1, <3>2, <3>3 DEF AS!SessionInv, AS!StampedAfterEpoch, AS!Outlived
  <2>4. CASE UNCHANGED AS!vars
    BY <2>2, <2>4 DEF AS!vars, AS!SessionInv, AS!SessionTypes, AS!UserShaped, AS!StampedAfterEpoch, AS!Outlived
  <2> QED BY <2>1, <2>2, <2>3, <2>4, LoginReadStep, LoginIssueStep, CreateUserStep, UpdateUserStep,
             DeleteUserStep, RestartStep DEF AS!Next
<1>3. SessionsInv => SessionsFollowUsers
  <2> SUFFICES ASSUME AS!SessionInv PROVE AS!SessionsFollowUsers
    BY DEF SessionsInv, SessionsFollowUsers
  <2>1. AS!RevocationHolds
    <3> SUFFICES ASSUME NEW t \in past, AS!Accepted(t), t.sub \notin excepted PROVE FALSE
      BY DEF AS!RevocationHolds
    <3>1. PICK e \in sessions.Emails : store[e].id = t.sub /\ t.iat > store[e].minIat
      BY DEF AS!Accepted, AS!LocalSessionValid
    <3>2. t.iat \in Nat /\ t.iat <= store[e].minIat /\ t.sub \in sessions.Emails \X (1..count) /\ count \in Nat
      BY <3>1 DEF AS!SessionInv, AS!Outlived, AS!StampedAfterEpoch, AS!SessionTypes
    <3>3. store[e] # AS!NoUser
      BY <3>1, <3>2 DEF AS!NoUser, AS!Id
    <3>4. store[e].minIat \in Nat
      BY <3>3 DEF AS!SessionInv, AS!SessionTypes, AS!UserShaped, AS!UserRecords
    <3> QED BY <3>1, <3>2, <3>4
  <2>2. AS!FreshTokenWorks
    BY DEF AS!FreshTokenWorks, AS!Accepted, AS!LocalSessionValid, AS!SessionInv, AS!StampedAfterEpoch
  <2> QED BY <2>1, <2>2 DEF AS!SessionsFollowUsers
<1> QED BY <1>1, <1>2, <1>3, PTL DEF Spec

-----------------------------------------------------------------------------
(* The document stores.                                                    *)

DocumentsInv == service = "documents" => DS!StoreInv

\* A write of doc under id that ends request r, with the lock respected and
\* the answer allowed for.
LEMMA DocumentWritten ==
  ASSUME DS!StoreInv, NEW r \in documents.Requests, NEW id \in documents.Ids, NEW doc, NEW answer,
         mode = "postgres" => \A q \in documents.Requests \ {r} :
           ~(local[q].pc = "update" /\ local[q].locks /\ local[q].id = id),
         mode' = mode,
         store' = [store EXCEPT ![id] = doc],
         mirror' = store' \/ (mirror' = mirror /\ answer # "ok"),
         excepted' = [excepted EXCEPT ![id] = IF answer = "ok" THEN {doc} ELSE @ \cup {doc}],
         sent' = [sent EXCEPT ![r] = answer],
         local' = [local EXCEPT ![r] = DS!Done]
  PROVE  DS!StoreInv'
<1>1. DS!StoreTypes /\ DS!AckedIsDurable
  BY DEF DS!StoreInv
<1>2. /\ DS!StoreTypes'
      /\ \A j \in documents.Ids : store'[j] = IF j = id THEN doc ELSE store[j]
      /\ \A q \in documents.Requests : local'[q] = IF q = r THEN DS!Done ELSE local[q]
      /\ \A q \in documents.Requests : q # r => sent'[q] = sent[q]
      /\ \A j \in documents.Ids : j # id => excepted'[j] = excepted[j]
      /\ excepted'[id] = IF answer = "ok" THEN {doc} ELSE excepted[id] \cup {doc}
  BY <1>1 DEF DS!StoreTypes
<1>3. DS!Done.pc = "done" /\ DS!Done # DS!New
  BY DEF DS!Done, DS!New
<1>4. \A q \in documents.Requests : local'[q] = DS!New => sent'[q] = "none"
  BY <1>2, <1>3 DEF DS!StoreInv
<1>5. \A q \in documents.Requests : DS!UpdateIsBased(q)'
  <2> SUFFICES ASSUME NEW q \in documents.Requests, local'[q].pc = "update"
               PROVE  /\ mode = "postgres" /\ local'[q].id \in documents.Ids /\ sent'[q] = "none"
                      /\ local'[q].read = IF local'[q].locks THEN store'[local'[q].id] ELSE DS!None
    BY DEF DS!UpdateIsBased
  <2>1. q # r /\ local'[q] = local[q] /\ DS!UpdateIsBased(q)
    BY <1>2, <1>3 DEF DS!StoreInv
  <2> QED BY <1>2, <2>1 DEF DS!UpdateIsBased
<1>6. DS!OneLockPerRow'
  BY <1>2, <1>3 DEF DS!StoreInv, DS!OneLockPerRow
<1>7. DS!AckedIsDurable'
  <2> SUFFICES ASSUME NEW j \in documents.Ids PROVE mirror'[j] \in excepted'[j] /\ store'[j] \in excepted'[j]
    BY DEF DS!AckedIsDurable
  <2>1. mirror[j] \in excepted[j] /\ store[j] \in excepted[j]
    BY <1>1 DEF DS!AckedIsDurable
  <2>2. CASE j # id
    <3>1. store'[j] = store[j] /\ excepted'[j] = excepted[j]
      BY <1>2, <2>2
    <3>2. mirror'[j] = store'[j] \/ mirror'[j] = mirror[j]
      OBVIOUS
    <3> QED BY <2>1, <3>1, <3>2
  <2>3. CASE j = id
    <3>1. store'[j] = doc /\ doc \in excepted'[j]
      BY <1>2, <2>3
    <3>2. mirror' = mirror /\ answer # "ok" => mirror'[j] \in excepted'[j]
      BY <1>2, <2>1, <2>3
    <3> QED BY <3>1, <3>2
  <2> QED BY <2>2, <2>3
<1> QED BY <1>2, <1>4, <1>5, <1>6, <1>7 DEF DS!StoreInv

\* The embedded store: changes of memory under its lock, with or without the file.
LEMMA EmbeddedStep ==
  ASSUME DS!StoreInv, NEW r \in documents.Requests, NEW id \in documents.Ids, NEW doc,
         DS!Change(r, id, doc)
  PROVE  DS!StoreInv' /\ DS!NoUpdateLost
<1>1. PICK persisted \in BOOLEAN :
        /\ persisted => mirror' = store'
        /\ ~persisted => mirror' = mirror
        /\ sent' = [sent EXCEPT ![r] = DS!Answer(persisted)]
        /\ DS!Allow(id, doc, DS!Answer(persisted))
  BY DEF DS!Change, DS!Write
<1>2. /\ mode = "embedded" /\ mode' = mode /\ store' = [store EXCEPT ![id] = doc]
      /\ local' = [local EXCEPT ![r] = DS!Done] /\ local[r] = DS!New
  BY DEF DS!Change, DS!Write
<1>3. PICK answer : answer = DS!Answer(persisted)
  OBVIOUS
<1>4. /\ mirror' = store' \/ (mirror' = mirror /\ answer # "ok")
      /\ excepted' = [excepted EXCEPT ![id] = IF answer = "ok" THEN {doc} ELSE @ \cup {doc}]
      /\ sent' = [sent EXCEPT ![r] = answer]
  BY <1>1, <1>3 DEF DS!Answer, DS!Allow
<1>5. DS!StoreInv'
  BY <1>2, <1>4, DocumentWritten
<1>6. \A q \in documents.Requests : local[q].pc # "update"
  BY <1>2 DEF DS!StoreInv, DS!UpdateIsBased
<1> QED BY <1>5, <1>6 DEF DS!NoUpdateLost

\* Postgres: a statement of its own waits for the lock of the row.
LEMMA StatementStep ==
  ASSUME DS!StoreInv, NEW r \in documents.Requests, NEW id \in documents.Ids, NEW doc,
         DS!PgChange(r, id, doc)
  PROVE  DS!StoreInv' /\ DS!NoUpdateLost
<1>1. /\ mode' = mode /\ store' = [store EXCEPT ![id] = doc] /\ mirror' = store'
      /\ local[r] = DS!New /\ local' = [local EXCEPT ![r] = DS!Done]
      /\ sent' = [sent EXCEPT ![r] = "ok"] /\ ~DS!Locked(id)
      /\ excepted' = [excepted EXCEPT ![id] = IF "ok" = "ok" THEN {doc} ELSE @ \cup {doc}]
  BY DEF DS!PgChange, DS!PgWrite, DS!Allow
<1>2. DS!StoreInv'
  BY <1>1, DocumentWritten DEF DS!Locked
<1>3. \A q \in documents.Requests : local[q].pc = "update" => local'[q] = local[q]
  BY <1>1 DEF DS!StoreInv, DS!StoreTypes, DS!New
<1> QED BY <1>2, <1>3 DEF DS!NoUpdateLost

\* SELECT ... FOR UPDATE.
LEMMA UpdateReadStep ==
  ASSUME DS!StoreInv, NEW r \in documents.Requests, NEW id \in documents.Ids, DS!PgUpdateRead(r, id)
  PROVE  DS!StoreInv' /\ DS!NoUpdateLost
<1> DEFINE me == [pc |-> "update", id |-> id, read |-> store[id], locks |-> store[id] # DS!None]
<1>1. /\ mode = "postgres" /\ local[r] = DS!New /\ ~DS!Locked(id)
      /\ local' = [local EXCEPT ![r] = me]
      /\ UNCHANGED <<mode, store, mirror, sent, excepted>>
  BY DEF DS!PgUpdateRead, DS!TakesLock
<1>2. /\ me.pc = "update" /\ me.id = id /\ me.read = store[id] /\ me.locks = (store[id] # DS!None)
      /\ me # DS!New /\ DS!New.pc = "new"
  BY DEF DS!New
<1> HIDE DEF me
<1>3. DS!StoreTypes' /\ \A q \in documents.Requests : local'[q] = IF q = r THEN me ELSE local[q]
  BY <1>1 DEF DS!StoreInv, DS!StoreTypes
<1>4. \A q \in documents.Requests : local'[q] = DS!New => sent'[q] = "none"
  BY <1>1, <1>2, <1>3 DEF DS!StoreInv
<1>5. \A q \in documents.Requests : DS!UpdateIsBased(q)'
  <2> SUFFICES ASSUME NEW q \in documents.Requests, local'[q].pc = "update"
               PROVE  /\ mode = "postgres" /\ local'[q].id \in documents.Ids /\ sent[q] = "none"
                      /\ local'[q].read = IF local'[q].locks THEN store[local'[q].id] ELSE DS!None
    BY <1>1 DEF DS!UpdateIsBased
  <2>1. CASE q = r
    BY <1>1, <1>2, <1>3, <2>1 DEF DS!StoreInv
  <2>2. CASE q # r
    BY <1>3, <2>2 DEF DS!StoreInv, DS!UpdateIsBased
  <2> QED BY <2>1, <2>2
<1>6. DS!OneLockPerRow'
  BY <1>1, <1>2, <1>3 DEF DS!StoreInv, DS!OneLockPerRow, DS!Locked
<1>7. DS!AckedIsDurable'
  BY <1>1 DEF DS!StoreInv, DS!AckedIsDurable
<1>8. \A q \in documents.Requests : local'[q].pc = "done" => local[q].pc # "update"
  BY <1>1, <1>2, <1>3
<1> QED BY <1>3, <1>4, <1>5, <1>6, <1>7, <1>8 DEF DS!StoreInv, DS!NoUpdateLost

\* The upsert at the end of Update: it is based on the row, unless the row
\* did not exist when it was read and does now.
LEMMA UpdateCommitStep ==
  ASSUME DS!StoreInv, NEW r \in documents.Requests, DS!PgUpdateCommit(r)
  PROVE  DS!StoreInv' /\ DS!NoUpdateLost
<1> DEFINE id == local[r].id
           doc == local[r].read \cup {r}
<1>1. /\ mode' = mode /\ store' = [store EXCEPT ![id] = doc] /\ mirror' = store'
      /\ local[r].pc = "update" /\ local' = [local EXCEPT ![r] = DS!Done]
      /\ sent' = [sent EXCEPT ![r] = "ok"] /\ (local[r].locks \/ ~DS!Locked(id))
      /\ excepted' = [excepted EXCEPT ![id] = IF "ok" = "ok" THEN {doc} ELSE @ \cup {doc}]
      /\ count' = IF local[r].read = DS!None /\ store[id] # DS!None THEN count \cup {id} ELSE count
  BY DEF DS!PgUpdateCommit, DS!PgWrite, DS!Allow
<1>2. id \in documents.Ids /\ local[r].read = IF local[r].locks THEN store[id] ELSE DS!None
  BY <1>1 DEF DS!StoreInv, DS!UpdateIsBased
<1>3. \A q \in documents.Requests \ {r} : ~(local[q].pc = "update" /\ local[q].locks /\ local[q].id = id)
  BY <1>1 DEF DS!StoreInv, DS!OneLockPerRow, DS!Locked
<1>4. \A q \in documents.Requests : q # r => local'[q] = local[q]
  BY <1>1 DEF DS!StoreInv, DS!StoreTypes
<1>5. id \notin count' => store[id] \subseteq store'[id]
  <2>1. store'[id] = doc
    BY <1>1, <1>2 DEF DS!StoreInv, DS!StoreTypes
  <2>2. id \notin count' => store[id] \subseteq local[r].read
    BY <1>1, <1>2 DEF DS!None
  <2> QED BY <2>1, <2>2
<1>6. DS!NoUpdateLost
  BY <1>4, <1>5 DEF DS!NoUpdateLost
<1> HIDE DEF id, doc
<1>7. DS!StoreInv'
  BY <1>1, <1>2, <1>3, DocumentWritten
<1> QED BY <1>6, <1>7

\* A transaction rolls back, or the process starts again.
LEMMA AbandonStep ==
  ASSUME DS!StoreInv, DS!Restart \/ \E r \in documents.Requests : DS!PgUpdateRollback(r)
  PROVE  DS!StoreInv' /\ DS!NoUpdateLost
<1>0. DS!Done.pc = "done" /\ DS!Done # DS!New /\ DS!StoreTypes
  BY DEF DS!Done, DS!New, DS!StoreInv
<1>1. CASE DS!Restart
  <2>1. /\ store' = mirror /\ UNCHANGED <<mode, mirror, sent, excepted>>
        /\ local' = [r \in documents.Requests |-> IF local[r] = DS!New THEN DS!New ELSE DS!Done]
    BY <1>1 DEF DS!Restart
  <2>2. \A r \in documents.Requests :
          /\ local'[r].pc # "update" /\ (local'[r] = DS!New => local[r] = DS!New)
          /\ local[r].pc = "update" => sent'[r] = "none"
    BY <1>0, <2>1 DEF DS!New, DS!StoreInv, DS!UpdateIsBased
  <2>3. DS!StoreTypes'
    BY <1>0, <2>1 DEF DS!StoreTypes
  <2>4. DS!StoreInv'
    BY <2>1, <2>2, <2>3 DEF DS!StoreInv, DS!UpdateIsBased, DS!OneLockPerRow, DS!AckedIsDurable
  <2> QED BY <2>2, <2>4 DEF DS!NoUpdateLost
<1>2. ASSUME NEW r \in documents.Requests, DS!PgUpdateRollback(r) PROVE DS!StoreInv' /\ DS!NoUpdateLost
  <2>1. /\ UNCHANGED <<mode, store, mirror, excepted>> /\ sent' = [sent EXCEPT ![r] = "error"]
        /\ local' = [local EXCEPT ![r] = DS!Done]
    BY <1>2 DEF DS!PgUpdateRollback
  <2>2. \A q \in documents.Requests :
          /\ local'[q] = IF q = r THEN DS!Done ELSE local[q]
          /\ sent'[q] = IF q = r THEN "error" ELSE sent[q]
    BY <1>0, <2>1 DEF DS!StoreTypes
  <2>3. DS!StoreTypes'
    BY <1>0, <2>1 DEF DS!StoreTypes
  <2>4. DS!StoreInv'
    BY <1>0, <2>1, <2>2, <2>3 DEF DS!StoreInv, DS!UpdateIsBased, DS!OneLockPerRow, DS!AckedIsDurable
  <2> QED BY <1>0, <2>2, <2>4 DEF DS!NoUpdateLost
<1> QED BY <1>1, <1>2

\* store.go and pg.go, for any number of documents, writers and faults: what
\* was answered is what a restart finds, and no update loses one before it,
\* but for two that create the same row in Postgres.
THEOREM AnsweredWritesAreKept == Spec => WritesAreKept
<1>1. Init => DocumentsInv
  BY DEF Init, DocumentsInv, DS!Init, DS!StoreInv, DS!StoreTypes, DS!UpdateIsBased, DS!OneLockPerRow,
         DS!AckedIsDurable, DS!New
<1>2. DocumentsInv /\ [Next]_vars =>
        DocumentsInv' /\ (service = "documents" => DS!NoUpdateLost /\ DS!AckedIsDurable')
  <2> SUFFICES ASSUME DocumentsInv, [Next]_vars, service = "documents" \/ service' = "documents"
               PROVE  DS!StoreInv' /\ DS!NoUpdateLost
    BY DEF DocumentsInv, DS!StoreInv
  <2>1. service = "documents" /\ [DS!Next]_DS!vars
    BY DEF Next, vars, DS!vars
  <2>2. DS!StoreInv
    BY <2>1 DEF DocumentsInv
  <2>3. CASE UNCHANGED DS!vars
    BY <2>2, <2>3 DEF DS!vars, DS!StoreInv, DS!StoreTypes, DS!UpdateIsBased, DS!OneLockPerRow,
         DS!AckedIsDurable, DS!NoUpdateLost
  <2>4. ASSUME NEW r \in documents.Requests, NEW id \in documents.Ids,
               \/ DS!Put(r, id) \/ DS!PutIfAbsent(r, id) \/ DS!Update(r, id) \/ DS!Delete(r, id)
        PROVE  DS!StoreInv' /\ DS!NoUpdateLost
    <3>1. \E doc : DS!Change(r, id, doc)
      BY <2>4 DEF DS!Put, DS!PutIfAbsent, DS!Update, DS!Delete
    <3> QED BY <2>2, <3>1, EmbeddedStep
  <2>5. ASSUME NEW r \in documents.Requests, NEW id \in documents.Ids,
               DS!PgPut(r, id) \/ DS!PgPutIfAbsent(r, id) \/ DS!PgDelete(r, id)
        PROVE  DS!StoreInv' /\ DS!NoUpdateLost
    <3>1. \E doc : DS!PgChange(r, id, doc)
      BY <2>5 DEF DS!PgPut, DS!PgPutIfAbsent, DS!PgDelete
    <3> QED BY <2>2, <3>1, StatementStep
  <2> QED BY <2>1, <2>2, <2>3, <2>4, <2>5, UpdateReadStep, UpdateCommitStep, AbandonStep DEF DS!Next
<1> QED BY <1>1, <1>2, PTL DEF Spec, WritesAreKept

-----------------------------------------------------------------------------
(* The rule-pack registry.                                                 *)

RulePacksInv == service = "rule_packs" => RP!RegistryInv

\* A step of the registry: a record is replaced only by a request that still
\* finds what it was based on, or makes its version lapse.
LEMMA RegistryStep ==
  ASSUME RP!RegistryInv, [RP!Next]_RP!vars
  PROVE  RP!RegistryInv' /\ RP!KeepsPublished
<1> USE DEF RP!RegistryInv
<1>1. ASSUME NEW r \in rulePacks.Requests, NEW a \in rulePacks.Artifacts, RP!RegisterRead(r, a)
      PROVE  RP!RegistryInv' /\ RP!KeepsPublished
  <2>0. PICK found :
          /\ local' = [local EXCEPT ![r] =
               IF RP!MayRegister(a, found)
               THEN [pc |-> "register", artifact |-> a, seen |-> found] ELSE RP!Done]
          /\ UNCHANGED store
    BY <1>1 DEF RP!RegisterRead
  <2> DEFINE read == [pc |-> "register", artifact |-> a, seen |-> found]
             me == IF RP!MayRegister(a, found) THEN read ELSE RP!Done
  <2>1. local' = [local EXCEPT ![r] = me] /\ UNCHANGED store
    BY <2>0
  <2>2. me.pc # "publish" /\ (me.pc = "register" => me.seen = RP!None)
    <3>1. read.pc = "register" /\ read.seen = found /\ RP!Done.pc = "done"
      BY DEF RP!Done
    <3> HIDE DEF read
    <3>2. RP!MayRegister(a, found) => found = RP!None
      BY DEF RP!MayRegister
    <3> QED BY <3>1, <3>2
  <2> HIDE DEF me
  <2> QED BY <2>1, <2>2 DEF RP!KeepsPublished
<1>2. ASSUME NEW r \in rulePacks.Requests, NEW x \in RP!Versions, RP!PublishRead(r, x)
      PROVE  RP!RegistryInv' /\ RP!KeepsPublished
  <2> DEFINE read == [pc |-> "publish", copy |-> store[x]]
             me == IF RP!MayPublish(store[x]) THEN read ELSE RP!Done
  <2>1. local' = [local EXCEPT ![r] = me] /\ UNCHANGED store
    BY <1>2 DEF RP!PublishRead
  <2>2. me.pc # "register" /\ (me.pc = "publish" => me.copy.status # "published")
    <3>1. read.pc = "publish" /\ read.copy = store[x] /\ RP!Done.pc = "done"
      BY DEF RP!Done
    <3> HIDE DEF read
    <3>2. RP!MayPublish(store[x]) => store[x].status # "published"
      BY DEF RP!MayPublish
    <3> QED BY <3>1, <3>2
  <2> HIDE DEF me
  <2> QED BY <2>1, <2>2 DEF RP!KeepsPublished
<1>3. ASSUME NEW r \in rulePacks.Requests, RP!RegisterPut(r)
      PROVE  RP!RegistryInv' /\ RP!KeepsPublished
  <2>1. PICK x, new :
          /\ store' = [store EXCEPT ![x] = new] /\ (store[x] = RP!None \/ x \in excepted')
          /\ local' = [local EXCEPT ![r] = RP!Done]
    BY <1>3 DEF RP!RegisterPut
  <2> QED BY <2>1 DEF RP!KeepsPublished, RP!Done
<1>4. ASSUME NEW r \in rulePacks.Requests, RP!PublishPut(r)
      PROVE  RP!RegistryInv' /\ RP!KeepsPublished
  <2> DEFINE x == local[r].copy.version
             new == [local[r].copy EXCEPT !.status = "published"]
             me == [pc |-> "announce", copy |-> local[r].copy]
  <2>1. /\ store' = [store EXCEPT ![x] = new] /\ local' = [local EXCEPT ![r] = me]
        /\ local[r].pc = "publish" /\ (store[x] = local[r].copy \/ x \in excepted')
    BY <1>4 DEF RP!PublishPut
  <2>2. me.pc = "announce" /\ (store[x].status # "published" \/ x \in excepted')
    BY <2>1
  <2> HIDE DEF x, new, me
  <2> QED BY <2>1, <2>2 DEF RP!KeepsPublished
<1>5. ASSUME NEW r \in rulePacks.Requests, RP!PublishAnnounce(r)
      PROVE  RP!RegistryInv' /\ RP!KeepsPublished
  BY <1>5 DEF RP!PublishAnnounce, RP!KeepsPublished, RP!Done
<1>6. ASSUME NEW c \in rulePacks.Consumers, NEW x \in RP!Versions, RP!RegisterConsumer(c, x)
      PROVE  RP!RegistryInv' /\ RP!KeepsPublished
  BY <1>6 DEF RP!RegisterConsumer, RP!KeepsPublished
<1>7. CASE RP!Restart
  BY <1>7 DEF RP!Restart, RP!KeepsPublished, RP!New, RP!Done
<1>8. CASE UNCHANGED RP!vars
  BY <1>8 DEF RP!vars, RP!KeepsPublished
<1> QED BY <1>1, <1>2, <1>3, <1>4, <1>5, <1>6, <1>7, <1>8 DEF RP!Next

\* registry.go, for any number of artifacts, requests, consumers and restarts
\* under other keys: a published version keeps its record, unless a request
\* wrote from a read that another had overtaken.
THEOREM PublishedStays == Spec => PublishedIsFrozen
<1>1. Init => RulePacksInv
  BY DEF Init, RulePacksInv, RP!Init, RP!RegistryInv, RP!New
<1>2. RulePacksInv /\ [Next]_vars => RulePacksInv' /\ (service = "rule_packs" => RP!KeepsPublished)
  <2> SUFFICES ASSUME RulePacksInv, [Next]_vars, service = "rule_packs" \/ service' = "rule_packs"
               PROVE  RP!RegistryInv' /\ RP!KeepsPublished
    BY DEF RulePacksInv
  <2>1. service = "rule_packs" /\ [RP!Next]_RP!vars
    BY DEF Next, vars, RP!vars
  <2> QED BY <2>1, RegistryStep DEF RulePacksInv
<1> QED BY <1>1, <1>2, PTL DEF Spec, PublishedIsFrozen

-----------------------------------------------------------------------------
(* The admin console's audit trail.                                        *)

ConsoleTrailInv == service = "console" => AC!ConsoleInv

Has(s, x) == \E i \in DOMAIN s : s[i] = x

\* What is in a sequence stays in it when it grows, and is its head or in
\* its tail when it shrinks.
LEMMA AppendHolds ==
  ASSUME NEW S, NEW s \in Seq(S), NEW e \in S
  PROVE  Append(s, e) \in Seq(S) /\ \A x \in S : Has(s, x) \/ x = e => Has(Append(s, e), x)
<1>1. /\ Append(s, e) \in Seq(S) /\ DOMAIN Append(s, e) = 1..(Len(s) + 1) /\ DOMAIN s = 1..Len(s)
      /\ Append(s, e)[Len(s) + 1] = e /\ \A i \in 1..Len(s) : Append(s, e)[i] = s[i]
      /\ Len(s) \in Nat
  OBVIOUS
<1> QED BY <1>1 DEF Has

LEMMA TailHolds ==
  ASSUME NEW S, NEW s \in Seq(S), s # <<>>
  PROVE  /\ Head(s) \in S /\ Tail(s) \in Seq(S)
         /\ \A x \in S : Has(s, x) => x = Head(s) \/ Has(Tail(s), x)
<1>1. /\ Head(s) \in S /\ Tail(s) \in Seq(S) /\ Len(s) \in Nat /\ DOMAIN s = 1..Len(s)
      /\ Head(s) = s[1] /\ DOMAIN Tail(s) = 1..(Len(s) - 1)
      /\ \A i \in 1..(Len(s) - 1) : Tail(s)[i] = s[i + 1]
  OBVIOUS
<1>2. \A i \in 1..Len(s) : i # 1 => i - 1 \in 1..(Len(s) - 1) /\ Tail(s)[i - 1] = s[i]
  <2> TAKE i \in 1..Len(s)
  <2> HAVE i # 1
  <2>1. i - 1 \in 1..(Len(s) - 1) /\ (i - 1) + 1 = i
    BY <1>1
  <2> QED BY <1>1, <2>1
<1> QED BY <1>1, <1>2 DEF Has

LEMMA ConcatHolds ==
  ASSUME NEW S, NEW s \in Seq(S), NEW t \in Seq(S)
  PROVE  s \o t \in Seq(S) /\ \A x \in S : Has(s, x) \/ Has(t, x) => Has(s \o t, x)
<1>1. /\ s \o t \in Seq(S) /\ Len(s) \in Nat /\ Len(t) \in Nat
      /\ DOMAIN s = 1..Len(s) /\ DOMAIN t = 1..Len(t) /\ DOMAIN (s \o t) = 1..(Len(s) + Len(t))
      /\ \A i \in 1..Len(s) : (s \o t)[i] = s[i]
      /\ \A i \in 1..Len(t) : (s \o t)[Len(s) + i] = t[i]
  OBVIOUS
<1>2. \A i \in 1..Len(s) : i \in 1..(Len(s) + Len(t))
  BY <1>1
<1>3. \A i \in 1..Len(t) : Len(s) + i \in 1..(Len(s) + Len(t))
  BY <1>1
<1> QED BY <1>1, <1>2, <1>3 DEF Has

\* Where an event may be.
Held(q) == AC!Taken(q) \/ q \in AC!InMemory \/ q \in excepted

\* The invariant is kept by a step that lets go of no event, and answers for
\* none that is not held.
LEMMA EventsHeld ==
  ASSUME AC!ConsoleInv,
         local' = [q \in console.Requests |-> local'[q]],
         sent' \in Seq(console.Requests), past' \in Seq(console.Requests),
         u' \in [todo : Seq(console.Requests), still : Seq(console.Requests)],
         \A q \in console.Requests :
           /\ local'[q].pc = "audit" =>
                local'[q] = [pc |-> "audit", answer |-> local'[q].answer, event |-> TRUE]
           /\ local'[q].pc = "done" /\ local'[q].event =>
                (local[q].pc = "done" /\ local[q].event) \/ Held(q)
           /\ Held(q) => Held(q)'
  PROVE  AC!ConsoleInv'
<1>1. AC!NoAuditLost'
  <2> SUFFICES ASSUME NEW q \in console.Requests, local'[q].pc = "done", local'[q].event
               PROVE  Held(q)'
    BY DEF AC!NoAuditLost, AC!Answered, Held
  <2>1. Held(q)
    BY DEF AC!ConsoleInv, AC!NoAuditLost, AC!Answered, Held
  <2> QED BY <2>1
<1> QED BY <1>1 DEF AC!ConsoleInv

\* A request that has no event waiting moves on.
LEMMA CommandServed ==
  ASSUME AC!ConsoleInv, NEW r \in console.Requests, NEW me,
         local[r].pc # "audit", local' = [local EXCEPT ![r] = me],
         me.pc = "audit" => me = [pc |-> "audit", answer |-> me.answer, event |-> TRUE],
         me.pc = "done" => me.event = FALSE,
         UNCHANGED <<sent, past, u, excepted>>
  PROVE  AC!ConsoleInv'
<1>1. \A q \in console.Requests : local'[q] = IF q = r THEN me ELSE local[q]
  BY DEF AC!ConsoleInv
<1>2. \A q \in console.Requests : local[q].pc = "audit" => local'[q].pc = "audit"
  BY <1>1
<1>3. AC!InMemory \subseteq AC!InMemory'
  BY <1>2 DEF AC!InMemory
<1>4. \A q \in console.Requests : Held(q) => Held(q)'
  BY <1>3 DEF Held, AC!Taken
<1>5. /\ local' = [q \in console.Requests |-> local'[q]]
      /\ sent' \in Seq(console.Requests) /\ past' \in Seq(console.Requests)
      /\ u' \in [todo : Seq(console.Requests), still : Seq(console.Requests)]
  BY DEF AC!ConsoleInv
<1>6. \A q \in console.Requests :
        /\ local'[q].pc = "audit" =>
             local'[q] = [pc |-> "audit", answer |-> local'[q].answer, event |-> TRUE]
        /\ local'[q].pc = "done" /\ local'[q].event => local[q].pc = "done" /\ local[q].event
  BY <1>1 DEF AC!ConsoleInv
<1> QED BY <1>4, <1>5, <1>6, EventsHeld

\* The handlers: a command of the console's own, one that is posted, and the
\* fallback.
LEMMA CommandStep ==
  ASSUME AC!ConsoleInv, NEW r \in console.Requests,
         \/ \E c \in AC!LocalCommands : AC!Local(r, c)
         \/ \E c \in AC!OwnedCommands : AC!Post(r, c)
         \/ AC!Fallback(r)
  PROVE  AC!ConsoleInv'
<1> DEFINE Fits(me) == /\ me.pc = "audit" => me = [pc |-> "audit", answer |-> me.answer, event |-> TRUE]
                       /\ me.pc = "done" => me.event = FALSE
           waits(c, cause) == [pc |-> "fallback", command |-> c, cause |-> cause]
<1>1. \A a : Fits(AC!Auditing(a)) /\ Fits(AC!Done(a))
  BY DEF AC!Auditing, AC!Done
<1>2. \A c, cause : Fits(waits(c, cause))
  OBVIOUS
<1>3. AC!New.pc = "new"
  BY DEF AC!New
<1> HIDE DEF Fits, waits
<1>4. local[r].pc # "audit" /\ UNCHANGED <<sent, past, u, excepted>>
  BY <1>3 DEF AC!Local, AC!Post, AC!Fallback
<1>5. \E me : local' = [local EXCEPT ![r] = me] /\ Fits(me)
  <2>1. ASSUME NEW c \in AC!LocalCommands, AC!Local(r, c)
        PROVE  \E me : local' = [local EXCEPT ![r] = me] /\ Fits(me)
    BY <1>1, <2>1 DEF AC!Local
  <2>2. ASSUME NEW c \in AC!OwnedCommands, AC!Post(r, c)
        PROVE  \E me : local' = [local EXCEPT ![r] = me] /\ Fits(me)
    <3>1. \/ local' = [local EXCEPT ![r] = IF c.audited THEN AC!Auditing("live") ELSE AC!Done("live")]
          \/ \E cause : local' = [local EXCEPT ![r] = waits(c, cause)]
      BY <2>2 DEF AC!Post, waits
    <3> QED BY <1>1, <1>2, <3>1
  <2>3. CASE AC!Fallback(r)
    BY <1>1, <2>3 DEF AC!Fallback
  <2> QED BY <2>1, <2>2, <2>3
<1>6. PICK me : local' = [local EXCEPT ![r] = me] /\ Fits(me)
  BY <1>5
<1> QED BY <1>4, <1>6, CommandServed DEF Fits

\* forwardAudit: the event is taken or queued.
LEMMA ForwardStep ==
  ASSUME AC!ConsoleInv, NEW r \in console.Requests, AC!Forward(r)
  PROVE  AC!ConsoleInv'
<1>1. /\ local[r].pc = "audit" /\ local' = [local EXCEPT ![r].pc = "done"] /\ UNCHANGED <<u, excepted>>
      /\ \/ past' = Append(past, r) /\ sent' = sent
         \/ (past' = past \/ past' = Append(past, r)) /\ sent' = Append(sent, r)
  BY DEF AC!Forward, AC!Delivered, AC!NotDelivered
<1>2. /\ sent \in Seq(console.Requests) /\ past \in Seq(console.Requests)
      /\ local = [q \in console.Requests |-> local[q]]
  BY DEF AC!ConsoleInv
<1>3. /\ sent' \in Seq(console.Requests) /\ past' \in Seq(console.Requests)
      /\ \A q \in console.Requests : (Has(past, q) => Has(past', q)) /\ (Has(sent, q) => Has(sent', q))
      /\ Has(past', r) \/ Has(sent', r)
  <2>1. \A s \in Seq(console.Requests) :
          /\ Append(s, r) \in Seq(console.Requests)
          /\ \A q \in console.Requests : Has(s, q) \/ q = r => Has(Append(s, r), q)
    BY AppendHolds
  <2>2. past' = past \/ past' = Append(past, r)
    BY <1>1
  <2>3. sent' = sent \/ sent' = Append(sent, r)
    BY <1>1
  <2> QED BY <1>1, <1>2, <2>1, <2>2, <2>3
<1>4. \A q \in console.Requests : q # r => local'[q] = local[q]
  BY <1>1, <1>2
<1>5. local'[r].pc = "done"
  <2>1. local[r] = [pc |-> "audit", answer |-> local[r].answer, event |-> TRUE]
    BY <1>1 DEF AC!ConsoleInv
  <2>2. local'[r] = [local[r] EXCEPT !.pc = "done"]
    BY <1>1, <1>2
  <2> QED BY <2>1, <2>2
<1>6. \A q \in console.Requests : Held(q) => Held(q)'
  <2> SUFFICES ASSUME NEW q \in console.Requests, Held(q) PROVE Held(q)'
    OBVIOUS
  <2>1. CASE q = r
    BY <1>3, <2>1 DEF Held, Has, AC!Taken, AC!InMemory
  <2>2. CASE q # r
    BY <1>1, <1>3, <1>4, <2>2 DEF Held, Has, AC!Taken, AC!InMemory
  <2> QED BY <2>1, <2>2
<1>7. Held(r)
  BY <1>1 DEF Held, AC!InMemory
<1>8. local' = [q \in console.Requests |-> local'[q]] /\ u' \in [todo : Seq(console.Requests), still : Seq(console.Requests)]
  BY <1>1 DEF AC!ConsoleInv
<1>9. \A q \in console.Requests :
        /\ local'[q].pc = "audit" =>
             local'[q] = [pc |-> "audit", answer |-> local'[q].answer, event |-> TRUE]
        /\ local'[q].pc = "done" /\ local'[q].event => (local[q].pc = "done" /\ local[q].event) \/ Held(q)
  BY <1>4, <1>5, <1>7 DEF AC!ConsoleInv
<1> QED BY <1>3, <1>6, <1>8, <1>9, EventsHeld

\* flushAuditQueue: the queue is taken over, its events are posted one by
\* one, and what failed again goes back in front.
LEMMA FlushStep ==
  ASSUME AC!ConsoleInv, AC!FlushTake \/ AC!FlushPost \/ AC!FlushEnd
  PROVE  AC!ConsoleInv'
<1> DEFINE R == console.Requests
<1>1. /\ sent \in Seq(R) /\ past \in Seq(R) /\ u \in [todo : Seq(R), still : Seq(R)]
      /\ u.todo \in Seq(R) /\ u.still \in Seq(R) /\ <<>> \in Seq(R)
  BY DEF AC!ConsoleInv
<1>2. UNCHANGED <<local, excepted>>
  BY DEF AC!FlushTake, AC!FlushPost, AC!FlushEnd
<1>3. \A q \in R : Held(q) <=> \/ Has(past, q) \/ Has(sent, q) \/ Has(u.todo, q) \/ Has(u.still, q)
                               \/ local[q].pc = "audit" \/ q \in excepted
  BY DEF Held, Has, AC!Taken, AC!InMemory
<1>4. \A q \in R : Held(q)' <=> \/ Has(past', q) \/ Has(sent', q) \/ Has(u'.todo, q) \/ Has(u'.still, q)
                                \/ local'[q].pc = "audit" \/ q \in excepted'
  BY DEF Held, Has, AC!Taken, AC!InMemory
<1>a. \A s \in Seq(R), e \in R :
        Append(s, e) \in Seq(R) /\ \A q \in R : Has(s, q) \/ q = e => Has(Append(s, e), q)
  BY AppendHolds
<1>t. \A s \in Seq(R) : s # <<>> =>
        Head(s) \in R /\ Tail(s) \in Seq(R) /\ \A q \in R : Has(s, q) => q = Head(s) \/ Has(Tail(s), q)
  BY TailHolds
<1>c. \A s, t \in Seq(R) :
        s \o t \in Seq(R) /\ \A q \in R : Has(s, q) \/ Has(t, q) => Has(s \o t, q)
  BY ConcatHolds
<1>e. \A q : ~Has(<<>>, q)
  BY DEF Has
<1>5. /\ sent' \in Seq(R) /\ past' \in Seq(R) /\ u' \in [todo : Seq(R), still : Seq(R)]
      /\ \A q \in R : Held(q) => Held(q)'
  <2>1. CASE AC!FlushTake
    <3>1. /\ u = AC!NotFlushing /\ u' = [todo |-> sent, still |-> <<>>] /\ sent' = <<>> /\ past' = past
      BY <2>1 DEF AC!FlushTake
    <3>2. u.todo = <<>> /\ u.still = <<>> /\ u'.todo = sent /\ u' \in [todo : Seq(R), still : Seq(R)]
      BY <1>1, <3>1 DEF AC!NotFlushing
    <3> QED BY <1>1, <1>2, <1>3, <1>4, <1>e, <3>1, <3>2
  <2>2. CASE AC!FlushPost
    <3>1. /\ u.todo # <<>> /\ sent' = sent
          /\ \/ past' = Append(past, Head(u.todo)) /\ u' = [u EXCEPT !.todo = Tail(@)]
             \/ /\ past' = past \/ past' = Append(past, Head(u.todo))
                /\ u' = [todo |-> Tail(u.todo), still |-> Append(u.still, Head(u.todo))]
      BY <2>2 DEF AC!FlushPost, AC!Delivered, AC!NotDelivered
    <3>2. Head(u.todo) \in R /\ Tail(u.todo) \in Seq(R)
      BY <1>1, <1>t, <3>1
    <3>3. past' \in Seq(R) /\ \A q \in R : Has(past, q) => Has(past', q)
      BY <1>1, <1>a, <3>1, <3>2
    <3>4. /\ u' \in [todo : Seq(R), still : Seq(R)] /\ u'.todo = Tail(u.todo)
          /\ \/ past' = Append(past, Head(u.todo)) /\ u'.still = u.still
             \/ u'.still = Append(u.still, Head(u.todo))
      <4>1. Append(u.still, Head(u.todo)) \in Seq(R)
        BY <1>1, <1>a, <3>2
      <4>2. CASE past' = Append(past, Head(u.todo)) /\ u' = [u EXCEPT !.todo = Tail(@)]
        BY <1>1, <3>2, <4>2
      <4>3. CASE u' = [todo |-> Tail(u.todo), still |-> Append(u.still, Head(u.todo))]
        BY <3>2, <4>1, <4>3
      <4> QED BY <3>1, <4>2, <4>3
    <3>5. /\ \A q \in R : Has(u.still, q) => Has(u'.still, q)
          /\ Has(past', Head(u.todo)) \/ Has(u'.still, Head(u.todo))
      BY <1>1, <1>a, <3>2, <3>4
    <3>6. \A q \in R : Has(u.todo, q) => q = Head(u.todo) \/ Has(u'.todo, q)
      BY <1>1, <1>t, <3>1, <3>4
    <3> QED BY <1>1, <1>2, <1>3, <1>4, <3>1, <3>3, <3>4, <3>5, <3>6
  <2>3. CASE AC!FlushEnd
    <3>1. u.todo = <<>> /\ sent' = u.still \o sent /\ u' = AC!NotFlushing /\ past' = past
      BY <2>3 DEF AC!FlushEnd, AC!PutBack
    <3>2. u' \in [todo : Seq(R), still : Seq(R)]
      BY <1>1, <3>1 DEF AC!NotFlushing
    <3> QED BY <1>1, <1>2, <1>3, <1>4, <1>c, <1>e, <3>1, <3>2
  <2> QED BY <2>1, <2>2, <2>3
<1> QED BY <1>2, <1>5, EventsHeld DEF AC!ConsoleInv

\* The end of the process: its memory is what is gone.
LEMMA ConsoleRestartStep ==
  ASSUME AC!ConsoleInv, AC!Restart
  PROVE  AC!ConsoleInv'
<1>1. /\ sent' = <<>> /\ u' = AC!NotFlushing /\ past' = past /\ excepted' = excepted \cup AC!InMemory
      /\ local' = [r \in console.Requests |->
                     IF local[r].pc \in {"fallback", "audit"} THEN AC!Done("aborted") ELSE local[r]]
  BY DEF AC!Restart
<1>2. /\ sent' \in Seq(console.Requests) /\ past' \in Seq(console.Requests)
      /\ u' \in [todo : Seq(console.Requests), still : Seq(console.Requests)]
      /\ local' = [q \in console.Requests |-> local'[q]]
  BY <1>1 DEF AC!ConsoleInv, AC!NotFlushing
<1>3. AC!Done("aborted").pc = "done" /\ AC!Done("aborted").event = FALSE
  BY DEF AC!Done
<1>4. \A q \in console.Requests :
        /\ local'[q].pc # "audit"
        /\ local'[q].pc = "done" /\ local'[q].event => local[q].pc = "done" /\ local[q].event
  BY <1>1, <1>3
<1>5. \A q \in console.Requests : Held(q) => Held(q)'
  BY <1>1 DEF Held, AC!Taken
<1> QED BY <1>2, <1>4, <1>5, EventsHeld

\* forwardAudit and flushAuditQueue, for any number of requests, failed posts
\* and restarts: the event of an answered command is with audit-evidence or
\* in memory, or was in memory when the process ended.
THEOREM NoAuditIsLost == Spec => []NoAuditLost
<1>1. Init => ConsoleTrailInv
  <2> SUFFICES ASSUME Init, service = "console" PROVE AC!ConsoleInv
    BY DEF ConsoleTrailInv
  <2>1. /\ local = [r \in console.Requests |-> AC!New] /\ AC!New.pc = "new"
        /\ sent = <<>> /\ past = <<>> /\ u = [todo |-> <<>>, still |-> <<>>]
    BY DEF Init, AC!Init, AC!NotFlushing, AC!New
  <2>2. \A r \in console.Requests : local[r].pc = "new"
    BY <2>1
  <2>3. <<>> \in Seq(console.Requests)
    OBVIOUS
  <2> QED BY <2>1, <2>2, <2>3 DEF AC!ConsoleInv, AC!NoAuditLost, AC!Answered
<1>2. ConsoleTrailInv /\ [Next]_vars => ConsoleTrailInv'
  <2> SUFFICES ASSUME ConsoleTrailInv, [Next]_vars, service' = "console" PROVE AC!ConsoleInv'
    BY DEF ConsoleTrailInv
  <2>1. service = "console" /\ [AC!Next]_AC!vars
    BY DEF Next, vars, AC!vars
  <2>2. AC!ConsoleInv
    BY <2>1 DEF ConsoleTrailInv
  <2>3. CASE UNCHANGED AC!vars
    BY <2>2, <2>3 DEF AC!vars, AC!ConsoleInv, AC!NoAuditLost, AC!Answered, AC!Taken, AC!InMemory
  <2> QED BY <2>1, <2>2, <2>3, CommandStep, ForwardStep, FlushStep, ConsoleRestartStep DEF AC!Next
<1>3. ConsoleTrailInv => NoAuditLost
  BY DEF ConsoleTrailInv, NoAuditLost, AC!ConsoleInv
<1> QED BY <1>1, <1>2, <1>3, PTL DEF Spec

-----------------------------------------------------------------------------
(* Consent and data subject rights.                                        *)

ConsentsInv == service = "consent" => CO!ConsentInv

\* main.go, check.go and dsr.go, for any number of requests, subjects and
\* records.
LEMMA ConsentInvariant == Spec => []ConsentsInv
<1>1. Init => ConsentsInv
  <2> SUFFICES ASSUME Init, service = "consent" PROVE CO!ConsentInv
    BY DEF ConsentsInv
  <2>1. /\ store = <<>> /\ past = {} /\ sent = [s \in consent.Subjects |-> {}] /\ excepted = {}
        /\ local = [q \in consent.Slots |-> CO!Free]
    BY DEF Init, CO!Init
  <2>2. \A q \in consent.Slots : CO!SlotShaped(local[q], store, excepted)
    BY <2>1 DEF CO!SlotShaped
  <2> QED BY <2>1, <2>2 DEF CO!ConsentInv, CO!WithdrawnStaysWithdrawn, CO!ConsentsAreErased
<1>2. ConsentsInv /\ [Next]_vars => ConsentsInv'
  <2> SUFFICES ASSUME ConsentsInv, [Next]_vars, service' = "consent" PROVE CO!ConsentInv'
    BY DEF ConsentsInv
  <2>1. service = "consent" /\ [CO!Next]_CO!vars
    BY DEF Next, vars, CO!vars, CO!ghosts
  <2>2. CO!ConsentInv
    BY <2>1 DEF ConsentsInv
  <2>3. CASE UNCHANGED <<store, local, past, sent, excepted>>
    BY <2>2, <2>3 DEF CO!ConsentInv, CO!WithdrawnStaysWithdrawn, CO!ConsentsAreErased
  <2>4. CASE \E q \in consent.Slots : CO!HandlerDies(q)
    <3>1. PICK q \in consent.Slots :
            local' = [local EXCEPT ![q] = CO!Free] /\ UNCHANGED <<store, past, sent, excepted>>
      BY <2>4 DEF CO!HandlerDies, CO!End, CO!ghosts
    <3> QED BY <2>2, <3>1, OnlyMoves DEF CO!SlotShaped
  <2>5. CASE \E q \in consent.Slots :
               \/ \E caller \in consent.Callers, s \in consent.Subjects, p \in consent.Purposes,
                    b \in consent.Bases, granted \in BOOLEAN, expires \in consent.Lifetimes :
                    CO!Create(q, caller, s, p, b, granted, expires)
               \/ \E caller \in consent.Callers, id \in DOMAIN store, expires \in consent.Lifetimes,
                    action \in {"renewed", "revoked"} : CO!ReadToChange(q, caller, id, action, expires)
               \/ CO!PutChange(q)
    BY <2>2, <2>5, GrantStep, ChangeReadStep, ChangePutStep
  <2>6. CASE \E q \in consent.Slots :
               \/ \E caller \in consent.Callers, s \in consent.Subjects : CO!ListBySubject(q, caller, s)
               \/ \E s \in consent.Subjects, p \in consent.Purposes, b \in consent.Bases :
                    CO!Check(q, s, p, b)
               \/ CO!ExpireOne(q) \/ CO!Answer(q) \/ CO!Process(q)
    BY <2>2, <2>6, ListStep, CheckStep, WalkStep
  <2>7. CASE \E q \in consent.Slots :
               \/ \E caller \in consent.Callers, s \in consent.Subjects : CO!BeginErasure(q, s, caller)
               \/ CO!ListForErasure(q) \/ CO!EraseOne(q) \/ CO!EndErasure(q)
    BY <2>2, <2>7, ErasureListStep, ErasurePutStep, ErasureEndStep
  <2>8. CASE \/ \E q \in consent.Slots :
                  \/ \E caller \in consent.Callers, s \in consent.Subjects : CO!ExportOrRefuse(q, s, caller)
                  \/ \E s \in consent.Subjects : CO!BreachAffects(q, s)
             \/ CO!Tick \/ UNCHANGED CO!vars
    <3>1. UNCHANGED <<store, local, past, sent, excepted>>
      BY <2>8 DEF CO!ExportOrRefuse, CO!BreachAffects, CO!Tick, CO!vars, CO!ghosts
    <3> QED BY <3>1, <2>3
  <2> QED BY <2>1, <2>4, <2>5, <2>6, <2>7, <2>8 DEF CO!Next
<1> QED BY <1>1, <1>2, PTL DEF Spec

\* A withdrawn consent stays withdrawn and nobody who relies on it is let
\* through later, unless its record was overwritten from an outdated copy.
THEOREM WithdrawalAlwaysHolds == Spec => []WithdrawalHolds
<1>1. ConsentsInv => WithdrawalHolds
  <2> SUFFICES ASSUME CO!ConsentInv PROVE CO!WithdrawalHolds
    BY DEF ConsentsInv, WithdrawalHolds
  <2>1. CO!WithdrawnStaysWithdrawn
    BY DEF CO!ConsentInv
  <2>2. ASSUME NEW q \in consent.Slots, CO!At(q, "walk", "process"),
               NEW id \in local[q].using, id \in local[q].withdrawn
        PROVE  <<"consent", id>> \in excepted
    <3>1. CO!WalkShaped(local[q], store, excepted)
      BY <2>2, ServedIsShaped DEF CO!At
    <3> QED BY <2>2, <3>1 DEF CO!WalkShaped
  <2> QED BY <2>1, <2>2 DEF CO!WithdrawalHolds, CO!NotProcessedAfterWithdrawal
<1> QED BY <1>1, ConsentInvariant, PTL

\* When an erasure has answered, no consent it should have found names the
\* subject, unless an outdated copy was written over it, and the audit keeps
\* the mapping.
THEOREM ErasureAlwaysAccounted == Spec => []ErasureIsAccounted
<1>1. Init => (service = "consent" => CO!MappingIsKept)
  BY DEF Init, CO!Init, CO!MappingIsKept
<1>2. ConsentsInv /\ (service = "consent" => CO!MappingIsKept) /\ [Next]_vars
        => (service = "consent" => CO!MappingIsKept)'
  <2> SUFFICES ASSUME ConsentsInv, service = "consent" => CO!MappingIsKept, [Next]_vars,
                      service' = "consent"
               PROVE  CO!MappingIsKept'
    OBVIOUS
  <2>1. service = "consent" /\ [CO!Next]_CO!vars
    BY DEF Next, vars, CO!vars, CO!ghosts
  <2>2. CO!MappingIsKept /\ CO!ConsentInv
    BY <2>1 DEF ConsentsInv
  <2>3. CASE sent' = sent /\ mirror \subseteq mirror'
    BY <2>2, <2>3 DEF CO!MappingIsKept
  <2>4. ASSUME NEW q \in consent.Slots, CO!EndErasure(q) PROVE CO!MappingIsKept'
    <3> DEFINE s == local[q].subject
    <3>1. /\ <<"dsr_audit", s>> \in mirror' /\ mirror \subseteq mirror'
          /\ sent' = [sent EXCEPT ![s] = @ \cup local[q].all]
      BY <2>4 DEF CO!EndErasure, CO!Named
    <3>2. ASSUME NEW t \in consent.Subjects, sent'[t] # {} PROVE <<"dsr_audit", t>> \in mirror'
      <4>1. CASE t = s
        BY <3>1, <4>1
      <4>2. CASE t # s
        <5>1. sent'[t] = sent[t]
          BY <2>2, <3>1, <4>2 DEF CO!ConsentInv
        <5> QED BY <2>2, <3>1, <3>2, <5>1 DEF CO!MappingIsKept
      <4> QED BY <4>1, <4>2
    <3> QED BY <3>2 DEF CO!MappingIsKept
  <2>5. CASE \E q \in consent.Slots :
               \/ \E caller \in consent.Callers, s \in consent.Subjects, p \in consent.Purposes,
                    b \in consent.Bases, granted \in BOOLEAN, expires \in consent.Lifetimes :
                    CO!Create(q, caller, s, p, b, granted, expires)
               \/ CO!PutChange(q)
               \/ \E caller \in consent.Callers, s \in consent.Subjects : CO!ExportOrRefuse(q, s, caller)
               \/ \E s \in consent.Subjects : CO!BreachAffects(q, s)
    <3>1. sent' = sent /\ mirror \subseteq mirror'
      BY <2>5 DEF CO!Create, CO!PutChange, CO!ExportOrRefuse, CO!BreachAffects, CO!Named,
                  CO!NamedBestEffort, CO!ghosts
    <3> QED BY <3>1, <2>3
  <2>6. CASE \/ \E q \in consent.Slots :
                  \/ \E caller \in consent.Callers, id \in DOMAIN store, expires \in consent.Lifetimes,
                       action \in {"renewed", "revoked"} : CO!ReadToChange(q, caller, id, action, expires)
                  \/ \E caller \in consent.Callers, s \in consent.Subjects :
                       CO!ListBySubject(q, caller, s) \/ CO!BeginErasure(q, s, caller)
                  \/ \E s \in consent.Subjects, p \in consent.Purposes, b \in consent.Bases :
                       CO!Check(q, s, p, b)
             \/ CO!Tick \/ UNCHANGED CO!vars
    <3>1. sent' = sent /\ mirror' = mirror
      BY <2>6 DEF CO!ReadToChange, CO!ListBySubject, CO!BeginErasure, CO!Check, CO!Tick, CO!ghosts, CO!vars
    <3> QED BY <3>1, <2>3
  <2>7. CASE \E q \in consent.Slots :
               \/ CO!ExpireOne(q) \/ CO!Answer(q) \/ CO!Process(q)
               \/ CO!ListForErasure(q) \/ CO!EraseOne(q) \/ CO!HandlerDies(q)
    <3>1. sent' = sent /\ mirror' = mirror
      BY <2>7 DEF CO!ExpireOne, CO!Answer, CO!Process, CO!ListForErasure, CO!EraseOne, CO!HandlerDies,
                  CO!ghosts
    <3> QED BY <3>1, <2>3
  <2> QED BY <2>1, <2>4, <2>5, <2>6, <2>7 DEF CO!Next
<1>3. ConsentsInv /\ (service = "consent" => CO!MappingIsKept) => ErasureIsAccounted
  BY DEF ConsentsInv, ErasureIsAccounted, CO!ConsentInv, CO!ErasureIsAccounted
<1> QED BY <1>1, <1>2, <1>3, ConsentInvariant, PTL DEF Spec

-----------------------------------------------------------------------------
(* The TIN graph.                                                          *)

TinGraphInv == service = "tin_graph" => TG!TinInv

\* main.go, entity_index.go and graph/lifecycle.go, for any number of requests,
\* TINs and registrations.
LEMMA TinGraphInvariant == Spec => []TinGraphInv
<1>1. Init => TinGraphInv
  <2> SUFFICES ASSUME Init, service = "tin_graph" PROVE TG!TinInv
    BY DEF TinGraphInv
  <2>1. TG!Init
    BY DEF Init
  <2> QED BY <2>1, TinGraphStarts, RegistersAssumption
<1>2. TinGraphInv /\ [Next]_vars => TinGraphInv'
  <2> SUFFICES ASSUME TinGraphInv, [Next]_vars, service' = "tin_graph" PROVE TG!TinInv'
    BY DEF TinGraphInv
  <2>1. service = "tin_graph" /\ [TG!Next]_TG!vars
    BY DEF Next, vars, TG!vars, TG!store, TG!ghosts
  <2>2. TG!TinInv /\ TG!Parameters
    BY <2>1, RegistersAssumption DEF TinGraphInv
  <2>3. CASE UNCHANGED <<store, mirror, local, u, v, past, excepted, count, mode, w>>
    BY <2>2, <2>3, OnlyIndexMoves DEF TG!TinInv, TG!TinTypes, TG!IndexInv, TG!OneEntityPerTIN, TG!Present,
       TG!Provisions
  <2>4. CASE \E r \in tinGraph.Requests :
               \/ \E tin \in tinGraph.TINs, profile \in tinGraph.Profiles : TG!Provision(r, tin, profile)
               \/ \E id \in 1..Len(store), profile \in tinGraph.Profiles : TG!UpdateKYB(r, id, profile)
               \/ \E tin \in tinGraph.TINs, to \in tinGraph.Statuses : TG!ReadStatus(r, tin, to)
               \/ \E surv, merged \in tinGraph.TINs : TG!MergeEntities(r, surv, merged)
               \/ \E tin \in tinGraph.TINs : TG!UnmergeFind(r, tin)
               \/ TG!DedupScan(r)
    BY <2>2, <2>4, ProvisionStep, UpdateKYBStep, ReadStatusStep, MergeEntitiesStep, UnmergeFindStep,
       DedupScanStep
  <2>5. CASE \E r \in tinGraph.Requests : TG!Serve(r)
    BY <2>2, <2>5, PutDocumentStep, PutStatusStep, MergeLifecyclesStep, MergeListStep,
       MoveRegistrationStep, MergePutEntityStep, MergePutRecordStep, MergePutStatusStep,
       UnmergePutEntityStep, MoveBackStep, MoveBackSkipsStep, UnmergePutStatusStep,
       UnmergePutRecordStep, QueueCandidateStep DEF TG!Serve
  <2>6. CASE \E r \in tinGraph.Requests : TG!AccessFails(r)
    BY <2>2, <2>6, AccessFailsStep
  <2>7. CASE TG!RebuildFails \/ TG!Restart
    BY <2>2, <2>7, RebuildFailsStep, TinRestartStep
  <2>8. (\E n \in DOMAIN past : TG!WindowPasses(n)) \/ UNCHANGED TG!vars
          => UNCHANGED <<store, mirror, local, u, v, past, excepted, count, mode, w>>
    BY DEF TG!WindowPasses, TG!vars, TG!store, TG!ghosts
  <2> QED BY <2>1, <2>3, <2>4, <2>5, <2>6, <2>7, <2>8 DEF TG!Next
<1> QED BY <1>1, <1>2, PTL DEF Spec

\* Provisioning a TIN twice gives one entity, unless two provisions of it
\* overlapped or the index was built from a read that failed.
THEOREM OneEntityStands == Spec => []OneEntityPerTIN
<1>1. TinGraphInv => OneEntityPerTIN
  BY DEF TinGraphInv, OneEntityPerTIN, TG!TinInv, TG!IndexInv
<1> QED BY <1>1, TinGraphInvariant, PTL

\* Following merges ends at a TIN that is not merged away, unless two requests
\* decided rival merges at the same time.
THEOREM MergesEnd == Spec => []NoMergeCycle
<1>1. TinGraphInv => NoMergeCycle
  BY DEF TinGraphInv, NoMergeCycle, TG!TinInv, TG!MergeInv
<1> QED BY <1>1, TinGraphInvariant, PTL

\* A merge can be taken back at every moment, and one that is over has moved
\* every registration.
THEOREM MergesStayWhole == Spec => []MergesAreWhole
<1>1. TinGraphInv => MergesAreWhole
  <2> SUFFICES ASSUME TG!TinInv PROVE TG!MergesAreWhole
    BY DEF TinGraphInv, MergesAreWhole
  <2>1. TG!MergedIsReversible /\ TG!TinTypes /\ \A t \in tinGraph.TINs : TG!MergedIsEmpty(t)
    BY DEF TG!TinInv, TG!MergeInv
  <2>2. ASSUME NEW t \in tinGraph.TINs, TG!Untouched(t), u[t].status = "merged_into",
               t \notin excepted \cup w \cup mode
        PROVE  \A x \in tinGraph.Registrations : v[x] # t
    <3>1. ASSUME NEW r \in tinGraph.Requests, TG!ComingBack(r, t) PROVE FALSE
      <4>1. TG!Busy(r) /\ t \in local[r].tins
        BY <2>1, <3>1, UnmergeIs DEF TG!ComingBack
      <4> QED BY <2>2, <4>1 DEF TG!Untouched
    <3> QED BY <2>1, <2>2, <3>1 DEF TG!MergedIsEmpty
  <2> QED BY <2>1, <2>2 DEF TG!MergesAreWhole, TG!MergedOwnsNothing
<1> QED BY <1>1, TinGraphInvariant, PTL

-----------------------------------------------------------------------------
(* Migration.                                                              *)

MigrationsInv ==
  service = "migration" => MI!MigrationInv /\ MI!ReferenceInv /\ MI!VerdictInv

LEMMA MigrationInvariant == Spec => []MigrationsInv
<1>1. Init => MigrationsInv
  <2> SUFFICES ASSUME Init, service = "migration"
               PROVE  MI!MigrationInv /\ MI!ReferenceInv /\ MI!VerdictInv
    BY DEF MigrationsInv
  <2>1. MI!Init
    BY DEF Init
  <2>2. /\ DOMAIN past = {} /\ \A i \in migration.Importers : local[i].pc = "new"
        /\ u = [a \in migration.Auditors |-> u[a]] /\ \A a \in migration.Auditors : u[a].pc = "new"
    BY <2>1 DEF MI!Init
  <2>3. MI!ReferenceInv
    BY <2>2 DEF MI!ReferenceInv, MI!ReferencesResolve, MI!ImportResolves
  <2>4. MI!VerdictInv
    BY <2>2 DEF MI!VerdictInv, MI!ManifestTold, MI!AuditFair
  <2> QED BY <2>1, <2>3, <2>4, MigrationStarts
<1>2. MigrationsInv /\ [Next]_vars => MigrationsInv'
  <2> SUFFICES ASSUME MigrationsInv, [Next]_vars, service' = "migration"
               PROVE  MI!MigrationInv' /\ MI!ReferenceInv' /\ MI!VerdictInv'
    BY DEF MigrationsInv
  <2>1. service = "migration" /\ [MI!Next]_MI!vars
    BY DEF Next, vars, MI!vars
  <2>2. MI!MigrationInv /\ MI!ReferenceInv /\ MI!VerdictInv
    BY <2>1 DEF MigrationsInv
  <2> QED BY <2>1, <2>2, MigrationStep, ReferenceStep, VerdictStep
<1> QED BY <1>1, <1>2, PTL DEF Spec

\* A batch with a manifest has all its rows and one without leaves none,
\* unless a request rolled back rows it shared, or ended before it could.
THEOREM UploadsStayWhole == Spec => []AllOrNothing
<1>1. MigrationsInv => AllOrNothing
  BY UploadsAreWhole DEF MigrationsInv, AllOrNothing
<1> QED BY <1>1, MigrationInvariant, PTL

\* Every committed filing and payment has its taxpayer, in the batch or in
\* the TIN graph.
THEOREM ReferencesAlwaysResolve == Spec => []ReferencesResolve
<1>1. MigrationsInv => ReferencesResolve
  BY DEF MigrationsInv, ReferencesResolve, MI!ReferenceInv
<1> QED BY <1>1, MigrationInvariant, PTL

\* A verification that read the store fails only a batch some request took
\* rows from.
THEOREM VerdictsAreJust == Spec => []VerdictIsJust
<1>1. MigrationsInv => VerdictIsJust
  BY DEF MigrationsInv, VerdictIsJust, MI!VerdictInv, MI!VerdictIsJust, MI!AuditFair
<1> QED BY <1>1, MigrationInvariant, PTL

-----------------------------------------------------------------------------
(* Notification.                                                           *)

LEMMA SequencesStay ==
  ASSUME NEW S, NEW s \in Seq(S)
  PROVE  (s # <<>> => Tail(s) \in Seq(S)) /\ \A e \in S : Append(s, e) \in Seq(S)
OBVIOUS

\* A log grows by what may follow its end; a part of it from the start is one.
LEMMA WalkGrows ==
  ASSUME NEW S, NEW log \in Seq(S), NEW one, NO!IsWalk(log),
         one.attempt <= 1 \/ log # <<>>, log # <<>> => NO!Follows(NO!Last(log), one)
  PROVE  NO!IsWalk(Append(log, one))
<1> DEFINE grown == Append(log, one)
<1>1. Len(grown) = Len(log) + 1 /\ grown[Len(log) + 1] = one /\ \A i \in 1 .. Len(log) : grown[i] = log[i]
  OBVIOUS
<1>2. Len(log) \in Nat /\ (log # <<>> <=> Len(log) # 0)
  OBVIOUS
<1> HIDE DEF grown
<1>3. ASSUME NEW i \in 1 .. (Len(grown) - 1) PROVE NO!Follows(grown[i], grown[i + 1])
  <2>1. CASE i = Len(log)
    BY <1>1, <1>2, <1>3, <2>1 DEF NO!Last
  <2>2. CASE i # Len(log)
    <3>1. i \in 1 .. (Len(log) - 1) /\ i + 1 \in 1 .. Len(log)
      BY <1>1, <1>2, <1>3, <2>2
    <3> QED BY <1>1, <3>1 DEF NO!IsWalk
  <2> QED BY <2>1, <2>2
<1>4. grown[1].attempt <= 1
  BY <1>1, <1>2 DEF NO!IsWalk
<1> QED BY <1>3, <1>4 DEF NO!IsWalk, grown

Start(log, n) == SubSeq(log, 1, n)

LEMMA WalkStarts ==
  ASSUME NEW S, NEW log \in Seq(S), NEW n \in 1 .. Len(log), NO!IsWalk(log)
  PROVE  NO!IsWalk(Start(log, n)) /\ NO!Last(Start(log, n)) = log[n]
<1>1. Len(Start(log, n)) = n /\ \A i \in 1 .. n : Start(log, n)[i] = log[i]
  BY DEF Start
<1>2. log # <<>> /\ Len(log) \in Nat
  OBVIOUS
<1>3. \A i \in 1 .. (n - 1) : i \in 1 .. (Len(log) - 1) /\ i \in 1 .. n /\ i + 1 \in 1 .. n
  BY <1>2
<1> QED BY <1>1, <1>2, <1>3 DEF NO!IsWalk, NO!Last

\* What a step must keep when one request moves.
LEMMA NoteMoves ==
  ASSUME NO!NotificationInv, NEW r \in notification.Requests, NEW me,
         local' = [local EXCEPT ![r] = me], NO!RequestFits(me),
         \A q \in notification.Requests : NO!RecordsFit(q)',
         store' = [q \in notification.Requests |-> store'[q]],
         past' = [q \in notification.Requests |-> past'[q]],
         mirror' = [s \in NO!Slots |-> mirror'[s]],
         sent' = [s \in NO!Slots |-> sent'[s]],
         \A s \in NO!Slots : sent'[s] \in Seq(notification.Requests),
         \A s \in NO!Slots : s[2] # NO!Absent /\ s \notin excepted' => NO!SentOnce(s)'
  PROVE  NO!NotificationInv'
<1>1. /\ local' = [q \in notification.Requests |-> local'[q]]
      /\ \A q \in notification.Requests : NO!RequestFits(local'[q])
  BY DEF NO!NotificationInv
<1>2. (\A q \in notification.Requests : NO!RequestFits(local[q]))'
  BY <1>1 DEF NO!RequestFits, NO!WalkFits, NO!IsWalk, NO!Follows, NO!Last, NO!Notifies, NO!Slots
<1>3. (\A s \in NO!Slots : s[2] # NO!Absent /\ s \notin excepted => NO!SentOnce(s))'
  BY DEF NO!Slots
<1>4. (\A s \in NO!Slots : sent[s] \in Seq(notification.Requests))'
  BY DEF NO!Slots
<1> QED BY <1>1, <1>2, <1>3, <1>4 DEF NO!NotificationInv, NO!Slots

LEMMA NoteStarts ==
  ASSUME NO!Init
  PROVE  NO!NotificationInv
<1>1. /\ mirror = [s \in NO!Slots |-> NO!None] /\ sent = [s \in NO!Slots |-> <<>>]
      /\ store = [r \in notification.Requests |-> NO!None]
      /\ past = [r \in notification.Requests |-> <<>>] /\ local = [r \in notification.Requests |-> NO!New]
  BY DEF NO!Init
<1>2. \A r \in notification.Requests : local[r].pc = "new" /\ past[r] = <<>>
  BY <1>1 DEF NO!New
<1>3. \A r \in notification.Requests : NO!RequestFits(local[r]) /\ NO!RecordsFit(r)
  BY <1>2 DEF NO!RequestFits, NO!RecordsFit, NO!Tells, NO!IsWalk
<1>4. \A s \in NO!Slots : sent[s] \in Seq(notification.Requests) /\ NO!SentOnce(s)
  BY <1>1, <1>2 DEF NO!SentOnce, NO!Serves, NO!Busy
<1> QED BY <1>1, <1>3, <1>4 DEF NO!NotificationInv

\* A step that sends nothing and under which a request goes on with its slot.
LEMMA SlotsKept ==
  ASSUME NO!NotificationInv, NEW r \in notification.Requests, NEW me,
         local' = [local EXCEPT ![r] = me], UNCHANGED <<mirror, sent>>, excepted \subseteq excepted',
         NO!Busy(r), me.pc \notin {"new", "done"}, me.slot = local[r].slot,
         me.pc = "walk" => local[r].pc = "walk"
  PROVE  \A s \in NO!Slots : s[2] # NO!Absent /\ s \notin excepted' => NO!SentOnce(s)'
<1>1. SUFFICES ASSUME NEW s \in NO!Slots, s[2] # NO!Absent, s \notin excepted'
               PROVE  NO!SentOnce(s)'
  OBVIOUS
<1>2. NO!SentOnce(s)
  BY <1>1 DEF NO!NotificationInv
<1>3. \A q \in notification.Requests :
        /\ NO!Serves(q, s)' <=> NO!Serves(q, s)
        /\ local'[q].pc = "walk" => local[q].pc = "walk"
  BY DEF NO!NotificationInv, NO!Serves, NO!Busy
<1> QED BY <1>2, <1>3 DEF NO!SentOnce

\* The slot of a request is excepted, or nothing changes for the others.
LEMMA SlotExcepted ==
  ASSUME NO!NotificationInv, NEW r \in notification.Requests, NEW me,
         local' = [local EXCEPT ![r] = me], NEW s \in NO!Slots, s[2] # NO!Absent, s \notin excepted',
         excepted \subseteq excepted', mirror'[s] = mirror[s], sent'[s] = sent[s],
         ~NO!Serves(r, s), me.pc \in {"new", "done"} \/ me.slot # s
  PROVE  NO!SentOnce(s)'
<1>1. NO!SentOnce(s)
  BY DEF NO!NotificationInv
<1>2. \A q \in notification.Requests :
        (NO!Serves(q, s)' <=> NO!Serves(q, s)) /\ (q = r \/ local'[q] = local[q])
  BY DEF NO!NotificationInv, NO!Serves, NO!Busy
<1> QED BY <1>1, <1>2 DEF NO!SentOnce

\* A step that writes no record, of a request whose message is not stored.
LEMMA RecordsKept ==
  ASSUME NO!NotificationInv, NEW r \in notification.Requests, NEW me,
         local' = [local EXCEPT ![r] = me], UNCHANGED <<store, past>>, me.pc \notin {"new", "receipts"},
         me.pc \in {"walk", "put"} => local[r].pc \in {"new", "walk"}
  PROVE  \A q \in notification.Requests : NO!RecordsFit(q)'
<1>1. ASSUME NEW q \in notification.Requests PROVE NO!RecordsFit(q)'
  <2>0. NO!RecordsFit(q)
    BY DEF NO!NotificationInv
  <2>1. IF q = r THEN local'[q] = me ELSE local'[q] = local[q]
    BY DEF NO!NotificationInv
  <2>2. /\ local'[q].pc \in {"new", "walk", "put", "receipts"} => past[q] = <<>>
        /\ local'[q].pc = "receipts" => local'[q] = local[q] /\ store[q] = NO!Message(q)
    BY <2>0, <2>1 DEF NO!RecordsFit
  <2>3. NO!Tells(past[q], store[q])
    BY <2>0 DEF NO!RecordsFit
  <2>4. NO!Tells(past[q], store[q])'
    BY <2>3 DEF NO!Tells, NO!IsWalk, NO!Follows, NO!Last
  <2> QED BY <2>2, <2>4 DEF NO!RecordsFit, NO!Message
<1> QED BY <1>1

\* The log of a walking request grows by one receipt.
LogWith(me, n, outcome) ==
  Append(me.log, [channel |-> Head(me.chain), attempt |-> n, outcome |-> outcome])

LEMMA LogGrows ==
  ASSUME NEW me, NO!RequestFits(me), me.pc = "walk", me.chain # <<>>, NEW n \in Nat,
         NEW outcome \in {"sent", "failed"}, n <= 1 \/ n = me.attempt,
         NO!Notifies(me) /\ n <= 1 => me.attempt = 1
  PROVE  /\ LogWith(me, n, outcome) \in Seq([channel : STRING, attempt : Nat, outcome : {"sent", "failed"}])
         /\ LogWith(me, n, outcome) # <<>>
         /\ NO!Last(LogWith(me, n, outcome)).channel = Head(me.chain)
         /\ NO!Last(LogWith(me, n, outcome)).attempt = n
         /\ NO!Notifies(me) => NO!IsWalk(LogWith(me, n, outcome))
         /\ NO!Notifies(me) /\ outcome = "failed" =>
              \A i \in DOMAIN LogWith(me, n, outcome) : LogWith(me, n, outcome)[i].outcome = "failed"
<1> DEFINE grown == LogWith(me, n, outcome)
           Logged == [channel : STRING, attempt : Nat, outcome : {"sent", "failed"}]
           one == [channel |-> Head(me.chain), attempt |-> n, outcome |-> outcome]
<1>1. me.log \in Seq(Logged) /\ me.chain \in Seq(STRING) /\ me.attempt \in Nat
  BY DEF NO!RequestFits
<1>2. one \in Logged /\ grown = Append(me.log, one)
  BY <1>1 DEF LogWith
<1> HIDE DEF grown
<1>3. one.channel = Head(me.chain) /\ one.attempt = n /\ one.outcome = outcome
  OBVIOUS
<1>4. grown \in Seq(Logged) /\ Len(grown) = Len(me.log) + 1 /\ grown[Len(me.log) + 1] = one
      /\ \A i \in 1 .. Len(me.log) : grown[i] = me.log[i]
  <2> HIDE DEF one, Logged
  <2> QED BY <1>1, <1>2
<1>5. grown # <<>> /\ NO!Last(grown) = one
  BY <1>1, <1>4 DEF NO!Last
<1>6. (\A i \in DOMAIN me.log : me.log[i].outcome = "failed") /\ outcome = "failed"
        => \A i \in DOMAIN grown : grown[i].outcome = "failed"
  <2>1. DOMAIN me.log = 1 .. Len(me.log) /\ DOMAIN grown = 1 .. (Len(me.log) + 1) /\ Len(me.log) \in Nat
    BY <1>1, <1>4
  <2> HIDE DEF one, Logged
  <2>2. ASSUME \A i \in DOMAIN me.log : me.log[i].outcome = "failed", outcome = "failed",
               NEW i \in DOMAIN grown
        PROVE  grown[i].outcome = "failed"
    <3>1. i \in 1 .. Len(me.log) \/ i = Len(me.log) + 1
      BY <2>1, <2>2
    <3>2. CASE i \in 1 .. Len(me.log)
      BY <1>4, <2>1, <2>2, <3>2
    <3>3. CASE i = Len(me.log) + 1
      BY <1>3, <1>4, <2>2, <3>3
    <3> QED BY <3>1, <3>2, <3>3
  <2> QED BY <2>2
<1>7. NO!Notifies(me) => NO!IsWalk(grown)
  <2> HIDE DEF one, Logged
  <2>1. SUFFICES ASSUME NO!Notifies(me) PROVE NO!IsWalk(grown)
    OBVIOUS
  <2>2. NO!WalkFits(me) /\ NO!IsWalk(me.log)
    BY <2>1 DEF NO!RequestFits
  <2>3. me.log # <<>> => NO!Last(me.log).outcome = "failed"
    <3>1. me.log # <<>> => Len(me.log) \in DOMAIN me.log
      BY <1>1
    <3> QED BY <2>2, <3>1 DEF NO!WalkFits, NO!Last
  <2>4. me.log # <<>> => NO!Follows(NO!Last(me.log), one)
    BY <1>1, <1>3, <2>1, <2>2, <2>3 DEF NO!WalkFits, NO!Follows
  <2>5. one.attempt <= 1 \/ me.log # <<>>
    BY <1>1, <1>3, <2>1, <2>2 DEF NO!WalkFits
  <2> QED BY <1>1, <1>2, <2>2, <2>4, <2>5, WalkGrows
<1>8. NO!Notifies(me) => \A i \in DOMAIN me.log : me.log[i].outcome = "failed"
  BY DEF NO!RequestFits, NO!WalkFits
<1> QED BY <1>3, <1>4, <1>5, <1>6, <1>7, <1>8 DEF grown

\* A walking request walks on or comes to storing its outcome; it may have
\* sent, and then does not walk on unless its key is excepted.
LEMMA WalkGoesOn ==
  ASSUME NO!NotificationInv, NEW r \in notification.Requests, NEW next,
         local' = [local EXCEPT ![r] = next], NO!RequestFits(next),
         local[r].pc = "walk", next.pc \in {"walk", "put"}, next.slot = local[r].slot,
         UNCHANGED <<mirror, store, past>>, excepted \subseteq excepted',
         \/ UNCHANGED sent
         \/ /\ sent' = [sent EXCEPT ![local[r].slot] = Append(@, r)]
            /\ local[r].slot \in excepted' \/ next.pc = "put"
  PROVE  NO!NotificationInv'
<1> DEFINE me == local[r]
<1>1. NO!Busy(r) /\ me.slot \in NO!Slots
  BY DEF NO!Busy, NO!NotificationInv, NO!RequestFits
<1>2. \A q \in notification.Requests : NO!RecordsFit(q)'
  BY RecordsKept
<1>3. CASE UNCHANGED sent
  <2>1. \A s \in NO!Slots : s[2] # NO!Absent /\ s \notin excepted' => NO!SentOnce(s)'
    BY <1>1, <1>3, SlotsKept
  <2> QED BY <1>2, <1>3, <2>1, NoteMoves DEF NO!NotificationInv
<1>4. CASE /\ sent' = [sent EXCEPT ![me.slot] = Append(@, r)]
           /\ me.slot \in excepted' \/ next.pc = "put"
  <2>1. /\ sent' = [s \in NO!Slots |-> sent'[s]]
        /\ \A s \in NO!Slots : sent'[s] = IF s = me.slot THEN Append(sent[s], r) ELSE sent[s]
    BY <1>1, <1>4 DEF NO!NotificationInv
  <2>2. \A s \in NO!Slots : sent'[s] \in Seq(notification.Requests)
    <3>1. \A s \in NO!Slots : sent[s] \in Seq(notification.Requests)
      BY DEF NO!NotificationInv
    <3>2. \A s \in NO!Slots : Append(sent[s], r) \in Seq(notification.Requests)
      BY <3>1, SequencesStay
    <3> QED BY <2>1, <3>1, <3>2
  <2>3. ASSUME NEW s \in NO!Slots, s[2] # NO!Absent, s \notin excepted' PROVE NO!SentOnce(s)'
    <3>1. CASE s # me.slot
      <4>1. ~NO!Serves(r, s) /\ sent'[s] = sent[s]
        BY <2>1, <3>1 DEF NO!Serves
      <4> QED BY <2>3, <3>1, <4>1, SlotExcepted
    <3>2. CASE s = me.slot
      <4>1. next.pc = "put" /\ NO!SentOnce(s) /\ NO!Serves(r, s)
        BY <1>1, <1>4, <2>3, <3>2 DEF NO!NotificationInv, NO!Serves
      <4>2. sent[s] = <<>>
        BY <4>1 DEF NO!SentOnce
      <4>3. sent'[s] = <<r>>
        BY <2>1, <3>2, <4>2
      <4>4. \A q \in notification.Requests : NO!Serves(q, s)' => q = r
        BY <4>1 DEF NO!SentOnce, NO!Serves, NO!Busy, NO!NotificationInv
      <4>5. NO!Serves(r, s)' /\ local'[r].pc = "put"
        BY <3>2, <4>1 DEF NO!Serves, NO!Busy, NO!NotificationInv
      <4> QED BY <4>3, <4>4, <4>5 DEF NO!SentOnce
    <3> QED BY <3>1, <3>2
  <2> QED BY <1>2, <2>1, <2>2, <2>3, NoteMoves DEF NO!NotificationInv
<1> QED BY <1>3, <1>4

\* One step of the walk.
LEMMA WalkingStep ==
  ASSUME NO!Parameters, NO!NotificationInv, NEW r \in notification.Requests,
         \/ NO!QueueForAgent(r) \/ NO!SkipChannel(r) \/ NO!Sent(r) \/ NO!SendFails(r)
         \/ NO!ChainExhausted(r)
  PROVE  NO!NotificationInv'
<1> DEFINE me == local[r]
           Taken == sent' = [sent EXCEPT ![me.slot] = Append(@, r)]
<1>1. /\ me.pc = "walk" /\ UNCHANGED <<mirror, store, past>> /\ NO!RequestFits(me)
      /\ NO!Notifies(me) => NO!WalkFits(me) /\ me.attempt \in 1 .. notification.maxPerCh
      /\ me.slot \in NO!Slots /\ me.chain \in Seq(STRING) /\ me.attempt \in Nat
      /\ {"pc", "slot", "chain", "attempt", "known", "log", "outcome"} \subseteq DOMAIN me
  BY DEF NO!NotificationInv, NO!RequestFits, NO!WalkFits, NO!QueueForAgent, NO!SkipChannel, NO!Sent,
     NO!SendFails, NO!ChainExhausted, NO!Walking
<1>2. CASE NO!ChainExhausted(r)
  <2> DEFINE next == [me EXCEPT !.outcome = "failed", !.pc = "put"]
  <2>1. local' = [local EXCEPT ![r] = next] /\ UNCHANGED <<sent, excepted>>
    BY <1>2 DEF NO!ChainExhausted
  <2>2. /\ DOMAIN next = DOMAIN me /\ next.pc = "put" /\ next.slot = me.slot /\ next.log = me.log
    BY <1>1
  <2> HIDE DEF next
  <2>3. NO!RequestFits(next)
    BY <1>1, <2>2 DEF NO!RequestFits, NO!Notifies
  <2> QED BY <1>1, <2>1, <2>2, <2>3, WalkGoesOn
<1>3. ASSUME NEW n \in Nat, NEW outcome, NEW final, NO!Ends(r, n, outcome, final), outcome = "sent",
             me.chain # <<>>, n = me.attempt \/ (NO!Channel(r) = "agent" /\ n = 1), excepted' = excepted,
             UNCHANGED sent \/ Taken
      PROVE  NO!NotificationInv'
  <2> DEFINE grown == LogWith(me, n, outcome)
             next == [me EXCEPT !.log = grown, !.outcome = final, !.pc = "put"]
  <2>1. local' = [local EXCEPT ![r] = next]
    BY <1>3 DEF NO!Ends, NO!Receipt, NO!Channel, LogWith
  <2>2. NO!Notifies(me) /\ n <= 1 => me.attempt = 1
    BY <1>1, <1>3 DEF NO!WalkFits, NO!Channel
  <2>3. /\ grown \in Seq([channel : STRING, attempt : Nat, outcome : {"sent", "failed"}])
        /\ NO!Notifies(me) => NO!IsWalk(grown)
    BY <1>1, <1>3, <2>2, LogGrows
  <2> HIDE DEF grown
  <2>4. DOMAIN next = DOMAIN me /\ next.pc = "put" /\ next.slot = me.slot /\ next.log = grown
    BY <1>1
  <2> HIDE DEF next
  <2>5. NO!RequestFits(next)
    BY <1>1, <2>3, <2>4 DEF NO!RequestFits, NO!Notifies
  <2> QED BY <1>1, <1>3, <2>1, <2>4, <2>5, WalkGoesOn
<1>4. CASE NO!QueueForAgent(r)
  <2>1. /\ NO!Ends(r, 1, "sent", "queued_for_agent") /\ me.chain # <<>> /\ NO!Channel(r) = "agent"
        /\ excepted' = excepted /\ UNCHANGED sent
    BY <1>4 DEF NO!QueueForAgent, NO!Walking
  <2> QED BY <1>3, <2>1
<1>5. CASE NO!Sent(r)
  <2>1. /\ NO!Ends(r, me.attempt, "sent", "sent") /\ me.chain # <<>> /\ excepted' = excepted
        /\ Taken /\ me.attempt \in Nat
    BY <1>1, <1>5 DEF NO!Sent, NO!Walking
  <2> HIDE DEF me, Taken
  <2> QED BY <1>3, <2>1
<1>6. CASE NO!SkipChannel(r)
  <2> DEFINE grown == LogWith(me, 0, "failed")
             next == [me EXCEPT !.log = grown, !.chain = Tail(@)]
  <2>1. /\ local' = [local EXCEPT ![r] = next] /\ UNCHANGED <<sent, excepted>>
        /\ me.chain # <<>> /\ ~me.known
    BY <1>6 DEF NO!SkipChannel, NO!Receipt, NO!Channel, NO!Walking, LogWith
  <2>2. NO!Notifies(me) => me.attempt = 1
    BY <1>1, <2>1 DEF NO!WalkFits
  <2>3. /\ grown \in Seq([channel : STRING, attempt : Nat, outcome : {"sent", "failed"}])
        /\ grown # <<>> /\ NO!Last(grown).attempt = 0
        /\ NO!Notifies(me) => NO!IsWalk(grown) /\ \A i \in DOMAIN grown : grown[i].outcome = "failed"
    BY <1>1, <2>1, <2>2, LogGrows DEF NO!WalkFits
  <2> HIDE DEF grown
  <2>4. /\ DOMAIN next = DOMAIN me /\ next.pc = "walk" /\ next.slot = me.slot /\ next.log = grown
        /\ next.attempt = me.attempt /\ next.chain = Tail(me.chain) 
    BY <1>1, <2>1
  <2>T. Tail(me.chain) \in Seq(STRING)
    BY <1>1, <2>1, SequencesStay
  <2> HIDE DEF next
  <2>5. NO!Notifies(next) => NO!WalkFits(next)
    BY <1>1, <2>2, <2>3, <2>4 DEF NO!WalkFits, NO!Notifies
  <2>6. NO!RequestFits(next)
    BY <1>1, <2>3, <2>4, <2>T, <2>5 DEF NO!RequestFits, NO!Notifies
  <2> QED BY <1>1, <2>1, <2>4, <2>6, WalkGoesOn
<1>7. CASE NO!SendFails(r)
  <2> DEFINE grown == LogWith(me, me.attempt, "failed")
             logged == [me EXCEPT !.log = grown]
             again == [logged EXCEPT !.attempt = @ + 1]
             over == [logged EXCEPT !.attempt = 1, !.chain = Tail(@)]
  <2>1. /\ me.chain # <<>> /\ me.known /\ Head(me.chain) # "agent" /\ excepted \subseteq excepted'
        /\ \/ UNCHANGED sent
           \/ sent' = [sent EXCEPT ![me.slot] = Append(@, r)] /\ me.slot \in excepted'
        /\ \/ me.attempt < NO!Limit(r) /\ local' = [local EXCEPT ![r] = again]
           \/ ~(me.attempt < NO!Limit(r)) /\ local' = [local EXCEPT ![r] = over]
    BY <1>7 DEF NO!SendFails, NO!Walking, NO!Channel, NO!AfterFailure, NO!Receipt, LogWith
  <2>2. me.attempt <= 1 => (NO!Notifies(me) => me.attempt = 1)
    BY <1>1
  <2>3. /\ grown \in Seq([channel : STRING, attempt : Nat, outcome : {"sent", "failed"}])
        /\ grown # <<>> /\ NO!Last(grown).attempt = me.attempt /\ NO!Last(grown).channel = Head(me.chain)
        /\ NO!Notifies(me) => NO!IsWalk(grown) /\ \A i \in DOMAIN grown : grown[i].outcome = "failed"
    BY <1>1, <2>1, <2>2, LogGrows DEF NO!WalkFits
  <2>4. NO!Notifies(me) => NO!Limit(r) = notification.maxPerCh
    BY DEF NO!Notifies, NO!Limit
  <2> HIDE DEF grown
  <2>5. /\ DOMAIN again = DOMAIN me /\ again.pc = "walk" /\ again.slot = me.slot /\ again.log = grown
        /\ again.attempt = me.attempt + 1 /\ again.chain = me.chain /\ again.known = me.known
        /\ DOMAIN over = DOMAIN me /\ over.pc = "walk" /\ over.slot = me.slot /\ over.log = grown
        /\ over.attempt = 1 /\ over.chain = Tail(me.chain) 
    BY <1>1, <2>1
  <2>T. Tail(me.chain) \in Seq(STRING)
    BY <1>1, <2>1, SequencesStay
  <2> HIDE DEF again, over
  <2>6. CASE me.attempt < NO!Limit(r) /\ local' = [local EXCEPT ![r] = again]
    <3>1. ASSUME NO!Notifies(again) PROVE NO!WalkFits(again)
      <4>1. NO!Notifies(me)
        BY <2>5, <3>1 DEF NO!Notifies
      <4>2. NO!WalkFits(me)
        BY <1>1, <4>1
      <4>3. me.attempt \in Nat /\ me.attempt >= 1 /\ me.attempt + 1 <= notification.maxPerCh
        BY <2>4, <2>6, <4>1, <4>2 DEF NO!WalkFits, NO!Parameters
      <4>4. /\ again.attempt \in 1..notification.maxPerCh /\ again.attempt > 1
            /\ again.attempt - 1 = me.attempt
        BY <2>5, <4>3 DEF NO!Parameters
      <4>5. \A i \in DOMAIN again.log : again.log[i].outcome = "failed"
        BY <2>3, <2>5, <4>1
      <4> QED BY <2>1, <2>3, <2>5, <4>4, <4>5 DEF NO!WalkFits
    <3>2. NO!RequestFits(again)
      BY <1>1, <2>3, <2>5, <2>T, <3>1 DEF NO!RequestFits, NO!Notifies
    <3> QED BY <1>1, <2>1, <2>5, <2>6, <3>2, WalkGoesOn
  <2>7. CASE ~(me.attempt < NO!Limit(r)) /\ local' = [local EXCEPT ![r] = over]
    <3>1. NO!Notifies(over) => NO!WalkFits(over)
      BY <1>1, <2>1, <2>3, <2>4, <2>5, <2>7 DEF NO!WalkFits, NO!Notifies, NO!Parameters
    <3>2. NO!RequestFits(over)
      BY <1>1, <2>3, <2>5, <2>T, <3>1 DEF NO!RequestFits, NO!Notifies
    <3> QED BY <1>1, <2>1, <2>5, <2>7, <3>2, WalkGoesOn
  <2> QED BY <2>1, <2>6, <2>7
<1> QED BY <1>2, <1>4, <1>5, <1>6, <1>7

\* The lookup of the key.
LEMMA LookupAnswered ==
  ASSUME NO!Parameters, NO!NotificationInv, NEW r \in notification.Requests,
         NEW kind \in {"send", "notify"}, NEW key \in notification.Keys \cup {NO!Absent},
         NEW chain \in notification.Chains, NEW known \in BOOLEAN, NO!Lookup(r, kind, key, chain, known)
  PROVE  NO!NotificationInv'
<1> DEFINE slot == <<kind, key>>
<1>1. PICK answer \in {"found", "unknown", "error"} :
        /\ answer = "found" <=> key # NO!Absent /\ mirror[slot] # NO!None /\ answer # "error"
        /\ local' = [local EXCEPT ![r] = IF answer = "unknown" THEN NO!Begin(kind, key, chain, known)
                                         ELSE NO!Done]
  BY DEF NO!Lookup, NO!GoesOn
<1>2. /\ local[r] = NO!New /\ UNCHANGED <<mirror, store, past, sent>>
      /\ excepted' = IF \E q \in notification.Requests : NO!Busy(q) /\ local[q].slot = slot
                     THEN excepted \cup {slot} ELSE excepted
  BY DEF NO!Lookup
<1>3. slot \in NO!Slots /\ slot[2] = key /\ slot[1] = kind
  BY DEF NO!Slots
<1>4. local[r].pc = "new" /\ \A s \in NO!Slots : ~NO!Serves(r, s)
  <2>0. NO!New.pc = "new"
    BY DEF NO!New
  <2>1. local[r].pc = "new"
    BY <1>2, <2>0
  <2> QED BY <2>1 DEF NO!Serves, NO!Busy
<1>5. CASE answer = "unknown"
  <2> DEFINE next == NO!Begin(kind, key, chain, known)
  <2>0. next.log = <<>>
    BY DEF NO!Begin
  <2>1. /\ next.pc = "walk" /\ next.slot = slot /\ next.chain = chain /\ next.attempt = 1
        /\ {"pc", "slot", "chain", "attempt", "known", "log", "outcome"} \subseteq DOMAIN next
    BY DEF NO!Begin
  <2>2. local' = [local EXCEPT ![r] = next]
    BY <1>1, <1>5
  <2> HIDE DEF next, slot
  <2>3. /\ DOMAIN next.log = {} /\ Len(next.log) = 0
        /\ next.log \in Seq([channel : STRING, attempt : Nat, outcome : {"sent", "failed"}])
    BY <2>0
  <2>4. NO!RequestFits(next)
    BY <1>3, <2>0, <2>1, <2>3 DEF NO!RequestFits, NO!WalkFits, NO!IsWalk, NO!Parameters
  <2>5. \A q \in notification.Requests : NO!RecordsFit(q)'
    BY <1>2, <1>4, <2>1, <2>2, RecordsKept
  <2>6. ASSUME NEW s \in NO!Slots, s[2] # NO!Absent, s \notin excepted' PROVE NO!SentOnce(s)'
    <3>1. CASE s # slot
      BY <1>2, <1>4, <2>1, <2>2, <2>6, <3>1, SlotExcepted
    <3>2. CASE s = slot
      <4>1. s \notin excepted /\ \A q \in notification.Requests : ~NO!Serves(q, s)
        BY <1>2, <2>6, <3>2 DEF NO!Serves
      <4>2. mirror[s] = NO!None /\ NO!SentOnce(s)
        BY <1>1, <1>3, <1>5, <2>6, <3>2, <4>1 DEF NO!NotificationInv, slot
      <4>3. sent[s] = <<>> /\ Len(sent[s]) <= 1
        BY <4>1, <4>2 DEF NO!SentOnce
      <4>4. \A q \in notification.Requests : NO!Serves(q, s)' => q = r
        BY <2>2, <4>1 DEF NO!Serves, NO!Busy, NO!NotificationInv
      <4> QED BY <1>2, <4>3, <4>4 DEF NO!SentOnce
    <3> QED BY <3>1, <3>2
  <2> QED BY <1>2, <2>2, <2>4, <2>5, <2>6, NoteMoves DEF NO!NotificationInv
<1>6. CASE answer # "unknown"
  <2>1. local' = [local EXCEPT ![r] = NO!Done] /\ NO!Done.pc = "done" /\ excepted \subseteq excepted'
    BY <1>1, <1>2, <1>6 DEF NO!Done
  <2>2. NO!RequestFits(NO!Done)
    BY <2>1 DEF NO!RequestFits
  <2>3. \A q \in notification.Requests : NO!RecordsFit(q)'
    BY <1>2, <2>1, RecordsKept
  <2>4. \A s \in NO!Slots : s[2] # NO!Absent /\ s \notin excepted' => NO!SentOnce(s)'
    BY <1>2, <1>4, <2>1, SlotExcepted
  <2> QED BY <1>2, <2>1, <2>2, <2>3, <2>4, NoteMoves DEF NO!NotificationInv
<1> QED BY <1>5, <1>6

\* The outcome is stored.
LEMMA MessageStored ==
  ASSUME NO!NotificationInv, NEW r \in notification.Requests, NO!PutMessage(r)
  PROVE  NO!NotificationInv'
<1> DEFINE me == local[r]
           next == [me EXCEPT !.pc = IF me.slot[1] = "send" THEN "key" ELSE "receipts"]
<1>1. /\ me.pc = "put" /\ store' = [store EXCEPT ![r] = NO!Message(r)]
      /\ local' = [local EXCEPT ![r] = next] /\ UNCHANGED <<mirror, past, sent, excepted>>
  BY DEF NO!PutMessage
<1>2. NO!RequestFits(me) /\ NO!RecordsFit(r) /\ NO!Busy(r)
  BY <1>1 DEF NO!NotificationInv, NO!Busy
<1>3. me.slot \in NO!Slots /\ (me.slot[1] = "send" \/ me.slot[1] = "notify")
  BY <1>1, <1>2 DEF NO!RequestFits, NO!Slots
<1>4. /\ DOMAIN next = DOMAIN me /\ next.pc \in {"key", "receipts"} /\ next.slot = me.slot
      /\ next.log = me.log /\ next.outcome = me.outcome
      /\ next.pc = "receipts" => me.slot[1] = "notify"
  BY <1>1, <1>2, <1>3 DEF NO!RequestFits
<1> HIDE DEF next
<1>5. NO!RequestFits(next)
  BY <1>1, <1>2, <1>4 DEF NO!RequestFits, NO!Notifies
<1>6. ASSUME NEW q \in notification.Requests PROVE NO!RecordsFit(q)'
  <2>1. CASE q # r
    <3>1. /\ local'[q] = local[q] /\ store'[q] = store[q] /\ past'[q] = past[q] /\ NO!RecordsFit(q)
      BY <1>1, <2>1 DEF NO!NotificationInv
    <3>2. NO!Tells(past[q], store[q])'
      BY <3>1 DEF NO!RecordsFit, NO!Tells, NO!IsWalk, NO!Follows, NO!Last
    <3> QED BY <3>1, <3>2 DEF NO!RecordsFit, NO!Message
  <2>2. CASE q = r
    <3>1. local'[r] = next /\ store'[r] = NO!Message(r) /\ past'[r] = <<>>
      BY <1>1, <1>2 DEF NO!NotificationInv, NO!RecordsFit
    <3>2. NO!Message(r)' = NO!Message(r)
      BY <1>4, <3>1 DEF NO!Message
    <3>3. NO!Tells(past[r], store[r])'
      BY <3>1 DEF NO!Tells, NO!IsWalk
    <3> QED BY <2>2, <3>1, <3>2, <3>3 DEF NO!RecordsFit
  <2> QED BY <2>1, <2>2
<1>7. \A s \in NO!Slots : s[2] # NO!Absent /\ s \notin excepted' => NO!SentOnce(s)'
  BY <1>1, <1>2, <1>4, SlotsKept
<1> QED BY <1>1, <1>5, <1>6, <1>7, NoteMoves DEF NO!NotificationInv

\* Receipts are stored, all of them or some: those of a walk, and of the
\* message that is stored.
LEMMA ReceiptsTell ==
  ASSUME NO!NotificationInv, NEW r \in notification.Requests, local[r].pc = "receipts",
         NEW n \in 1 .. Len(local[r].log)
  PROVE  NO!Tells(Start(local[r].log, n), store[r])
<1> DEFINE me == local[r]
           part == Start(me.log, n)
           Logged == [channel : STRING, attempt : Nat, outcome : {"sent", "failed"}]
<1>1. me.log \in Seq(Logged) /\ NO!IsWalk(me.log) /\ store[r] = NO!Message(r)
  BY DEF NO!NotificationInv, NO!RequestFits, NO!RecordsFit
<1>2. NO!IsWalk(part) /\ NO!Last(part) = me.log[n]
  <2> HIDE DEF Logged
  <2> QED BY <1>1, WalkStarts
<1>3. store[r].status = me.outcome
      /\ (me.outcome # "failed" => store[r].channel = me.log[Len(me.log)].channel)
  <2>1. NO!Message(r).status = me.outcome
        /\ (me.outcome # "failed" => NO!Message(r).channel = me.log[Len(me.log)].channel)
    BY DEF NO!Message
  <2> QED BY <1>1, <2>1
<1>4. me.log[n].outcome = "sent" => n = Len(me.log)
  <2>1. n # Len(me.log) => n \in 1 .. (Len(me.log) - 1)
    BY <1>1
  <2> QED BY <1>1, <2>1 DEF NO!IsWalk, NO!Follows
<1> HIDE DEF part
<1> QED BY <1>2, <1>3, <1>4 DEF NO!Tells, part

LEMMA RequestEnds ==
  ASSUME NO!NotificationInv, NEW r \in notification.Requests, NEW me,
         local' = [local EXCEPT ![r] = me], me.pc \in {"done", "key"}, NO!RequestFits(me),
         UNCHANGED store, past' = [past EXCEPT ![r] = past'[r]], NO!Tells(past'[r], store[r])
  PROVE  \A q \in notification.Requests : NO!RecordsFit(q)'
<1>1. ASSUME NEW q \in notification.Requests PROVE NO!RecordsFit(q)'
  <2>1. IF q = r THEN local'[q] = me ELSE local'[q] = local[q] /\ past'[q] = past[q]
    BY DEF NO!NotificationInv
  <2>2. NO!RecordsFit(q)
    BY DEF NO!NotificationInv
  <2>3. NO!Tells(past'[q], store[q])
    BY <2>1, <2>2 DEF NO!RecordsFit
  <2>4. NO!Tells(past[q], store[q])'
    BY <2>3 DEF NO!Tells, NO!IsWalk, NO!Follows, NO!Last
  <2>5. /\ local'[q].pc \in {"new", "walk", "put", "receipts"} => past'[q] = <<>>
        /\ local'[q].pc = "receipts" => local'[q] = local[q] /\ store[q] = NO!Message(q)
    BY <2>1, <2>2 DEF NO!RecordsFit
  <2> QED BY <2>4, <2>5 DEF NO!RecordsFit, NO!Message
<1> QED BY <1>1

LEMMA ReceiptsStored ==
  ASSUME NO!NotificationInv, NEW r \in notification.Requests, NO!PutReceipts(r)
  PROVE  NO!NotificationInv'
<1> DEFINE me == local[r]
           next == [me EXCEPT !.pc = "key"]
<1>1. /\ me.pc = "receipts" /\ past' = [past EXCEPT ![r] = me.log]
      /\ local' = [local EXCEPT ![r] = next] /\ UNCHANGED <<mirror, store, sent, excepted>>
  BY DEF NO!PutReceipts
<1>2. NO!RequestFits(me) /\ NO!RecordsFit(r) /\ NO!Busy(r)
  BY <1>1 DEF NO!NotificationInv, NO!Busy
<1>3. DOMAIN next = DOMAIN me /\ next.pc = "key" /\ next.slot = me.slot /\ next.log = me.log
  BY <1>1, <1>2 DEF NO!RequestFits
<1> HIDE DEF next
<1>4. NO!RequestFits(next)
  BY <1>1, <1>2, <1>3 DEF NO!RequestFits, NO!Notifies
<1>5. past'[r] = me.log /\ past' = [past EXCEPT ![r] = past'[r]]
  BY <1>1 DEF NO!NotificationInv
<1>6. NO!Tells(me.log, store[r])
  <2>1. me.log \in Seq([channel : STRING, attempt : Nat, outcome : {"sent", "failed"}])
    BY <1>1, <1>2 DEF NO!RequestFits
  <2>2. CASE me.log = <<>>
    BY <2>2 DEF NO!Tells, NO!IsWalk
  <2>3. CASE me.log # <<>>
    <3>1. Len(me.log) \in 1 .. Len(me.log) /\ Start(me.log, Len(me.log)) = me.log
      BY <2>1, <2>3 DEF Start
    <3>2. NO!Tells(Start(me.log, Len(me.log)), store[r])
      BY <1>1, <3>1, ReceiptsTell
    <3> QED BY <3>1, <3>2
  <2> QED BY <2>2, <2>3
<1>7. \A q \in notification.Requests : NO!RecordsFit(q)'
  BY <1>1, <1>3, <1>4, <1>5, <1>6, RequestEnds
<1>8. \A s \in NO!Slots : s[2] # NO!Absent /\ s \notin excepted' => NO!SentOnce(s)'
  BY <1>1, <1>2, <1>3, SlotsKept
<1> QED BY <1>1, <1>4, <1>7, <1>8, NoteMoves DEF NO!NotificationInv

LEMMA KeyStored ==
  ASSUME NO!NotificationInv, NEW r \in notification.Requests, NO!PutKey(r)
  PROVE  NO!NotificationInv'
<1> DEFINE me == local[r]
<1>1. /\ me.pc = "key" /\ local' = [local EXCEPT ![r] = NO!Done] /\ UNCHANGED <<store, past, sent, excepted>>
      /\ mirror' = IF me.slot[2] = NO!Absent THEN mirror ELSE [mirror EXCEPT ![me.slot] = NO!Message(r)]
  BY DEF NO!PutKey
<1>2. NO!RequestFits(me) /\ NO!Busy(r) /\ NO!Done.pc = "done"
  BY <1>1 DEF NO!NotificationInv, NO!Busy, NO!Done
<1>3. me.slot \in NO!Slots
  BY <1>1, <1>2 DEF NO!RequestFits
<1>4. NO!RequestFits(NO!Done)
  BY <1>2 DEF NO!RequestFits
<1>5. \A q \in notification.Requests : NO!RecordsFit(q)'
  BY <1>1, <1>2, RecordsKept
<1>6. /\ mirror' = [s \in NO!Slots |-> mirror'[s]]
      /\ \A s \in NO!Slots : s # me.slot => mirror'[s] = mirror[s]
      /\ me.slot[2] # NO!Absent => mirror'[me.slot] = NO!Message(r)
  BY <1>1, <1>3 DEF NO!NotificationInv
<1>7. NO!Message(r) # NO!None
  <2>1. "status" \in DOMAIN NO!Message(r) /\ "status" \notin DOMAIN NO!None
    BY DEF NO!Message, NO!None
  <2> QED BY <2>1
<1>8. ASSUME NEW s \in NO!Slots, s[2] # NO!Absent, s \notin excepted' PROVE NO!SentOnce(s)'
  <2>1. CASE s # me.slot
    <3>1. ~NO!Serves(r, s) /\ mirror'[s] = mirror[s]
      BY <1>6, <2>1 DEF NO!Serves
    <3> QED BY <1>1, <1>2, <1>8, <2>1, <3>1, SlotExcepted
  <2>2. CASE s = me.slot
    <3>1. NO!SentOnce(s) /\ NO!Serves(r, s)
      BY <1>1, <1>2, <1>8, <2>2 DEF NO!NotificationInv, NO!Serves
    <3>2. \A q \in notification.Requests : ~NO!Serves(q, s)'
      <4>1. \A q \in notification.Requests : local'[q] = IF q = r THEN NO!Done ELSE local[q]
        BY <1>1 DEF NO!NotificationInv
      <4> QED BY <1>2, <3>1, <4>1 DEF NO!SentOnce, NO!Serves, NO!Busy
    <3> QED BY <1>1, <1>6, <1>7, <1>8, <2>2, <3>1, <3>2 DEF NO!SentOnce
  <2> QED BY <2>1, <2>2
<1> QED BY <1>1, <1>4, <1>5, <1>6, <1>8, NoteMoves DEF NO!NotificationInv

LEMMA StoringFails ==
  ASSUME NO!NotificationInv, NEW r \in notification.Requests, NO!StoreFails(r)
  PROVE  NO!NotificationInv'
<1> DEFINE me == local[r]
<1>1. /\ NO!Busy(r) /\ local' = [local EXCEPT ![r] = NO!Done] /\ UNCHANGED <<mirror, store, sent>>
      /\ excepted' = excepted \cup {me.slot}
  BY DEF NO!StoreFails
<1>2. PICK n \in 0 .. Len(me.log) :
        /\ n = 0 \/ me.pc = "receipts"
        /\ past' = [past EXCEPT ![r] = IF n = 0 THEN past[r] ELSE Start(me.log, n)]
  BY DEF NO!StoreFails, Start
<1>3. NO!Done.pc = "done" /\ NO!RequestFits(NO!Done) /\ NO!RecordsFit(r)
  BY DEF NO!Done, NO!RequestFits, NO!NotificationInv
<1> DEFINE records == IF n = 0 THEN past[r] ELSE Start(me.log, n)
<1>4. /\ past' = [past EXCEPT ![r] = past'[r]] /\ past'[r] = records
      /\ past' = [q \in notification.Requests |-> past'[q]]
  <2>1. past' = [past EXCEPT ![r] = records]
    BY <1>2
  <2> HIDE DEF records
  <2> QED BY <2>1 DEF NO!NotificationInv
<1>5. NO!Tells(past'[r], store[r])
  <2>1. CASE n = 0
    BY <1>3, <1>4, <2>1 DEF NO!RecordsFit
  <2>2. CASE n # 0
    <3>1. me.log \in Seq([channel : STRING, attempt : Nat, outcome : {"sent", "failed"}])
      BY <1>1 DEF NO!NotificationInv, NO!RequestFits, NO!Busy
    <3>2. n \in 1 .. Len(me.log)
      BY <2>2, <3>1
    <3> QED BY <1>2, <1>4, <2>2, <3>2, ReceiptsTell
  <2> QED BY <2>1, <2>2
<1>6. \A q \in notification.Requests : NO!RecordsFit(q)'
  BY <1>1, <1>3, <1>4, <1>5, RequestEnds
<1>7. ASSUME NEW s \in NO!Slots, s[2] # NO!Absent, s \notin excepted' PROVE NO!SentOnce(s)'
  <2>1. ~NO!Serves(r, s) /\ excepted \subseteq excepted'
    BY <1>1, <1>7 DEF NO!Serves
  <2> QED BY <1>1, <1>3, <1>7, <2>1, SlotExcepted
<1> QED BY <1>1, <1>3, <1>4, <1>6, <1>7, NoteMoves DEF NO!NotificationInv

LEMMA NotificationStep ==
  ASSUME NO!Parameters, NO!NotificationInv, [NO!Next]_NO!vars
  PROVE  NO!NotificationInv'
<1>1. CASE UNCHANGED NO!vars
  <2>1. UNCHANGED <<mirror, store, past, local, sent, excepted>>
    BY <1>1 DEF NO!vars
  <2>2. (\A r \in notification.Requests : NO!RequestFits(local[r]))'
    BY <2>1 DEF NO!NotificationInv, NO!RequestFits, NO!WalkFits, NO!IsWalk, NO!Follows, NO!Last, NO!Notifies,
       NO!Slots
  <2>3. (\A r \in notification.Requests : NO!RecordsFit(r))'
    BY <2>1 DEF NO!NotificationInv, NO!RecordsFit, NO!Tells, NO!IsWalk, NO!Follows, NO!Last, NO!Message
  <2>4. (\A s \in NO!Slots : s[2] # NO!Absent /\ s \notin excepted => NO!SentOnce(s))'
    BY <2>1 DEF NO!NotificationInv, NO!Slots, NO!SentOnce, NO!Serves, NO!Busy
  <2> QED BY <2>1, <2>2, <2>3, <2>4 DEF NO!NotificationInv, NO!Slots
<1>2. CASE NO!Next
  BY <1>2, LookupAnswered, WalkingStep, MessageStored, ReceiptsStored, KeyStored, StoringFails DEF NO!Next
<1> QED BY <1>1, <1>2

LEMMA SendingTold ==
  ASSUME NO!NotificationInv
  PROVE  NO!SendingIsAccounted
BY DEF NO!NotificationInv, NO!SendingIsAccounted, NO!DeliveredOncePerKey, NO!ReceiptsTellTheWalk,
   NO!SentOnce, NO!RecordsFit

NotificationsInv == service = "notification" => NO!NotificationInv

LEMMA NotificationInvariant == Spec => []NotificationsInv
<1>1. Init => NotificationsInv
  <2> SUFFICES ASSUME Init, service = "notification" PROVE NO!NotificationInv
    BY DEF NotificationsInv
  <2>1. NO!Init
    BY DEF Init
  <2> QED BY <2>1, NoteStarts
<1>2. NotificationsInv /\ [Next]_vars => NotificationsInv'
  <2> SUFFICES ASSUME NotificationsInv, [Next]_vars, service' = "notification" PROVE NO!NotificationInv'
    BY DEF NotificationsInv
  <2>1. service = "notification" /\ [NO!Next]_NO!vars
    BY DEF Next, vars, NO!vars
  <2>2. NO!NotificationInv /\ NO!Parameters
    BY <2>1, PlatformAssumption DEF NotificationsInv
  <2> QED BY <2>1, <2>2, NotificationStep
<1> QED BY <1>1, <1>2, PTL DEF Spec

\* A message goes out once per idempotency key, unless requests for the key
\* overlapped, an answer was lost or the outcome could not be stored; and the
\* stored receipts are those of a walk along the chain.
THEOREM SendingIsAlwaysAccounted == Spec => []SendingIsAccounted
<1>1. NotificationsInv => SendingIsAccounted
  BY SendingTold DEF NotificationsInv, SendingIsAccounted
<1> QED BY <1>1, NotificationInvariant, PTL

-----------------------------------------------------------------------------
(* Rule packs.                                                             *)

ListingsInv == service = "rule_packs" => RP!ListingInv

\* main.go of rp-registry: for any set of versions, the newest published
\* version is found, and consumers on older ones are reported.
THEOREM NewestIsAlwaysFound == Spec => []NewestIsFound
<1>1. Init => ListingsInv
  <2> SUFFICES ASSUME Init, service = "rule_packs" PROVE RP!ListingInv
    BY DEF ListingsInv
  <2>1. RP!Init
    BY DEF Init
  <2> QED BY <2>1 DEF RP!Init, RP!ListingInv, RP!New
<1>2. ListingsInv /\ [Next]_vars => ListingsInv'
  <2> SUFFICES ASSUME ListingsInv, [Next]_vars, service' = "rule_packs" PROVE RP!ListingInv'
    BY DEF ListingsInv
  <2>1. service = "rule_packs" /\ [RP!Next]_RP!vars
    BY DEF Next, vars, RP!vars
  <2> QED BY <2>1, RegistersAssumption, ListingStep DEF ListingsInv
<1>3. ListingsInv => NewestIsFound
  BY RegistersAssumption, NewestTold DEF ListingsInv, NewestIsFound
<1> QED BY <1>1, <1>2, <1>3, PTL DEF Spec

-----------------------------------------------------------------------------
(* AML thresholds.                                                         *)

SplitsInv == service = "thresholds" => TH!ThresholdsInv

\* thresholds.go, for any number of accounts, observers and transfers, any
\* threshold and any window: who splits an amount below the threshold is
\* flagged, unless the event is lost or an observer overtaken.
THEOREM SplitIsAlwaysFlagged == Spec => []SplitIsFlagged
<1>1. Init => SplitsInv
  <2> SUFFICES ASSUME Init, service = "thresholds" PROVE TH!ThresholdsInv
    BY DEF SplitsInv
  <2>1. TH!Init
    BY DEF Init
  <2> QED BY <2>1 DEF TH!Init, TH!ThresholdsInv, TH!ObserverFits, TH!Idle, TH!InOrder, TH!WindowFits,
                      TH!AlertsFit
<1>2. SplitsInv /\ [Next]_vars => SplitsInv'
  <2> SUFFICES ASSUME SplitsInv, [Next]_vars, service' = "thresholds" PROVE TH!ThresholdsInv'
    BY DEF SplitsInv
  <2>1. service = "thresholds" /\ [TH!Next]_TH!vars
    BY DEF Next, vars, TH!vars
  <2> QED BY <2>1, RegistersAssumption, ThresholdsStep DEF SplitsInv
<1>3. SplitsInv => SplitIsFlagged
  BY SplitsTold DEF SplitsInv, SplitIsFlagged
<1> QED BY <1>1, <1>2, <1>3, PTL DEF Spec

-----------------------------------------------------------------------------
(* Matching.                                                               *)

MatchingsInv == service = "matching" => MA!MatchingInv

\* graph.go, for any names, entities and thresholds: the verdict is the one
\* of the true edit distance, whatever the order of the entities; at a
\* threshold it may be the one of scores that are short of it.
THEOREM AlwaysDecidesByReference == Spec => []DecidesByReference
<1>1. Init => MatchingsInv
  <2> SUFFICES ASSUME Init, service = "matching" PROVE MA!MatchingInv
    BY DEF MatchingsInv
  <2>1. MA!Init
    BY DEF Init
  <2>2. /\ u \in matching.Requests /\ store \in matching.Stores
        /\ count = 1 /\ v = 0 /\ sent = <<>> /\ past = "none"
    BY <2>1 DEF MA!Init, MA!None
  <2>3. Len(store) \in Nat /\ Len(u.name) \in Nat
    BY <2>2, RegistersAssumption, TextsFit DEF Text
  <2>4. MA!CandidatesFit
    <3>1. 1..(count - 1) = {} /\ DOMAIN sent = {}
      BY <2>2
    <3> QED BY <3>1 DEF MA!CandidatesFit, MA!TrueScores
  <2>5. MA!RowFits
    BY <2>2, <2>3 DEF MA!RowFits
  <2> QED BY <2>2, <2>3, <2>4, <2>5 DEF MA!MatchingInv, MA!DecidesByReference, MA!None
<1>2. MatchingsInv /\ [Next]_vars => MatchingsInv'
  <2> SUFFICES ASSUME MatchingsInv, [Next]_vars, service' = "matching" PROVE MA!MatchingInv'
    BY DEF MatchingsInv
  <2>1. service = "matching" /\ [MA!Next]_MA!vars
    BY DEF Next, vars, MA!vars
  <2> QED BY <2>1, RegistersAssumption, MatchingStep DEF MatchingsInv
<1>3. MatchingsInv => DecidesByReference
  BY DEF MatchingsInv, DecidesByReference, MA!MatchingInv
<1> QED BY <1>1, <1>2, <1>3, PTL DEF Spec
=============================================================================
