-------------------------- MODULE RegistersProofs --------------------------
(***************************************************************************)
(* The inductive invariants of the step-up service, consent, the TIN       *)
(* graph, migration, rule packs, AML thresholds and matching, for every    *)
(* value of their constants.  PlatformProofs draws the theorems from them. *)
(***************************************************************************)
EXTENDS Registers, Integers, Sequences, FiniteSets, FiniteSetTheorems, WellFoundedInduction, TLAPS

-----------------------------------------------------------------------------
(* Step-up credentials.                                                     *)

EveryCode == UNION {SU!AllCodes(n) : n \in 1 .. stepUp.MaxEnrolments}

\* A record the store or a request may hold after n enrolments.
WellFormed(rec, n) ==
  /\ rec \in [enrolment : 1 .. stepUp.MaxEnrolments, enabled : BOOLEAN, recovery : SUBSET EveryCode]
  /\ rec.enrolment <= n
  /\ rec.recovery \subseteq SU!AllCodes(rec.enrolment)

Holding(r) == local[r].pc \in {"put", "burn"}

RequestTyped(r) ==
  /\ Holding(r) => local[r].actor \in stepUp.Admins /\ WellFormed(local[r].copy, count)
  /\ local[r].pc = "burn" => local[r].code \in local[r].copy.recovery
  /\ local[r].pc \in {"burn", "verified"} =>
       local[r].actor \in stepUp.Admins /\ local[r].binding \in stepUp.Bindings

Types ==
  /\ count \in 0 .. stepUp.MaxEnrolments
  /\ time \in Nat
  /\ sent \in Seq([actor : stepUp.Admins, binding : stepUp.Bindings, exp : Nat])
  /\ Len(sent) <= stepUp.MaxTickets
  /\ mirror \in [SU!Services -> SUBSET Nat]
  /\ v \in [SU!Services -> [1 .. stepUp.MaxTickets -> Nat]]
  /\ past \in [EveryCode -> Nat]
  /\ DOMAIN store = stepUp.Admins
  /\ \A a \in stepUp.Admins : store[a] # SU!None => WellFormed(store[a], count)
  /\ DOMAIN local = stepUp.Requests
  /\ \A r \in stepUp.Requests : RequestTyped(r)

\* A secret belongs to one admin, in the store and in the hands of requests.
OneOwner ==
  /\ \A a, b \in stepUp.Admins :
       store[a] # SU!None /\ store[b] # SU!None /\ store[a].enrolment = store[b].enrolment
         => a = b
  /\ \A r \in stepUp.Requests, a \in stepUp.Admins :
       Holding(r) /\ store[a] # SU!None /\ local[r].copy.enrolment = store[a].enrolment
         => local[r].actor = a
  /\ \A r, q \in stepUp.Requests :
       Holding(r) /\ Holding(q) /\ local[r].copy.enrolment = local[q].copy.enrolment
         => local[r].actor = local[q].actor

\* A code that has passed is of a known enrolment, and in no record unless
\* an outdated one was written back.
BurntIsGone ==
  \A c \in EveryCode : past[c] > 0 =>
    /\ c.enrolment <= count
    /\ c \notin excepted => \A a \in stepUp.Admins : store[a] # SU!None => c \notin store[a].recovery

\* A ticket that has passed was handed out, and the service remembers it as
\* long as the sweep has no reason to drop it.
UsedIsRemembered ==
  \A s \in SU!Services, n \in 1 .. stepUp.MaxTickets : v[s][n] > 0 =>
    /\ n \in DOMAIN sent
    /\ n \in u \/ n \in mirror[s] \/ time > 2 * sent[n].exp

CodesInv == Types /\ OneOwner /\ BurntIsGone /\ SU!RecoveryCodeOnce
TicketsInv == Types /\ UsedIsRemembered /\ SU!TicketOnce

-----------------------------------------------------------------------------
\* A code tells its enrolment.
LEMMA CodeOfEnrolment ==
  ASSUME NEW n, NEW c \in SU!AllCodes(n)
  PROVE  c.enrolment = n
BY DEF SU!AllCodes

LEMMA InitTypes ==
  ASSUME SU!Parameters, SU!Init
  PROVE  Types
BY DEF SU!Parameters, SU!Init, Types, SU!New, RequestTyped, Holding, EveryCode

\* Each step keeps the types.
LEMMA TypesKept ==
  ASSUME SU!Parameters, Types, [SU!Next]_SU!vars
  PROVE  Types'
<1> USE DEF Types, SU!Parameters
<1>1. ASSUME NEW a \in stepUp.Admins, SU!Enroll(a) PROVE Types'
  <2>1. /\ count' = count + 1
        /\ count' \in 1 .. stepUp.MaxEnrolments
    BY <1>1 DEF SU!Enroll
  <2>2. SU!AllCodes(count') \subseteq EveryCode
    BY <2>1 DEF EveryCode
  <2>3. WellFormed(SU!Record(count'), count')
    BY <2>1, <2>2 DEF WellFormed, SU!Record
  <2>4. \A b \in stepUp.Admins : store'[b] # SU!None => WellFormed(store'[b], count')
    BY <1>1, <2>1, <2>3 DEF SU!Enroll, SU!Put, WellFormed
  <2>5. \A r \in stepUp.Requests : RequestTyped(r)'
    BY <1>1, <2>1 DEF SU!Enroll, RequestTyped, Holding, WellFormed
  <2> QED BY <1>1, <2>1, <2>4, <2>5 DEF SU!Enroll, SU!Put
<1>2. ASSUME NEW r \in stepUp.Requests, NEW a \in stepUp.Admins, SU!ConfirmRead(r, a) PROVE Types'
  BY <1>2 DEF SU!ConfirmRead, RequestTyped, Holding, WellFormed
<1>3. ASSUME NEW r \in stepUp.Requests, SU!ConfirmPut(r) PROVE Types'
  <2>1. Holding(r) /\ local[r].actor \in stepUp.Admins /\ WellFormed(local[r].copy, count)
    BY <1>3 DEF SU!ConfirmPut, SU!Step, Holding, RequestTyped
  <2>2. WellFormed([local[r].copy EXCEPT !.enabled = TRUE], count)
    BY <2>1 DEF WellFormed
  <2>3. \A b \in stepUp.Admins : store'[b] # SU!None => WellFormed(store'[b], count')
    BY <1>3, <2>1, <2>2 DEF SU!ConfirmPut, SU!Put, WellFormed
  <2>4. \A q \in stepUp.Requests : RequestTyped(q)'
    BY <1>3 DEF SU!ConfirmPut, RequestTyped, Holding, WellFormed
  <2> QED BY <1>3, <2>1, <2>3, <2>4 DEF SU!ConfirmPut, SU!Put
<1>4. ASSUME NEW r \in stepUp.Requests, NEW a \in stepUp.Admins, NEW op, NEW b \in stepUp.Bindings,
             SU!VerifyTOTP(r, a, op, b)
      PROVE  Types'
  BY <1>4 DEF SU!VerifyTOTP, RequestTyped, Holding, WellFormed
<1>5. ASSUME NEW r \in stepUp.Requests, NEW a \in stepUp.Admins, NEW op, NEW b \in stepUp.Bindings,
             NEW code, SU!VerifyRecovery(r, a, op, b, code)
      PROVE  Types'
  BY <1>5 DEF SU!VerifyRecovery, RequestTyped, Holding, WellFormed
<1>6. ASSUME NEW r \in stepUp.Requests, SU!Burn(r) PROVE Types'
  <2>1. /\ Holding(r) /\ local[r].actor \in stepUp.Admins /\ WellFormed(local[r].copy, count)
        /\ local[r].code \in local[r].copy.recovery /\ local[r].binding \in stepUp.Bindings
    BY <1>6 DEF SU!Burn, Holding, RequestTyped
  <2>2. WellFormed(SU!Without(local[r].copy, local[r].code), count)
    BY <2>1 DEF WellFormed, SU!Without
  <2>3. \A a \in stepUp.Admins : store'[a] # SU!None => WellFormed(store'[a], count')
    BY <1>6, <2>1, <2>2 DEF SU!Burn, SU!Put, WellFormed
  <2>4. \A q \in stepUp.Requests : RequestTyped(q)'
    BY <1>6, <2>1 DEF SU!Burn, RequestTyped, Holding, WellFormed
  <2>5. past' \in [EveryCode -> Nat]
    BY <1>6, <2>1 DEF SU!Burn, WellFormed
  <2> QED BY <1>6, <2>1, <2>3, <2>4, <2>5 DEF SU!Burn, SU!Put
<1>7. ASSUME NEW r \in stepUp.Requests, SU!Challenge(r) PROVE Types'
  <2>1. local[r].actor \in stepUp.Admins /\ local[r].binding \in stepUp.Bindings
    BY <1>7 DEF SU!Challenge, SU!Step, RequestTyped
  <2>2. SU!Ticket(local[r].actor, local[r].binding)
          \in [actor : stepUp.Admins, binding : stepUp.Bindings, exp : Nat]
    BY <2>1 DEF SU!Ticket
  <2>3. \A q \in stepUp.Requests : RequestTyped(q)'
    BY <1>7 DEF SU!Challenge, RequestTyped, Holding, WellFormed
  <2> QED BY <1>7, <2>2, <2>3 DEF SU!Challenge
<1>8. ASSUME NEW r \in stepUp.Requests, SU!Disable(r) PROVE Types'
  BY <1>8 DEF SU!Disable, SU!Put, RequestTyped, Holding, WellFormed
<1>9. ASSUME NEW r \in stepUp.Requests, SU!CodeRoute(r) PROVE Types'
  BY <1>9 DEF SU!CodeRoute, RequestTyped, Holding, WellFormed
<1>10. ASSUME NEW s \in SU!Services, NEW n \in DOMAIN sent, SU!Consume(s, n), v[s][n] < 2
       PROVE  Types'
  <2>1. n \in 1 .. stepUp.MaxTickets
    OBVIOUS
  <2>2. SU!Remembered(s) \cup {n} \subseteq Nat
    BY <2>1 DEF SU!Remembered
  <2>3. mirror' \in [SU!Services -> SUBSET Nat]
    BY <1>10, <2>2 DEF SU!Consume
  <2>4. v' \in [SU!Services -> [1 .. stepUp.MaxTickets -> Nat]]
    <3>1. v[s] \in [1 .. stepUp.MaxTickets -> Nat] /\ v[s][n] + 1 \in Nat
      BY <2>1
    <3>2. v' = [v EXCEPT ![s] = [v[s] EXCEPT ![n] = v[s][n] + 1]]
      BY <1>10 DEF SU!Consume
    <3> QED BY <3>1, <3>2
  <2> QED BY <1>10, <2>3, <2>4 DEF SU!Consume, RequestTyped, Holding
<1>11. ASSUME NEW s \in SU!Services, SU!Restart(s) PROVE Types'
  BY <1>11 DEF SU!Restart, RequestTyped, Holding, WellFormed
<1>12. ASSUME SU!Pass PROVE Types'
  BY <1>12 DEF SU!Pass, RequestTyped, Holding, WellFormed
<1>13. ASSUME UNCHANGED SU!vars PROVE Types'
  BY <1>13 DEF SU!vars, RequestTyped, Holding, WellFormed
<1> QED
  BY <1>1, <1>2, <1>3, <1>4, <1>5, <1>6, <1>7, <1>8, <1>9, <1>10, <1>11, <1>12, <1>13
     DEF SU!Next, SU!AdminRoute, SU!LedgerRoute, SU!Services

-----------------------------------------------------------------------------
(* Tickets.                                                                *)

\* An element of a sequence is of its set.
LEMMA Element ==
  ASSUME NEW S, NEW s \in Seq(S), NEW n \in DOMAIN s
  PROVE  s[n] \in S
OBVIOUS

\* Every ticket carries its expiry.
LEMMA TicketExpires ==
  ASSUME Types, NEW n \in DOMAIN sent
  PROVE  sent[n].exp \in Nat
<1>1. sent \in Seq([actor : stepUp.Admins, binding : stepUp.Bindings, exp : Nat])
  BY DEF Types
<1>2. sent[n] \in [actor : stepUp.Admins, binding : stepUp.Bindings, exp : Nat]
  BY <1>1, Element
<1> QED BY <1>2

LEMMA InitTickets ==
  ASSUME SU!Parameters, SU!Init
  PROVE  TicketsInv
<1>1. UsedIsRemembered /\ SU!TicketOnce
  BY DEF SU!Init, UsedIsRemembered, SU!TicketOnce, SU!Parameters
<1> QED BY <1>1, InitTypes DEF TicketsInv

\* Each step keeps a used ticket remembered, and so a second pass needs one
\* that was forgotten.
LEMMA TicketsKept ==
  ASSUME SU!Parameters, TicketsInv, [SU!Next]_SU!vars
  PROVE  TicketsInv'
<1> USE DEF TicketsInv, Types, SU!Parameters
<1>0. Types'
  BY TypesKept
<1>1. ASSUME UNCHANGED <<sent, mirror, time, v, u>>
      PROVE  UsedIsRemembered' /\ SU!TicketOnce'
  BY <1>1 DEF UsedIsRemembered, SU!TicketOnce
<1>2. ASSUME NEW r \in stepUp.Requests, SU!Challenge(r) PROVE UsedIsRemembered' /\ SU!TicketOnce'
  <2>1. DOMAIN sent \subseteq DOMAIN sent' /\ \A n \in DOMAIN sent : sent'[n] = sent[n]
    BY <1>2 DEF SU!Challenge
  <2>2. DOMAIN sent' \subseteq 1 .. stepUp.MaxTickets
    BY <1>0
  <2>3. UsedIsRemembered'
    BY <1>2, <2>1 DEF SU!Challenge, UsedIsRemembered
  <2>4. SU!TicketOnce'
    BY <1>2, <2>1, <2>2 DEF SU!Challenge, UsedIsRemembered, SU!TicketOnce
  <2> QED BY <2>3, <2>4
<1>3. ASSUME NEW s \in SU!Services, NEW n \in DOMAIN sent, SU!Consume(s, n)
      PROVE  UsedIsRemembered' /\ SU!TicketOnce'
  <2>1. n \in 1 .. stepUp.MaxTickets /\ v[s] \in [1 .. stepUp.MaxTickets -> Nat]
    OBVIOUS
  <2>2. /\ v'[s][n] = v[s][n] + 1
        /\ \A t \in SU!Services, m \in 1 .. stepUp.MaxTickets :
             t # s \/ m # n => v'[t][m] = v[t][m]
    BY <1>3, <2>1 DEF SU!Consume
  <2>3. /\ mirror'[s] = SU!Remembered(s) \cup {n}
        /\ \A t \in SU!Services : t # s => mirror'[t] = mirror[t]
    BY <1>3 DEF SU!Consume
  <2>4. u \subseteq u' /\ sent' = sent /\ time' = time
    BY <1>3 DEF SU!Consume
  <2>5. UsedIsRemembered'
    <3> SUFFICES ASSUME NEW t \in SU!Services, NEW m \in 1 .. stepUp.MaxTickets, v'[t][m] > 0
                 PROVE  /\ m \in DOMAIN sent
                        /\ m \in u' \/ m \in mirror'[t] \/ time > 2 * sent[m].exp
      BY <2>4 DEF UsedIsRemembered
    <3>1. CASE t = s /\ m = n
      BY <2>3, <3>1
    <3>2. CASE t # s \/ m # n
      <4>1. /\ m \in DOMAIN sent
            /\ m \in u \/ m \in mirror[t] \/ time > 2 * sent[m].exp
        BY <2>2, <3>2 DEF UsedIsRemembered
      <4> QED BY <2>3, <2>4, <4>1 DEF SU!Remembered
    <3> QED BY <3>1, <3>2
  <2>6. SU!TicketOnce'
    <3> SUFFICES ASSUME NEW t \in SU!Services, NEW m \in DOMAIN sent, v'[t][m] > 1
                 PROVE  m \in u'
      BY <2>4 DEF SU!TicketOnce
    <3>1. CASE t = s /\ m = n
      <4>1. v[s][n] > 0
        BY <2>1, <2>2, <3>1
      <4>2. n \in u \/ n \in mirror[s] \/ time > 2 * sent[n].exp
        BY <2>1, <4>1 DEF UsedIsRemembered
      <4>3. ~ (n \in SU!Remembered(s) /\ time < 2 * sent[n].exp)
        BY <1>3 DEF SU!Consume, SU!Replayed
      <4>4. sent[n].exp \in Nat
        BY TicketExpires
      <4>5. n \in u \/ time >= 2 * sent[n].exp
        BY <4>2, <4>3, <4>4 DEF SU!Remembered
      <4>6. time >= 2 * sent[n].exp => n \in u'
        BY <1>3 DEF SU!Consume
      <4> QED BY <2>4, <3>1, <4>5, <4>6
    <3>2. CASE t # s \/ m # n
      BY <2>2, <2>4, <3>2 DEF SU!TicketOnce
    <3> QED BY <3>1, <3>2
  <2> QED BY <2>5, <2>6
<1>4. ASSUME NEW s \in SU!Services, SU!Restart(s) PROVE UsedIsRemembered' /\ SU!TicketOnce'
  BY <1>4 DEF SU!Restart, UsedIsRemembered, SU!TicketOnce
<1>5. ASSUME SU!Pass PROVE UsedIsRemembered' /\ SU!TicketOnce'
  <2>1. \A n \in DOMAIN sent : sent[n].exp \in Nat
    BY TicketExpires
  <2> QED BY <1>5, <2>1 DEF SU!Pass, UsedIsRemembered, SU!TicketOnce
<1> QED
  BY <1>0, <1>1, <1>2, <1>3, <1>4, <1>5
     DEF SU!Next, SU!vars, SU!Enroll, SU!ConfirmRead, SU!ConfirmPut, SU!VerifyTOTP, SU!VerifyRecovery, SU!Burn, SU!Disable,
         SU!CodeRoute, SU!AdminRoute, SU!LedgerRoute, SU!Services

-----------------------------------------------------------------------------
(* Recovery codes.                                                         *)

LEMMA InitCodes ==
  ASSUME SU!Parameters, SU!Init
  PROVE  CodesInv
<1>1. OneOwner /\ BurntIsGone /\ SU!RecoveryCodeOnce
  BY DEF SU!Init, OneOwner, BurntIsGone, SU!RecoveryCodeOnce, Holding, SU!New, EveryCode
<1> QED BY <1>1, InitTypes DEF CodesInv

\* A record an admin has, and the codes in it, are of that record's enrolment.
LEMMA CodeInRecord ==
  ASSUME NEW rec, NEW n, WellFormed(rec, n), NEW c \in rec.recovery
  PROVE  c.enrolment = rec.enrolment /\ c \in EveryCode /\ c \in SU!AllCodes(rec.enrolment)
BY CodeOfEnrolment DEF WellFormed

\* Steps that write no record and take no new copy.
LEMMA CodesIdle ==
  ASSUME Types, CodesInv,
         UNCHANGED <<count, past, excepted>>,
         \A a \in stepUp.Admins : store'[a] = store[a] \/ store'[a] = SU!None,
         \A r \in stepUp.Requests : Holding(r)' => Holding(r) /\ local'[r] = local[r]
  PROVE  OneOwner' /\ BurntIsGone' /\ SU!RecoveryCodeOnce'
<1> USE DEF CodesInv
<1>1. OneOwner'
  BY DEF OneOwner
<1>2. BurntIsGone'
  BY DEF BurntIsGone
<1>3. SU!RecoveryCodeOnce'
  BY DEF SU!RecoveryCodeOnce
<1> QED BY <1>1, <1>2, <1>3

\* A request reads the record of the admin it acts for.
LEMMA CodesRead ==
  ASSUME CodesInv,
         UNCHANGED <<store, count, past, excepted>>,
         NEW r \in stepUp.Requests, NEW a \in stepUp.Admins, store[a] # SU!None,
         local'[r].actor = a, local'[r].copy = store[a],
         \A q \in stepUp.Requests : q # r => local'[q] = local[q]
  PROVE  OneOwner' /\ BurntIsGone' /\ SU!RecoveryCodeOnce'
<1>1. OneOwner'
  BY DEF CodesInv, OneOwner, Holding
<1>2. BurntIsGone' /\ SU!RecoveryCodeOnce'
  BY DEF CodesInv, BurntIsGone, SU!RecoveryCodeOnce
<1> QED BY <1>1, <1>2

\* A request writes back the copy it holds, with no code more than before,
\* and a copy that is outdated puts its codes in overlap.
LEMMA CodesWritten ==
  ASSUME CodesInv, NEW r \in stepUp.Requests, Holding(r), NEW rec,
         rec.enrolment = local[r].copy.enrolment,
         rec.recovery \subseteq local[r].copy.recovery,
         store' = SU!Put(local[r].actor, rec),
         excepted' = IF store[local[r].actor] = local[r].copy THEN excepted
                    ELSE excepted \cup SU!AllCodes(local[r].copy.enrolment),
         count' = count,
         \A q \in stepUp.Requests : Holding(q)' => Holding(q) /\ local'[q] = local[q]
  PROVE  /\ OneOwner'
         /\ \A c \in EveryCode : past[c] > 0 /\ c \notin excepted' =>
              \A a \in stepUp.Admins : store'[a] # SU!None => c \notin store'[a].recovery
<1> DEFINE me == local[r]
<1>0. me.actor \in stepUp.Admins /\ WellFormed(me.copy, count) /\ DOMAIN store = stepUp.Admins
  BY DEF CodesInv, Types, RequestTyped
<1>1. store'[me.actor] = rec /\ \A a \in stepUp.Admins : a # me.actor => store'[a] = store[a]
  BY <1>0 DEF SU!Put
<1>2. OneOwner'
  BY <1>0, <1>1 DEF CodesInv, OneOwner
<1>3. ASSUME NEW c \in EveryCode, past[c] > 0, c \notin excepted', NEW a \in stepUp.Admins,
             store'[a] # SU!None
      PROVE  c \notin store'[a].recovery
  <2>1. c \notin excepted
    BY <1>3
  <2>2. \A b \in stepUp.Admins : store[b] # SU!None => c \notin store[b].recovery
    BY <1>3, <2>1 DEF CodesInv, BurntIsGone
  <2>3. CASE a # me.actor
    BY <1>1, <1>3, <2>2, <2>3
  <2>4. CASE a = me.actor /\ store[a] = me.copy
    <3>1. me.copy # SU!None
      BY <1>0 DEF WellFormed, SU!None
    <3> QED BY <1>1, <2>2, <2>4, <3>1
  <2>5. CASE a = me.actor /\ store[a] # me.copy
    <3>1. c \notin SU!AllCodes(me.copy.enrolment)
      BY <1>3, <2>5
    <3>2. c \notin me.copy.recovery
      BY <1>0, <3>1, CodeInRecord
    <3> QED BY <1>1, <2>5, <3>2
  <2> QED BY <2>3, <2>4, <2>5
<1> QED BY <1>2, <1>3

\* Each step keeps a burnt code out of the records, or names it in overlap.
LEMMA CodesKept ==
  ASSUME SU!Parameters, CodesInv, [SU!Next]_SU!vars
  PROVE  CodesInv'
<1>0. Types /\ Types'
  BY TypesKept DEF CodesInv
<1> DEFINE Codes3 == OneOwner /\ BurntIsGone /\ SU!RecoveryCodeOnce
<1>1. ASSUME NEW a \in stepUp.Admins, SU!Enroll(a) PROVE Codes3'
  <2>1. /\ store'[a] = SU!Record(count + 1)
        /\ \A b \in stepUp.Admins : b # a => store'[b] = store[b]
    BY <1>0, <1>1 DEF SU!Enroll, SU!Put, Types
  <2>2. /\ count' = count + 1 /\ count \in Nat
        /\ UNCHANGED <<local, past, excepted>>
    BY <1>0, <1>1 DEF SU!Enroll, Types
  <2>3. /\ \A b \in stepUp.Admins : store[b] # SU!None =>
             store[b].enrolment \in Nat /\ store[b].enrolment <= count
        /\ \A r \in stepUp.Requests : Holding(r) =>
             local[r].copy.enrolment \in Nat /\ local[r].copy.enrolment <= count
    BY <1>0, <2>2 DEF Types, RequestTyped, WellFormed
  <2>4. OneOwner'
    BY <2>1, <2>2, <2>3 DEF CodesInv, OneOwner, SU!Record, Holding
  <2>5. BurntIsGone'
    <3> SUFFICES ASSUME NEW c \in EveryCode, past[c] > 0
                 PROVE  /\ c.enrolment <= count + 1
                        /\ c \notin excepted => \A b \in stepUp.Admins :
                             store'[b] # SU!None => c \notin store'[b].recovery
      BY <2>2 DEF BurntIsGone
    <3>1. c.enrolment \in Nat /\ c.enrolment <= count
      BY <2>2 DEF CodesInv, BurntIsGone, EveryCode, SU!AllCodes
    <3>2. c \notin SU!AllCodes(count + 1)
      BY <2>2, <3>1, CodeOfEnrolment
    <3> QED BY <2>1, <2>2, <3>1, <3>2 DEF CodesInv, BurntIsGone, SU!Record
  <2>6. SU!RecoveryCodeOnce'
    BY <2>2 DEF CodesInv, SU!RecoveryCodeOnce
  <2> QED BY <2>4, <2>5, <2>6
<1>2. ASSUME NEW r \in stepUp.Requests, NEW a \in stepUp.Admins, SU!ConfirmRead(r, a) PROVE Codes3'
  <2>1. /\ UNCHANGED <<store, count, past, excepted>>
        /\ store[a] # SU!None
        /\ local'[r].actor = a /\ local'[r].copy = store[a]
        /\ \A q \in stepUp.Requests : q # r => local'[q] = local[q]
    BY <1>0, <1>2 DEF SU!ConfirmRead, Types
  <2> QED BY <2>1, CodesRead
<1>3. ASSUME NEW r \in stepUp.Requests, NEW a \in stepUp.Admins, NEW op, NEW b, NEW code,
             SU!VerifyRecovery(r, a, op, b, code)
      PROVE  Codes3'
  <2>1. /\ UNCHANGED <<store, count, past, excepted>>
        /\ store[a] # SU!None
        /\ local'[r].actor = a /\ local'[r].copy = store[a]
        /\ \A q \in stepUp.Requests : q # r => local'[q] = local[q]
    BY <1>0, <1>3 DEF SU!VerifyRecovery, Types
  <2> QED BY <2>1, CodesRead
<1>4. ASSUME NEW r \in stepUp.Requests, SU!ConfirmPut(r) PROVE Codes3'
  <2> DEFINE rec == [local[r].copy EXCEPT !.enabled = TRUE]
  <2>1. Holding(r) /\ WellFormed(local[r].copy, count)
    BY <1>0, <1>4 DEF SU!ConfirmPut, SU!Step, Holding, Types, RequestTyped
  <2>2. rec.enrolment = local[r].copy.enrolment /\ rec.recovery = local[r].copy.recovery
    BY <2>1 DEF WellFormed
  <2>3. \A q \in stepUp.Requests : Holding(q)' => Holding(q) /\ local'[q] = local[q]
    BY <1>0, <1>4 DEF SU!ConfirmPut, Types, Holding
  <2>4. /\ OneOwner'
        /\ \A c \in EveryCode : past[c] > 0 /\ c \notin excepted' =>
             \A a \in stepUp.Admins : store'[a] # SU!None => c \notin store'[a].recovery
    <3> HIDE DEF rec
    <3>1. /\ rec.recovery \subseteq local[r].copy.recovery
          /\ store' = SU!Put(local[r].actor, rec)
          /\ excepted' = IF store[local[r].actor] = local[r].copy THEN excepted
                        ELSE excepted \cup SU!AllCodes(local[r].copy.enrolment)
          /\ count' = count
      BY <1>4, <2>2 DEF SU!ConfirmPut, rec
    <3> QED BY <2>1, <2>2, <2>3, <3>1, CodesWritten
  <2>5. BurntIsGone'
    BY <1>4, <2>4 DEF SU!ConfirmPut, CodesInv, BurntIsGone
  <2>6. SU!RecoveryCodeOnce'
    BY <1>4 DEF SU!ConfirmPut, CodesInv, SU!RecoveryCodeOnce
  <2> QED BY <2>4, <2>5, <2>6
<1>5. ASSUME NEW r \in stepUp.Requests, SU!Burn(r) PROVE Codes3'
  <2> DEFINE me == local[r]
             rec == SU!Without(me.copy, me.code)
  <2>1. /\ Holding(r) /\ me.actor \in stepUp.Admins /\ WellFormed(me.copy, count)
        /\ me.code \in me.copy.recovery
    BY <1>0, <1>5 DEF SU!Burn, Holding, Types, RequestTyped
  <2>2. rec.enrolment = me.copy.enrolment /\ rec.recovery = me.copy.recovery \ {me.code}
    BY <2>1 DEF WellFormed, SU!Without
  <2>3. \A q \in stepUp.Requests : Holding(q)' => Holding(q) /\ local'[q] = local[q]
    BY <1>0, <1>5 DEF SU!Burn, Types, Holding
  <2>4. me.code.enrolment = me.copy.enrolment /\ me.code \in EveryCode
        /\ me.code \in SU!AllCodes(me.copy.enrolment)
    BY <2>1, CodeInRecord
  <2>5. /\ store' = SU!Put(me.actor, rec)
        /\ past' = [past EXCEPT ![me.code] = @ + 1]
        /\ excepted' = IF store[me.actor] = me.copy THEN excepted
                      ELSE excepted \cup SU!AllCodes(me.copy.enrolment)
        /\ count' = count
    BY <1>5, <2>4 DEF SU!Burn
  <2> HIDE DEF rec
  <2>6. /\ OneOwner'
        /\ \A c \in EveryCode : past[c] > 0 /\ c \notin excepted' =>
             \A a \in stepUp.Admins : store'[a] # SU!None => c \notin store'[a].recovery
    BY <2>1, <2>2, <2>3, <2>5, CodesWritten
  <2>7. \A c \in EveryCode : /\ past[c] \in Nat
                             /\ past'[c] = IF c = me.code THEN past[c] + 1 ELSE past[c]
    BY <1>0, <2>5 DEF Types
  <2>8. BurntIsGone'
    <3> SUFFICES ASSUME NEW c \in EveryCode, past'[c] > 0
                 PROVE  /\ c.enrolment <= count
                        /\ c \notin excepted' => \A a \in stepUp.Admins :
                             store'[a] # SU!None => c \notin store'[a].recovery
      BY <2>5 DEF BurntIsGone
    <3>1. CASE c # me.code
      BY <2>6, <2>7, <3>1 DEF CodesInv, BurntIsGone
    <3>2. CASE c = me.code
      <4>1. c.enrolment <= count
        BY <2>1, <2>4, <3>2 DEF WellFormed
      <4>2. ASSUME NEW a \in stepUp.Admins, store'[a] # SU!None, a # me.actor
            PROVE  c \notin store'[a].recovery
        <5>1. store'[a] = store[a] /\ WellFormed(store[a], count)
          BY <1>0, <2>5, <4>2 DEF SU!Put, Types
        <5>2. store[a].enrolment # me.copy.enrolment
          BY <2>1, <4>2, <5>1 DEF CodesInv, OneOwner
        <5> QED BY <2>4, <3>2, <5>1, <5>2, CodeInRecord
      <4>3. store'[me.actor].recovery = me.copy.recovery \ {me.code}
        BY <1>0, <2>1, <2>2, <2>5 DEF SU!Put, Types
      <4> QED BY <3>2, <4>1, <4>2, <4>3
    <3> QED BY <3>1, <3>2
  <2>9. SU!RecoveryCodeOnce'
    <3> SUFFICES ASSUME NEW c \in EveryCode, past'[c] > 1
                 PROVE  c \in excepted'
      BY <1>0 DEF SU!RecoveryCodeOnce, Types
    <3>1. CASE c # me.code
      BY <1>0, <2>5, <2>7, <3>1 DEF CodesInv, SU!RecoveryCodeOnce, Types
    <3>2. CASE c = me.code /\ store[me.actor] = me.copy
      <4>1. past[c] > 0 /\ me.copy # SU!None
        BY <2>1, <2>7, <3>2 DEF WellFormed, SU!None
      <4> QED BY <2>1, <2>5, <3>2, <4>1 DEF CodesInv, BurntIsGone
    <3>3. CASE c = me.code /\ store[me.actor] # me.copy
      BY <2>4, <2>5, <3>3
    <3> QED BY <3>1, <3>2, <3>3
  <2> QED BY <2>6, <2>8, <2>9
<1>6. ASSUME NEW r \in stepUp.Requests, SU!Disable(r) PROVE Codes3'
  <2>1. /\ UNCHANGED <<count, past, excepted>>
        /\ \A a \in stepUp.Admins : store'[a] = store[a] \/ store'[a] = SU!None
    BY <1>0, <1>6 DEF SU!Disable, SU!Put, Types
  <2>2. \A q \in stepUp.Requests : Holding(q)' => Holding(q) /\ local'[q] = local[q]
    BY <1>0, <1>6 DEF SU!Disable, Types, Holding
  <2> QED BY <1>0, <2>1, <2>2, CodesIdle
<1>7. ASSUME NEW s \in SU!Services, SU!Restart(s) PROVE Codes3'
  <2>1. /\ UNCHANGED <<count, past, excepted>>
        /\ \A a \in stepUp.Admins : store'[a] = store[a] \/ store'[a] = SU!None
    BY <1>7 DEF SU!Restart
  <2>2. \A q \in stepUp.Requests : Holding(q)' => Holding(q) /\ local'[q] = local[q]
    BY <1>7 DEF SU!Restart, Holding
  <2> QED BY <1>0, <2>1, <2>2, CodesIdle
<1>8. ASSUME UNCHANGED <<store, count, past, excepted>>,
             NEW r \in stepUp.Requests, NEW me, local' = [local EXCEPT ![r] = me],
             me.pc \notin {"put", "burn"}
      PROVE  Codes3'
  <2>1. \A q \in stepUp.Requests : Holding(q)' => Holding(q) /\ local'[q] = local[q]
    BY <1>0, <1>8 DEF Types, Holding
  <2> QED BY <1>0, <1>8, <2>1, CodesIdle
<1>9. ASSUME UNCHANGED <<store, count, local, past, excepted>> PROVE Codes3'
  BY <1>0, <1>9, CodesIdle DEF Holding
<1>10. ASSUME NEW r \in stepUp.Requests, NEW a, NEW op, NEW b,
              SU!VerifyTOTP(r, a, op, b) \/ SU!Challenge(r) \/ SU!CodeRoute(r)
       PROVE  Codes3'
  BY <1>8, <1>10 DEF SU!VerifyTOTP, SU!Challenge, SU!CodeRoute
<1> QED
  <2> HIDE DEF Codes3
  <2>1. Codes3'
    BY <1>1, <1>2, <1>3, <1>4, <1>5, <1>6, <1>7, <1>9, <1>10
       DEF SU!Next, SU!vars, SU!AdminRoute, SU!LedgerRoute, SU!Consume, SU!Services, SU!Pass
  <2> QED BY <1>0, <2>1 DEF CodesInv, Codes3

-----------------------------------------------------------------------------
(* Consent and data subject rights.                                        *)

\* Records are only added and overwritten: what a document promised before
\* holds after it, or the document was overwritten from an outdated copy.
Promises ==
  /\ DOMAIN store \subseteq DOMAIN store' /\ excepted \subseteq excepted'
  /\ \A i \in DOMAIN store : \/ <<"consent", i>> \in excepted'
                             \/ /\ store[i].status = "revoked" => store'[i].status = "revoked"
                                /\ \A s \in consent.Subjects : store[i].subject # s => store'[i].subject # s

\* A local state keeps its meaning while others write.
LEMMA SlotKept ==
  ASSUME Promises, NEW me, CO!SlotShaped(me, store, excepted)
  PROVE  CO!SlotShaped(me, store', excepted')
<1>1. CASE me.op = "change" /\ CO!ChangeShaped(me, store)
  BY <1>1 DEF Promises, CO!ChangeShaped, CO!SlotShaped
<1>2. CASE me.op = "walk" /\ CO!WalkShaped(me, store, excepted)
  <2>1. CO!WalkShaped(me, store', excepted')
    BY <1>2 DEF Promises, CO!WalkShaped
  <2> QED BY <1>2, <2>1 DEF CO!SlotShaped
<1>3. CASE me.op = "erase" /\ CO!EraseShaped(me, store, excepted)
  <2>1. CO!EraseShaped(me, store', excepted')
    BY <1>3 DEF Promises, CO!EraseShaped
  <2> QED BY <1>3, <2>1 DEF CO!SlotShaped
<1> QED BY <1>1, <1>2, <1>3 DEF CO!SlotShaped

\* A step that keeps the promises and leaves one request in a good state.
LEMMA RequestServed ==
  ASSUME CO!ConsentInv, Promises, NEW q \in consent.Slots, NEW me,
         local' = [local EXCEPT ![q] = me], CO!SlotShaped(me, store', excepted'),
         store' \in Seq(CO!ConsentRecords),
         past \subseteq past', past' \subseteq DOMAIN store',
         \A i \in past' \ past : store'[i].status = "revoked" \/ <<"consent", i>> \in excepted',
         sent' = [s \in consent.Subjects |-> sent'[s]],
         \A s \in consent.Subjects : \A i \in sent'[s] :
           /\ i \in DOMAIN store
           /\ i \in sent[s] \/ store[i].subject # s \/ <<"consent", i>> \in excepted
  PROVE  CO!ConsentInv'
<1>1. local' = [r \in consent.Slots |-> local'[r]]
  BY DEF CO!ConsentInv
<1>2. ASSUME NEW r \in consent.Slots PROVE CO!SlotShaped(local'[r], store', excepted')
  <2>1. CASE r = q
    BY <2>1 DEF CO!ConsentInv
  <2>2. CASE r # q
    <3>1. local'[r] = local[r] /\ CO!SlotShaped(local[r], store, excepted)
      BY <2>2 DEF CO!ConsentInv
    <3>2. CO!SlotShaped(local[r], store', excepted')
      BY <3>1, SlotKept
    <3> QED BY <3>1, <3>2
  <2> QED BY <2>1, <2>2
<1>3. CO!WithdrawnStaysWithdrawn'
  <2> SUFFICES ASSUME NEW i \in past', store'[i].status # "revoked" PROVE <<"consent", i>> \in excepted'
    BY DEF CO!WithdrawnStaysWithdrawn
  <2>1. CASE i \in past
    BY <2>1 DEF Promises, CO!ConsentInv, CO!WithdrawnStaysWithdrawn
  <2>2. CASE i \notin past
    BY <2>2
  <2> QED BY <2>1, <2>2
<1>4. CO!ConsentsAreErased'
  <2> SUFFICES ASSUME NEW s \in consent.Subjects, NEW i \in sent'[s], store'[i].subject = s
               PROVE  <<"consent", i>> \in excepted'
    BY DEF CO!ConsentsAreErased
  <2>1. i \in DOMAIN store /\ (store[i].subject # s \/ <<"consent", i>> \in excepted)
    BY DEF CO!ConsentInv, CO!ConsentsAreErased
  <2> QED BY <2>1 DEF Promises
<1>5. \A s \in consent.Subjects : sent'[s] \subseteq DOMAIN store'
  BY DEF Promises
<1> QED BY <1>1, <1>2, <1>3, <1>4, <1>5 DEF CO!ConsentInv

\* A document is written back: at most what nobody changed meanwhile counts.
LEMMA RecordWritten ==
  ASSUME CO!ConsentInv, NEW i \in DOMAIN store, NEW copy, NEW new \in CO!ConsentRecords,
         store' = [store EXCEPT ![i] = new], excepted' = CO!Mark(<<"consent", i>>, store[i], copy),
         copy.status = "revoked" => new.status = "revoked",
         new.subject = copy.subject \/ new.subject \notin consent.Subjects
  PROVE  /\ Promises /\ store' \in Seq(CO!ConsentRecords) /\ DOMAIN store' = DOMAIN store
         /\ \A j \in DOMAIN store : store'[j] = IF j = i THEN new ELSE store[j]
<1>1. store \in Seq(CO!ConsentRecords)
  BY DEF CO!ConsentInv
<1>2. /\ store' \in Seq(CO!ConsentRecords) /\ DOMAIN store' = DOMAIN store
      /\ \A j \in DOMAIN store : store'[j] = IF j = i THEN new ELSE store[j]
  BY <1>1
<1>3. excepted \subseteq excepted' /\ (<<"consent", i>> \in excepted' \/ store[i] = copy)
  BY DEF CO!Mark
<1>4. ASSUME NEW j \in DOMAIN store, <<"consent", j>> \notin excepted'
      PROVE  /\ store[j].status = "revoked" => store'[j].status = "revoked"
             /\ \A s \in consent.Subjects : store[j].subject # s => store'[j].subject # s
  <2>1. CASE j = i
    BY <1>2, <1>3, <1>4, <2>1
  <2>2. CASE j # i
    BY <1>2, <2>2
  <2> QED BY <2>1, <2>2
<1> QED BY <1>2, <1>3, <1>4 DEF Promises

\* Nothing is written.
LEMMA NothingWritten ==
  ASSUME CO!ConsentInv, UNCHANGED <<store, excepted>>
  PROVE  Promises /\ store' \in Seq(CO!ConsentRecords)
BY DEF Promises, CO!ConsentInv

\* A step that only moves its own request on.
LEMMA OnlyMoves ==
  ASSUME CO!ConsentInv, NEW q \in consent.Slots, NEW me, CO!SlotShaped(me, store, excepted),
         local' = [local EXCEPT ![q] = me], UNCHANGED <<store, past, sent, excepted>>
  PROVE  CO!ConsentInv'
<1>1. Promises /\ store' \in Seq(CO!ConsentRecords) /\ CO!SlotShaped(me, store', excepted')
  BY NothingWritten
<1>2. /\ past \subseteq past' /\ past' \subseteq DOMAIN store' /\ past' \ past = {}
      /\ sent' = [s \in consent.Subjects |-> sent'[s]]
      /\ \A s \in consent.Subjects : \A i \in sent'[s] : i \in DOMAIN store /\ i \in sent[s]
  BY DEF CO!ConsentInv
<1> QED BY <1>1, <1>2, RequestServed

\* What a request that is served looks like.
LEMMA ServedIsShaped ==
  ASSUME CO!ConsentInv, NEW q \in consent.Slots
  PROVE  /\ local[q].op = "change" => CO!ChangeShaped(local[q], store)
         /\ local[q].op = "walk" => CO!WalkShaped(local[q], store, excepted)
         /\ local[q].op = "erase" => CO!EraseShaped(local[q], store, excepted)
<1> DEFINE me == local[q]
<1>1. CO!SlotShaped(me, store, excepted)
  BY DEF CO!ConsentInv
<1>2. CO!Free.op = "none"
  BY DEF CO!Free
<1> HIDE DEF me
<1>3. /\ me.op = "change" => CO!ChangeShaped(me, store)
      /\ me.op = "walk" => CO!WalkShaped(me, store, excepted)
      /\ me.op = "erase" => CO!EraseShaped(me, store, excepted)
  BY <1>1, <1>2 DEF CO!SlotShaped
<1> QED BY <1>3 DEF me

\* create.
LEMMA GrantStep ==
  ASSUME CO!ConsentInv, NEW q \in consent.Slots, NEW caller, NEW s \in consent.Subjects,
         NEW p \in consent.Purposes, NEW b \in consent.Bases, NEW granted \in BOOLEAN,
         NEW expires \in consent.Lifetimes, CO!Create(q, caller, s, p, b, granted, expires)
  PROVE  CO!ConsentInv'
<1>1. PICK new : new = CO!Record(s, p, b, granted, expires)
  OBVIOUS
<1>2. new \in CO!ConsentRecords
  BY <1>1 DEF CO!Record, CO!ConsentRecords
<1>3. store' = Append(store, new) /\ UNCHANGED <<local, past, sent, excepted>>
  BY <1>1 DEF CO!Create, CO!ghosts
<1>4. store \in Seq(CO!ConsentRecords)
  BY DEF CO!ConsentInv
<1>5. /\ store' \in Seq(CO!ConsentRecords) /\ DOMAIN store \subseteq DOMAIN store'
      /\ \A i \in DOMAIN store : store'[i] = store[i]
  BY <1>2, <1>3, <1>4
<1>6. Promises
  BY <1>3, <1>5 DEF Promises
<1>7. local' = [local EXCEPT ![q] = local[q]] /\ CO!SlotShaped(local[q], store', excepted')
  BY <1>3, <1>6, SlotKept DEF CO!ConsentInv
<1>8. /\ past \subseteq past' /\ past' \subseteq DOMAIN store' /\ past' \ past = {}
      /\ sent' = [x \in consent.Subjects |-> sent'[x]]
      /\ \A x \in consent.Subjects : \A i \in sent'[x] : i \in DOMAIN store /\ i \in sent[x]
  BY <1>3, <1>5 DEF CO!ConsentInv
<1> QED BY <1>5, <1>6, <1>7, <1>8, RequestServed

\* revoke and renew.
LEMMA ChangeReadStep ==
  ASSUME CO!ConsentInv, NEW q \in consent.Slots, NEW caller, NEW id \in DOMAIN store, NEW action,
         NEW expires \in consent.Lifetimes, CO!ReadToChange(q, caller, id, action, expires)
  PROVE  CO!ConsentInv'
<1> DEFINE c == store[id]
           new == IF action = "renewed" THEN CO!Renewed(c, expires) ELSE CO!Revoked(c)
           me == [op |-> "change", pc |-> "put", id |-> id, action |-> action, copy |-> c, new |-> new]
<1>1. local' = [local EXCEPT ![q] = me] /\ UNCHANGED <<store, past, sent, excepted>>
  BY DEF CO!ReadToChange, CO!Begin, CO!ghosts
<1>2. c \in CO!ConsentRecords /\ c.status # "revoked"
  BY DEF CO!ReadToChange, CO!MayRenew, CO!MayRevoke, CO!ConsentInv
<1>3. new \in CO!ConsentRecords /\ new.subject = c.subject /\ (action = "revoked" => new.status = "revoked")
  BY <1>2 DEF CO!Renewed, CO!Revoked, CO!ConsentRecords
<1> HIDE DEF new
<1>4. CO!SlotShaped(me, store, excepted)
  BY <1>2, <1>3 DEF CO!SlotShaped, CO!ChangeShaped
<1> QED BY <1>1, <1>4, OnlyMoves

LEMMA ChangePutStep ==
  ASSUME CO!ConsentInv, NEW q \in consent.Slots, CO!PutChange(q)
  PROVE  CO!ConsentInv'
<1> DEFINE me == local[q]
<1>1. /\ me.op = "change" /\ excepted' = CO!Mark(<<"consent", me.id>>, store[me.id], me.copy)
      /\ store' = [store EXCEPT ![me.id] = me.new]
      /\ past' = IF me.action = "revoked" THEN past \cup {me.id} ELSE past
      /\ local' = [local EXCEPT ![q] = CO!Free] /\ sent' = sent
  BY DEF CO!PutChange, CO!At, CO!End
<1>2. CO!ChangeShaped(me, store)
  BY <1>1, ServedIsShaped
<1>3. /\ me.id \in DOMAIN store /\ me.new \in CO!ConsentRecords
      /\ me.copy.status # "revoked" /\ me.new.subject = me.copy.subject
      /\ me.action = "revoked" => me.new.status = "revoked"
  BY <1>2 DEF CO!ChangeShaped
<1>4. /\ Promises /\ store' \in Seq(CO!ConsentRecords) /\ DOMAIN store' = DOMAIN store
      /\ store'[me.id] = me.new
  BY <1>1, <1>3, RecordWritten
<1>5. /\ past \subseteq past' /\ past' \subseteq DOMAIN store'
      /\ \A i \in past' \ past : store'[i].status = "revoked"
      /\ sent' = [x \in consent.Subjects |-> sent'[x]]
      /\ \A x \in consent.Subjects : \A i \in sent'[x] : i \in DOMAIN store /\ i \in sent[x]
  BY <1>1, <1>3, <1>4 DEF CO!ConsentInv
<1>6. CO!SlotShaped(CO!Free, store', excepted')
  BY DEF CO!SlotShaped
<1> QED BY <1>1, <1>4, <1>5, <1>6, RequestServed

\* The walk over a subject's records, of a list or a check.
LEMMA WalkBeginStep ==
  ASSUME CO!ConsentInv, NEW q \in consent.Slots, NEW left, NEW using, NEW seen,
         left \subseteq {i \in DOMAIN store : CO!Overdue(store[i])},
         \A i \in using : i \in DOMAIN store /\ store[i].status = "active",
         seen \subseteq past,
         NEW me, me = [op |-> "walk", pc |-> "expire", left |-> left, snapshot |-> CO!Copies(left),
                       using |-> using, withdrawn |-> seen],
         local' = [local EXCEPT ![q] = me], UNCHANGED <<store, past, sent, excepted>>
  PROVE  CO!ConsentInv'
<1>1. \A i \in left : /\ i \in DOMAIN store /\ store[i] \in CO!ConsentRecords
                      /\ store[i].status = "active" /\ me.snapshot[i] = store[i]
  BY DEF CO!ConsentInv, CO!Overdue, CO!Copies
<1>2. \A i \in using : i \in seen => <<"consent", i>> \in excepted
  BY DEF CO!ConsentInv, CO!WithdrawnStaysWithdrawn
<1>3. CO!SlotShaped(me, store, excepted)
  BY <1>1, <1>2 DEF CO!SlotShaped, CO!WalkShaped
<1> QED BY <1>3, OnlyMoves

LEMMA ListStep ==
  ASSUME CO!ConsentInv, NEW q \in consent.Slots, NEW caller, NEW s \in consent.Subjects,
         CO!ListBySubject(q, caller, s)
  PROVE  CO!ConsentInv'
<1> DEFINE left == CO!ToExpire(s, consent.Purposes, Len(store))
           using == {}
           seen == {}
<1>1. PICK me : /\ me = [op |-> "walk", pc |-> "expire", left |-> left, snapshot |-> CO!Copies(left),
                         using |-> using, withdrawn |-> seen]
                /\ local' = [local EXCEPT ![q] = me]
                /\ UNCHANGED <<store, past, sent, excepted>>
  BY DEF CO!ListBySubject, CO!Begin, CO!ghosts
<1>2. left \subseteq {i \in DOMAIN store : CO!Overdue(store[i])}
  BY DEF CO!ToExpire, CO!ConsentInv
<1>3. seen \subseteq past /\ \A i \in using : i \in DOMAIN store /\ store[i].status = "active"
  OBVIOUS
<1> HIDE DEF left, using, seen
<1> QED BY <1>1, <1>2, <1>3, WalkBeginStep

LEMMA CheckStep ==
  ASSUME CO!ConsentInv, NEW q \in consent.Slots, NEW s \in consent.Subjects, NEW p \in consent.Purposes,
         NEW b \in consent.Bases, CO!Check(q, s, p, b)
  PROVE  CO!ConsentInv'
<1> DEFINE first == CO!FirstCovering(s, p)
           last == IF first = {} THEN Len(store) ELSE CHOOSE i \in first : TRUE
           left == CO!ToExpire(s, {p}, last)
           using == {i \in first : store[i].basis = b}
           seen == using \cap past
<1>1. PICK me : /\ me = [op |-> "walk", pc |-> "expire", left |-> left, snapshot |-> CO!Copies(left),
                         using |-> using, withdrawn |-> seen]
                /\ local' = [local EXCEPT ![q] = me]
                /\ UNCHANGED <<store, past, sent, excepted>>
  BY DEF CO!Check, CO!Begin, CO!ghosts
<1>2. \A i \in first : i \in DOMAIN store /\ store[i].status = "active"
  BY DEF CO!FirstCovering, CO!Covers
<1>3. DOMAIN store = 1..Len(store) /\ Len(store) \in Nat
  BY DEF CO!ConsentInv
<1> HIDE DEF first
<1>4. last \in 1..Len(store) \/ last = Len(store)
  BY <1>2, <1>3
<1> HIDE DEF last
<1>5. left \subseteq {i \in DOMAIN store : CO!Overdue(store[i])}
  BY <1>3, <1>4 DEF CO!ToExpire
<1>6. \A i \in using : i \in DOMAIN store /\ store[i].status = "active"
  BY <1>2
<1>7. seen \subseteq past
  OBVIOUS
<1> HIDE DEF left, using, seen
<1> QED BY <1>1, <1>5, <1>6, <1>7, WalkBeginStep

\* The lazy expiry, the answer and the processing after it.
LEMMA WalkStep ==
  ASSUME CO!ConsentInv, NEW q \in consent.Slots, CO!ExpireOne(q) \/ CO!Answer(q) \/ CO!Process(q)
  PROVE  CO!ConsentInv'
<1> DEFINE me == local[q]
<1>1. me.op = "walk" /\ CO!WalkShaped(me, store, excepted)
  BY ServedIsShaped DEF CO!ExpireOne, CO!Answer, CO!Process, CO!At
<1>2. CO!SlotShaped(CO!Free, store, excepted)
  BY DEF CO!SlotShaped
<1>3. CASE CO!Process(q)
  BY <1>2, <1>3, OnlyMoves DEF CO!Process, CO!End, CO!ghosts
<1>4. CASE CO!Answer(q)
  <2> DEFINE next == [me EXCEPT !.pc = "process"]
  <2>1. CO!SlotShaped(next, store, excepted)
    BY <1>1 DEF CO!SlotShaped, CO!WalkShaped
  <2>2. /\ local' = [local EXCEPT ![q] = CO!Free] \/ local' = [local EXCEPT ![q] = next]
        /\ UNCHANGED <<store, past, sent, excepted>>
    BY <1>4 DEF CO!Answer, CO!End, CO!ghosts
  <2> HIDE DEF next
  <2> QED BY <1>2, <2>1, <2>2, OnlyMoves
<1>5. CASE CO!ExpireOne(q)
  <2>1. PICK i \in me.left :
          /\ \/ /\ excepted' = CO!Mark(<<"consent", i>>, store[i], me.snapshot[i])
                /\ store' = [store EXCEPT ![i] = [me.snapshot[i] EXCEPT !.status = "expired"]]
             \/ UNCHANGED <<store, excepted>>
          /\ local' = [local EXCEPT ![q].left = @ \ {i}] /\ UNCHANGED <<past, sent>>
    BY <1>5 DEF CO!ExpireOne
  <2> DEFINE next == [me EXCEPT !.left = @ \ {i}]
             new == [me.snapshot[i] EXCEPT !.status = "expired"]
  <2>2. CO!SlotShaped(next, store, excepted) /\ local' = [local EXCEPT ![q] = next]
    <3>1. /\ next.op = "walk" /\ next.left = me.left \ {i}
          /\ next.snapshot = me.snapshot /\ next.using = me.using /\ next.withdrawn = me.withdrawn
          /\ next = [op |-> "walk", pc |-> next.pc, left |-> next.left, snapshot |-> next.snapshot,
                     using |-> next.using, withdrawn |-> next.withdrawn]
      BY <1>1 DEF CO!WalkShaped
    <3>2. local' = [local EXCEPT ![q] = next]
      BY <2>1
    <3> HIDE DEF next
    <3> QED BY <1>1, <3>1, <3>2 DEF CO!SlotShaped, CO!WalkShaped
  <2> HIDE DEF next
  <2>3. CASE UNCHANGED <<store, excepted>>
    BY <2>1, <2>2, <2>3, OnlyMoves
  <2>4. CASE /\ excepted' = CO!Mark(<<"consent", i>>, store[i], me.snapshot[i])
             /\ store' = [store EXCEPT ![i] = new]
    <3>1. /\ i \in DOMAIN store /\ new \in CO!ConsentRecords
          /\ me.snapshot[i].status = "active" /\ new.subject = me.snapshot[i].subject
      BY <1>1, <2>1 DEF CO!WalkShaped, CO!ConsentRecords
    <3> HIDE DEF new
    <3>2. Promises /\ store' \in Seq(CO!ConsentRecords) /\ DOMAIN store' = DOMAIN store
      BY <2>4, <3>1, RecordWritten
    <3>3. CO!SlotShaped(next, store', excepted')
      BY <2>2, <3>2, SlotKept
    <3>4. /\ past \subseteq past' /\ past' \subseteq DOMAIN store' /\ past' \ past = {}
          /\ sent' = [x \in consent.Subjects |-> sent'[x]]
          /\ \A x \in consent.Subjects : \A j \in sent'[x] : j \in DOMAIN store /\ j \in sent[x]
      BY <2>1, <3>2 DEF CO!ConsentInv
    <3> QED BY <2>2, <3>2, <3>3, <3>4, RequestServed
  <2> QED BY <2>1, <2>3, <2>4
<1> QED BY <1>3, <1>4, <1>5

\* dsrErasure: it begins, lists, writes and answers.
LEMMA ErasureListStep ==
  ASSUME CO!ConsentInv, NEW q \in consent.Slots,
         \/ \E caller \in consent.Callers, s \in consent.Subjects : CO!BeginErasure(q, s, caller)
         \/ CO!ListForErasure(q)
  PROVE  CO!ConsentInv'
<1>1. ASSUME NEW caller \in consent.Callers, NEW s \in consent.Subjects, CO!BeginErasure(q, s, caller)
      PROVE  CO!ConsentInv'
  <2> DEFINE me == [op |-> "erase", pc |-> "list", subject |-> s, left |-> {}, snapshot |-> <<>>,
                    all |-> {}]
  <2>1. CO!SlotShaped(me, store, excepted)
    BY DEF CO!SlotShaped, CO!EraseShaped
  <2>2. local' = [local EXCEPT ![q] = me] /\ UNCHANGED <<store, past, sent, excepted>>
    BY <1>1 DEF CO!BeginErasure, CO!Begin, CO!ghosts
  <2> QED BY <2>1, <2>2, OnlyMoves
<1>2. CASE CO!ListForErasure(q)
  <2> DEFINE s == local[q].subject
             found == {i \in DOMAIN store : store[i].subject = s}
             me == [op |-> "erase", pc |-> "put", subject |-> s, left |-> found,
                    snapshot |-> CO!Copies(found), all |-> found]
  <2>1. CO!EraseShaped(local[q], store, excepted)
    BY <1>2, ServedIsShaped DEF CO!ListForErasure, CO!At
  <2>2. local' = [local EXCEPT ![q] = me] /\ UNCHANGED <<store, past, sent, excepted>>
    BY <1>2 DEF CO!ListForErasure, CO!OwnedBy, CO!ghosts
  <2>3. s \in consent.Subjects
    BY <2>1 DEF CO!EraseShaped
  <2>4. \A i \in found : /\ me.snapshot[i] = store[i] /\ store[i] \in CO!ConsentRecords
                         /\ store[i].subject = s
    BY DEF CO!Copies, CO!ConsentInv
  <2>5. CO!SlotShaped(me, store, excepted)
    BY <2>3, <2>4 DEF CO!SlotShaped, CO!EraseShaped
  <2> QED BY <2>2, <2>5, OnlyMoves
<1> QED BY <1>1, <1>2

LEMMA ErasurePutStep ==
  ASSUME CO!ConsentInv, NEW q \in consent.Slots, CO!EraseOne(q)
  PROVE  CO!ConsentInv'
<1> DEFINE me == local[q]
<1>1. CO!EraseShaped(me, store, excepted)
  BY ServedIsShaped DEF CO!EraseOne, CO!At
<1>2. PICK i \in me.left :
        /\ excepted' = CO!Mark(<<"consent", i>>, store[i], me.snapshot[i])
        /\ store' = [store EXCEPT ![i] = CO!Anonymised(me.snapshot[i])]
        /\ past' = IF me.snapshot[i].status = "active" THEN past \cup {i} ELSE past
        /\ local' = [local EXCEPT ![q].left = @ \ {i}] /\ sent' = sent
  BY DEF CO!EraseOne
<1> DEFINE copy == me.snapshot[i]
           new == CO!Anonymised(copy)
           next == [me EXCEPT !.left = @ \ {i}]
<1>3. i \in DOMAIN store /\ copy \in CO!ConsentRecords /\ copy.subject = me.subject
      /\ me.subject \in consent.Subjects
  BY <1>1, <1>2 DEF CO!EraseShaped
<1>4. /\ new \in CO!ConsentRecords /\ new.subject = consent.anonymisedSubject[me.subject]
      /\ copy.status \in {"active", "revoked"} => new.status = "revoked"
  BY <1>3 DEF CO!Anonymised, CO!Revoked, CO!ConsentRecords
<1>5. new.subject \notin consent.Subjects
  BY <1>3, <1>4, RegistersAssumption DEF CO!Parameters
<1>6. local' = [local EXCEPT ![q] = next]
  BY <1>1, <1>2 DEF CO!EraseShaped, CO!ConsentInv
<1> HIDE DEF new
<1>7. /\ Promises /\ store' \in Seq(CO!ConsentRecords) /\ DOMAIN store' = DOMAIN store
      /\ store'[i] = new
  BY <1>2, <1>3, <1>4, <1>5, RecordWritten DEF new
<1>8. CO!SlotShaped(next, store', excepted')
  <2>1. CO!SlotShaped(me, store', excepted')
    BY <1>7, SlotKept DEF CO!ConsentInv
  <2>2. CO!EraseShaped(me, store', excepted')
    BY <1>1, <2>1 DEF CO!SlotShaped, CO!EraseShaped, CO!Free
  <2>3. /\ next = [op |-> "erase", pc |-> me.pc, subject |-> me.subject, left |-> me.left \ {i},
                   snapshot |-> me.snapshot, all |-> me.all]
    BY <1>1 DEF CO!EraseShaped
  <2>4. store'[i].subject # me.subject
    BY <1>3, <1>5, <1>7
  <2> HIDE DEF next
  <2>5. CO!EraseShaped(next, store', excepted')
    BY <2>2, <2>3, <2>4 DEF CO!EraseShaped
  <2> QED BY <2>3, <2>5 DEF CO!SlotShaped
<1>9. /\ past \subseteq past' /\ past' \subseteq DOMAIN store'
      /\ \A j \in past' \ past : store'[j].status = "revoked"
      /\ sent' = [x \in consent.Subjects |-> sent'[x]]
      /\ \A x \in consent.Subjects : \A j \in sent'[x] : j \in DOMAIN store /\ j \in sent[x]
  BY <1>2, <1>3, <1>4, <1>7 DEF CO!ConsentInv
<1> HIDE DEF next
<1> QED BY <1>6, <1>7, <1>8, <1>9, RequestServed

LEMMA ErasureEndStep ==
  ASSUME CO!ConsentInv, NEW q \in consent.Slots, CO!EndErasure(q)
  PROVE  CO!ConsentInv'
<1> DEFINE me == local[q]
<1>1. /\ me.left = {} /\ sent' = [sent EXCEPT ![me.subject] = @ \cup me.all]
      /\ local' = [local EXCEPT ![q] = CO!Free] /\ UNCHANGED <<store, past, excepted>>
  BY DEF CO!EndErasure, CO!End
<1>2. CO!EraseShaped(me, store, excepted)
  BY ServedIsShaped DEF CO!EndErasure, CO!At
<1>3. Promises /\ store' \in Seq(CO!ConsentRecords) /\ CO!SlotShaped(CO!Free, store', excepted')
  BY <1>1, NothingWritten DEF CO!SlotShaped
<1>4. past \subseteq past' /\ past' \subseteq DOMAIN store' /\ past' \ past = {}
  BY <1>1 DEF CO!ConsentInv
<1>5. /\ sent' = [x \in consent.Subjects |-> sent'[x]]
      /\ \A x \in consent.Subjects : sent'[x] = IF x = me.subject THEN sent[x] \cup me.all ELSE sent[x]
  BY <1>1 DEF CO!ConsentInv
<1>6. \A i \in me.all : /\ i \in DOMAIN store
                        /\ store[i].subject # me.subject \/ <<"consent", i>> \in excepted
  BY <1>1, <1>2 DEF CO!EraseShaped
<1>7. ASSUME NEW x \in consent.Subjects, NEW i \in sent'[x]
      PROVE  i \in DOMAIN store /\ (i \in sent[x] \/ store[i].subject # x \/ <<"consent", i>> \in excepted)
  BY <1>5, <1>6, <1>7 DEF CO!ConsentInv
<1> QED BY <1>1, <1>3, <1>4, <1>5, <1>7, RequestServed

-----------------------------------------------------------------------------
(* The TIN graph.                                                          *)

TinsKept(e, f) == DOMAIN e \subseteq DOMAIN f /\ \A n \in DOMAIN e : f[n].tin = e[n].tin
MergesKept(m, n) ==
  DOMAIN m \subseteq DOMAIN n /\ \A i \in DOMAIN m : n[i].surv = m[i].surv /\ n[i].merged = m[i].merged

\* A set of naturals has a least element.
LEMMA LeastPosition ==
  ASSUME NEW S, S \subseteq Nat, S # {}
  PROVE  \E x \in S : \A y \in S : x <= y
<1>1. PICK x \in S : \A y \in S : ~ (<<y, x>> \in OpToRel(<, Nat))
  BY NatLessThanWellFounded, WFMin, Zenon
<1>2. \A y \in S : ~ (y < x)
  BY <1>1, Zenon DEF OpToRel
<1> QED BY <1>2

LEMMA LatestPosition ==
  ASSUME NEW len \in Nat, NEW S, S \subseteq 1..len, S # {}
  PROVE  \E x \in S : \A y \in S : y <= x
<1>1. PICK D : D = {len - x : x \in S}
  OBVIOUS
<1>2. D \subseteq Nat /\ D # {}
  <2>1. \A x \in S : len - x \in Nat
    OBVIOUS
  <2> QED BY <1>1, <2>1
<1>3. PICK d \in D : \A e \in D : d <= e
  BY <1>2, LeastPosition
<1>4. PICK x \in S : d = len - x
  BY <1>1
<1>5. ASSUME NEW y \in S PROVE y <= x
  <2>1. len - y \in D
    BY <1>1
  <2>2. len - x <= len - y
    BY <1>3, <1>4, <2>1
  <2> QED BY <2>2
<1> QED BY <1>5

\* Who looks for a TIN in order finds it if it is there.
LEMMA FindsFirst ==
  ASSUME NEW S, NEW list \in Seq(S), NEW tin
  PROVE  /\ \A n \in TG!Find(list, tin) : n \in DOMAIN list /\ list[n].tin = tin
         /\ TG!Find(list, tin) = {} => \A n \in DOMAIN list : list[n].tin # tin
<1>1. \A n \in TG!Find(list, tin) : n \in DOMAIN list /\ list[n].tin = tin
  BY DEF TG!Find
<1>2. ASSUME NEW n \in DOMAIN list, list[n].tin = tin PROVE TG!Find(list, tin) # {}
  <2> DEFINE M == {k \in DOMAIN list : list[k].tin = tin}
  <2>1. DOMAIN list = 1..Len(list) /\ Len(list) \in Nat
    OBVIOUS
  <2>2. M \subseteq Nat /\ M # {}
    BY <1>2, <2>1
  <2>3. PICK k \in M : \A j \in M : k <= j
    BY <2>2, LeastPosition
  <2>4. \A j \in 1..k - 1 : list[j].tin # tin
    BY <2>1, <2>2, <2>3
  <2>5. k \in TG!Find(list, tin)
    BY <2>4 DEF TG!Find
  <2> QED BY <2>5
<1> QED BY <1>1, <1>2

\* A local state keeps its meaning while documents are added and rewritten.
LEMMA RequestKept ==
  ASSUME NEW me, NEW e, NEW f, NEW m, NEW n, TinsKept(e, f), MergesKept(m, n), TG!ReqShaped(me, e, m)
  PROVE  TG!ReqShaped(me, f, n)
<1>1. \A doc, id : TG!CopyOf(doc, id, e) => TG!CopyOf(doc, id, f)
  BY DEF TinsKept, TG!CopyOf
<1>2. TG!WriteShaped(me, e) => TG!WriteShaped(me, f)
  BY <1>1 DEF TG!WriteShaped
<1>3. TG!MergeShaped(me, e) => TG!MergeShaped(me, f)
  BY <1>1 DEF TG!MergeShaped, TG!CopiesFit
<1>4. TG!UnmergeShaped(me, m) => TG!UnmergeShaped(me, n)
  <2> SUFFICES ASSUME TG!UnmergeShaped(me, m) PROVE TG!UnmergeShaped(me, n)
    OBVIOUS
  <2>1. me.m \in DOMAIN m /\ n[me.m].surv = m[me.m].surv /\ n[me.m].merged = m[me.m].merged
    BY DEF TG!UnmergeShaped, MergesKept
  <2> QED BY <2>1 DEF TG!UnmergeShaped, MergesKept
<1> QED BY <1>2, <1>3, <1>4 DEF TG!ReqShaped

\* What a request that is served looks like.
LEMMA RequestIsShaped ==
  ASSUME TG!TinTypes, NEW r \in tinGraph.Requests
  PROVE  /\ local[r].op \in {"provision", "kyb"} => TG!WriteShaped(local[r], store)
         /\ local[r].op = "status" => TG!StatusShaped(local[r])
         /\ local[r].op = "merge" => TG!MergeShaped(local[r], store)
         /\ local[r].op = "unmerge" => TG!UnmergeShaped(local[r], past)
         /\ local[r].op = "scan" => TG!ScanShaped(local[r])
         /\ local[r].pc = "new" => local[r] = TG!Idle
         /\ ~TG!Busy(r) => local[r].op = "none"
         /\ local[r].op = "none" => ~TG!Busy(r)
<1> DEFINE me == local[r]
<1>1. TG!ReqShaped(me, store, past)
  BY DEF TG!TinTypes
<1>2. /\ TG!Idle.op = "none" /\ TG!Served.op = "none" /\ TG!Idle.pc = "new" /\ TG!Served.pc = "done"
  BY DEF TG!Idle, TG!Served
<1>3. TG!Busy(r) <=> me.pc \notin {"new", "done"}
  BY DEF TG!Busy
<1> HIDE DEF me
<1>4. /\ TG!WriteShaped(me, store) => me.pc \notin {"new", "done"}
      /\ TG!StatusShaped(me) => me.pc \notin {"new", "done"}
      /\ TG!MergeShaped(me, store) => me.pc \notin {"new", "done"}
      /\ TG!UnmergeShaped(me, past) => me.pc \notin {"new", "done"}
      /\ TG!ScanShaped(me) => me.pc \notin {"new", "done"}
  BY DEF TG!WriteShaped, TG!StatusShaped, TG!MergeShaped, TG!UnmergeShaped, TG!ScanShaped
<1>5. /\ me.op \in {"provision", "kyb"} => TG!WriteShaped(me, store)
      /\ me.op = "status" => TG!StatusShaped(me)
      /\ me.op = "merge" => TG!MergeShaped(me, store)
      /\ me.op = "unmerge" => TG!UnmergeShaped(me, past)
      /\ me.op = "scan" => TG!ScanShaped(me)
      /\ me.pc = "new" => me = TG!Idle
      /\ ~TG!Busy(r) => me.op = "none"
      /\ me.op = "none" => ~TG!Busy(r)
  BY <1>1, <1>2, <1>3, <1>4 DEF TG!ReqShaped
<1> QED BY <1>5 DEF me

\* The TINs that a request names are TINs it works on.
LEMMA WorkedOn ==
  ASSUME TG!TinTypes, NEW r \in tinGraph.Requests
  PROVE  /\ local[r].op \in {"provision", "kyb"} =>
              TG!Busy(r) /\ local[r].tins = {local[r].doc.tin} /\ local[r].doc.tin \in tinGraph.TINs
         /\ local[r].op = "status" => TG!Busy(r) /\ local[r].tin \in local[r].tins \cap tinGraph.TINs
         /\ local[r].op = "merge" =>
              TG!Busy(r) /\ {local[r].surv, local[r].merged} \subseteq local[r].tins \cap tinGraph.TINs
         /\ local[r].op = "unmerge" =>
              TG!Busy(r) /\ local[r].merged \in local[r].tins \cap tinGraph.TINs
<1>1. local[r].op # "none" => TG!Busy(r)
  BY RequestIsShaped
<1>2. CASE local[r].op \in {"provision", "kyb"}
  <2>1. TG!WriteShaped(local[r], store)
    BY <1>2, RequestIsShaped
  <2>2. local[r].tins = {local[r].doc.tin} /\ local[r].doc \in TG!EntityRecords
    BY <2>1 DEF TG!WriteShaped
  <2>3. local[r].doc.tin \in tinGraph.TINs
    BY <2>2 DEF TG!EntityRecords
  <2> QED BY <1>1, <1>2, <2>2, <2>3
<1>3. CASE local[r].op = "status"
  <2>1. TG!StatusShaped(local[r])
    BY <1>3, RequestIsShaped
  <2> QED BY <1>1, <1>3, <2>1 DEF TG!StatusShaped
<1>4. CASE local[r].op = "merge"
  <2>1. TG!MergeShaped(local[r], store)
    BY <1>4, RequestIsShaped
  <2> QED BY <1>1, <1>4, <2>1 DEF TG!MergeShaped
<1>5. CASE local[r].op = "unmerge"
  <2>1. TG!UnmergeShaped(local[r], past)
    BY <1>5, RequestIsShaped
  <2>2. local[r].m \in DOMAIN past /\ local[r].merged = past[local[r].m].merged
    BY <2>1 DEF TG!UnmergeShaped
  <2>3. past[local[r].m] \in TG!MergeRecords
    BY <2>2 DEF TG!TinTypes
  <2>4. past[local[r].m].merged \in tinGraph.TINs
    BY <2>3 DEF TG!MergeRecords
  <2>5. local[r].merged \in local[r].tins
    BY <2>1 DEF TG!UnmergeShaped
  <2> QED BY <1>1, <1>5, <2>2, <2>4, <2>5
<1> QED BY <1>2, <1>3, <1>4, <1>5

LEMMA TinTypesKept ==
  ASSUME TG!TinTypes, NEW r \in tinGraph.Requests, NEW me,
         local' = [local EXCEPT ![r] = me], TG!ReqShaped(me, store', past'),
         TinsKept(store, store'), store' \in Seq(TG!EntityRecords),
         MergesKept(past, past'), past' \in Seq(TG!MergeRecords),
         \A n \in DOMAIN past' : TG!CopiesFit(past'[n], store),
         mirror' \in [loaded : BOOLEAN, list : Seq(TG!EntityRecords)],
         u' \in [tinGraph.TINs -> [status : TG!LifecycleStatus, into : tinGraph.TINs \cup {TG!NoTIN}]],
         v' \in [tinGraph.Registrations -> tinGraph.TINs]
  PROVE  TG!TinTypes'
<1>1. ASSUME NEW q \in tinGraph.Requests PROVE TG!ReqShaped(local'[q], store', past')
  <2>1. CASE q = r
    BY <2>1 DEF TG!TinTypes
  <2>2. CASE q # r
    <3>1. local'[q] = local[q] /\ TG!ReqShaped(local[q], store, past)
      BY <2>2 DEF TG!TinTypes
    <3>2. TG!ReqShaped(local[q], store', past')
      BY <3>1, RequestKept
    <3> QED BY <3>1, <3>2
  <2> QED BY <2>1, <2>2
<1>2. \A n \in DOMAIN past' : TG!CopiesFit(past'[n], store')
  BY DEF TG!CopiesFit, TG!CopyOf, TinsKept
<1>3. local' = [q \in tinGraph.Requests |-> local'[q]]
  BY DEF TG!TinTypes
<1> QED BY <1>1, <1>2, <1>3 DEF TG!TinTypes

\* A request that has begun or goes on shares TINs with others only as noted.
LEMMA ExclusiveKept ==
  ASSUME TG!TinTypes, TG!Exclusive, NEW r \in tinGraph.Requests, NEW me,
         local' = [local EXCEPT ![r] = me], excepted \subseteq excepted',
         me.pc \in {"new", "done"} \/ (TG!Busy(r) /\ me.tins = local[r].tins)
           \/ \A q \in tinGraph.Requests \ {r} : TG!Busy(q) => me.tins \cap local[q].tins \subseteq excepted'
  PROVE  TG!Exclusive'
<1>1. \A q \in tinGraph.Requests : local'[q] = IF q = r THEN me ELSE local[q]
  BY DEF TG!TinTypes
<1>2. \A q \in tinGraph.Requests \ {r} :
        me.pc \notin {"new", "done"} /\ TG!Busy(q) => me.tins \cap local[q].tins \subseteq excepted'
  BY DEF TG!Exclusive
<1>3. \A q \in tinGraph.Requests : TG!Busy(q)' <=> local'[q].pc \notin {"new", "done"}
  BY DEF TG!Busy
<1>4. \A q \in tinGraph.Requests : TG!Busy(q) <=> local[q].pc \notin {"new", "done"}
  BY DEF TG!Busy
<1>5. ASSUME NEW p \in tinGraph.Requests, NEW q \in tinGraph.Requests, p # q,
             TG!Busy(p)', TG!Busy(q)'
      PROVE  local'[p].tins \cap local'[q].tins \subseteq excepted'
  <2>1. CASE p = r
    BY <1>1, <1>2, <1>3, <1>4, <1>5, <2>1
  <2>2. CASE q = r
    BY <1>1, <1>2, <1>3, <1>4, <1>5, <2>2
  <2>3. CASE p # r /\ q # r
    BY <1>1, <1>3, <1>4, <1>5, <2>3 DEF TG!Exclusive
  <2> QED BY <2>1, <2>2, <2>3
<1> QED BY <1>5 DEF TG!Exclusive

\* The index as it is, built anew, or given up.
Refreshed ==
  mirror' \in {mirror, TG!Ensured, [mirror EXCEPT !.loaded = FALSE], [loaded |-> FALSE, list |-> <<>>]}

LEMMA IndexTyped ==
  ASSUME NEW L, store \in L, <<>> \in L, mirror \in [loaded : BOOLEAN, list : L], Refreshed
  PROVE  mirror' \in [loaded : BOOLEAN, list : L]
<1>1. TG!Ensured \in [loaded : BOOLEAN, list : L]
  BY DEF TG!Ensured
<1>2. [mirror EXCEPT !.loaded = FALSE] \in [loaded : BOOLEAN, list : L]
  OBVIOUS
<1>3. [loaded |-> FALSE, list |-> <<>>] \in [loaded : BOOLEAN, list : L]
  OBVIOUS
<1> QED BY <1>1, <1>2, <1>3 DEF Refreshed

LEMMA IndexKept ==
  ASSUME TG!TinTypes, TG!IndexInv, store' = store, Refreshed,
         excepted \subseteq excepted', count => count',
         \A q \in tinGraph.Requests, tin \in tinGraph.TINs :
           /\ TG!Provisions(q, tin, "invalidate") => TG!Provisions(q, tin, "invalidate")' \/ ~mirror'.loaded
           /\ TG!Provisions(q, tin, "put")' =>
                \/ TG!Provisions(q, tin, "put")
                \/ ~TG!Present(tin) \/ tin \in excepted' \/ count
  PROVE  TG!IndexInv' /\ mirror' \in [loaded : BOOLEAN, list : Seq(TG!EntityRecords)]
<1>1. /\ store \in Seq(TG!EntityRecords) /\ mirror \in [loaded : BOOLEAN, list : Seq(TG!EntityRecords)]
      /\ \A n \in DOMAIN store : store[n].tin \in tinGraph.TINs
  <2>1. /\ store \in Seq(TG!EntityRecords) /\ mirror \in [loaded : BOOLEAN, list : Seq(TG!EntityRecords)]
        /\ \A n \in DOMAIN store : store[n] \in TG!EntityRecords
    BY DEF TG!TinTypes
  <2>2. \A e \in TG!EntityRecords : e.tin \in tinGraph.TINs
    BY DEF TG!EntityRecords
  <2> QED BY <2>1, <2>2
<1>2. \A tin : TG!Present(tin)' <=> TG!Present(tin)
  BY DEF TG!Present
<1>3. TG!OneEntityPerTIN'
  BY DEF TG!IndexInv, TG!OneEntityPerTIN
<1>4. \A q \in tinGraph.Requests, tin \in tinGraph.TINs :
        TG!Provisions(q, tin, "put")' => ~TG!Present(tin)' \/ tin \in excepted' \/ count'
  BY <1>2 DEF TG!IndexInv
<1>5. \/ mirror' = mirror
      \/ mirror'.loaded = FALSE /\ mirror'.list = mirror.list
      \/ mirror'.loaded = TRUE /\ mirror'.list = store
      \/ mirror'.loaded = FALSE /\ mirror'.list = <<>>
  BY <1>1 DEF Refreshed, TG!Ensured
<1>6. /\ DOMAIN mirror'.list \subseteq DOMAIN store
      /\ \A n \in DOMAIN mirror'.list : mirror'.list[n].tin = store[n].tin
  BY <1>5 DEF TG!IndexInv
<1>7. ASSUME mirror'.loaded, NEW n \in DOMAIN store
      PROVE  \/ \E k \in DOMAIN mirror'.list : mirror'.list[k].tin = store[n].tin
             \/ store[n].tin \in excepted' \/ count'
             \/ \E r \in tinGraph.Requests : TG!Provisions(r, store[n].tin, "invalidate")'
  <2>1. CASE mirror' = mirror
    <3>1. \/ \E k \in DOMAIN mirror.list : mirror.list[k].tin = store[n].tin
          \/ store[n].tin \in excepted \/ count
          \/ \E r \in tinGraph.Requests : TG!Provisions(r, store[n].tin, "invalidate")
      BY <1>7, <2>1 DEF TG!IndexInv
    <3> QED BY <1>1, <1>7, <2>1, <3>1
  <2>2. CASE mirror'.loaded = TRUE /\ mirror'.list = store
    BY <2>2
  <2> QED BY <1>5, <1>7, <2>1, <2>2
<1>8. mirror' \in [loaded : BOOLEAN, list : Seq(TG!EntityRecords)]
  <2>1. <<>> \in Seq(TG!EntityRecords)
    OBVIOUS
  <2> QED BY <1>1, <2>1, IndexTyped
<1> QED BY <1>3, <1>4, <1>6, <1>7, <1>8 DEF TG!IndexInv

\* A TIN that a step of request r leaves alone.
TinKept(r, t) ==
  /\ u'[t] = u[t]
  /\ TG!OpenMerges(t) # {} => TG!OpenMerges(t)' # {}
  /\ \A x \in tinGraph.Registrations : v'[x] = t => v[x] = t
  /\ TG!ComingBack(r, t) => TG!ComingBack(r, t)'

\* A TIN that a step changes, and that is as a merge leaves it.
TinSettled(t) ==
  /\ u'[t].status = "merged_into" => TG!OpenMerges(t)' # {} \/ t \in excepted' \cup mode'
  /\ TG!MergedIsEmpty(t)'
  /\ u'[t].status = "merged_into" =>
       \/ u'[t] = u[t] \/ u'[t].into \notin tinGraph.TINs
       \/ u'[t].into \in excepted' \/ u'[u'[t].into].status # "merged_into"

\* A step of request r changes the TINs in T only, of those it works on: what
\* holds of other TINs and of other requests is left alone.
LEMMA MergeKept ==
  ASSUME TG!TinTypes, TG!Exclusive, TG!MergeInv, NEW r \in tinGraph.Requests, NEW me, NEW T,
         T \subseteq tinGraph.TINs, T # {} => TG!Busy(r) /\ T \subseteq local[r].tins,
         local' = [local EXCEPT ![r] = me],
         excepted \subseteq excepted', w \subseteq w', mode \subseteq mode',
         \A t \in tinGraph.TINs \ T : TinKept(r, t),
         TG!MergeUnderWay(r)',
         \A t \in T : TinSettled(t)
  PROVE  TG!MergeInv'
<1>1. \A q \in tinGraph.Requests : local'[q] = IF q = r THEN me ELSE local[q]
  BY DEF TG!TinTypes
<1>2. ASSUME NEW q \in tinGraph.Requests, q # r PROVE TG!MergeUnderWay(q)'
  <2>0. local'[q] = local[q] /\ TG!MergeUnderWay(q)
    BY <1>1, <1>2 DEF TG!MergeInv
  <2>1. T # {} /\ TG!Busy(q) => local[q].tins \cap local[r].tins \subseteq excepted
    BY <1>2 DEF TG!Exclusive
  <2>2. TG!Busy(q) => \A t \in local[q].tins \cap tinGraph.TINs : t \in excepted' \/ TinKept(r, t)
    BY <2>1
  <2>3. CASE local[q].op \notin {"merge", "unmerge"}
    BY <2>0, <2>3 DEF TG!MergeUnderWay
  <2>4. CASE local[q].op = "merge"
    <3>1. TG!Busy(q) /\ {local[q].surv, local[q].merged} \subseteq local[q].tins \cap tinGraph.TINs
      BY <2>4, WorkedOn
    <3>2. /\ local[q].surv \in excepted' \/ TinKept(r, local[q].surv)
          /\ local[q].merged \in excepted' \/ TinKept(r, local[q].merged)
      BY <2>2, <3>1
    <3> QED BY <2>0, <2>4, <3>2 DEF TG!MergeUnderWay, TinKept
  <2>5. CASE local[q].op = "unmerge"
    <3>1. TG!Busy(q) /\ local[q].merged \in local[q].tins \cap tinGraph.TINs
      BY <2>5, WorkedOn
    <3>2. local[q].merged \in excepted' \/ TinKept(r, local[q].merged)
      BY <2>2, <3>1
    <3> QED BY <2>0, <2>5, <3>2 DEF TG!MergeUnderWay, TinKept
  <2> QED BY <2>3, <2>4, <2>5
<1>3. ASSUME NEW t \in tinGraph.TINs, t \notin excepted' \cup mode', u'[t].status = "merged_into"
      PROVE  TG!OpenMerges(t)' # {}
  <2>1. CASE t \notin T
    <3>1. TinKept(r, t)
      BY <2>1
    <3> QED BY <1>3, <3>1 DEF TG!MergeInv, TG!MergedIsReversible, TinKept
  <2>2. CASE t \in T
    <3>1. TinSettled(t)
      BY <2>2
    <3> QED BY <1>3, <3>1 DEF TinSettled
  <2> QED BY <2>1, <2>2
<1>4. ASSUME NEW t \in tinGraph.TINs PROVE TG!MergedIsEmpty(t)'
  <2>1. CASE t \notin T
    <3>1. TinKept(r, t) /\ TG!MergedIsEmpty(t)
      BY <2>1 DEF TG!MergeInv
    <3>2. \A q \in tinGraph.Requests : TG!ComingBack(q, t) => TG!ComingBack(q, t)'
      BY <1>1, <3>1 DEF TG!ComingBack, TinKept
    <3> QED BY <3>1, <3>2 DEF TG!MergedIsEmpty, TinKept
  <2>2. CASE t \in T
    <3>1. TinSettled(t)
      BY <2>2
    <3> QED BY <3>1 DEF TinSettled
  <2> QED BY <2>1, <2>2
<1>5. ASSUME NEW C \in (SUBSET tinGraph.TINs) \ {{}},
             \A t \in C : u'[t].status = "merged_into" /\ u'[t].into \in C
      PROVE  C \cap excepted' # {}
  <2> SUFFICES ASSUME C \cap excepted' = {} PROVE FALSE
    OBVIOUS
  <2>1. ASSUME NEW t \in C PROVE u'[t] = u[t]
    <3>1. u'[t].into \in C /\ u'[u'[t].into].status = "merged_into"
      BY <1>5
    <3>2. TinKept(r, t) \/ TinSettled(t)
      OBVIOUS
    <3> QED BY <3>1, <3>2, <1>5 DEF TinKept, TinSettled
  <2>2. \A t \in C : u[t].status = "merged_into" /\ u[t].into \in C
    BY <1>5, <2>1
  <2>3. C \cap excepted # {}
    BY <2>2 DEF TG!MergeInv, TG!NoMergeCycle
  <2> QED BY <2>3
<1>6. TG!NoMergeCycle'
  BY <1>5 DEF TG!NoMergeCycle
<1>7. TG!MergedIsReversible'
  BY <1>3 DEF TG!MergedIsReversible
<1>8. \A q \in tinGraph.Requests : TG!MergeUnderWay(q)'
  BY <1>2
<1>9. \A t \in tinGraph.TINs : TG!MergedIsEmpty(t)'
  BY <1>4
<1> QED BY <1>6, <1>7, <1>8, <1>9 DEF TG!MergeInv

LEMMA NothingMerged ==
  ASSUME TG!TinTypes, TG!Exclusive, TG!MergeInv, NEW r \in tinGraph.Requests, NEW me,
         local' = [local EXCEPT ![r] = me],
         excepted \subseteq excepted', w \subseteq w', mode \subseteq mode',
         \A t \in tinGraph.TINs : TinKept(r, t), TG!MergeUnderWay(r)'
  PROVE  TG!MergeInv'
<1>1. PICK T : T = {}
  OBVIOUS
<1>2. T \subseteq tinGraph.TINs /\ (T # {} => TG!Busy(r) /\ T \subseteq local[r].tins)
  BY <1>1
<1>3. (\A t \in tinGraph.TINs \ T : TinKept(r, t)) /\ (\A t \in T : TinSettled(t))
  BY <1>1
<1> QED BY <1>2, <1>3, MergeKept

\* A request begins: it has only read, and TINs others work on are noted.
LEMMA TinBeginStep ==
  ASSUME TG!TinInv, NEW r \in tinGraph.Requests, NEW me, TG!Start(r, me),
         me.pc # "done" => TG!ReqShaped(me, store, past),
         UNCHANGED <<store, u, v, past, w, count, mode>>, mirror' \in {mirror, TG!Ensured},
         me.pc # "done" =>
           /\ me.op = "merge" => me.pc = "lifecycles"
           /\ me.op = "unmerge" => me.pc # "receipt"
           /\ me.op = "provision" =>
                me.pc = "put" /\ (~TG!Present(me.doc.tin) \/ me.doc.tin \in excepted' \/ count)
  PROVE  TG!TinInv'
<1> DEFINE new == IF me.pc = "done" THEN TG!Served ELSE me
<1>1. TG!TinTypes /\ TG!Exclusive /\ TG!IndexInv /\ TG!MergeInv
  BY DEF TG!TinInv
<1>2. local[r].pc = "new" /\ local[r] = TG!Idle /\ local[r].op = "none" /\ ~TG!Busy(r)
  BY <1>1, RequestIsShaped DEF TG!Start, TG!Busy, TG!Idle
<1>3. local' = [local EXCEPT ![r] = new] /\ excepted \subseteq excepted'
  BY DEF TG!Start
<1>4. local' = [q \in tinGraph.Requests |-> IF q = r THEN new ELSE local[q]]
  BY <1>1, <1>3 DEF TG!TinTypes
<1>5. TG!ReqShaped(new, store', past')
  BY DEF TG!ReqShaped
<1>6. /\ new.op = "merge" => new.pc = "lifecycles"
      /\ new.op = "unmerge" => new.pc # "receipt"
      /\ new.op = "provision" =>
           new.pc = "put" /\ (~TG!Present(new.doc.tin) \/ new.doc.tin \in excepted' \/ count)
  BY DEF TG!Served
<1>7. \A q \in tinGraph.Requests \ {r} : TG!Busy(q) => new.tins \cap local[q].tins \subseteq excepted'
  BY DEF TG!Start, TG!Served
<1> HIDE DEF new
<1>8. TG!Exclusive'
  BY <1>1, <1>3, <1>7, ExclusiveKept
<1>9. TG!IndexInv' /\ mirror' \in [loaded : BOOLEAN, list : Seq(TG!EntityRecords)]
  <2>1. \A q \in tinGraph.Requests \ {r} : local'[q] = local[q]
    BY <1>4
  <2>2. \A q \in tinGraph.Requests, tin \in tinGraph.TINs :
          /\ TG!Provisions(q, tin, "invalidate") => TG!Provisions(q, tin, "invalidate")'
          /\ TG!Provisions(q, tin, "put")' =>
               \/ TG!Provisions(q, tin, "put")
               \/ ~TG!Present(tin) \/ tin \in excepted' \/ count
    <3> TAKE q \in tinGraph.Requests, tin \in tinGraph.TINs
    <3>1. CASE q = r
      BY <1>2, <1>4, <1>6, <3>1 DEF TG!Provisions
    <3>2. CASE q # r
      BY <2>1, <3>2 DEF TG!Provisions
    <3> QED BY <3>1, <3>2
  <2> QED BY <1>1, <1>3, <2>2, IndexKept DEF Refreshed
<1>10. TG!TinTypes'
  <2>1. TinsKept(store, store') /\ MergesKept(past, past')
    BY DEF TinsKept, MergesKept
  <2>2. /\ store' \in Seq(TG!EntityRecords) /\ past' \in Seq(TG!MergeRecords)
        /\ \A n \in DOMAIN past' : TG!CopiesFit(past'[n], store)
        /\ u' \in [tinGraph.TINs -> [status : TG!LifecycleStatus, into : tinGraph.TINs \cup {TG!NoTIN}]]
        /\ v' \in [tinGraph.Registrations -> tinGraph.TINs]
    BY <1>1 DEF TG!TinTypes
  <2> QED BY <1>1, <1>3, <1>5, <1>9, <2>1, <2>2, TinTypesKept
<1>11. TG!MergeInv'
  <2>1. \A t \in tinGraph.TINs : TinKept(r, t)
    BY <1>2 DEF TinKept, TG!OpenMerges, TG!ComingBack
  <2>2. TG!MergeUnderWay(r)'
    BY <1>4, <1>6 DEF TG!MergeUnderWay
  <2> QED BY <1>1, <1>3, <2>1, <2>2, NothingMerged
<1> QED BY <1>8, <1>9, <1>10, <1>11 DEF TG!TinInv

\* A request goes on or ends, and nothing it keeps has changed.
LEMMA GoOnStep ==
  ASSUME TG!TinInv, NEW r \in tinGraph.Requests, NEW me, local' = [local EXCEPT ![r] = me],
         TG!ReqShaped(me, store, past),
         me.pc = "done" \/ (TG!Busy(r) /\ me.tins = local[r].tins),
         UNCHANGED <<store, u, v, past, excepted, count, mode>>, w \subseteq w', Refreshed,
         \A tin \in tinGraph.TINs :
           /\ TG!Provisions(r, tin, "invalidate") => TG!Provisions(r, tin, "invalidate")' \/ ~mirror'.loaded
           /\ TG!Provisions(r, tin, "put")' => TG!Provisions(r, tin, "put")
           /\ TG!ComingBack(r, tin) => TG!ComingBack(r, tin)' \/ tin \in w',
         TG!MergeUnderWay(r)'
  PROVE  TG!TinInv'
<1>1. TG!TinTypes /\ TG!Exclusive /\ TG!IndexInv /\ TG!MergeInv
  BY DEF TG!TinInv
<1>2. \A q \in tinGraph.Requests \ {r} : local'[q] = local[q]
  BY <1>1 DEF TG!TinTypes
<1>3. TG!Exclusive'
  BY <1>1, ExclusiveKept
<1>4. TG!IndexInv' /\ mirror' \in [loaded : BOOLEAN, list : Seq(TG!EntityRecords)]
  <2>1. \A q \in tinGraph.Requests, tin \in tinGraph.TINs :
          /\ TG!Provisions(q, tin, "invalidate") => TG!Provisions(q, tin, "invalidate")' \/ ~mirror'.loaded
          /\ TG!Provisions(q, tin, "put")' =>
               \/ TG!Provisions(q, tin, "put")
               \/ ~TG!Present(tin) \/ tin \in excepted' \/ count
    <3> TAKE q \in tinGraph.Requests, tin \in tinGraph.TINs
    <3>1. CASE q = r
      BY <3>1
    <3>2. CASE q # r
      BY <1>2, <3>2 DEF TG!Provisions
    <3> QED BY <3>1, <3>2
  <2> QED BY <1>1, <2>1, IndexKept
<1>5. TG!TinTypes'
  <2>1. TinsKept(store, store') /\ MergesKept(past, past')
    BY DEF TinsKept, MergesKept
  <2>2. /\ store' \in Seq(TG!EntityRecords) /\ past' \in Seq(TG!MergeRecords)
        /\ \A n \in DOMAIN past' : TG!CopiesFit(past'[n], store)
        /\ u' \in [tinGraph.TINs -> [status : TG!LifecycleStatus, into : tinGraph.TINs \cup {TG!NoTIN}]]
        /\ v' \in [tinGraph.Registrations -> tinGraph.TINs]
    BY <1>1 DEF TG!TinTypes
  <2>3. TG!ReqShaped(me, store', past')
    OBVIOUS
  <2> QED BY <1>1, <1>4, <2>1, <2>2, <2>3, TinTypesKept
<1>6. TG!MergeInv'
  <2>1. PICK T : T = {t \in tinGraph.TINs : TG!ComingBack(r, t) /\ t \in w'}
    OBVIOUS
  <2>2. \A t \in T : TG!Busy(r) /\ t \in local[r].tins
    BY <1>1, <2>1, WorkedOn DEF TG!ComingBack
  <2>3. T \subseteq tinGraph.TINs /\ (T # {} => TG!Busy(r) /\ T \subseteq local[r].tins)
    BY <2>1, <2>2
  <2>4. \A t \in tinGraph.TINs : TG!OpenMerges(t)' = TG!OpenMerges(t)
    BY DEF TG!OpenMerges
  <2>5. \A t \in tinGraph.TINs \ T : TinKept(r, t)
    BY <2>1, <2>4 DEF TinKept
  <2>6. \A t \in T : TinSettled(t)
    BY <1>1, <2>1, <2>4 DEF TinSettled, TG!MergedIsEmpty, TG!MergeInv, TG!MergedIsReversible
  <2> QED BY <1>1, <2>3, <2>5, <2>6, MergeKept
<1> QED BY <1>3, <1>4, <1>5, <1>6 DEF TG!TinInv

LEMMA EnsuredFits ==
  ASSUME TG!TinTypes, TG!IndexInv
  PROVE  /\ TG!Ensured.list \in Seq(TG!EntityRecords)
         /\ \A n \in DOMAIN TG!Ensured.list :
              /\ TG!Ensured.list[n] \in TG!EntityRecords
              /\ n \in DOMAIN store /\ store[n].tin = TG!Ensured.list[n].tin
<1>1. store \in Seq(TG!EntityRecords) /\ mirror.list \in Seq(TG!EntityRecords)
  BY DEF TG!TinTypes
<1>2. TG!Ensured.list \in {store, mirror.list}
  BY DEF TG!Ensured
<1>3. TG!Ensured.list \in Seq(TG!EntityRecords)
  BY <1>1, <1>2
<1>4. \A n \in DOMAIN TG!Ensured.list : TG!Ensured.list[n] \in TG!EntityRecords
  BY <1>3
<1>5. \A n \in DOMAIN TG!Ensured.list : n \in DOMAIN store /\ store[n].tin = TG!Ensured.list[n].tin
  BY <1>2 DEF TG!IndexInv
<1> QED BY <1>3, <1>4, <1>5

LEMMA ProvisionStep ==
  ASSUME TG!TinInv, NEW r \in tinGraph.Requests, NEW tin \in tinGraph.TINs,
         NEW profile \in tinGraph.Profiles, TG!Provision(r, tin, profile)
  PROVE  TG!TinInv'
<1>1. TG!TinTypes /\ TG!IndexInv
  BY DEF TG!TinInv
<1>2. PICK me : me = [op |-> "provision", tins |-> {tin}, doc |-> TG!Entity(tin), profile |-> profile,
                      at |-> Len(store) + 1,
                      pc |-> IF TG!Find(TG!Ensured.list, tin) = {} THEN "put" ELSE "done"]
  OBVIOUS
<1>3. TG!Start(r, me) /\ mirror' = TG!Ensured /\ UNCHANGED <<store, u, v, past, w, count, mode>>
  BY <1>2 DEF TG!Provision, TG!store
<1>4. TG!Entity(tin) \in TG!EntityRecords /\ TG!Entity(tin).tin = tin
  BY DEF TG!Entity, TG!EntityRecords, TG!NoShares
<1>5. me.op = "provision" /\ me.pc \in {"put", "done"} /\ me.doc.tin = tin /\ me.tins = {tin}
  BY <1>2, <1>4
<1>6. me.pc # "done" => TG!ReqShaped(me, store, past)
  BY <1>2, <1>4, <1>5 DEF TG!ReqShaped, TG!WriteShaped
<1>7. ASSUME me.pc # "done", TG!Present(tin) PROVE tin \in excepted' \/ count
  <2>1. TG!Find(TG!Ensured.list, tin) = {}
    BY <1>2, <1>7
  <2>2. \A n \in DOMAIN TG!Ensured.list : TG!Ensured.list[n].tin # tin
    BY <1>1, <2>1, EnsuredFits, FindsFirst
  <2>3. PICK n \in DOMAIN store : store[n].tin = tin
    BY <1>7 DEF TG!Present
  <2>4. mirror.loaded /\ TG!Ensured = mirror
    BY <2>2, <2>3 DEF TG!Ensured
  <2>5. CASE \E q \in tinGraph.Requests : TG!Provisions(q, tin, "invalidate")
    <3>1. PICK q \in tinGraph.Requests : TG!Provisions(q, tin, "invalidate")
      BY <2>5
    <3>2. TG!Busy(q) /\ local[q].tins = {tin}
      BY <1>1, <3>1, WorkedOn DEF TG!Provisions
    <3> QED BY <1>3, <1>5, <3>2 DEF TG!Start
  <2>6. CASE ~\E q \in tinGraph.Requests : TG!Provisions(q, tin, "invalidate")
    <3>1. tin \in excepted \/ count
      BY <1>1, <2>2, <2>3, <2>4, <2>6 DEF TG!IndexInv
    <3> QED BY <1>3, <3>1 DEF TG!Start
  <2> QED BY <2>5, <2>6
<1> QED BY <1>3, <1>5, <1>6, <1>7, TinBeginStep

LEMMA UpdateKYBStep ==
  ASSUME TG!TinInv, NEW r \in tinGraph.Requests, NEW id,
         NEW profile \in tinGraph.Profiles, TG!UpdateKYB(r, id, profile)
  PROVE  TG!TinInv'
<1>1. TG!TinTypes /\ TG!IndexInv
  BY DEF TG!TinInv
<1>2. PICK doc : doc = TG!Ensured.list[id]
  OBVIOUS
<1>3. PICK me : me = [op |-> "kyb", tins |-> {doc.tin}, doc |-> doc, profile |-> profile, at |-> id,
                      pc |-> "put"]
  OBVIOUS
<1>4. /\ TG!Start(r, me) /\ mirror' = TG!Ensured /\ UNCHANGED <<store, u, v, past, w, count, mode>>
      /\ id \in DOMAIN TG!Ensured.list
  BY <1>2, <1>3 DEF TG!UpdateKYB, TG!store
<1>5. doc \in TG!EntityRecords /\ id \in DOMAIN store /\ store[id].tin = doc.tin
  BY <1>1, <1>2, <1>4, EnsuredFits
<1>6. me.op = "kyb" /\ me.pc = "put"
  BY <1>3
<1>7. TG!ReqShaped(me, store, past)
  BY <1>3, <1>5 DEF TG!ReqShaped, TG!WriteShaped, TG!CopyOf
<1> QED BY <1>4, <1>6, <1>7, TinBeginStep

LEMMA ReadStatusStep ==
  ASSUME TG!Parameters, TG!TinInv, NEW r \in tinGraph.Requests, NEW tin \in tinGraph.TINs,
         NEW to \in tinGraph.Statuses, TG!ReadStatus(r, tin, to)
  PROVE  TG!TinInv'
<1>1. PICK pc \in {"put", "done"} :
        pc = IF TG!CanTransition(u[tin].status, to) THEN "put" ELSE "done"
  OBVIOUS
<1>2. PICK me : me = [op |-> "status", tins |-> {tin}, to |-> to, tin |-> tin, pc |-> pc]
  OBVIOUS
<1>3. TG!Start(r, me) /\ UNCHANGED <<store, mirror, u, v, past, w, count, mode>>
  BY <1>1, <1>2 DEF TG!ReadStatus, TG!store
<1>4. me.op = "status" /\ to \in TG!LifecycleStatus
  BY <1>2 DEF TG!Parameters
<1>5. me.pc # "done" => TG!ReqShaped(me, store, past)
  BY <1>2, <1>4 DEF TG!ReqShaped, TG!StatusShaped
<1> QED BY <1>3, <1>4, <1>5, TinBeginStep

LEMMA MergeEntitiesStep ==
  ASSUME TG!TinInv, NEW r \in tinGraph.Requests, NEW surv \in tinGraph.TINs,
         NEW merged \in tinGraph.TINs, TG!MergeEntities(r, surv, merged)
  PROVE  TG!TinInv'
<1>1. store \in Seq(TG!EntityRecords)
  BY DEF TG!TinInv, TG!TinTypes
<1>2. PICK s \in TG!Find(store, surv), m \in TG!Find(store, merged) :
        TG!Start(r, [op |-> "merge", tins |-> {surv, merged}, pc |-> "lifecycles",
                     surv |-> surv, merged |-> merged, survId |-> s, mergedId |-> m,
                     survSnapshot |-> store[s], mergedSnapshot |-> store[m],
                     prev |-> "active", moved |-> {}, left |-> {}])
  BY DEF TG!MergeEntities
<1>3. PICK sDoc, mDoc : sDoc = store[s] /\ mDoc = store[m]
  OBVIOUS
<1>4. PICK me : me = [op |-> "merge", tins |-> {surv, merged}, pc |-> "lifecycles",
                      surv |-> surv, merged |-> merged, survId |-> s, mergedId |-> m,
                      survSnapshot |-> sDoc, mergedSnapshot |-> mDoc,
                      prev |-> "active", moved |-> {}, left |-> {}]
  OBVIOUS
<1>5. /\ TG!Start(r, me) /\ surv # merged
      /\ UNCHANGED <<store, mirror, u, v, past, w, count, mode>>
  BY <1>2, <1>3, <1>4 DEF TG!MergeEntities, TG!store
<1>6. /\ s \in DOMAIN store /\ store[s].tin = surv /\ m \in DOMAIN store /\ store[m].tin = merged
  BY <1>1, FindsFirst
<1>7. /\ s \in Nat /\ m \in Nat /\ sDoc \in TG!EntityRecords /\ mDoc \in TG!EntityRecords
      /\ sDoc.tin = surv /\ mDoc.tin = merged
  BY <1>1, <1>3, <1>6
<1>8. TG!CopyOf(sDoc, s, store) /\ TG!CopyOf(mDoc, m, store)
  BY <1>6, <1>7 DEF TG!CopyOf
<1>9. TG!MergeShaped(me, store)
  BY <1>4, <1>5, <1>7, <1>8 DEF TG!MergeShaped, TG!CopiesFit
<1>10. me.op = "merge" /\ me.pc = "lifecycles"
  BY <1>4
<1>11. TG!ReqShaped(me, store, past)
  BY <1>9, <1>10 DEF TG!ReqShaped
<1> QED BY <1>5, <1>10, <1>11, TinBeginStep

LEMMA UnmergeFindStep ==
  ASSUME TG!TinInv, NEW r \in tinGraph.Requests, NEW tin \in tinGraph.TINs, TG!UnmergeFind(r, tin)
  PROVE  TG!TinInv'
<1>1. past \in Seq(TG!MergeRecords)
  BY DEF TG!TinInv, TG!TinTypes
<1>2. PICK S : S = TG!OpenMerges(tin)
  OBVIOUS
<1>3. S \subseteq 1..Len(past) /\ S # {} /\ \A n \in S : n \in DOMAIN past /\ past[n].merged = tin
  <2>1. DOMAIN past = 1..Len(past) /\ S # {}
    BY <1>1, <1>2 DEF TG!UnmergeFind
  <2> QED BY <1>2, <2>1 DEF TG!OpenMerges
<1>4. \E k \in S : \A j \in S : j <= k
  <2>1. PICK len \in Nat : len = Len(past)
    BY <1>1
  <2> QED BY <1>3, <2>1, LatestPosition
<1>5. PICK n : n = CHOOSE k \in S : \A j \in S : j <= k
  OBVIOUS
<1>6. n \in S
  BY <1>4, <1>5
<1>7. PICK left, pc : left = past[n].moved /\ pc = IF n \in time THEN "done" ELSE "survivor"
  OBVIOUS
<1>8. PICK me : me = [op |-> "unmerge", tins |-> {past[n].surv, tin}, merged |-> tin, m |-> n,
                      left |-> left, pc |-> pc]
  OBVIOUS
<1>9. TG!Start(r, me) /\ UNCHANGED <<store, mirror, u, v, past, w, count, mode>>
  BY <1>2, <1>5, <1>7, <1>8 DEF TG!UnmergeFind, TG!store
<1>10. me.op = "unmerge" /\ me.pc \in {"done", "survivor"}
  BY <1>7, <1>8
<1>11. left \subseteq tinGraph.Registrations
  <2>1. past[n] \in TG!MergeRecords
    BY <1>1, <1>3, <1>6
  <2> QED BY <1>7, <2>1 DEF TG!MergeRecords
<1>12. me.pc # "done" => TG!ReqShaped(me, store, past)
  BY <1>3, <1>6, <1>8, <1>10, <1>11 DEF TG!ReqShaped, TG!UnmergeShaped
<1> QED BY <1>9, <1>10, <1>12, TinBeginStep

LEMMA DedupScanStep ==
  ASSUME TG!TinInv, NEW r \in tinGraph.Requests, TG!DedupScan(r)
  PROVE  TG!TinInv'
<1>0. PICK short : TG!Start(r, [op |-> "scan", tins |-> {}, pc |-> "queue",
                                left |-> TG!DedupCandidates(TG!Ensured.list, short)])
  BY DEF TG!DedupScan
<1>1. PICK me : me = [op |-> "scan", tins |-> {}, pc |-> "queue",
                      left |-> TG!DedupCandidates(TG!Ensured.list, short)]
  OBVIOUS
<1>2. /\ TG!Start(r, me) /\ mirror' = TG!Ensured
      /\ UNCHANGED <<store, u, v, past, w, count, mode>>
  BY <1>0, <1>1 DEF TG!DedupScan, TG!store
<1>3. me.op = "scan" /\ TG!ReqShaped(me, store, past)
  BY <1>1 DEF TG!ReqShaped, TG!ScanShaped
<1> QED BY <1>2, <1>3, TinBeginStep

LEMMA MergeIs ==
  ASSUME NEW old, NEW e, TG!MergeShaped(old, e)
  PROVE  /\ old.surv \in tinGraph.TINs /\ old.merged \in tinGraph.TINs /\ old.surv # old.merged
         /\ old.tins = {old.surv, old.merged} /\ old.prev \in {"active", "suspended"}
         /\ old.moved \subseteq tinGraph.Registrations /\ old.left \subseteq tinGraph.Registrations
         /\ TG!CopyOf(old.survSnapshot, old.survId, e) /\ TG!CopyOf(old.mergedSnapshot, old.mergedId, e)
         /\ old.survId \in Nat /\ old.mergedId \in Nat
BY DEF TG!MergeShaped, TG!CopiesFit

\* A merge goes on with what it was asked for.
MergeAt(old, pc, prev, moved, left) ==
  [old EXCEPT !.pc = pc, !.prev = prev, !.moved = moved, !.left = left]

LEMMA MergeGoesOn ==
  ASSUME NEW old, NEW e, TG!MergeShaped(old, e),
         NEW pc \in {"lifecycles", "list", "move", "record", "status", "into"},
         NEW prev \in {"active", "suspended"},
         NEW moved, moved \subseteq tinGraph.Registrations, NEW left, left \subseteq tinGraph.Registrations,
         NEW me, me = MergeAt(old, pc, prev, moved, left)
  PROVE  /\ TG!MergeShaped(me, e) /\ me.op = "merge" /\ me.tins = old.tins /\ me.pc = pc
         /\ me.surv = old.surv /\ me.merged = old.merged /\ me.moved = moved /\ me.left = left
         /\ me.prev = prev /\ me.pc \notin {"new", "done"}
<1>1. me = [op |-> "merge", tins |-> old.tins, pc |-> pc, surv |-> old.surv, merged |-> old.merged,
            survId |-> old.survId, mergedId |-> old.mergedId, survSnapshot |-> old.survSnapshot,
            mergedSnapshot |-> old.mergedSnapshot, prev |-> prev, moved |-> moved, left |-> left]
  <2>1. DOMAIN old = {"op", "tins", "pc", "surv", "merged", "survId", "mergedId", "survSnapshot",
                      "mergedSnapshot", "prev", "moved", "left"} /\ old.op = "merge"
    BY DEF TG!MergeShaped
  <2>2. DOMAIN me = DOMAIN old /\ \A f \in DOMAIN old \ {"pc", "prev", "moved", "left"} : me[f] = old[f]
    BY DEF MergeAt
  <2>3. me.pc = pc /\ me.prev = prev /\ me.moved = moved /\ me.left = left
    BY <2>1 DEF MergeAt
  <2>4. me = [f \in DOMAIN me |-> me[f]]
    BY DEF MergeAt
  <2> QED BY <2>1, <2>2, <2>3, <2>4
<1> QED BY <1>1 DEF TG!MergeShaped, TG!CopiesFit

\* A request ends without having changed anything in this step.
LEMMA EndsQuietly ==
  ASSUME TG!TinInv, NEW r \in tinGraph.Requests, local' = [local EXCEPT ![r] = TG!Served],
         UNCHANGED <<store, u, v, past, excepted, count, mode>>, w \subseteq w', Refreshed,
         \A tin \in tinGraph.TINs :
           /\ TG!Provisions(r, tin, "invalidate") => ~mirror'.loaded
           /\ TG!ComingBack(r, tin) => tin \in w'
  PROVE  TG!TinInv'
<1>1. local'[r] = TG!Served
  BY DEF TG!TinInv, TG!TinTypes
<1>2. TG!Served.op = "none" /\ TG!Served.pc = "done" /\ TG!ReqShaped(TG!Served, store, past)
  BY DEF TG!Served, TG!ReqShaped
<1>3. TG!MergeUnderWay(r)'
  BY <1>1, <1>2 DEF TG!MergeUnderWay
<1>4. \A tin \in tinGraph.TINs : ~TG!Provisions(r, tin, "put")'
  BY <1>1, <1>2 DEF TG!Provisions
<1> QED BY <1>2, <1>3, <1>4, GoOnStep

\* A merge has read what it decides on.
LEMMA MergeReads ==
  ASSUME TG!TinInv, NEW r \in tinGraph.Requests, local[r].op = "merge",
         NEW pc \in {"list", "move"}, NEW prev \in {"active", "suspended"},
         NEW left, left \subseteq tinGraph.Registrations,
         NEW me, me = MergeAt(local[r], pc, prev, local[r].moved, left),
         local' = [local EXCEPT ![r] = me],
         UNCHANGED <<store, mirror, u, v, past, excepted, count, mode>>, w \subseteq w',
         u[local[r].surv].status # "merged_into" \/ local[r].surv \in excepted,
         pc = "move" => \/ local[r].merged \in excepted \cup w'
                        \/ \A x \in tinGraph.Registrations : v[x] = local[r].merged => x \in left
  PROVE  TG!TinInv'
<1>1. PICK old : old = local[r]
  OBVIOUS
<1>2. TG!MergeShaped(old, store) /\ TG!Busy(r)
  BY <1>1, RequestIsShaped DEF TG!TinInv
<1>3. /\ TG!MergeShaped(me, store) /\ me.op = "merge" /\ me.tins = old.tins /\ me.pc = pc
      /\ me.surv = old.surv /\ me.merged = old.merged /\ me.left = left
  BY <1>1, <1>2, MergeIs, MergeGoesOn
<1>4. local'[r] = me
  BY DEF TG!TinInv, TG!TinTypes
<1>5. TG!MergeUnderWay(r)'
  BY <1>1, <1>3, <1>4 DEF TG!MergeUnderWay
<1>6. TG!ReqShaped(me, store, past)
  BY <1>3 DEF TG!ReqShaped
<1>7. \A tin \in tinGraph.TINs :
        /\ ~TG!Provisions(r, tin, "invalidate") /\ ~TG!Provisions(r, tin, "put")'
        /\ ~TG!ComingBack(r, tin)
  BY <1>3, <1>4 DEF TG!Provisions, TG!ComingBack
<1> QED BY <1>1, <1>2, <1>3, <1>5, <1>6, <1>7, GoOnStep DEF Refreshed

LEMMA MergeLifecyclesStep ==
  ASSUME TG!TinInv, NEW r \in tinGraph.Requests, TG!MergeLifecycles(r)
  PROVE  TG!TinInv'
<1>1. /\ local[r].op = "merge" /\ local[r].pc = "lifecycles"
      /\ UNCHANGED <<store, mirror, u, v, past, excepted, count, mode, w>>
  BY DEF TG!MergeLifecycles, TG!store, TG!ghosts
<1>2. PICK old : old = local[r]
  OBVIOUS
<1>3. TG!MergeShaped(old, store)
  BY <1>1, <1>2, RequestIsShaped DEF TG!TinInv
<1>4. CASE /\ TG!MaySurvive(u[old.surv].status) /\ TG!CanTransition(u[old.merged].status, "merged_into")
  <2>1. PICK prev : prev = u[old.merged].status
    OBVIOUS
  <2>2. prev \in {"active", "suspended"} /\ u[old.surv].status # "merged_into"
    BY <1>4, <2>1 DEF TG!CanTransition, TG!MaySurvive, TG!FilingAllowed
  <2>3. PICK me : me = MergeAt(old, "list", prev, old.moved, old.left)
    OBVIOUS
  <2>4. local' = [local EXCEPT ![r] = me]
    <3>1. local' = [local EXCEPT ![r] = [old EXCEPT !.pc = "list", !.prev = prev]]
      BY <1>2, <1>4, <2>1 DEF TG!MergeLifecycles
    <3>2. me = [old EXCEPT !.pc = "list", !.prev = prev]
      BY <1>3, <2>3 DEF TG!MergeShaped, MergeAt
    <3> QED BY <3>1, <3>2
  <2>5. old.left \subseteq tinGraph.Registrations
    BY <1>3, MergeIs
  <2> QED BY <1>1, <1>2, <2>2, <2>3, <2>4, <2>5, MergeReads
<1>5. CASE ~(/\ TG!MaySurvive(u[old.surv].status) /\ TG!CanTransition(u[old.merged].status, "merged_into"))
  <2>1. local' = [local EXCEPT ![r] = TG!Served]
    BY <1>2, <1>5 DEF TG!MergeLifecycles
  <2>2. \A tin \in tinGraph.TINs : ~TG!Provisions(r, tin, "invalidate") /\ ~TG!ComingBack(r, tin)
    BY <1>1 DEF TG!Provisions, TG!ComingBack
  <2> QED BY <1>1, <2>1, <2>2, EndsQuietly DEF Refreshed
<1> QED BY <1>4, <1>5

LEMMA MergeListStep ==
  ASSUME TG!TinInv, NEW r \in tinGraph.Requests, TG!MergeList(r) \/ TG!MergeListFails(r)
  PROVE  TG!TinInv'
<1>1. /\ local[r].op = "merge" /\ local[r].pc = "list"
      /\ UNCHANGED <<store, mirror, u, v, past, excepted, count, mode>>
  BY DEF TG!MergeList, TG!MergeListFails, TG!store, TG!ghosts
<1>2. PICK old : old = local[r]
  OBVIOUS
<1>3. TG!MergeShaped(old, store) /\ old.prev \in {"active", "suspended"} /\ old.merged \in old.tins
  BY <1>1, <1>2, RequestIsShaped, MergeIs DEF TG!TinInv
<1>4. u[old.surv].status # "merged_into" \/ old.surv \in excepted
  <2>1. TG!MergeUnderWay(r)
    BY DEF TG!TinInv, TG!MergeInv
  <2> QED BY <1>1, <1>2, <2>1 DEF TG!MergeUnderWay
<1>5. PICK left : /\ left \subseteq tinGraph.Registrations
                  /\ local' = [local EXCEPT ![r].pc = "move", ![r].left = left]
                  /\ w \subseteq w'
                  /\ \/ old.merged \in w'
                     \/ \A x \in tinGraph.Registrations : v[x] = old.merged => x \in left
  <2>1. CASE TG!MergeList(r)
    BY <1>2, <2>1 DEF TG!MergeList, TG!ghosts
  <2>2. CASE TG!MergeListFails(r)
    <3>1. old.left \subseteq tinGraph.Registrations
      BY <1>3, MergeIs
    <3>2. local' = [local EXCEPT ![r].pc = "move"] /\ w' = w \cup old.tins
      BY <1>2, <2>2 DEF TG!MergeListFails
    <3>3. local' = [local EXCEPT ![r].pc = "move", ![r].left = old.left]
      <4>1. [old EXCEPT !.pc = "move"] = [old EXCEPT !.pc = "move", !.left = old.left]
        BY <1>3 DEF TG!MergeShaped
      <4>2. local' = [local EXCEPT ![r] = [old EXCEPT !.pc = "move"]]
        BY <1>2, <3>2
      <4>3. local' = [local EXCEPT ![r] = [old EXCEPT !.pc = "move", !.left = old.left]]
        BY <4>1, <4>2
      <4> QED BY <1>2, <4>3
    <3> QED BY <1>3, <3>1, <3>2, <3>3
  <2> QED BY <2>1, <2>2
<1>6. PICK me : me = MergeAt(old, "move", old.prev, old.moved, left)
  OBVIOUS
<1>7. local' = [local EXCEPT ![r] = me]
  <2>1. me = [old EXCEPT !.pc = "move", !.left = left]
    BY <1>3, <1>6 DEF TG!MergeShaped, MergeAt
  <2> QED BY <1>2, <1>5, <2>1
<1>8. \/ local[r].merged \in excepted \cup w'
      \/ \A x \in tinGraph.Registrations : v[x] = local[r].merged => x \in left
  BY <1>2, <1>5
<1>9. /\ me = MergeAt(local[r], "move", old.prev, local[r].moved, left)
      /\ u[local[r].surv].status # "merged_into" \/ local[r].surv \in excepted
      /\ w \subseteq w' /\ left \subseteq tinGraph.Registrations
  BY <1>2, <1>4, <1>5, <1>6
<1> QED BY <1>1, <1>3, <1>7, <1>8, <1>9, MergeReads

UnmergeAt(old, pc, left) == [old EXCEPT !.pc = pc, !.left = left]

LEMMA UnmergeGoesOn ==
  ASSUME NEW old, NEW m, TG!UnmergeShaped(old, m),
         NEW pc \in {"survivor", "merged", "back", "receipt"},
         NEW left, left \subseteq tinGraph.Registrations,
         NEW me, me = UnmergeAt(old, pc, left)
  PROVE  /\ TG!UnmergeShaped(me, m) /\ me.op = "unmerge" /\ me.tins = old.tins /\ me.pc = pc
         /\ me.merged = old.merged /\ me.m = old.m /\ me.left = left
<1>1. DOMAIN old = {"op", "tins", "merged", "m", "left", "pc"} /\ old.op = "unmerge"
  BY DEF TG!UnmergeShaped
<1>2. DOMAIN me = DOMAIN old /\ \A f \in DOMAIN old \ {"pc", "left"} : me[f] = old[f]
  BY DEF UnmergeAt
<1>3. me.pc = pc /\ me.left = left
  BY <1>1 DEF UnmergeAt
<1>4. me = [f \in DOMAIN me |-> me[f]]
  BY DEF UnmergeAt
<1>5. me = [op |-> "unmerge", tins |-> old.tins, merged |-> old.merged, m |-> old.m, left |-> left,
            pc |-> pc]
  BY <1>1, <1>2, <1>3, <1>4
<1> QED BY <1>5 DEF TG!UnmergeShaped

LEMMA UnmergeIs ==
  ASSUME TG!TinTypes, NEW r \in tinGraph.Requests, local[r].op = "unmerge"
  PROVE  /\ TG!UnmergeShaped(local[r], past) /\ TG!Busy(r) /\ local[r].m \in DOMAIN past
         /\ local[r].merged = past[local[r].m].merged
         /\ local[r].left \subseteq tinGraph.Registrations
         /\ local[r].merged \in local[r].tins /\ local[r].merged \in tinGraph.TINs
         /\ local[r].tins = {past[local[r].m].surv, local[r].merged}
<1>1. TG!UnmergeShaped(local[r], past)
  BY RequestIsShaped
<1> QED BY <1>1, WorkedOn DEF TG!UnmergeShaped

LEMMA MoveBackSkipsStep ==
  ASSUME TG!TinInv, NEW r \in tinGraph.Requests, TG!MoveBackSkips(r)
  PROVE  TG!TinInv'
<1>1. /\ local[r].op = "unmerge" /\ local[r].pc = "back"
      /\ UNCHANGED <<store, mirror, u, v, past, excepted, count, mode>> /\ w \subseteq w'
  BY DEF TG!MoveBackSkips, TG!store
<1>2. PICK old : old = local[r]
  OBVIOUS
<1>3. TG!UnmergeShaped(old, past) /\ TG!Busy(r) /\ old.left \subseteq tinGraph.Registrations
  BY <1>1, <1>2, UnmergeIs DEF TG!TinInv
<1>4. PICK left : left \subseteq old.left /\ local' = [local EXCEPT ![r] = [old EXCEPT !.left = left]]
  <2>1. PICK x : local' = [local EXCEPT ![r].left = @ \ {x}]
    BY DEF TG!MoveBackSkips
  <2>2. local' = [local EXCEPT ![r] = [old EXCEPT !.left = old.left \ {x}]]
    BY <1>2, <2>1
  <2> QED BY <2>2
<1>5. PICK me : me = UnmergeAt(old, "back", left)
  OBVIOUS
<1>6. me = [old EXCEPT !.left = left]
  BY <1>1, <1>2, <1>3, <1>5 DEF UnmergeAt, TG!UnmergeShaped
<1>7. local' = [local EXCEPT ![r] = me]
  BY <1>4, <1>6
<1>8. left \subseteq tinGraph.Registrations
  BY <1>3, <1>4
<1>9. /\ TG!UnmergeShaped(me, past) /\ me.op = "unmerge" /\ me.tins = old.tins /\ me.pc = "back"
      /\ me.merged = old.merged
  BY <1>3, <1>5, <1>8, UnmergeGoesOn
<1>10. local'[r] = me
  BY <1>7 DEF TG!TinInv, TG!TinTypes
<1>11. TG!MergeUnderWay(r)'
  BY <1>9, <1>10 DEF TG!MergeUnderWay
<1>12. TG!ReqShaped(me, store, past)
  BY <1>9 DEF TG!ReqShaped
<1>13. \A tin \in tinGraph.TINs :
         /\ ~TG!Provisions(r, tin, "invalidate") /\ ~TG!Provisions(r, tin, "put")'
         /\ TG!ComingBack(r, tin) => TG!ComingBack(r, tin)'
  BY <1>1, <1>2, <1>9, <1>10 DEF TG!Provisions, TG!ComingBack
<1>14. me.tins = local[r].tins
  BY <1>2, <1>9
<1> QED BY <1>1, <1>3, <1>7, <1>11, <1>12, <1>13, <1>14, GoOnStep DEF Refreshed

LEMMA QueueCandidateStep ==
  ASSUME TG!TinInv, NEW r \in tinGraph.Requests, TG!QueueCandidate(r)
  PROVE  TG!TinInv'
<1>1. /\ local[r].op = "scan" /\ local[r].pc = "queue"
      /\ UNCHANGED <<store, mirror, u, v, past, excepted, count, mode, w>>
  BY DEF TG!QueueCandidate, TG!ghosts
<1>2. PICK old : old = local[r]
  OBVIOUS
<1>3. TG!ScanShaped(old) /\ TG!Busy(r)
  BY <1>1, <1>2, RequestIsShaped DEF TG!TinInv
<1>4. \A tin \in tinGraph.TINs : ~TG!Provisions(r, tin, "invalidate") /\ ~TG!ComingBack(r, tin)
  BY <1>1 DEF TG!Provisions, TG!ComingBack
<1>5. CASE local' = [local EXCEPT ![r] = TG!Served]
  BY <1>1, <1>4, <1>5, EndsQuietly DEF Refreshed
<1>6. ASSUME NEW pair, local' = [local EXCEPT ![r].left = @ \ {pair}] PROVE TG!TinInv'
  <2>1. PICK left : left = old.left \ {pair}
    OBVIOUS
  <2>2. PICK me : me = [op |-> "scan", tins |-> {}, pc |-> "queue", left |-> left]
    OBVIOUS
  <2>3. me = [old EXCEPT !.left = left]
    BY <1>3, <2>2 DEF TG!ScanShaped
  <2>4. local' = [local EXCEPT ![r] = me]
    BY <1>2, <1>6, <2>1, <2>3
  <2>5. me.op = "scan" /\ me.tins = old.tins /\ TG!ScanShaped(me)
    BY <1>3, <2>2 DEF TG!ScanShaped
  <2>6. local'[r] = me
    BY <2>4 DEF TG!TinInv, TG!TinTypes
  <2>7. TG!MergeUnderWay(r)'
    BY <2>5, <2>6 DEF TG!MergeUnderWay
  <2>8. \A tin \in tinGraph.TINs : ~TG!Provisions(r, tin, "put")'
    BY <2>5, <2>6 DEF TG!Provisions
  <2>9. TG!ReqShaped(me, store, past) /\ me.tins = local[r].tins
    BY <1>2, <2>5 DEF TG!ReqShaped
  <2> QED BY <1>1, <1>3, <1>4, <2>4, <2>7, <2>8, <2>9, GoOnStep DEF Refreshed
<1> QED BY <1>5, <1>6 DEF TG!QueueCandidate

LEMMA AccessFailsStep ==
  ASSUME TG!TinInv, NEW r \in tinGraph.Requests, TG!AccessFails(r)
  PROVE  TG!TinInv'
<1>1. /\ local' = [local EXCEPT ![r] = TG!Served] /\ mirror' = [mirror EXCEPT !.loaded = FALSE]
      /\ UNCHANGED <<store, u, v, past, excepted, count, mode>>
      /\ w' = IF TG!HalfDone(r) THEN w \cup local[r].tins ELSE w
  BY DEF TG!AccessFails, TG!store
<1>2. ~mirror'.loaded
  BY <1>1 DEF TG!TinInv, TG!TinTypes
<1>3. \A tin \in tinGraph.TINs : TG!ComingBack(r, tin) => tin \in w'
  <2> SUFFICES ASSUME NEW tin, TG!ComingBack(r, tin) PROVE tin \in w'
    OBVIOUS
  <2>1. TG!Busy(r) /\ tin \in local[r].tins
    BY UnmergeIs DEF TG!ComingBack, TG!TinInv
  <2>2. TG!HalfDone(r)
    BY <2>1 DEF TG!ComingBack, TG!HalfDone
  <2> QED BY <1>1, <2>1, <2>2
<1>4. w \subseteq w'
  BY <1>1
<1> QED BY <1>1, <1>2, <1>3, <1>4, EndsQuietly DEF Refreshed

\* An entity that has just been added: its TIN had none, and the index will be
\* invalidated.
NewEntity(tin) ==
  \/ tin \in excepted \/ count
  \/ /\ ~TG!Present(tin)
     /\ \E q \in tinGraph.Requests : TG!Provisions(q, tin, "invalidate")'
     /\ \A q \in tinGraph.Requests : ~TG!Provisions(q, tin, "put")'

LEMMA IndexWritten ==
  ASSUME TG!TinTypes, TG!IndexInv, store' \in Seq(TG!EntityRecords), TinsKept(store, store'),
         \A i, j \in DOMAIN store' \ DOMAIN store : i = j,
         \A n \in DOMAIN store' \ DOMAIN store, tin \in tinGraph.TINs : store'[n].tin = tin => NewEntity(tin),
         mirror' \in {mirror, [mirror EXCEPT !.loaded = FALSE]}, UNCHANGED <<excepted, count>>,
         \A q \in tinGraph.Requests, tin \in tinGraph.TINs :
           /\ TG!Provisions(q, tin, "invalidate") => TG!Provisions(q, tin, "invalidate")' \/ ~mirror'.loaded
           /\ TG!Provisions(q, tin, "put")' => TG!Provisions(q, tin, "put")
  PROVE  TG!IndexInv' /\ mirror' \in [loaded : BOOLEAN, list : Seq(TG!EntityRecords)]
<1>1. \A n \in DOMAIN store' : store'[n].tin \in tinGraph.TINs
  <2>1. \A n \in DOMAIN store' : store'[n] \in TG!EntityRecords
    OBVIOUS
  <2> QED BY <2>1 DEF TG!EntityRecords
<1>2. DOMAIN store \subseteq DOMAIN store' /\ \A n \in DOMAIN store : store'[n].tin = store[n].tin
  BY DEF TinsKept
<1>3. /\ mirror' \in [loaded : BOOLEAN, list : Seq(TG!EntityRecords)] /\ mirror'.list = mirror.list
      /\ mirror'.loaded => mirror' = mirror
  <2>1. PICK L : L = Seq(TG!EntityRecords)
    OBVIOUS
  <2>2. mirror \in [loaded : BOOLEAN, list : L]
    BY <2>1 DEF TG!TinTypes
  <2>3. [mirror EXCEPT !.loaded = FALSE] \in [loaded : BOOLEAN, list : L]
    BY <2>2
  <2> QED BY <2>1, <2>2, <2>3
<1>4. /\ DOMAIN mirror'.list \subseteq DOMAIN store'
      /\ \A n \in DOMAIN mirror'.list : mirror'.list[n].tin = store'[n].tin
  BY <1>2, <1>3 DEF TG!IndexInv
<1>5. ASSUME mirror'.loaded, NEW n \in DOMAIN store', NEW tin \in tinGraph.TINs, store'[n].tin = tin,
             ~(tin \in excepted' \/ count')
      PROVE  \/ \E k \in DOMAIN mirror'.list : mirror'.list[k].tin = tin
             \/ \E q \in tinGraph.Requests : TG!Provisions(q, tin, "invalidate")'
  <2>1. CASE n \in DOMAIN store
    <3>1. mirror.loaded /\ mirror' = mirror /\ store[n].tin = tin
      BY <1>2, <1>3, <1>5, <2>1
    <3>2. \/ \E k \in DOMAIN mirror.list : mirror.list[k].tin = tin
          \/ \E q \in tinGraph.Requests : TG!Provisions(q, tin, "invalidate")
      BY <1>5, <2>1, <3>1 DEF TG!IndexInv
    <3> QED BY <1>5, <3>1, <3>2
  <2>2. CASE n \notin DOMAIN store
    <3>1. NewEntity(tin)
      BY <1>5, <2>2
    <3> QED BY <1>5, <3>1 DEF NewEntity
  <2> QED BY <2>1, <2>2
<1>6. ASSUME NEW q \in tinGraph.Requests, NEW tin \in tinGraph.TINs, TG!Provisions(q, tin, "put")',
             TG!Present(tin)'
      PROVE  tin \in excepted' \/ count'
  <2>1. TG!Present(tin) => tin \in excepted \/ count
    BY <1>6 DEF TG!IndexInv
  <2>2. PICK n \in DOMAIN store' : store'[n].tin = tin
    BY <1>6 DEF TG!Present
  <2>3. CASE n \in DOMAIN store
    BY <1>2, <2>1, <2>2, <2>3 DEF TG!Present
  <2>4. CASE n \notin DOMAIN store
    <3>1. NewEntity(tin)
      BY <2>2, <2>4
    <3> QED BY <1>6, <3>1 DEF NewEntity
  <2> QED BY <2>3, <2>4
<1>7. ASSUME NEW i \in DOMAIN store', NEW j \in DOMAIN store', i # j, store'[i].tin = store'[j].tin,
             i \in DOMAIN store
      PROVE  store'[i].tin \in excepted' \/ count'
  <2>1. CASE j \in DOMAIN store
    BY <1>2, <1>7, <2>1 DEF TG!IndexInv, TG!OneEntityPerTIN
  <2>2. CASE j \notin DOMAIN store
    <3>1. PICK tin \in tinGraph.TINs : store'[i].tin = tin /\ store'[j].tin = tin
      BY <1>1, <1>7
    <3>2. NewEntity(tin)
      BY <2>2, <3>1
    <3>3. TG!Present(tin)
      BY <1>2, <1>7, <3>1 DEF TG!Present
    <3> QED BY <3>1, <3>2, <3>3 DEF NewEntity
  <2> QED BY <2>1, <2>2
<1>8. TG!OneEntityPerTIN'
  <2> SUFFICES ASSUME NEW i \in DOMAIN store', NEW j \in DOMAIN store', i # j, store'[i].tin = store'[j].tin
               PROVE  store'[i].tin \in excepted' \/ count'
    BY DEF TG!OneEntityPerTIN
  <2>1. i \in DOMAIN store \/ j \in DOMAIN store
    OBVIOUS
  <2> QED BY <1>7, <2>1
<1>9. \A q \in tinGraph.Requests, tin \in tinGraph.TINs :
        TG!Provisions(q, tin, "put")' => ~TG!Present(tin)' \/ tin \in excepted' \/ count'
  BY <1>6
<1>10. mirror'.loaded => \A n \in DOMAIN store' :
         \/ \E k \in DOMAIN mirror'.list : mirror'.list[k].tin = store'[n].tin
         \/ store'[n].tin \in excepted' \/ count'
         \/ \E q \in tinGraph.Requests : local'[q].op = "provision" /\ local'[q].pc = "invalidate"
                                          /\ local'[q].doc.tin = store'[n].tin
  <2> SUFFICES ASSUME mirror'.loaded, NEW n \in DOMAIN store'
               PROVE  \/ \E k \in DOMAIN mirror'.list : mirror'.list[k].tin = store'[n].tin
                      \/ store'[n].tin \in excepted' \/ count'
                      \/ \E q \in tinGraph.Requests :
                           /\ local'[q].op = "provision" /\ local'[q].pc = "invalidate"
                           /\ local'[q].doc.tin = store'[n].tin
    OBVIOUS
  <2>1. PICK tin \in tinGraph.TINs : store'[n].tin = tin
    BY <1>1
  <2>2. \/ \E k \in DOMAIN mirror'.list : mirror'.list[k].tin = tin
        \/ tin \in excepted' \/ count'
        \/ \E q \in tinGraph.Requests : TG!Provisions(q, tin, "invalidate")'
    BY <1>5, <2>1
  <2> QED BY <2>1, <2>2 DEF TG!Provisions
<1> QED BY <1>3, <1>4, <1>8, <1>9, <1>10 DEF TG!IndexInv, TG!Provisions

\* An entity is written, over one of the same TIN or behind the others.
LEMMA EntityWritten ==
  ASSUME TG!TinInv, NEW r \in tinGraph.Requests, NEW me, local' = [local EXCEPT ![r] = me],
         TG!ReqShaped(me, store', past), TG!Busy(r), me.tins = local[r].tins,
         store' \in Seq(TG!EntityRecords), TinsKept(store, store'),
         \A i, j \in DOMAIN store' \ DOMAIN store : i = j,
         \A n \in DOMAIN store' \ DOMAIN store, tin \in tinGraph.TINs : store'[n].tin = tin => NewEntity(tin),
         mirror' \in {mirror, [mirror EXCEPT !.loaded = FALSE]},
         UNCHANGED <<u, v, past, excepted, count, mode, w>>,
         \A tin \in tinGraph.TINs :
           /\ TG!Provisions(r, tin, "invalidate") => ~mirror'.loaded
           /\ ~TG!Provisions(r, tin, "put")'
           /\ ~TG!ComingBack(r, tin),
         TG!MergeUnderWay(r)'
  PROVE  TG!TinInv'
<1>1. TG!TinTypes /\ TG!Exclusive /\ TG!IndexInv /\ TG!MergeInv
  BY DEF TG!TinInv
<1>2. \A q \in tinGraph.Requests \ {r} : local'[q] = local[q]
  BY <1>1 DEF TG!TinTypes
<1>3. TG!Exclusive'
  BY <1>1, ExclusiveKept
<1>4. TG!IndexInv' /\ mirror' \in [loaded : BOOLEAN, list : Seq(TG!EntityRecords)]
  <2>1. \A q \in tinGraph.Requests, tin \in tinGraph.TINs :
          /\ TG!Provisions(q, tin, "invalidate") => TG!Provisions(q, tin, "invalidate")' \/ ~mirror'.loaded
          /\ TG!Provisions(q, tin, "put")' => TG!Provisions(q, tin, "put")
    <3> TAKE q \in tinGraph.Requests, tin \in tinGraph.TINs
    <3>1. CASE q = r
      BY <3>1
    <3>2. CASE q # r
      BY <1>2, <3>2 DEF TG!Provisions
    <3> QED BY <3>1, <3>2
  <2> QED BY <1>1, <2>1, IndexWritten
<1>5. TG!TinTypes'
  <2>1. MergesKept(past, past') /\ past' = past
    BY DEF MergesKept
  <2>2. /\ past' \in Seq(TG!MergeRecords)
        /\ \A n \in DOMAIN past' : TG!CopiesFit(past'[n], store)
        /\ u' \in [tinGraph.TINs -> [status : TG!LifecycleStatus, into : tinGraph.TINs \cup {TG!NoTIN}]]
        /\ v' \in [tinGraph.Registrations -> tinGraph.TINs]
    BY <1>1 DEF TG!TinTypes
  <2>3. TG!ReqShaped(me, store', past')
    BY <2>1
  <2> QED BY <1>1, <1>4, <2>1, <2>2, <2>3, TinTypesKept
<1>6. TG!MergeInv'
  <2>1. \A t \in tinGraph.TINs : TinKept(r, t)
    BY DEF TinKept, TG!OpenMerges
  <2>2. excepted \subseteq excepted' /\ w \subseteq w' /\ mode \subseteq mode'
    OBVIOUS
  <2> QED BY <1>1, <2>1, <2>2, NothingMerged
<1> QED BY <1>3, <1>4, <1>5, <1>6 DEF TG!TinInv

\* Another document of the same TIN is written over an entity.
LEMMA EntityReplaced ==
  ASSUME TG!TinTypes, NEW id \in DOMAIN store, NEW doc \in TG!EntityRecords, doc.tin = store[id].tin,
         store' = [store EXCEPT ![id] = doc]
  PROVE  /\ store' \in Seq(TG!EntityRecords) /\ TinsKept(store, store')
         /\ DOMAIN store' \ DOMAIN store = {}
<1>1. store \in Seq(TG!EntityRecords)
  BY DEF TG!TinTypes
<1>2. store' \in Seq(TG!EntityRecords) /\ DOMAIN store' = DOMAIN store
  BY <1>1
<1>3. \A n \in DOMAIN store : store'[n].tin = store[n].tin
  OBVIOUS
<1> QED BY <1>2, <1>3 DEF TinsKept

LEMMA WithProfileFits ==
  ASSUME TG!Parameters, NEW doc \in TG!EntityRecords, NEW profile \in tinGraph.Profiles
  PROVE  /\ TG!WithProfile(doc, profile) \in TG!EntityRecords
         /\ TG!WithProfile(doc, profile).tin = doc.tin
<1>1. profile \in [tinGraph.Persons -> 0..100]
  BY DEF TG!Parameters
<1>2. TG!DeriveUBOs(profile, doc.ubos) \in SUBSET tinGraph.Persons
  BY DEF TG!DeriveUBOs, TG!EntityRecords
<1> QED BY <1>1, <1>2 DEF TG!WithProfile, TG!EntityRecords

LEMMA PutDocumentStep ==
  ASSUME TG!Parameters, TG!TinInv, NEW r \in tinGraph.Requests, TG!PutDocument(r)
  PROVE  TG!TinInv'
<1>1. /\ local[r].op \in {"provision", "kyb"} /\ UNCHANGED <<u, v, past, excepted, count, mode, w>>
      /\ TG!TinTypes /\ TG!Exclusive /\ TG!IndexInv
  BY DEF TG!PutDocument, TG!ghosts, TG!TinInv
<1>2. PICK old : old = local[r]
  OBVIOUS
<1>3. TG!WriteShaped(old, store) /\ TG!Busy(r) /\ old.tins = {old.doc.tin} /\ old.doc.tin \in tinGraph.TINs
  BY <1>1, <1>2, RequestIsShaped, WorkedOn
<1>4. CASE old.pc = "put"
  <2>1. PICK doc : doc = TG!WithProfile(old.doc, old.profile)
    OBVIOUS
  <2>2. doc \in TG!EntityRecords /\ doc.tin = old.doc.tin
    BY <1>3, <2>1, WithProfileFits DEF TG!WriteShaped
  <2>3. PICK me : me = [old EXCEPT !.pc = "invalidate"]
    OBVIOUS
  <2>4. me = [op |-> old.op, tins |-> {old.doc.tin}, doc |-> old.doc, profile |-> old.profile,
              at |-> old.at, pc |-> "invalidate"]
    BY <1>3, <2>3 DEF TG!WriteShaped
  <2>5. local' = [local EXCEPT ![r] = me] /\ mirror' = mirror
    BY <1>2, <1>4, <2>3 DEF TG!PutDocument
  <2>6. local'[r] = me
    BY <1>1, <2>5 DEF TG!TinTypes
  <2>7. me.op = old.op /\ me.tins = old.tins /\ me.pc = "invalidate" /\ me.doc = old.doc
    BY <1>3, <2>4
  <2>8. TG!WriteShaped(me, store)
    BY <1>3, <2>4 DEF TG!WriteShaped
  <2>9. /\ store' \in Seq(TG!EntityRecords) /\ TinsKept(store, store')
        /\ \A i, j \in DOMAIN store' \ DOMAIN store : i = j
        /\ \A n \in DOMAIN store' \ DOMAIN store : old.op = "provision" /\ store'[n].tin = old.doc.tin
    <3>1. CASE old.op = "kyb"
      <4>1. old.at \in DOMAIN store /\ store[old.at].tin = old.doc.tin
        BY <1>3, <3>1 DEF TG!WriteShaped, TG!CopyOf
      <4>2. store' = [store EXCEPT ![old.at] = doc]
        BY <1>2, <1>4, <2>1, <3>1, <4>1 DEF TG!PutDocument, TG!PutEntity
      <4> QED BY <1>1, <2>2, <4>1, <4>2, EntityReplaced
    <3>2. CASE old.op = "provision"
      <4>1. store \in Seq(TG!EntityRecords)
        BY <1>1 DEF TG!TinTypes
      <4>2. store' = Append(store, doc)
        BY <1>2, <1>4, <2>1, <3>2, <4>1 DEF TG!PutDocument, TG!PutEntity
      <4>3. /\ store' \in Seq(TG!EntityRecords) /\ DOMAIN store' = DOMAIN store \cup {Len(store) + 1}
            /\ store'[Len(store) + 1] = doc /\ \A n \in DOMAIN store : store'[n] = store[n]
        BY <2>2, <4>1, <4>2
      <4> QED BY <2>2, <3>2, <4>3 DEF TinsKept
    <3> QED BY <1>1, <1>2, <3>1, <3>2
  <2>10. \A n \in DOMAIN store' \ DOMAIN store, tin \in tinGraph.TINs : store'[n].tin = tin => NewEntity(tin)
    <3> SUFFICES ASSUME NEW tin \in tinGraph.TINs, old.op = "provision", tin = old.doc.tin,
                        ~(tin \in excepted \/ count)
                 PROVE  /\ ~TG!Present(tin)
                        /\ \E q \in tinGraph.Requests : TG!Provisions(q, tin, "invalidate")'
                        /\ \A q \in tinGraph.Requests : ~TG!Provisions(q, tin, "put")'
      BY <2>9 DEF NewEntity
    <3>1. TG!Provisions(r, tin, "put")
      BY <1>2, <1>4 DEF TG!Provisions
    <3>2. ~TG!Present(tin)
      BY <1>1, <3>1 DEF TG!IndexInv
    <3>3. TG!Provisions(r, tin, "invalidate")'
      BY <2>6, <2>7 DEF TG!Provisions
    <3>4. ASSUME NEW q \in tinGraph.Requests, TG!Provisions(q, tin, "put")' PROVE FALSE
      <4>1. q # r
        BY <2>6, <2>7, <3>4 DEF TG!Provisions
      <4>2. TG!Provisions(q, tin, "put")
        BY <1>1, <2>5, <3>4, <4>1 DEF TG!Provisions, TG!TinTypes
      <4>3. TG!Busy(q) /\ local[q].tins = {tin}
        BY <1>1, <4>2, WorkedOn DEF TG!Provisions
      <4>4. local[q].tins \cap local[r].tins \subseteq excepted
        BY <1>1, <1>3, <4>1, <4>3 DEF TG!Exclusive
      <4> QED BY <1>2, <1>3, <4>3, <4>4
    <3> QED BY <3>2, <3>3, <3>4
  <2>11. TG!ReqShaped(me, store', past)
    <3>1. TG!ReqShaped(me, store, past)
      BY <1>1, <1>2, <2>7, <2>8 DEF TG!ReqShaped
    <3>2. MergesKept(past, past)
      BY DEF MergesKept
    <3> QED BY <2>9, <3>1, <3>2, RequestKept
  <2>12. \A tin \in tinGraph.TINs :
           /\ ~TG!Provisions(r, tin, "invalidate") /\ ~TG!Provisions(r, tin, "put")'
           /\ ~TG!ComingBack(r, tin)
    BY <1>1, <1>2, <1>4, <2>6, <2>7 DEF TG!Provisions, TG!ComingBack
  <2>13. TG!MergeUnderWay(r)'
    BY <1>1, <1>2, <2>6, <2>7 DEF TG!MergeUnderWay
  <2>14. me.tins = local[r].tins
    BY <1>2, <2>7
  <2> QED BY <1>1, <1>3, <2>5, <2>9, <2>10, <2>11, <2>12, <2>13, <2>14, EntityWritten
<1>5. CASE old.pc = "invalidate"
  <2>1. /\ local' = [local EXCEPT ![r] = TG!Served] /\ mirror' = [mirror EXCEPT !.loaded = FALSE]
        /\ store' = store
    BY <1>2, <1>5 DEF TG!PutDocument
  <2>2. ~mirror'.loaded
    BY <1>1, <2>1 DEF TG!TinTypes
  <2>3. \A tin \in tinGraph.TINs : ~TG!ComingBack(r, tin)
    BY <1>1 DEF TG!ComingBack
  <2>4. w \subseteq w'
    BY <1>1
  <2> QED BY <1>1, <2>1, <2>2, <2>3, <2>4, EndsQuietly DEF Refreshed
<1> QED BY <1>2, <1>4, <1>5 DEF TG!PutDocument

LEMMA MergePutEntityStep ==
  ASSUME TG!TinInv, NEW r \in tinGraph.Requests, TG!MergePutEntity(r)
  PROVE  TG!TinInv'
<1>1. /\ local[r].op = "merge" /\ local[r].pc = "move" /\ local[r].left = {}
      /\ mirror' = [mirror EXCEPT !.loaded = FALSE]
      /\ UNCHANGED <<u, v, past, excepted, count, mode, w>> /\ TG!TinTypes
  BY DEF TG!MergePutEntity, TG!ghosts, TG!TinInv
<1>2. PICK old : old = local[r]
  OBVIOUS
<1>3. TG!MergeShaped(old, store) /\ TG!Busy(r)
  BY <1>1, <1>2, RequestIsShaped
<1> DEFINE doc == TG!Filled(old.survSnapshot, old.mergedSnapshot)
           id == old.survId
<1>5. id \in DOMAIN store /\ doc \in TG!EntityRecords /\ doc.tin = store[id].tin
  <2>1. /\ TG!CopyOf(old.survSnapshot, old.survId, store)
        /\ TG!CopyOf(old.mergedSnapshot, old.mergedId, store)
    BY <1>3, MergeIs
  <2>2. /\ old.survSnapshot \in TG!EntityRecords /\ old.mergedSnapshot \in TG!EntityRecords
        /\ id \in DOMAIN store /\ store[id].tin = old.survSnapshot.tin
    BY <2>1 DEF TG!CopyOf
  <2> QED BY <2>2 DEF TG!Filled, TG!EntityRecords
<1>6. store' = [store EXCEPT ![id] = doc]
  BY <1>2 DEF TG!MergePutEntity
<1> HIDE DEF doc, id
<1>7. /\ store' \in Seq(TG!EntityRecords) /\ TinsKept(store, store')
      /\ DOMAIN store' \ DOMAIN store = {}
  BY <1>1, <1>5, <1>6, EntityReplaced
<1>8. PICK me : me = MergeAt(old, "record", old.prev, old.moved, old.left)
  OBVIOUS
<1>9. /\ TG!MergeShaped(me, store) /\ me.op = "merge" /\ me.tins = old.tins /\ me.pc = "record"
      /\ me.surv = old.surv /\ me.merged = old.merged
  BY <1>3, <1>8, MergeIs, MergeGoesOn
<1>10. local' = [local EXCEPT ![r] = me]
  <2>1. me = [old EXCEPT !.pc = "record"]
    BY <1>3, <1>8 DEF TG!MergeShaped, MergeAt
  <2> QED BY <1>2, <2>1 DEF TG!MergePutEntity
<1>11. local'[r] = me
  BY <1>1, <1>10 DEF TG!TinTypes
<1>12. TG!MergeUnderWay(r)'
  <2>1. TG!MergeUnderWay(r)
    BY DEF TG!TinInv, TG!MergeInv
  <2>2. u[old.surv].status # "merged_into" \/ old.surv \in excepted
    BY <1>1, <1>2, <2>1 DEF TG!MergeUnderWay
  <2>3. (\A x \in tinGraph.Registrations : v[x] # old.merged) \/ old.merged \in excepted \cup w
    BY <1>1, <1>2, <2>1 DEF TG!MergeUnderWay
  <2> QED BY <1>1, <1>9, <1>11, <2>2, <2>3 DEF TG!MergeUnderWay
<1>13. TG!ReqShaped(me, store', past)
  <2>1. TG!ReqShaped(me, store, past)
    BY <1>9 DEF TG!ReqShaped
  <2>2. MergesKept(past, past)
    BY DEF MergesKept
  <2> QED BY <1>7, <2>1, <2>2, RequestKept
<1>14. \A tin \in tinGraph.TINs :
         /\ ~TG!Provisions(r, tin, "invalidate") /\ ~TG!Provisions(r, tin, "put")'
         /\ ~TG!ComingBack(r, tin)
  BY <1>1, <1>9, <1>11 DEF TG!Provisions, TG!ComingBack
<1>15. me.tins = local[r].tins /\ (\A i, j \in DOMAIN store' \ DOMAIN store : i = j)
       /\ \A n \in DOMAIN store' \ DOMAIN store, tin \in tinGraph.TINs : store'[n].tin = tin => NewEntity(tin)
  BY <1>2, <1>7, <1>9
<1> QED BY <1>1, <1>3, <1>7, <1>10, <1>12, <1>13, <1>14, <1>15, EntityWritten

LEMMA UnmergePutEntityStep ==
  ASSUME TG!TinInv, NEW r \in tinGraph.Requests, TG!UnmergePutEntity(r)
  PROVE  TG!TinInv'
<1>1. /\ local[r].op = "unmerge" /\ local[r].pc \in {"survivor", "merged"}
      /\ mirror' = [mirror EXCEPT !.loaded = FALSE]
      /\ UNCHANGED <<u, v, past, excepted, count, mode, w>> /\ TG!TinTypes
  BY DEF TG!UnmergePutEntity, TG!ghosts, TG!TinInv
<1>2. PICK old : old = local[r]
  OBVIOUS
<1>3. /\ TG!UnmergeShaped(old, past) /\ TG!Busy(r) /\ old.m \in DOMAIN past
      /\ old.left \subseteq tinGraph.Registrations
  BY <1>1, <1>2, UnmergeIs
<1>4. /\ TG!CopyOf(past[old.m].survSnapshot, past[old.m].survId, store)
      /\ TG!CopyOf(past[old.m].mergedSnapshot, past[old.m].mergedId, store)
  BY <1>1, <1>3 DEF TG!TinTypes, TG!CopiesFit
<1>5. PICK doc, id, pc :
        /\ pc \in {"merged", "back"} /\ TG!CopyOf(doc, id, store) /\ store' = [store EXCEPT ![id] = doc]
        /\ local' = [local EXCEPT ![r] = [old EXCEPT !.pc = pc]]
  <2>1. CASE local[r].pc = "survivor"
    BY <1>2, <1>4, <2>1 DEF TG!UnmergePutEntity
  <2>2. CASE local[r].pc = "merged"
    BY <1>2, <1>4, <2>2 DEF TG!UnmergePutEntity
  <2> QED BY <1>1, <2>1, <2>2
<1>6. /\ store' \in Seq(TG!EntityRecords) /\ TinsKept(store, store')
      /\ DOMAIN store' \ DOMAIN store = {}
  <2>1. id \in DOMAIN store /\ doc \in TG!EntityRecords /\ doc.tin = store[id].tin
    BY <1>5 DEF TG!CopyOf
  <2> QED BY <1>1, <1>5, <2>1, EntityReplaced
<1>7. PICK me : me = UnmergeAt(old, pc, old.left)
  OBVIOUS
<1>8. TG!UnmergeShaped(me, past) /\ me.op = "unmerge" /\ me.tins = old.tins /\ me.pc = pc
  BY <1>3, <1>5, <1>7, UnmergeGoesOn
<1>9. local' = [local EXCEPT ![r] = me]
  <2>1. me = [old EXCEPT !.pc = pc]
    BY <1>3, <1>7 DEF TG!UnmergeShaped, UnmergeAt
  <2> QED BY <1>5, <2>1
<1>10. local'[r] = me
  BY <1>1, <1>9 DEF TG!TinTypes
<1>11. TG!MergeUnderWay(r)'
  BY <1>5, <1>8, <1>10 DEF TG!MergeUnderWay
<1>12. TG!ReqShaped(me, store', past)
  <2>1. TG!ReqShaped(me, store, past)
    BY <1>8 DEF TG!ReqShaped
  <2>2. MergesKept(past, past)
    BY DEF MergesKept
  <2> QED BY <1>6, <2>1, <2>2, RequestKept
<1>13. \A tin \in tinGraph.TINs :
         /\ ~TG!Provisions(r, tin, "invalidate") /\ ~TG!Provisions(r, tin, "put")'
         /\ ~TG!ComingBack(r, tin)
  BY <1>1, <1>8, <1>10 DEF TG!Provisions, TG!ComingBack
<1>14. me.tins = local[r].tins /\ (\A i, j \in DOMAIN store' \ DOMAIN store : i = j)
       /\ \A n \in DOMAIN store' \ DOMAIN store, tin \in tinGraph.TINs : store'[n].tin = tin => NewEntity(tin)
  BY <1>2, <1>6, <1>8
<1> QED BY <1>1, <1>3, <1>6, <1>9, <1>11, <1>12, <1>13, <1>14, EntityWritten

\* A request writes lifecycles, registrations or merges of TINs it works on.
LEMMA MergeWrites ==
  ASSUME TG!TinInv, NEW r \in tinGraph.Requests, NEW me, NEW T, local' = [local EXCEPT ![r] = me],
         TG!ReqShaped(me, store, past'),
         TG!Busy(r), T \subseteq local[r].tins, T \subseteq tinGraph.TINs,
         me.pc = "done" \/ me.tins = local[r].tins, local[r].op # "provision", me.op # "provision",
         UNCHANGED <<store, mirror, excepted, count, w>>, mode \subseteq mode',
         MergesKept(past, past'), past' \in Seq(TG!MergeRecords),
         \A n \in DOMAIN past' : TG!CopiesFit(past'[n], store),
         u' \in [tinGraph.TINs -> [status : TG!LifecycleStatus, into : tinGraph.TINs \cup {TG!NoTIN}]],
         v' \in [tinGraph.Registrations -> tinGraph.TINs],
         \A t \in tinGraph.TINs \ T : TinKept(r, t),
         TG!MergeUnderWay(r)',
         \A t \in T : TinSettled(t)
  PROVE  TG!TinInv'
<1>1. TG!TinTypes /\ TG!Exclusive /\ TG!IndexInv /\ TG!MergeInv
  BY DEF TG!TinInv
<1>2. local'[r] = me /\ \A q \in tinGraph.Requests \ {r} : local'[q] = local[q]
  BY <1>1 DEF TG!TinTypes
<1>3. TG!Exclusive'
  BY <1>1, ExclusiveKept
<1>4. TG!IndexInv' /\ mirror' \in [loaded : BOOLEAN, list : Seq(TG!EntityRecords)]
  <2>1. \A q \in tinGraph.Requests, tin \in tinGraph.TINs :
          /\ TG!Provisions(q, tin, "invalidate") => TG!Provisions(q, tin, "invalidate")'
          /\ TG!Provisions(q, tin, "put")' => TG!Provisions(q, tin, "put")
    BY <1>2 DEF TG!Provisions
  <2>2. Refreshed /\ excepted \subseteq excepted' /\ (count => count')
    BY DEF Refreshed
  <2> QED BY <1>1, <2>1, <2>2, IndexKept
<1>5. TG!TinTypes'
  <2>1. TinsKept(store, store') /\ store' \in Seq(TG!EntityRecords) /\ TG!ReqShaped(me, store', past')
    BY <1>1 DEF TinsKept, TG!TinTypes
  <2> QED BY <1>1, <1>4, <2>1, TinTypesKept
<1>6. TG!MergeInv'
  <2>1. excepted \subseteq excepted' /\ w \subseteq w'
    OBVIOUS
  <2> QED BY <1>1, <2>1, MergeKept
<1> QED BY <1>3, <1>4, <1>5, <1>6 DEF TG!TinInv

LEMMA PutStatusStep ==
  ASSUME TG!TinInv, NEW r \in tinGraph.Requests, TG!PutStatus(r)
  PROVE  TG!TinInv'
<1>1. PICK tin, to : tin = local[r].tin /\ to = local[r].to
  OBVIOUS
<1>2. /\ local[r].op = "status" /\ local' = [local EXCEPT ![r] = TG!Served]
      /\ u' = [u EXCEPT ![tin] = [status |-> to, into |-> TG!NoTIN]]
      /\ mode' = IF to = "merged_into" THEN mode \cup {tin} ELSE mode
      /\ UNCHANGED <<store, mirror, v, past, excepted, count, w>> /\ TG!TinTypes
  BY <1>1 DEF TG!PutStatus, TG!TinInv
<1>3. TG!StatusShaped(local[r]) /\ TG!Busy(r) /\ tin \in local[r].tins /\ tin \in tinGraph.TINs
  BY <1>1, <1>2, RequestIsShaped, WorkedOn
<1>4. to \in TG!LifecycleStatus
  BY <1>1, <1>3 DEF TG!StatusShaped
<1>5. u'[tin] = [status |-> to, into |-> TG!NoTIN] /\ \A t \in tinGraph.TINs \ {tin} : u'[t] = u[t]
  BY <1>2, <1>3 DEF TG!TinTypes
<1>6. PICK T : T = {tin}
  OBVIOUS
<1>7. T \subseteq local[r].tins /\ T \subseteq tinGraph.TINs /\ mode \subseteq mode'
  BY <1>2, <1>3, <1>6
<1>8. TG!Served.op = "none" /\ TG!Served.pc = "done" /\ local'[r] = TG!Served
  BY <1>2 DEF TG!Served, TG!TinTypes
<1>9. TG!ReqShaped(TG!Served, store, past') /\ TG!MergeUnderWay(r)'
  BY <1>8 DEF TG!ReqShaped, TG!MergeUnderWay
<1>10. \A t \in tinGraph.TINs \ T : TinKept(r, t)
  BY <1>2, <1>5, <1>6 DEF TinKept, TG!OpenMerges, TG!ComingBack
<1>11. TinSettled(tin)
  <2>1. u'[tin].status = to /\ u'[tin].into = TG!NoTIN /\ (to = "merged_into" => tin \in mode')
    BY <1>2, <1>5
  <2>2. TG!MergedIsEmpty(tin)'
    BY <2>1 DEF TG!MergedIsEmpty
  <2>3. TG!NoTIN \notin tinGraph.TINs
    BY RegistersAssumption DEF TG!Parameters
  <2> QED BY <2>1, <2>2, <2>3 DEF TinSettled
<1>12. /\ MergesKept(past, past') /\ past' \in Seq(TG!MergeRecords)
       /\ \A n \in DOMAIN past' : TG!CopiesFit(past'[n], store)
       /\ v' \in [tinGraph.Registrations -> tinGraph.TINs]
  BY <1>2 DEF MergesKept, TG!TinTypes
<1>13. u' \in [tinGraph.TINs -> [status : TG!LifecycleStatus, into : tinGraph.TINs \cup {TG!NoTIN}]]
  BY <1>2, <1>4 DEF TG!TinTypes
<1>14. \A t \in T : TinSettled(t)
  BY <1>6, <1>11
<1> QED BY <1>2, <1>3, <1>7, <1>8, <1>9, <1>10, <1>12, <1>13, <1>14, MergeWrites

LEMMA MoveRegistrationStep ==
  ASSUME TG!TinInv, NEW r \in tinGraph.Requests, TG!MoveRegistration(r)
  PROVE  TG!TinInv'
<1>1. /\ local[r].op = "merge" /\ local[r].pc = "move"
      /\ UNCHANGED <<store, mirror, u, past, excepted, count, mode, w>> /\ TG!TinTypes
  BY DEF TG!MoveRegistration, TG!ghosts, TG!TinInv
<1>2. PICK old : old = local[r]
  OBVIOUS
<1>3. TG!MergeShaped(old, store) /\ TG!Busy(r) /\ old.left \subseteq tinGraph.Registrations
  BY <1>1, <1>2, RequestIsShaped, MergeIs
<1>4. PICK x \in old.left :
        /\ v' = [v EXCEPT ![x] = old.surv]
        /\ local' = [local EXCEPT ![r].left = @ \ {x}, ![r].moved = @ \cup {x}]
  BY <1>2 DEF TG!MoveRegistration
<1>5. PICK left, moved : left = old.left \ {x} /\ moved = old.moved \cup {x}
  OBVIOUS
<1>6. PICK me : me = MergeAt(old, "move", old.prev, moved, left)
  OBVIOUS
<1>7. /\ TG!MergeShaped(me, store) /\ me.op = "merge" /\ me.tins = old.tins /\ me.pc = "move"
      /\ me.surv = old.surv /\ me.merged = old.merged /\ me.left = left
  <2>1. left \subseteq tinGraph.Registrations /\ moved \subseteq tinGraph.Registrations
    BY <1>3, <1>4, <1>5, MergeIs
  <2> QED BY <1>3, <1>6, <2>1, MergeIs, MergeGoesOn
<1>8. local' = [local EXCEPT ![r] = me]
  <2>1. me = [old EXCEPT !.left = left, !.moved = moved]
    <3>1. DOMAIN old = {"op", "tins", "pc", "surv", "merged", "survId", "mergedId", "survSnapshot",
                        "mergedSnapshot", "prev", "moved", "left"}
      BY <1>3 DEF TG!MergeShaped
    <3>2. old.pc = "move"
      BY <1>1, <1>2
    <3> QED BY <1>6, <3>1, <3>2 DEF MergeAt
  <2>2. local' = [local EXCEPT ![r] = [old EXCEPT !.left = left, !.moved = moved]]
    BY <1>2, <1>4, <1>5
  <2> QED BY <2>1, <2>2
<1>9. local'[r] = me
  BY <1>1, <1>8 DEF TG!TinTypes
<1>10. old.surv # old.merged /\ old.surv \in tinGraph.TINs /\ old.surv \in old.tins
  BY <1>3, MergeIs
<1>11. v'[x] = old.surv /\ (\A y \in tinGraph.Registrations \ {x} : v'[y] = v[y])
       /\ v' \in [tinGraph.Registrations -> tinGraph.TINs]
  BY <1>1, <1>3, <1>4, <1>10 DEF TG!TinTypes
<1>12. TG!MergeUnderWay(r)
  BY DEF TG!TinInv, TG!MergeInv
<1>13. u[old.surv].status # "merged_into" \/ old.surv \in excepted
  BY <1>1, <1>2, <1>12 DEF TG!MergeUnderWay
<1>14. TG!MergeUnderWay(r)'
  <2>1. \/ old.merged \in excepted \cup w
        \/ \A y \in tinGraph.Registrations : v[y] = old.merged => y \in old.left
    BY <1>1, <1>2, <1>12 DEF TG!MergeUnderWay
  <2>2. \/ old.merged \in excepted \cup w
        \/ \A y \in tinGraph.Registrations : v'[y] = old.merged => y \in left
    BY <1>5, <1>10, <1>11, <2>1
  <2> QED BY <1>1, <1>7, <1>9, <1>13, <2>2 DEF TG!MergeUnderWay
<1>15. PICK T : T = {old.surv}
  OBVIOUS
<1>16. T \subseteq local[r].tins /\ T \subseteq tinGraph.TINs /\ mode \subseteq mode'
  BY <1>1, <1>2, <1>10, <1>15
<1>17. \A t \in tinGraph.TINs \ T : TinKept(r, t)
  <2> SUFFICES ASSUME NEW t \in tinGraph.TINs, t # old.surv PROVE TinKept(r, t)
    BY <1>15
  <2>1. \A y \in tinGraph.Registrations : v'[y] = t => v[y] = t
    BY <1>11
  <2>2. TG!OpenMerges(t)' = TG!OpenMerges(t) /\ ~TG!ComingBack(r, t)
    BY <1>1 DEF TG!OpenMerges, TG!ComingBack
  <2> QED BY <1>1, <2>1, <2>2 DEF TinKept
<1>18. TinSettled(old.surv)
  <2>1. u' = u /\ TG!OpenMerges(old.surv)' = TG!OpenMerges(old.surv)
    BY <1>1 DEF TG!OpenMerges
  <2>2. u[old.surv].status = "merged_into" => old.surv \in excepted'
    BY <1>1, <1>13
  <2>3. TG!MergedIsEmpty(old.surv)'
    BY <2>1, <2>2 DEF TG!MergedIsEmpty
  <2> QED BY <2>1, <2>2, <2>3 DEF TinSettled
<1>19. /\ MergesKept(past, past') /\ past' \in Seq(TG!MergeRecords)
       /\ \A n \in DOMAIN past' : TG!CopiesFit(past'[n], store)
       /\ u' \in [tinGraph.TINs -> [status : TG!LifecycleStatus, into : tinGraph.TINs \cup {TG!NoTIN}]]
  BY <1>1 DEF MergesKept, TG!TinTypes
<1>20. TG!ReqShaped(me, store, past') /\ me.tins = local[r].tins /\ \A t \in T : TinSettled(t)
  BY <1>2, <1>7, <1>15, <1>18 DEF TG!ReqShaped
<1> QED BY <1>1, <1>3, <1>7, <1>8, <1>11, <1>14, <1>16, <1>17, <1>19, <1>20, MergeWrites

LEMMA MergePutRecordStep ==
  ASSUME TG!TinInv, NEW r \in tinGraph.Requests, TG!MergePutRecord(r)
  PROVE  TG!TinInv'
<1>1. /\ local[r].op = "merge" /\ local[r].pc = "record" /\ past' = Append(past, TG!MergeRecord(local[r]))
      /\ UNCHANGED <<store, mirror, u, v, excepted, count, mode, w>> /\ TG!TinTypes
  BY DEF TG!MergePutRecord, TG!ghosts, TG!TinInv
<1>2. PICK old, record : old = local[r] /\ record = TG!MergeRecord(old)
  OBVIOUS
<1>3. TG!MergeShaped(old, store) /\ TG!Busy(r)
  BY <1>1, <1>2, RequestIsShaped
<1>4. /\ record \in TG!MergeRecords /\ TG!CopiesFit(record, store) /\ record.merged = old.merged
      /\ record.undone = FALSE
  <2>1. record = [surv |-> old.surv, merged |-> old.merged, survId |-> old.survId, mergedId |-> old.mergedId,
                  survSnapshot |-> old.survSnapshot, mergedSnapshot |-> old.mergedSnapshot,
                  moved |-> old.moved, prev |-> old.prev, undone |-> FALSE]
    BY <1>2 DEF TG!MergeRecord
  <2>2. /\ TG!CopyOf(old.survSnapshot, old.survId, store)
        /\ TG!CopyOf(old.mergedSnapshot, old.mergedId, store)
    BY <1>3, MergeIs
  <2>3. old.survSnapshot \in TG!EntityRecords /\ old.mergedSnapshot \in TG!EntityRecords
    BY <2>2 DEF TG!CopyOf
  <2>4. record \in TG!MergeRecords
    BY <1>3, <2>1, <2>3, MergeIs DEF TG!MergeRecords
  <2>5. TG!CopiesFit(record, store)
    BY <2>1, <2>2 DEF TG!CopiesFit
  <2> QED BY <2>1, <2>4, <2>5
<1>5. /\ past \in Seq(TG!MergeRecords) /\ past' \in Seq(TG!MergeRecords)
      /\ DOMAIN past' = DOMAIN past \cup {Len(past) + 1} /\ past'[Len(past) + 1] = record
      /\ \A n \in DOMAIN past : past'[n] = past[n]
  <2>1. past \in Seq(TG!MergeRecords) /\ past' = Append(past, record)
    BY <1>1, <1>2 DEF TG!TinTypes
  <2> QED BY <1>4, <2>1
<1>6. MergesKept(past, past') /\ \A n \in DOMAIN past' : TG!CopiesFit(past'[n], store)
  BY <1>1, <1>4, <1>5 DEF MergesKept, TG!TinTypes
<1>7. TG!OpenMerges(old.merged)' # {} /\ \A t : TG!OpenMerges(t) # {} => TG!OpenMerges(t)' # {}
  <2>1. Len(past) + 1 \in TG!OpenMerges(old.merged)'
    BY <1>4, <1>5 DEF TG!OpenMerges
  <2>2. \A t : TG!OpenMerges(t) \subseteq TG!OpenMerges(t)'
    BY <1>5 DEF TG!OpenMerges
  <2> QED BY <2>1, <2>2
<1>8. PICK me : me = MergeAt(old, "status", old.prev, old.moved, old.left)
  OBVIOUS
<1>9. /\ TG!MergeShaped(me, store) /\ me.op = "merge" /\ me.tins = old.tins /\ me.pc = "status"
      /\ me.surv = old.surv /\ me.merged = old.merged
  BY <1>3, <1>8, MergeIs, MergeGoesOn
<1>10. local' = [local EXCEPT ![r] = me]
  <2>1. me = [old EXCEPT !.pc = "status"]
    BY <1>3, <1>8 DEF TG!MergeShaped, MergeAt
  <2> QED BY <1>2, <2>1 DEF TG!MergePutRecord
<1>11. local'[r] = me
  BY <1>1, <1>10 DEF TG!TinTypes
<1>12. TG!MergeUnderWay(r)'
  <2>1. TG!MergeUnderWay(r)
    BY DEF TG!TinInv, TG!MergeInv
  <2>2. /\ u[old.surv].status # "merged_into" \/ old.surv \in excepted
        /\ (\A x \in tinGraph.Registrations : v[x] # old.merged) \/ old.merged \in excepted \cup w
    BY <1>1, <1>2, <2>1 DEF TG!MergeUnderWay
  <2> QED BY <1>1, <1>7, <1>9, <1>11, <2>2 DEF TG!MergeUnderWay
<1>13. PICK T : T = {}
  OBVIOUS
<1>14. /\ T \subseteq local[r].tins /\ T \subseteq tinGraph.TINs /\ mode \subseteq mode'
       /\ \A t \in T : TinSettled(t)
  BY <1>1, <1>13
<1>15. \A t \in tinGraph.TINs \ T : TinKept(r, t)
  BY <1>1, <1>7 DEF TinKept, TG!ComingBack
<1>16. /\ u' \in [tinGraph.TINs -> [status : TG!LifecycleStatus, into : tinGraph.TINs \cup {TG!NoTIN}]]
       /\ v' \in [tinGraph.Registrations -> tinGraph.TINs]
  BY <1>1 DEF TG!TinTypes
<1>17. TG!ReqShaped(me, store, past') /\ me.tins = local[r].tins
  BY <1>2, <1>9 DEF TG!ReqShaped
<1> QED BY <1>1, <1>3, <1>5, <1>6, <1>9, <1>10, <1>12, <1>14, <1>15, <1>16, <1>17, MergeWrites

LEMMA MergePutStatusStep ==
  ASSUME TG!TinInv, NEW r \in tinGraph.Requests, TG!MergePutStatus(r)
  PROVE  TG!TinInv'
<1>1. /\ local[r].op = "merge" /\ local[r].pc \in {"status", "into"}
      /\ UNCHANGED <<store, mirror, v, past, excepted, count, mode, w>> /\ TG!TinTypes
  BY DEF TG!MergePutStatus, TG!ghosts, TG!TinInv
<1>2. PICK old : old = local[r]
  OBVIOUS
<1>3. TG!MergeShaped(old, store) /\ TG!Busy(r)
  BY <1>1, <1>2, RequestIsShaped
<1>4. /\ old.surv # old.merged /\ old.surv \in tinGraph.TINs /\ old.merged \in tinGraph.TINs
      /\ old.merged \in old.tins
  BY <1>3, MergeIs
<1>5. /\ u[old.surv].status # "merged_into" \/ old.surv \in excepted
      /\ (\A x \in tinGraph.Registrations : v[x] # old.merged) \/ old.merged \in excepted \cup w
      /\ TG!OpenMerges(old.merged) # {} \/ old.merged \in excepted
  <2>1. TG!MergeUnderWay(r)
    BY DEF TG!TinInv, TG!MergeInv
  <2> QED BY <1>1, <1>2, <2>1 DEF TG!MergeUnderWay
<1>6. PICK me, into :
        /\ local' = [local EXCEPT ![r] = me] /\ me.op # "provision"
        /\ TG!ReqShaped(me, store, past') /\ TG!MergeUnderWay(r)'
        /\ me.pc = "done" \/ me.tins = old.tins
        /\ into \in {TG!NoTIN, old.surv}
        /\ u' \in [tinGraph.TINs -> [status : TG!LifecycleStatus, into : tinGraph.TINs \cup {TG!NoTIN}]]
        /\ u'[old.merged].into = into /\ \A t \in tinGraph.TINs \ {old.merged} : u'[t] = u[t]
  <2>1. CASE local[r].pc = "status"
    <3>1. PICK me : me = MergeAt(old, "into", old.prev, old.moved, old.left)
      OBVIOUS
    <3>2. /\ TG!MergeShaped(me, store) /\ me.op = "merge" /\ me.tins = old.tins /\ me.pc = "into"
          /\ me.surv = old.surv /\ me.merged = old.merged
      BY <1>3, <3>1, MergeIs, MergeGoesOn
    <3>3. me = [old EXCEPT !.pc = "into"]
      BY <1>3, <3>1 DEF TG!MergeShaped, MergeAt
    <3>4. /\ local' = [local EXCEPT ![r] = me]
          /\ u' = [u EXCEPT ![old.merged] = [status |-> "merged_into", into |-> TG!NoTIN]]
      BY <1>2, <2>1, <3>3 DEF TG!MergePutStatus
    <3>5. /\ u' \in [tinGraph.TINs -> [status : TG!LifecycleStatus, into : tinGraph.TINs \cup {TG!NoTIN}]]
          /\ u'[old.merged].into = TG!NoTIN /\ \A t \in tinGraph.TINs \ {old.merged} : u'[t] = u[t]
      BY <1>1, <1>4, <3>4 DEF TG!TinTypes, TG!LifecycleStatus
    <3>6. local'[r] = me /\ u'[old.surv] = u[old.surv] /\ TG!OpenMerges(old.merged)' = TG!OpenMerges(old.merged)
      BY <1>1, <1>4, <3>4, <3>5 DEF TG!TinTypes, TG!OpenMerges
    <3>7. TG!MergeUnderWay(r)'
      BY <1>1, <1>5, <3>2, <3>6 DEF TG!MergeUnderWay
    <3>8. TG!ReqShaped(me, store, past') /\ me.op # "provision"
      BY <3>2 DEF TG!ReqShaped
    <3> QED BY <3>2, <3>4, <3>5, <3>7, <3>8
  <2>2. CASE local[r].pc = "into"
    <3>1. PICK status \in {u[old.merged].status, "merged_into"} :
            /\ local' = [local EXCEPT ![r] = TG!Served]
            /\ u' = [u EXCEPT ![old.merged] = [status |-> status, into |-> old.surv]]
      BY <1>2, <2>2 DEF TG!MergePutStatus
    <3>2. TG!Served.op = "none" /\ TG!Served.pc = "done" /\ local'[r] = TG!Served
      BY <1>1, <3>1 DEF TG!Served, TG!TinTypes
    <3>3. TG!ReqShaped(TG!Served, store, past') /\ TG!MergeUnderWay(r)'
      BY <3>2 DEF TG!ReqShaped, TG!MergeUnderWay
    <3>4. /\ u' \in [tinGraph.TINs -> [status : TG!LifecycleStatus, into : tinGraph.TINs \cup {TG!NoTIN}]]
          /\ u'[old.merged].into = old.surv /\ \A t \in tinGraph.TINs \ {old.merged} : u'[t] = u[t]
      <4>1. status \in TG!LifecycleStatus
        BY <1>1, <1>4, <3>1 DEF TG!TinTypes, TG!LifecycleStatus
      <4> QED BY <1>1, <1>4, <3>1, <4>1 DEF TG!TinTypes
    <3> QED BY <3>1, <3>2, <3>3, <3>4
  <2> QED BY <1>1, <2>1, <2>2
<1>7. PICK T : T = {old.merged}
  OBVIOUS
<1>8. /\ T \subseteq local[r].tins /\ T \subseteq tinGraph.TINs /\ mode \subseteq mode'
      /\ me.pc = "done" \/ me.tins = local[r].tins
  BY <1>1, <1>2, <1>4, <1>6, <1>7
<1>9. \A t \in tinGraph.TINs \ T : TinKept(r, t)
  BY <1>1, <1>6, <1>7 DEF TinKept, TG!OpenMerges, TG!ComingBack
<1>10. TinSettled(old.merged)
  <2>1. TG!OpenMerges(old.merged)' = TG!OpenMerges(old.merged)
    BY <1>1 DEF TG!OpenMerges
  <2>2. TG!MergedIsEmpty(old.merged)'
    BY <1>1, <1>5 DEF TG!MergedIsEmpty
  <2>3. TG!NoTIN \notin tinGraph.TINs
    BY RegistersAssumption DEF TG!Parameters
  <2>4. \/ u'[old.merged].into \notin tinGraph.TINs
        \/ u'[old.merged].into \in excepted' \/ u'[u'[old.merged].into].status # "merged_into"
    BY <1>1, <1>4, <1>5, <1>6, <2>3
  <2> QED BY <1>1, <1>5, <2>1, <2>2, <2>4 DEF TinSettled
<1>11. /\ MergesKept(past, past') /\ past' \in Seq(TG!MergeRecords)
       /\ \A n \in DOMAIN past' : TG!CopiesFit(past'[n], store)
       /\ v' \in [tinGraph.Registrations -> tinGraph.TINs]
  BY <1>1 DEF MergesKept, TG!TinTypes
<1>12. \A t \in T : TinSettled(t)
  BY <1>7, <1>10
<1> QED BY <1>1, <1>3, <1>6, <1>8, <1>9, <1>11, <1>12, MergeWrites

LEMMA MoveBackStep ==
  ASSUME TG!TinInv, NEW r \in tinGraph.Requests, TG!MoveBack(r)
  PROVE  TG!TinInv'
<1>1. /\ local[r].op = "unmerge" /\ local[r].pc = "back"
      /\ UNCHANGED <<store, mirror, u, past, excepted, count, mode, w>>
      /\ TG!TinTypes /\ TG!MergedIsReversible
  BY DEF TG!MoveBack, TG!ghosts, TG!TinInv, TG!MergeInv
<1>2. PICK old : old = local[r]
  OBVIOUS
<1>3. /\ TG!UnmergeShaped(old, past) /\ TG!Busy(r) /\ old.left \subseteq tinGraph.Registrations
      /\ old.merged \in old.tins /\ old.merged \in tinGraph.TINs
  BY <1>1, <1>2, UnmergeIs
<1>4. PICK x \in old.left :
        v' = [v EXCEPT ![x] = old.merged] /\ local' = [local EXCEPT ![r].left = @ \ {x}]
  BY <1>2 DEF TG!MoveBack
<1>5. PICK left : left = old.left \ {x}
  OBVIOUS
<1>6. PICK me : me = UnmergeAt(old, "back", left)
  OBVIOUS
<1>7. /\ TG!UnmergeShaped(me, past) /\ me.op = "unmerge" /\ me.tins = old.tins /\ me.pc = "back"
      /\ me.merged = old.merged
  <2>1. left \subseteq tinGraph.Registrations
    BY <1>3, <1>5
  <2> QED BY <1>3, <1>6, <2>1, UnmergeGoesOn
<1>8. local' = [local EXCEPT ![r] = me]
  <2>1. me = [old EXCEPT !.left = left]
    BY <1>1, <1>2, <1>3, <1>6 DEF TG!UnmergeShaped, UnmergeAt
  <2>2. local' = [local EXCEPT ![r] = [old EXCEPT !.left = left]]
    BY <1>2, <1>4, <1>5
  <2> QED BY <2>1, <2>2
<1>9. local'[r] = me
  BY <1>1, <1>8 DEF TG!TinTypes
<1>10. /\ v' \in [tinGraph.Registrations -> tinGraph.TINs]
       /\ \A y \in tinGraph.Registrations : v'[y] \in {v[y], old.merged}
  BY <1>1, <1>3, <1>4 DEF TG!TinTypes
<1>11. TG!MergeUnderWay(r)'
  BY <1>7, <1>9 DEF TG!MergeUnderWay
<1>12. PICK T : T = {old.merged}
  OBVIOUS
<1>13. /\ T \subseteq local[r].tins /\ T \subseteq tinGraph.TINs /\ mode \subseteq mode'
       /\ me.tins = local[r].tins /\ TG!ReqShaped(me, store, past')
  BY <1>1, <1>2, <1>3, <1>7, <1>12 DEF TG!ReqShaped
<1>14. \A t : TG!OpenMerges(t)' = TG!OpenMerges(t)
  BY <1>1 DEF TG!OpenMerges
<1>15. \A t \in tinGraph.TINs \ T : TinKept(r, t)
  BY <1>1, <1>2, <1>10, <1>12, <1>14 DEF TinKept, TG!ComingBack
<1>16. TinSettled(old.merged)
  <2>1. TG!ComingBack(r, old.merged)'
    BY <1>7, <1>9 DEF TG!ComingBack
  <2>2. TG!MergedIsEmpty(old.merged)'
    BY <2>1 DEF TG!MergedIsEmpty
  <2> QED BY <1>1, <1>3, <1>14, <2>2 DEF TinSettled, TG!MergedIsReversible
<1>17. /\ MergesKept(past, past') /\ past' \in Seq(TG!MergeRecords)
       /\ \A n \in DOMAIN past' : TG!CopiesFit(past'[n], store)
       /\ u' \in [tinGraph.TINs -> [status : TG!LifecycleStatus, into : tinGraph.TINs \cup {TG!NoTIN}]]
  BY <1>1 DEF MergesKept, TG!TinTypes
<1>18. \A t \in T : TinSettled(t)
  BY <1>12, <1>16
<1> QED BY <1>1, <1>3, <1>7, <1>8, <1>10, <1>11, <1>13, <1>15, <1>17, <1>18, MergeWrites

LEMMA UnmergePutStatusStep ==
  ASSUME TG!TinInv, NEW r \in tinGraph.Requests, TG!UnmergePutStatus(r)
  PROVE  TG!TinInv'
<1>1. /\ local[r].op = "unmerge" /\ local[r].pc = "back"
      /\ UNCHANGED <<store, mirror, v, past, excepted, count, mode, w>> /\ TG!TinTypes
  BY DEF TG!UnmergePutStatus, TG!ghosts, TG!TinInv
<1>2. PICK old, prev : old = local[r] /\ prev = past[old.m].prev
  OBVIOUS
<1>3. /\ TG!UnmergeShaped(old, past) /\ TG!Busy(r) /\ old.left \subseteq tinGraph.Registrations
      /\ old.merged \in old.tins /\ old.merged \in tinGraph.TINs /\ old.m \in DOMAIN past
  BY <1>1, <1>2, UnmergeIs
<1>4. prev \in {"active", "suspended"}
  <2>1. past[old.m] \in TG!MergeRecords
    BY <1>1, <1>3 DEF TG!TinTypes
  <2> QED BY <1>2, <2>1 DEF TG!MergeRecords
<1>5. u' = [u EXCEPT ![old.merged] = [status |-> prev, into |-> TG!NoTIN]]
  BY <1>2 DEF TG!UnmergePutStatus
<1>6. /\ u' \in [tinGraph.TINs -> [status : TG!LifecycleStatus, into : tinGraph.TINs \cup {TG!NoTIN}]]
      /\ u'[old.merged].status # "merged_into" /\ \A t \in tinGraph.TINs \ {old.merged} : u'[t] = u[t]
  BY <1>1, <1>3, <1>4, <1>5 DEF TG!TinTypes, TG!LifecycleStatus
<1>7. PICK me : me = UnmergeAt(old, "receipt", old.left)
  OBVIOUS
<1>8. /\ TG!UnmergeShaped(me, past) /\ me.op = "unmerge" /\ me.tins = old.tins /\ me.pc = "receipt"
      /\ me.merged = old.merged
  BY <1>3, <1>7, UnmergeGoesOn
<1>9. local' = [local EXCEPT ![r] = me]
  <2>1. me = [old EXCEPT !.pc = "receipt"]
    BY <1>3, <1>7 DEF TG!UnmergeShaped, UnmergeAt
  <2> QED BY <1>2, <2>1 DEF TG!UnmergePutStatus
<1>10. local'[r] = me
  BY <1>1, <1>9 DEF TG!TinTypes
<1>11. TG!MergeUnderWay(r)'
  BY <1>6, <1>8, <1>10 DEF TG!MergeUnderWay
<1>12. PICK T : T = {old.merged}
  OBVIOUS
<1>13. /\ T \subseteq local[r].tins /\ T \subseteq tinGraph.TINs /\ mode \subseteq mode'
       /\ me.tins = local[r].tins /\ TG!ReqShaped(me, store, past')
  BY <1>1, <1>2, <1>3, <1>8, <1>12 DEF TG!ReqShaped
<1>14. \A t \in tinGraph.TINs \ T : TinKept(r, t)
  BY <1>1, <1>2, <1>6, <1>12 DEF TinKept, TG!ComingBack, TG!OpenMerges
<1>15. \A t \in T : TinSettled(t)
  BY <1>6, <1>12 DEF TinSettled, TG!MergedIsEmpty
<1>16. /\ MergesKept(past, past') /\ past' \in Seq(TG!MergeRecords)
       /\ \A n \in DOMAIN past' : TG!CopiesFit(past'[n], store)
       /\ v' \in [tinGraph.Registrations -> tinGraph.TINs]
  BY <1>1 DEF MergesKept, TG!TinTypes
<1> QED BY <1>1, <1>3, <1>6, <1>8, <1>9, <1>11, <1>13, <1>14, <1>15, <1>16, MergeWrites

LEMMA UnmergePutRecordStep ==
  ASSUME TG!TinInv, NEW r \in tinGraph.Requests, TG!UnmergePutRecord(r)
  PROVE  TG!TinInv'
<1>1. /\ local[r].op = "unmerge" /\ local[r].pc = "receipt" /\ local' = [local EXCEPT ![r] = TG!Served]
      /\ past' = [past EXCEPT ![local[r].m].undone = TRUE]
      /\ UNCHANGED <<store, mirror, u, v, excepted, count, mode, w>>
      /\ TG!TinTypes /\ TG!MergeInv
  BY DEF TG!UnmergePutRecord, TG!ghosts, TG!TinInv
<1>2. PICK m, tin : m = local[r].m /\ tin = local[r].merged
  OBVIOUS
<1>3. /\ TG!Busy(r) /\ tin \in local[r].tins /\ tin \in tinGraph.TINs
      /\ m \in DOMAIN past /\ past[m].merged = tin
  BY <1>1, <1>2, UnmergeIs
<1>4. u[tin].status # "merged_into" \/ tin \in excepted
  BY <1>1, <1>2 DEF TG!MergeInv, TG!MergeUnderWay
<1>5. PICK record : record = [past[m] EXCEPT !.undone = TRUE]
  OBVIOUS
<1>6. /\ record \in TG!MergeRecords /\ record.merged = tin /\ record.surv = past[m].surv
      /\ TG!CopiesFit(record, store)
  <2>1. past[m] \in TG!MergeRecords /\ TG!CopiesFit(past[m], store)
    BY <1>1, <1>3 DEF TG!TinTypes
  <2> QED BY <1>3, <1>5, <2>1 DEF TG!MergeRecords, TG!CopiesFit
<1>7. past' = [past EXCEPT ![m] = record] /\ past \in Seq(TG!MergeRecords)
  BY <1>1, <1>2, <1>5 DEF TG!TinTypes
<1>8. /\ past' \in Seq(TG!MergeRecords) /\ DOMAIN past' = DOMAIN past /\ past'[m] = record
      /\ \A n \in DOMAIN past \ {m} : past'[n] = past[n]
  BY <1>3, <1>6, <1>7
<1>9. MergesKept(past, past') /\ \A n \in DOMAIN past' : TG!CopiesFit(past'[n], store)
  BY <1>1, <1>3, <1>6, <1>8 DEF MergesKept, TG!TinTypes
<1>10. PICK T : T = {tin}
  OBVIOUS
<1>11. TG!Served.op = "none" /\ TG!Served.pc = "done" /\ local'[r] = TG!Served
  BY <1>1 DEF TG!Served, TG!TinTypes
<1>12. TG!ReqShaped(TG!Served, store, past') /\ TG!MergeUnderWay(r)'
  BY <1>11 DEF TG!ReqShaped, TG!MergeUnderWay
<1>13. T \subseteq local[r].tins /\ T \subseteq tinGraph.TINs /\ mode \subseteq mode'
  BY <1>1, <1>3, <1>10
<1>14. \A t \in tinGraph.TINs \ T : TinKept(r, t)
  <2>1. ASSUME NEW t \in tinGraph.TINs, t # tin PROVE TG!OpenMerges(t) \subseteq TG!OpenMerges(t)'
    BY <1>3, <1>8, <2>1 DEF TG!OpenMerges
  <2> QED BY <1>1, <1>10, <2>1 DEF TinKept, TG!ComingBack
<1>15. TinSettled(tin)
  BY <1>1, <1>4 DEF TinSettled, TG!MergedIsEmpty
<1>16. /\ u' \in [tinGraph.TINs -> [status : TG!LifecycleStatus, into : tinGraph.TINs \cup {TG!NoTIN}]]
       /\ v' \in [tinGraph.Registrations -> tinGraph.TINs] /\ \A t \in T : TinSettled(t)
  BY <1>1, <1>10, <1>15 DEF TG!TinTypes
<1> QED BY <1>1, <1>3, <1>8, <1>9, <1>11, <1>12, <1>13, <1>14, <1>16, MergeWrites

LEMMA TinRestartStep ==
  ASSUME TG!TinInv, TG!Restart
  PROVE  TG!TinInv'
<1>1. /\ local' = [q \in tinGraph.Requests |-> IF TG!Busy(q) THEN TG!Served ELSE local[q]]
      /\ w' = w \cup UNION {local[q].tins : q \in {p \in tinGraph.Requests : TG!HalfDone(p)}}
      /\ mirror' = [loaded |-> FALSE, list |-> <<>>]
      /\ UNCHANGED <<store, u, v, past, excepted, count, mode>>
      /\ TG!TinTypes /\ TG!Exclusive /\ TG!IndexInv /\ TG!MergeInv
  BY DEF TG!Restart, TG!store, TG!TinInv
<1>2. TG!Served.op = "none" /\ TG!Served.pc = "done"
  BY DEF TG!Served
<1>3. \A q \in tinGraph.Requests :
        /\ local'[q].op = "none" /\ local'[q].pc \in {"new", "done"}
        /\ TG!ReqShaped(local'[q], store', past')
  <2> TAKE q \in tinGraph.Requests
  <2>1. CASE TG!Busy(q)
    <3>1. local'[q] = TG!Served
      BY <1>1, <2>1
    <3> QED BY <1>2, <3>1 DEF TG!ReqShaped
  <2>2. CASE ~TG!Busy(q)
    <3>1. local'[q] = local[q] /\ local[q].op = "none" /\ local[q].pc \in {"new", "done"}
      BY <1>1, <2>2, RequestIsShaped DEF TG!Busy
    <3>2. TG!ReqShaped(local[q], store, past)
      BY <1>1 DEF TG!TinTypes
    <3> QED BY <1>1, <3>1, <3>2
  <2> QED BY <2>1, <2>2
<1>4. TG!Exclusive'
  BY <1>3 DEF TG!Exclusive, TG!Busy
<1>5. TG!IndexInv' /\ mirror' \in [loaded : BOOLEAN, list : Seq(TG!EntityRecords)]
  <2>1. \A q \in tinGraph.Requests, tin \in tinGraph.TINs : ~TG!Provisions(q, tin, "put")'
    BY <1>3 DEF TG!Provisions
  <2>2. ~mirror'.loaded /\ Refreshed /\ excepted \subseteq excepted' /\ (count => count')
    BY <1>1 DEF Refreshed
  <2> QED BY <1>1, <2>1, <2>2, IndexKept
<1>6. TG!TinTypes'
  BY <1>1, <1>3, <1>5 DEF TG!TinTypes
<1>7. TG!MergeInv'
  <2>1. \A q \in tinGraph.Requests : TG!MergeUnderWay(q)'
    BY <1>3 DEF TG!MergeUnderWay
  <2>2. TG!MergedIsReversible' /\ TG!NoMergeCycle'
    BY <1>1 DEF TG!MergeInv, TG!MergedIsReversible, TG!NoMergeCycle, TG!OpenMerges
  <2>3. ASSUME NEW t \in tinGraph.TINs PROVE TG!MergedIsEmpty(t)'
    <3>1. TG!MergedIsEmpty(t)
      BY <1>1 DEF TG!MergeInv
    <3>2. ASSUME NEW q \in tinGraph.Requests, TG!ComingBack(q, t) PROVE t \in w'
      <4>1. TG!Busy(q) /\ t \in local[q].tins
        BY <1>1, <3>2, UnmergeIs DEF TG!ComingBack
      <4>2. TG!HalfDone(q)
        BY <3>2, <4>1 DEF TG!ComingBack, TG!HalfDone
      <4> QED BY <1>1, <4>1, <4>2
    <3>3. w \subseteq w'
      BY <1>1
    <3> QED BY <1>1, <3>1, <3>2, <3>3 DEF TG!MergedIsEmpty
  <2> QED BY <2>1, <2>2, <2>3 DEF TG!MergeInv
<1> QED BY <1>4, <1>5, <1>6, <1>7 DEF TG!TinInv

\* What a step does that leaves requests and records alone.
LEMMA OnlyIndexMoves ==
  ASSUME TG!TinInv, UNCHANGED <<store, local, u, v, past, excepted, mode, w>>,
         TG!IndexInv', mirror' \in [loaded : BOOLEAN, list : Seq(TG!EntityRecords)]
  PROVE  TG!TinInv'
<1>1. TG!TinTypes' /\ TG!Exclusive'
  BY DEF TG!TinInv, TG!TinTypes, TG!Exclusive, TG!Busy
<1>2. TG!MergeInv'
  BY DEF TG!TinInv, TG!MergeInv, TG!MergeUnderWay, TG!MergedIsReversible, TG!MergedIsEmpty, TG!ComingBack,
         TG!OpenMerges, TG!NoMergeCycle
<1> QED BY <1>1, <1>2 DEF TG!TinInv

LEMMA RebuildFailsStep ==
  ASSUME TG!TinInv, TG!RebuildFails
  PROVE  TG!TinInv'
<1>1. /\ mirror' = [loaded |-> TRUE, list |-> <<>>] /\ count' = TRUE
      /\ UNCHANGED <<store, local, u, v, past, excepted, mode, w>>
  BY DEF TG!RebuildFails, TG!store
<1>2. DOMAIN mirror'.list = {} /\ mirror' \in [loaded : BOOLEAN, list : Seq(TG!EntityRecords)]
  <2>1. <<>> \in Seq(TG!EntityRecords) /\ DOMAIN <<>> = {}
    OBVIOUS
  <2> QED BY <1>1, <2>1
<1>3. TG!OneEntityPerTIN'
  BY <1>1 DEF TG!OneEntityPerTIN
<1>4. TG!IndexInv'
  BY <1>1, <1>2, <1>3 DEF TG!IndexInv
<1> QED BY <1>1, <1>2, <1>4, OnlyIndexMoves

LEMMA TinGraphStarts ==
  ASSUME TG!Parameters, TG!Init
  PROVE  TG!TinInv
<1>1. /\ store = [n \in DOMAIN tinGraph.Known |-> TG!Entity(tinGraph.Known[n])]
      /\ mirror = [loaded |-> FALSE, list |-> <<>>]
      /\ u = [t \in tinGraph.TINs |-> [status |-> "active", into |-> TG!NoTIN]]
      /\ v = tinGraph.Home /\ past = <<>> /\ local = [q \in tinGraph.Requests |-> TG!Idle]
      /\ excepted = {} /\ w = {} /\ count = FALSE /\ mode = {}
  BY DEF TG!Init
<1>2. \A t \in tinGraph.TINs : TG!Entity(t) \in TG!EntityRecords /\ TG!Entity(t).tin = t
  BY DEF TG!Entity, TG!EntityRecords, TG!NoShares
<1>3. /\ store \in Seq(TG!EntityRecords) /\ DOMAIN store = DOMAIN tinGraph.Known
      /\ \A n \in DOMAIN store : store[n].tin = tinGraph.Known[n]
  <2>1. tinGraph.Known \in Seq(tinGraph.TINs)
    BY DEF TG!Parameters
  <2>2. PICK len \in Nat : DOMAIN tinGraph.Known = 1..len
    BY <2>1
  <2>3. \A n \in 1..len : tinGraph.Known[n] \in tinGraph.TINs
    BY <2>1, <2>2
  <2>4. store = [n \in 1..len |-> TG!Entity(tinGraph.Known[n])]
    BY <1>1, <2>2
  <2>5. store \in [1..len -> TG!EntityRecords]
    BY <1>2, <2>3, <2>4
  <2>6. store \in Seq(TG!EntityRecords)
    BY <2>5
  <2> QED BY <1>2, <2>2, <2>3, <2>4, <2>6
<1>4. \A q \in tinGraph.Requests : local[q] = TG!Idle
  BY <1>1
<1>5. TG!Idle.op = "none" /\ TG!Idle.pc = "new"
  BY DEF TG!Idle
<1>6. TG!TinTypes
  <2>1. mirror \in [loaded : BOOLEAN, list : Seq(TG!EntityRecords)]
    <3>1. <<>> \in Seq(TG!EntityRecords)
      OBVIOUS
    <3> QED BY <1>1, <3>1
  <2>2. u \in [tinGraph.TINs -> [status : TG!LifecycleStatus, into : tinGraph.TINs \cup {TG!NoTIN}]]
    BY <1>1 DEF TG!LifecycleStatus
  <2>3. v \in [tinGraph.Registrations -> tinGraph.TINs]
    BY <1>1 DEF TG!Parameters
  <2>4. past \in Seq(TG!MergeRecords) /\ DOMAIN past = {}
    BY <1>1
  <2>5. local = [q \in tinGraph.Requests |-> local[q]]
    BY <1>1
  <2>6. \A q \in tinGraph.Requests : TG!ReqShaped(local[q], store, past)
    BY <1>4 DEF TG!ReqShaped
  <2> QED BY <1>3, <2>1, <2>2, <2>3, <2>4, <2>5, <2>6 DEF TG!TinTypes
<1>7. TG!Exclusive
  BY <1>4, <1>5 DEF TG!Exclusive, TG!Busy
<1>8. TG!IndexInv
  <2>1. TG!OneEntityPerTIN
    BY <1>3 DEF TG!OneEntityPerTIN, TG!Parameters
  <2>2. DOMAIN mirror.list = {} /\ ~mirror.loaded
    BY <1>1
  <2>3. \A q \in tinGraph.Requests, tin \in tinGraph.TINs : ~TG!Provisions(q, tin, "put")
    BY <1>4, <1>5 DEF TG!Provisions
  <2> QED BY <2>1, <2>2, <2>3 DEF TG!IndexInv
<1>9. TG!MergeInv
  <2>1. \A t \in tinGraph.TINs : u[t].status = "active"
    BY <1>1
  <2>2. \A q \in tinGraph.Requests : TG!MergeUnderWay(q)
    BY <1>4, <1>5 DEF TG!MergeUnderWay
  <2>3. TG!NoMergeCycle
    <3>1. ASSUME NEW C \in (SUBSET tinGraph.TINs) \ {{}} PROVE \E t \in C : u[t].status # "merged_into"
      <4>1. C # {} /\ \A t \in C : t \in tinGraph.TINs
        OBVIOUS
      <4>2. PICK t \in C : TRUE
        BY <4>1
      <4>3. u[t].status = "active"
        BY <2>1, <4>1, <4>2
      <4> QED BY <4>3
    <3> QED BY <3>1 DEF TG!NoMergeCycle
  <2>4. TG!MergedIsReversible /\ \A t \in tinGraph.TINs : TG!MergedIsEmpty(t)
    BY <2>1 DEF TG!MergedIsReversible, TG!MergedIsEmpty
  <2> QED BY <2>2, <2>3, <2>4 DEF TG!MergeInv
<1> QED BY <1>6, <1>7, <1>8, <1>9 DEF TG!TinInv

-----------------------------------------------------------------------------
(* Migration.                                                              *)

\* The rows staged of the first rows of an upload, and of all of them.
StagedNext(rows, r) ==
  IF r.valid /\ \A k \in DOMAIN rows : rows[k].key # r.key THEN Append(rows, r) ELSE rows
Stages(g, input, last) ==
  g = [n \in 0 .. last |-> IF n = 0 THEN <<>> ELSE StagedNext(g[n - 1], input[n])]

LEMMA StagesExist ==
  ASSUME NEW input, NEW last \in Nat
  PROVE  \E g : Stages(g, input, last)
<1> DEFINE Bad == {n \in Nat : ~\E g : Stages(g, input, n)}
<1>1. SUFFICES ASSUME Bad # {} PROVE FALSE
  OBVIOUS
<1>2. PICK n \in Bad : \A m \in Bad : n <= m
  <2>1. Bad \subseteq Nat
    OBVIOUS
  <2> HIDE DEF Bad
  <2> QED BY <1>1, <2>1, LeastPosition
<1>3. n \in Nat /\ ~\E g : Stages(g, input, n)
  OBVIOUS
<1>4. CASE n = 0
  <2>1. PICK g : g = [m \in 0 .. 0 |-> <<>>]
    OBVIOUS
  <2>2. Stages(g, input, 0)
    BY <2>1 DEF Stages
  <2> QED BY <1>3, <1>4, <2>2
<1>5. CASE n # 0
  <2>1. n - 1 \in Nat /\ n - 1 \notin Bad
    <3> HIDE DEF Bad
    <3> QED BY <1>2, <1>3, <1>5
  <2>2. PICK g : Stages(g, input, n - 1)
    BY <2>1
  <2>3. PICK h : h = [m \in 0 .. n |-> IF m = 0 THEN <<>> ELSE StagedNext(g[m - 1], input[m])]
    OBVIOUS
  <2>4. \A m \in 0 .. n - 1 : h[m] = g[m]
    BY <1>3, <2>2, <2>3 DEF Stages
  <2>5. h = [m \in 0 .. n |-> IF m = 0 THEN <<>> ELSE StagedNext(h[m - 1], input[m])]
    <3>1. \A m \in 0 .. n : m # 0 => m - 1 \in 0 .. n - 1
      BY <1>3
    <3> QED BY <2>3, <2>4, <3>1
  <2> QED BY <1>3, <2>5 DEF Stages
<1> QED BY <1>4, <1>5

LEMMA StagedRows ==
  ASSUME NEW input \in Seq(MI!Row)
  PROVE  MI!Staged(input) \in Seq(MI!Row)
<1>1. PICK g : Stages(g, input, Len(input))
  BY StagesExist
<1>2. \E h : h = [n \in 0 .. Len(input) |->
        IF n = 0 THEN <<>>
        ELSE IF input[n].valid /\ \A k \in DOMAIN h[n - 1] : h[n - 1][k].key # input[n].key
               THEN Append(h[n - 1], input[n]) ELSE h[n - 1]]
  BY <1>1, Zenon DEF Stages, StagedNext
<1>3. PICK h : Stages(h, input, Len(input)) /\ MI!Staged(input) = h[Len(input)]
  BY <1>2 DEF MI!Staged, Stages, StagedNext
<1> DEFINE Bad == {n \in 0 .. Len(input) : h[n] \notin Seq(MI!Row)}
<1>4. ASSUME Bad # {} PROVE FALSE
  <2>1. PICK n \in Bad : \A m \in Bad : n <= m
    <3>1. Bad \subseteq Nat
      OBVIOUS
    <3> HIDE DEF Bad
    <3> QED BY <1>4, <3>1, LeastPosition
  <2>2. n \in 0 .. Len(input) /\ h[n] \notin Seq(MI!Row)
    OBVIOUS
  <2>3. n # 0
    BY <1>3, <2>2 DEF Stages
  <2>4. n - 1 \in 0 .. Len(input) /\ n - 1 \notin Bad
    <3> HIDE DEF Bad
    <3> QED BY <2>1, <2>2, <2>3
  <2>5. h[n - 1] \in Seq(MI!Row) /\ input[n] \in MI!Row
    BY <2>2, <2>3, <2>4
  <2>6. h[n] = StagedNext(h[n - 1], input[n])
    BY <1>3, <2>2, <2>3 DEF Stages
  <2> QED BY <2>2, <2>5, <2>6 DEF StagedNext
<1>5. h[Len(input)] \in Seq(MI!Row)
  BY <1>4
<1> QED BY <1>3, <1>5

\* A request moves on without writing.
LEMMA RequestMoves ==
  ASSUME MI!MigrationInv, NEW i \in migration.Importers, NEW me,
         local' = [local EXCEPT ![i] = me], UNCHANGED store,
         MI!ImportTyped(me), me.valid = local[i].valid \/ ~MI!AtWork(i),
         DOMAIN past \subseteq DOMAIN past', excepted \subseteq excepted', v \subseteq v',
         me.pc = "put" =>
           /\ me.at <= Len(me.valid) + 1
           /\ \A n \in 1 .. (me.at - 1) : <<me.valid, n>> \in store \/ me.valid \in excepted',
         me.pc = "undo" => Len(me.rows) \in Nat /\ me.valid \in excepted',
         \A d \in store : MI!Holds(i, d) => MI!Holds(i, d)' \/ d[1] \in DOMAIN past' \cup v',
         \A b \in DOMAIN past' : b \in DOMAIN past \/ (\A n \in DOMAIN b : <<b, n>> \in store) \/ b \in excepted'
  PROVE  MI!MigrationInv'
<1> USE DEF MI!MigrationInv
<1>1. /\ local' = [j \in migration.Importers |-> local'[j]] /\ local'[i] = me
      /\ \A j \in migration.Importers \ {i} : local'[j] = local[j]
  OBVIOUS
<1>2. \A j \in migration.Importers : MI!ImportTyped(local'[j])
  BY <1>1
<1>3. \A j \in migration.Importers : MI!WorkIsDone(j)'
  <2>1. MI!WorkIsDone(i)'
    BY <1>1 DEF MI!WorkIsDone, MI!Batch
  <2>2. ASSUME NEW j \in migration.Importers \ {i} PROVE MI!WorkIsDone(j)'
    BY <1>1 DEF MI!WorkIsDone, MI!Batch
  <2> QED BY <2>1, <2>2
<1>4. ASSUME NEW d \in store', d[1] \notin DOMAIN past' \cup v'
      PROVE  \E j \in migration.Importers : MI!Holds(j, d)'
  <2>1. PICK j \in migration.Importers : MI!Holds(j, d)
    BY <1>4
  <2>2. CASE j = i
    BY <1>4, <2>1, <2>2
  <2>3. CASE j # i
    BY <1>1, <2>1, <2>3 DEF MI!Holds, MI!Batch
  <2> QED BY <2>2, <2>3
<1>5. MI!CommittedIsComplete'
  BY DEF MI!CommittedIsComplete, MI!Complete
<1> QED BY <1>1, <1>2, <1>3, <1>4, <1>5

\* Parsing, checking, and what ends or begins the writing.
LEMMA ImportChecks ==
  ASSUME MI!MigrationInv, NEW i \in migration.Importers,
         \/ \E how \in {"dry_run", "commit"}, input \in migration.Inputs : MI!Import(i, how, input)
         \/ MI!CheckRow(i) \/ MI!LookupFails(i) \/ MI!FindBatch(i) \/ MI!FindBatchFails(i)
  PROVE  MI!MigrationInv'
<1> DEFINE me == local[i]
<1>1. MI!ImportTyped(me) /\ ~MI!AtWork(i)
  BY DEF MI!MigrationInv, MI!AtWork, MI!Import, MI!CheckRow, MI!LookupFails, MI!FindBatch, MI!FindBatchFails
<1>2. UNCHANGED <<store, past, excepted, v>>
  BY DEF MI!Import, MI!CheckRow, MI!LookupFails, MI!FindBatch, MI!FindBatchFails
<1>3. \A d \in store : ~MI!Holds(i, d)
  BY <1>1 DEF MI!Holds, MI!AtWork
<1>4. ASSUME NEW next, local' = [local EXCEPT ![i] = next], MI!ImportTyped(next),
             next.pc # "undo", next.pc = "put" => next.at = 1
      PROVE  MI!MigrationInv'
  <2>1. next.pc = "put" => next.at <= Len(next.valid) + 1 /\ 1 .. (next.at - 1) = {}
    BY <1>4 DEF MI!ImportTyped
  <2> QED BY <1>1, <1>2, <1>3, <1>4, <2>1, RequestMoves
<1>5. CASE \E how \in {"dry_run", "commit"}, input \in migration.Inputs : MI!Import(i, how, input)
  <2>1. PICK how \in {"dry_run", "commit"}, input \in migration.Inputs : MI!Import(i, how, input)
    BY <1>5
  <2> DEFINE next == MI!NewImport(how, input)
  <2>2. MI!Staged(input) \in Seq(MI!Row)
    BY <2>1, RegistersAssumption, StagedRows DEF MI!Parameters
  <2>3. MI!ImportTyped(next) /\ next.pc = "check"
    BY <2>2 DEF MI!ImportTyped, MI!NewImport
  <2>4. local' = [local EXCEPT ![i] = next]
    BY <2>1 DEF MI!Import
  <2> HIDE DEF next
  <2> QED BY <1>4, <2>3, <2>4
<1>6. CASE MI!CheckRow(i)
  <2> DEFINE r == me.rows[me.at]
             yes == MI!Admitted(r, me.rows)
             next == [me EXCEPT !.at = @ + 1, !.valid = IF yes THEN Append(@, r) ELSE @,
                                !.rejected = IF yes THEN @ ELSE @ + 1]
  <2>1. local' = [local EXCEPT ![i] = next] /\ me.pc = "check"
    BY <1>6 DEF MI!CheckRow
  <2>2. me.valid \in Seq(MI!Row) /\ me.rows \in Seq(MI!Row) /\ r \in MI!Row
    BY <1>1, <1>6, <2>1 DEF MI!ImportTyped, MI!CheckRow
  <2> HIDE DEF r, yes
  <2>3. MI!ImportTyped(next) /\ next.pc = "check"
    BY <1>1, <2>1, <2>2 DEF MI!ImportTyped
  <2> HIDE DEF next
  <2> QED BY <1>4, <2>1, <2>3
<1>7. CASE MI!LookupFails(i)
  <2> DEFINE next == [me EXCEPT !.pc = "failed"]
  <2>1. local' = [local EXCEPT ![i] = next]
    BY <1>7 DEF MI!LookupFails
  <2>2. MI!ImportTyped(next) /\ next.pc = "failed"
    BY <1>1 DEF MI!ImportTyped
  <2> HIDE DEF next
  <2> QED BY <1>4, <2>1, <2>2
<1>8. CASE MI!FindBatch(i) \/ MI!FindBatchFails(i)
  <2>1. PICK pc \in {"done", "put"} : local' = [local EXCEPT ![i] = [me EXCEPT !.pc = pc, !.at = 1]]
    BY <1>8 DEF MI!FindBatch, MI!FindBatchFails
  <2> DEFINE next == [me EXCEPT !.pc = pc, !.at = 1]
  <2>2. MI!ImportTyped(next) /\ next.pc \in {"done", "put"} /\ next.at = 1
    BY <1>1 DEF MI!ImportTyped
  <2>3. local' = [local EXCEPT ![i] = next]
    BY <2>1
  <2> HIDE DEF next
  <2> QED BY <1>4, <2>2, <2>3
<1> QED BY <1>5, <1>6, <1>7, <1>8

\* A request that gives its batch up, or is done with it.
LEMMA ImportLeaves ==
  ASSUME MI!MigrationInv, NEW i \in migration.Importers,
         MI!PutFails(i) \/ MI!RolledBack(i) \/ MI!PersistManifest(i) \/ MI!PersistFails(i)
  PROVE  MI!MigrationInv'
<1> DEFINE me == local[i]
<1>1. MI!ImportTyped(me) /\ MI!WorkIsDone(i) /\ MI!Batch(i) = me.valid
  BY DEF MI!MigrationInv, MI!Batch
<1>2. CASE MI!PutFails(i)
  <2> DEFINE next == [me EXCEPT !.pc = "undo", !.rows = SubSeq(me.valid, 1, me.at - 1), !.at = 1]
  <2>1. /\ local' = [local EXCEPT ![i] = next] /\ excepted' = excepted \cup {me.valid}
        /\ me.pc = "put" /\ me.at <= Len(me.valid) /\ UNCHANGED <<store, past, v>>
    BY <1>1, <1>2 DEF MI!PutFails
  <2>2. Len(SubSeq(me.valid, 1, me.at - 1)) = me.at - 1 /\ me.at - 1 \in Nat
    BY <1>1, <2>1 DEF MI!ImportTyped
  <2>3. /\ MI!ImportTyped(next) /\ next.pc = "undo" /\ next.at = 1 /\ next.valid = me.valid
        /\ Len(next.rows) = me.at - 1
    BY <1>1, <2>2 DEF MI!ImportTyped
  <2> HIDE DEF next
  <2>4. ASSUME NEW d \in store, MI!Holds(i, d) PROVE MI!Holds(i, d)'
    <3>1. d[1] = me.valid /\ d[2] < me.at /\ d[2] \in Nat \ {0} /\ me.at \in Nat
      BY <1>1, <2>1, <2>4 DEF MI!Holds, MI!MigrationInv, MI!ImportTyped
    <3>2. local'[i] = next
      BY <2>1 DEF MI!MigrationInv
    <3> QED BY <2>3, <3>1, <3>2 DEF MI!Holds, MI!Batch
  <2> QED BY <2>1, <2>2, <2>3, <2>4, RequestMoves
<1>3. ASSUME NEW pc \in {"failed", "done"}, local' = [local EXCEPT ![i].pc = pc], UNCHANGED <<store, excepted>>,
             DOMAIN past \subseteq DOMAIN past', v \subseteq v',
             \A d \in store : MI!Holds(i, d) => d[1] \in DOMAIN past' \cup v',
             \A b \in DOMAIN past' : b \in DOMAIN past \/ (\A n \in DOMAIN b : <<b, n>> \in store) \/ b \in excepted
      PROVE  MI!MigrationInv'
  <2> DEFINE next == [me EXCEPT !.pc = pc]
  <2>1. MI!ImportTyped(next) /\ next.pc = pc /\ next.valid = me.valid
    BY <1>1 DEF MI!ImportTyped
  <2>2. local' = [local EXCEPT ![i] = next]
    BY <1>3
  <2> HIDE DEF next
  <2> QED BY <1>3, <2>1, <2>2, RequestMoves
<1>4. CASE MI!RolledBack(i)
  <2>1. \A d \in store : ~MI!Holds(i, d)
    BY <1>1, <1>4 DEF MI!RolledBack, MI!Holds, MI!ImportTyped, MI!WorkIsDone
  <2> QED BY <1>3, <1>4, <2>1 DEF MI!RolledBack
<1>5. CASE MI!PersistManifest(i)
  <2>1. /\ local' = [local EXCEPT ![i].pc = "done"] /\ UNCHANGED <<store, excepted, v>>
        /\ DOMAIN past' = DOMAIN past \cup {me.valid} /\ me.pc = "put" /\ me.at > Len(me.valid)
    BY <1>1, <1>5 DEF MI!PersistManifest
  <2>2. \A d \in store : MI!Holds(i, d) => d[1] \in DOMAIN past'
    BY <1>1, <2>1 DEF MI!Holds
  <2>3. (\A n \in DOMAIN me.valid : <<me.valid, n>> \in store) \/ me.valid \in excepted
    <3>1. DOMAIN me.valid = 1 .. (me.at - 1)
      BY <1>1, <2>1 DEF MI!WorkIsDone, MI!ImportTyped
    <3> QED BY <1>1, <2>1, <3>1 DEF MI!WorkIsDone
  <2> QED BY <1>3, <2>1, <2>2, <2>3
<1>6. CASE MI!PersistFails(i)
  <2>1. \A d \in store : MI!Holds(i, d) => d[1] = me.valid
    BY <1>1 DEF MI!Holds
  <2> QED BY <1>1, <1>3, <1>6, <2>1 DEF MI!PersistFails
<1> QED BY <1>2, <1>4, <1>5, <1>6

\* A document is put or taken back.
LEMMA PutDocStep ==
  ASSUME MI!MigrationInv, NEW i \in migration.Importers, MI!PutDoc(i)
  PROVE  MI!MigrationInv'
<1> DEFINE me == local[i]
           doc == <<me.valid, me.at>>
           next == [me EXCEPT !.at = @ + 1]
<1>1. /\ store' = store \cup {doc} /\ local' = [local EXCEPT ![i] = next] /\ UNCHANGED <<past, excepted, v>>
      /\ me.pc = "put" /\ me.at <= Len(me.valid) /\ MI!ImportTyped(me) /\ MI!WorkIsDone(i)
  BY DEF MI!PutDoc, MI!Batch, MI!MigrationInv
<1>2. /\ MI!ImportTyped(next) /\ next.pc = "put" /\ next.valid = me.valid
      /\ next.at = me.at + 1 /\ me.at \in Nat \ {0} /\ Len(me.valid) \in Nat
  BY <1>1 DEF MI!ImportTyped
<1>3. doc[1] = me.valid /\ doc[2] = me.at /\ doc = <<doc[1], doc[2]>>
  OBVIOUS
<1> HIDE DEF doc, next
<1> USE DEF MI!MigrationInv
<1>4. /\ local' = [j \in migration.Importers |-> local'[j]] /\ local'[i] = next
      /\ \A j \in migration.Importers \ {i} : local'[j] = local[j]
  BY <1>1
<1>5. \A j \in migration.Importers : MI!ImportTyped(local'[j])
  BY <1>2, <1>4
<1>6. ASSUME NEW j \in migration.Importers PROVE MI!WorkIsDone(j)'
  <2>1. CASE j = i
    <3>1. \A n \in 1 .. (next.at - 1) : n = me.at \/ n \in 1 .. (me.at - 1)
      BY <1>2
    <3>2. <<me.valid, me.at>> = doc
      BY DEF doc
    <3> QED BY <1>1, <1>2, <1>4, <2>1, <3>1, <3>2 DEF MI!WorkIsDone, MI!Batch
  <2>2. CASE j # i
    BY <1>1, <1>4, <2>2 DEF MI!WorkIsDone, MI!Batch
  <2> QED BY <2>1, <2>2
<1>7. ASSUME NEW d \in store', d[1] \notin DOMAIN past' \cup v'
      PROVE  \E j \in migration.Importers : MI!Holds(j, d)'
  <2>1. CASE d = doc
    <3>1. MI!Holds(i, d)'
      BY <1>2, <1>3, <1>4, <2>1 DEF MI!Holds, MI!Batch
    <3> QED BY <3>1
  <2>2. CASE d # doc
    <3>1. PICK j \in migration.Importers : MI!Holds(j, d)
      BY <1>1, <1>7, <2>2
    <3>2. CASE j = i
      <4>1. d[2] < next.at
        BY <1>1, <1>2, <2>2, <3>1, <3>2 DEF MI!Holds
      <4> QED BY <1>1, <1>2, <1>4, <3>1, <3>2, <4>1 DEF MI!Holds, MI!Batch
    <3>3. CASE j # i
      BY <1>4, <3>1, <3>3 DEF MI!Holds, MI!Batch
    <3> QED BY <3>2, <3>3
  <2> QED BY <2>1, <2>2
<1>8. MI!CommittedIsComplete'
  BY <1>1 DEF MI!CommittedIsComplete, MI!Complete
<1> QED BY <1>1, <1>2, <1>3, <1>4, <1>5, <1>6, <1>7, <1>8

LEMMA RollbackStep ==
  ASSUME MI!MigrationInv, NEW i \in migration.Importers, MI!Rollback(i)
  PROVE  MI!MigrationInv'
<1> DEFINE me == local[i]
           doc == <<me.valid, me.at>>
           next == [me EXCEPT !.at = @ + 1]
<1>1. /\ local' = [local EXCEPT ![i] = next] /\ UNCHANGED <<past, excepted>>
      /\ \/ store' = store \ {doc} /\ v' = v
         \/ store' = store /\ v' = v \cup {me.valid}
      /\ me.pc = "undo" /\ me.at <= Len(me.rows) /\ MI!ImportTyped(me) /\ MI!WorkIsDone(i)
  BY DEF MI!Rollback, MI!Batch, MI!MigrationInv
<1>2. /\ MI!ImportTyped(next) /\ next.pc = "undo" /\ next.valid = me.valid /\ next.rows = me.rows
      /\ next.at = me.at + 1 /\ me.at \in Nat \ {0}
  BY <1>1 DEF MI!ImportTyped
<1>3. me.valid \in excepted /\ Len(me.rows) \in Nat
  BY <1>1 DEF MI!WorkIsDone, MI!Batch
<1>4. \A d \in store : d[1] = me.valid /\ d[2] = me.at => d = doc
  BY DEF MI!MigrationInv
<1>5. doc[1] = me.valid
  OBVIOUS
<1> HIDE DEF doc, next
<1> USE DEF MI!MigrationInv
<1>6. /\ local' = [j \in migration.Importers |-> local'[j]] /\ local'[i] = next
      /\ \A j \in migration.Importers \ {i} : local'[j] = local[j]
  BY <1>1
<1>7. \A j \in migration.Importers : MI!ImportTyped(local'[j])
  BY <1>2, <1>6
<1>8. \A b, n : <<b, n>> \in store => <<b, n>> \in store' \/ b \in excepted
  BY <1>1, <1>3 DEF doc
<1>9. ASSUME NEW j \in migration.Importers PROVE MI!WorkIsDone(j)'
  <2>1. CASE j = i
    BY <1>1, <1>2, <1>3, <1>6, <2>1 DEF MI!WorkIsDone, MI!Batch
  <2>2. CASE j # i
    BY <1>1, <1>6, <1>8, <2>2 DEF MI!WorkIsDone, MI!Batch
  <2> QED BY <2>1, <2>2
<1>10. ASSUME NEW d \in store', d[1] \notin DOMAIN past' \cup v'
       PROVE  \E j \in migration.Importers : MI!Holds(j, d)'
  <2>1. PICK j \in migration.Importers : MI!Holds(j, d)
    BY <1>1, <1>10
  <2>2. CASE j = i
    <3>1. d[1] = me.valid /\ d[2] \in me.at .. Len(me.rows)
      BY <1>1, <2>1, <2>2 DEF MI!Holds, MI!Batch
    <3>2. d # doc /\ d \in store
      BY <1>1, <1>10, <3>1
    <3>3. d[2] \in next.at .. Len(me.rows)
      BY <1>2, <1>3, <1>4, <3>1, <3>2
    <3> QED BY <1>2, <1>6, <2>2, <3>1, <3>3 DEF MI!Holds, MI!Batch
  <2>3. CASE j # i
    BY <1>6, <2>1, <2>3 DEF MI!Holds, MI!Batch
  <2> QED BY <2>2, <2>3
<1>11. MI!CommittedIsComplete'
  BY <1>1, <1>8 DEF MI!CommittedIsComplete, MI!Complete
<1> QED BY <1>1, <1>6, <1>7, <1>9, <1>10, <1>11

\* A crash abandons whatever was written by halves.
LEMMA MigrationCrashes ==
  ASSUME MI!MigrationInv, MI!Crash
  PROVE  MI!MigrationInv'
<1> USE DEF MI!MigrationInv
<1>1. /\ UNCHANGED <<store, past, excepted>> /\ v \subseteq v'
      /\ \A i \in migration.Importers : MI!AtWork(i) => local[i].valid \in v'
      /\ local' = [i \in migration.Importers |-> local'[i]]
  BY DEF MI!Crash, MI!Batch
<1>2. ASSUME NEW i \in migration.Importers
      PROVE  MI!ImportTyped(local'[i]) /\ MI!WorkIsDone(i)'
  <2>1. \/ local'[i] = [local[i] EXCEPT !.pc = "failed"]
        \/ local'[i] = local[i] /\ ~MI!AtWork(i)
    BY <1>2 DEF MI!Crash
  <2>2. CASE local'[i] = [local[i] EXCEPT !.pc = "failed"]
    <3>1. MI!ImportTyped(local'[i]) /\ local'[i].pc = "failed"
      BY <2>2 DEF MI!ImportTyped
    <3> QED BY <3>1 DEF MI!WorkIsDone
  <2>3. CASE local'[i] = local[i] /\ ~MI!AtWork(i)
    BY <2>3 DEF MI!WorkIsDone, MI!AtWork
  <2> QED BY <2>1, <2>2, <2>3
<1>3. ASSUME NEW d \in store, NEW i \in migration.Importers, MI!Holds(i, d)
      PROVE  d[1] \in v'
  BY <1>1, <1>3 DEF MI!Holds, MI!AtWork, MI!Batch
<1>4. MI!CommittedIsComplete'
  BY <1>1 DEF MI!CommittedIsComplete, MI!Complete
<1> QED BY <1>1, <1>2, <1>3, <1>4

LEMMA MigrationStarts ==
  ASSUME MI!Init
  PROVE  MI!MigrationInv
<1>1. /\ store = {} /\ past = <<>> /\ local = [i \in migration.Importers |-> local[i]]
      /\ \A i \in migration.Importers : local[i].pc = "new" /\ MI!ImportTyped(local[i])
  BY DEF MI!Init, MI!ImportTyped
<1>2. DOMAIN past = {}
  BY <1>1
<1> QED BY <1>1, <1>2 DEF MI!MigrationInv, MI!WorkIsDone, MI!CommittedIsComplete

LEMMA MigrationStep ==
  ASSUME MI!MigrationInv, [MI!Next]_MI!vars
  PROVE  MI!MigrationInv'
<1>1. CASE \E i \in migration.Importers :
             \/ \E how \in {"dry_run", "commit"}, input \in migration.Inputs : MI!Import(i, how, input)
             \/ MI!ImportStep(i)
  BY <1>1, ImportChecks, ImportLeaves, PutDocStep, RollbackStep DEF MI!ImportStep
<1>2. CASE UNCHANGED <<store, past, local, excepted, v>>
  BY <1>2 DEF MI!MigrationInv, MI!WorkIsDone, MI!Holds, MI!Batch, MI!CommittedIsComplete, MI!Complete
<1>3. ASSUME NEW a \in migration.Auditors, (\E b \in DOMAIN past : MI!VerifyBatch(a, b)) \/ MI!VerifyStep(a)
      PROVE  UNCHANGED <<store, past, local, excepted, v>>
  BY <1>3 DEF MI!VerifyBatch, MI!VerifyStep, MI!ListDocs, MI!ListFails, MI!FinishProof
<1>4. (\E tin \in migration.TINs : MI!Provision(tin)) \/ UNCHANGED MI!vars
        => UNCHANGED <<store, past, local, excepted, v>>
  BY DEF MI!Provision, MI!vars
<1> QED BY <1>1, <1>2, <1>3, <1>4, MigrationCrashes DEF MI!Next

LEMMA UploadsAreWhole ==
  ASSUME MI!MigrationInv
  PROVE  MI!AllOrNothing
<1>1. MI!NothingLeftBehind
  BY DEF MI!MigrationInv, MI!NothingLeftBehind, MI!Holds, MI!AtWork
<1> QED BY <1>1 DEF MI!MigrationInv, MI!AllOrNothing

\* A request moves on, and its rows keep their taxpayers.
LEMMA ReferencesKept ==
  ASSUME MI!MigrationInv, MI!ReferenceInv, NEW i \in migration.Importers, NEW me,
         local' = [local EXCEPT ![i] = me], UNCHANGED mirror, MI!ImportResolves(me),
         \A b \in DOMAIN past' : b \in DOMAIN past \/ MI!Resolves(b)
  PROVE  MI!ReferenceInv'
<1>1. MI!ReferencesResolve'
  BY DEF MI!ReferenceInv, MI!ReferencesResolve, MI!Resolves, MI!Vouched
<1>2. \A j \in migration.Importers : MI!ImportResolves(local'[j])
  BY DEF MI!MigrationInv, MI!ReferenceInv
<1>3. (\A j \in migration.Importers : MI!ImportResolves(local[j]))'
  BY <1>2 DEF MI!ImportResolves, MI!Resolves, MI!Vouched, MI!BatchTINs
<1> QED BY <1>1, <1>3 DEF MI!ReferenceInv

\* addRow and the checks against the tin-graph.
LEMMA ReferencesChecked ==
  ASSUME MI!MigrationInv, MI!ReferenceInv, NEW i \in migration.Importers, MI!CheckRow(i)
  PROVE  MI!ReferenceInv'
<1> DEFINE me == local[i]
           r == me.rows[me.at]
           yes == MI!Admitted(r, me.rows)
           next == [me EXCEPT !.at = @ + 1, !.valid = IF yes THEN Append(@, r) ELSE @,
                              !.rejected = IF yes THEN @ ELSE @ + 1]
<1>1. /\ local' = [local EXCEPT ![i] = next] /\ UNCHANGED <<mirror, past>>
      /\ me.pc = "check" /\ me.at <= Len(me.rows)
  BY DEF MI!CheckRow
<1>2. MI!ImportTyped(me) /\ MI!ImportResolves(me) /\ me.rows \in Seq(MI!Row) /\ me.valid \in Seq(MI!Row)
  BY <1>1 DEF MI!MigrationInv, MI!ReferenceInv, MI!ImportTyped
<1>3. /\ next.pc = "check" /\ next.rows = me.rows /\ next.at = me.at + 1
      /\ next.valid = IF yes THEN Append(me.valid, r) ELSE me.valid
  BY <1>1, <1>2 DEF MI!ImportTyped
<1>4. r \in MI!Row /\ me.at \in Nat \ {0}
  BY <1>1, <1>2 DEF MI!ImportTyped
<1> HIDE DEF next, r
<1>5. yes => /\ DOMAIN next.valid = DOMAIN me.valid \cup {Len(me.valid) + 1}
             /\ \A n \in DOMAIN me.valid : next.valid[n] = me.valid[n]
             /\ next.valid[Len(me.valid) + 1] = r
  BY <1>2, <1>3, <1>4
<1>6. ~yes => next.valid = me.valid
  BY <1>3
<1>7. yes <=> IF r.kind = "taxpayer" THEN r.tin \notin mirror ELSE r.tin \in MI!BatchTINs(me.rows) \cup mirror
  BY DEF MI!Admitted
<1> HIDE DEF yes
<1>8. \A n \in DOMAIN next.valid :
        next.valid[n].kind # "taxpayer" => next.valid[n].tin \in MI!BatchTINs(me.rows) \cup mirror
  BY <1>1, <1>2, <1>5, <1>6, <1>7 DEF MI!ImportResolves
<1>9. ASSUME NEW k \in 1 .. me.at, k \in DOMAIN me.rows, me.rows[k].kind = "taxpayer"
      PROVE  MI!Vouched(me.rows[k].tin, next.valid)
  <2>1. CASE k = me.at
    <3>1. me.rows[k] = r
      BY <2>1 DEF r
    <3> QED BY <1>5, <1>7, <1>9, <3>1 DEF MI!Vouched
  <2>2. CASE k # me.at
    <3>1. MI!Vouched(me.rows[k].tin, me.valid)
      BY <1>1, <1>2, <1>4, <1>9, <2>2 DEF MI!ImportResolves
    <3> QED BY <1>5, <1>6, <3>1 DEF MI!Vouched
  <2> QED BY <2>1, <2>2
<1>10. MI!ImportResolves(next)
  <2>1. 1 .. (next.at - 1) = 1 .. me.at
    BY <1>3, <1>4
  <2> QED BY <1>3, <1>8, <1>9, <2>1 DEF MI!ImportResolves
<1> QED BY <1>1, <1>10, ReferencesKept

LEMMA ReferenceStep ==
  ASSUME MI!MigrationInv, MI!ReferenceInv, [MI!Next]_MI!vars
  PROVE  MI!ReferenceInv'
<1>1. ASSUME NEW i \in migration.Importers, NEW how \in {"dry_run", "commit"},
             NEW input \in migration.Inputs, MI!Import(i, how, input)
      PROVE  MI!ReferenceInv'
  <2> DEFINE next == MI!NewImport(how, input)
  <2>1. local' = [local EXCEPT ![i] = next] /\ UNCHANGED <<mirror, past>>
    BY <1>1 DEF MI!Import
  <2>2. next.pc = "check" /\ next.at = 1 /\ next.valid = <<>>
    BY DEF MI!NewImport
  <2> HIDE DEF next
  <2>3. MI!ImportResolves(next)
    BY <2>2 DEF MI!ImportResolves
  <2> QED BY <2>1, <2>3, ReferencesKept
<1>2. ASSUME NEW i \in migration.Importers, MI!FindBatch(i) \/ MI!FindBatchFails(i)
      PROVE  MI!ReferenceInv'
  <2> DEFINE me == local[i]
  <2>1. PICK pc \in {"done", "put"} : /\ local' = [local EXCEPT ![i] = [me EXCEPT !.pc = pc, !.at = 1]]
                                      /\ UNCHANGED <<mirror, past>>
    BY <1>2 DEF MI!FindBatch, MI!FindBatchFails
  <2> DEFINE next == [me EXCEPT !.pc = pc, !.at = 1]
  <2>2. me.pc = "check" /\ me.at > Len(me.rows) /\ MI!ImportTyped(me) /\ MI!ImportResolves(me)
    BY <1>2 DEF MI!FindBatch, MI!FindBatchFails, MI!MigrationInv, MI!ReferenceInv
  <2>3. next.pc # "check" /\ next.valid = me.valid
    BY <2>2 DEF MI!ImportTyped
  <2>4. MI!Resolves(me.valid)
    <3>1. \A k \in DOMAIN me.rows : k \in 1 .. (me.at - 1)
      BY <2>2 DEF MI!ImportTyped
    <3>2. ASSUME NEW n \in DOMAIN me.valid, me.valid[n].kind # "taxpayer"
          PROVE  MI!Vouched(me.valid[n].tin, me.valid)
      <4>1. CASE me.valid[n].tin \in mirror
        BY <4>1 DEF MI!Vouched
      <4>2. CASE me.valid[n].tin \in MI!BatchTINs(me.rows)
        <5>1. PICK k \in DOMAIN me.rows : me.rows[k].kind = "taxpayer" /\ me.rows[k].tin = me.valid[n].tin
          BY <4>2 DEF MI!BatchTINs
        <5> QED BY <2>2, <3>1, <5>1 DEF MI!ImportResolves
      <4> QED BY <2>2, <3>2, <4>1, <4>2 DEF MI!ImportResolves
    <3> QED BY <3>2 DEF MI!Resolves
  <2>5. local' = [local EXCEPT ![i] = next]
    BY <2>1
  <2> HIDE DEF next
  <2>6. MI!ImportResolves(next)
    BY <2>3, <2>4 DEF MI!ImportResolves
  <2> QED BY <2>1, <2>5, <2>6, ReferencesKept
<1>3. ASSUME NEW i \in migration.Importers, MI!PutDoc(i) PROVE MI!ReferenceInv'
  <2> DEFINE me == local[i]
             next == [me EXCEPT !.at = @ + 1]
  <2>1. local' = [local EXCEPT ![i] = next] /\ UNCHANGED <<mirror, past>> /\ me.pc = "put"
    BY <1>3 DEF MI!PutDoc
  <2>2. MI!ImportTyped(me) /\ MI!ImportResolves(me)
    BY DEF MI!MigrationInv, MI!ReferenceInv
  <2>3. next.pc = "put" /\ next.valid = me.valid
    BY <2>1, <2>2 DEF MI!ImportTyped
  <2> HIDE DEF next
  <2>4. MI!ImportResolves(next)
    BY <2>1, <2>2, <2>3 DEF MI!ImportResolves
  <2> QED BY <2>1, <2>4, ReferencesKept
<1>4. ASSUME NEW i \in migration.Importers, NEW next, local' = [local EXCEPT ![i] = next],
             next.pc \notin {"check", "put"}, UNCHANGED mirror,
             \A b \in DOMAIN past' : b \in DOMAIN past \/ MI!Resolves(b)
      PROVE  MI!ReferenceInv'
  BY <1>4, ReferencesKept DEF MI!ImportResolves
<1>5. ASSUME NEW i \in migration.Importers,
             \/ MI!LookupFails(i) \/ MI!PutFails(i) \/ MI!Rollback(i) \/ MI!RolledBack(i)
             \/ MI!PersistManifest(i) \/ MI!PersistFails(i)
      PROVE  MI!ReferenceInv'
  <2> DEFINE me == local[i]
  <2>1. /\ UNCHANGED mirror
        /\ \/ UNCHANGED past
           \/ DOMAIN past' = DOMAIN past \cup {me.valid} /\ me.pc = "put"
    BY <1>5 DEF MI!LookupFails, MI!PutFails, MI!Rollback, MI!RolledBack, MI!PersistManifest, MI!PersistFails, MI!Batch
  <2>2. MI!ImportTyped(me) /\ MI!ImportResolves(me)
    BY DEF MI!MigrationInv, MI!ReferenceInv
  <2>3. \A b \in DOMAIN past' : b \in DOMAIN past \/ MI!Resolves(b)
    BY <2>1, <2>2 DEF MI!ImportResolves
  <2>4. CASE \/ MI!LookupFails(i) \/ MI!RolledBack(i) \/ MI!PersistManifest(i) \/ MI!PersistFails(i)
    <3>1. PICK pc \in {"failed", "done"} : local' = [local EXCEPT ![i].pc = pc]
      BY <2>4 DEF MI!LookupFails, MI!RolledBack, MI!PersistManifest, MI!PersistFails
    <3>2. local' = [local EXCEPT ![i] = [me EXCEPT !.pc = pc]] /\ [me EXCEPT !.pc = pc].pc = pc
      BY <2>2, <3>1 DEF MI!ImportTyped
    <3> QED BY <1>4, <2>1, <2>3, <3>2
  <2>5. CASE MI!Rollback(i)
    <3>1. local' = [local EXCEPT ![i].at = @ + 1] /\ me.pc = "undo"
      BY <2>5 DEF MI!Rollback
    <3>2. local' = [local EXCEPT ![i] = [me EXCEPT !.at = @ + 1]] /\ [me EXCEPT !.at = @ + 1].pc = "undo"
      BY <2>2, <3>1 DEF MI!ImportTyped
    <3> QED BY <1>4, <2>1, <2>3, <3>2
  <2>6. CASE MI!PutFails(i)
    <3> DEFINE next == [me EXCEPT !.pc = "undo", !.rows = SubSeq(me.valid, 1, me.at - 1), !.at = 1]
    <3>1. local' = [local EXCEPT ![i] = next]
      BY <2>6 DEF MI!PutFails, MI!Batch
    <3>2. next.pc = "undo"
      BY <2>2 DEF MI!ImportTyped
    <3> HIDE DEF next
    <3> QED BY <1>4, <2>1, <2>3, <3>1, <3>2
  <2> QED BY <1>5, <2>4, <2>5, <2>6
<1>6. CASE MI!Crash
  <2>1. UNCHANGED <<mirror, past>>
    BY <1>6 DEF MI!Crash
  <2>2. ASSUME NEW i \in migration.Importers PROVE MI!ImportResolves(local'[i])
    <3>1. \/ local'[i] = [local[i] EXCEPT !.pc = "failed"]
          \/ local'[i] = local[i]
      BY <1>6 DEF MI!Crash
    <3>2. MI!ImportTyped(local[i]) /\ MI!ImportResolves(local[i])
      BY DEF MI!MigrationInv, MI!ReferenceInv
    <3>3. local'[i] = [local[i] EXCEPT !.pc = "failed"] => local'[i].pc = "failed"
      BY <3>2 DEF MI!ImportTyped
    <3> QED BY <3>1, <3>2, <3>3 DEF MI!ImportResolves
  <2> QED BY <2>1, <2>2 DEF MI!ReferenceInv, MI!ReferencesResolve, MI!ImportResolves, MI!Resolves, MI!Vouched,
        MI!BatchTINs
<1>7. ASSUME mirror \subseteq mirror', UNCHANGED <<past, local>> PROVE MI!ReferenceInv'
  BY <1>7 DEF MI!ReferenceInv, MI!ReferencesResolve, MI!ImportResolves, MI!Resolves, MI!Vouched, MI!BatchTINs
<1>8. ASSUME NEW a \in migration.Auditors, (\E b \in DOMAIN past : MI!VerifyBatch(a, b)) \/ MI!VerifyStep(a)
      PROVE  UNCHANGED <<mirror, past, local>>
  BY <1>8 DEF MI!VerifyBatch, MI!VerifyStep, MI!ListDocs, MI!ListFails, MI!FinishProof
<1>9. (\E tin \in migration.TINs : MI!Provision(tin)) \/ UNCHANGED MI!vars
        => mirror \subseteq mirror' /\ UNCHANGED <<past, local>>
  BY DEF MI!Provision, MI!vars
<1> QED BY <1>1, <1>2, <1>3, <1>5, <1>6, <1>7, <1>8, <1>9, ReferencesChecked DEF MI!Next, MI!ImportStep

\* Sets of the module are counted as they are here.
LEMMA SameCount == \A S : MI!Cardinality(S) = Cardinality(S)
BY DEF MI!Cardinality, Cardinality

LEMMA SequenceAsFunction ==
  ASSUME NEW S, NEW s \in Seq(S), NEW len \in Nat, len = Len(s)
  PROVE  [k \in 1 .. len |-> s[k]] = s
OBVIOUS

\* All rows of a batch, ordered by index, are the batch; so they reconcile
\* with its manifest.
LEMMA OrderedRows ==
  ASSUME NEW b \in Seq(MI!Row)
  PROVE  MI!Ordered(b, DOMAIN b) = b
<1>1. PICK len \in Nat : len = Len(b) /\ DOMAIN b = 1 .. len
  OBVIOUS
<1>2. ASSUME NEW k \in 0 .. len PROVE MI!Cardinality(1 .. k) = k
  <2>1. k \in Int /\ 1 \in Int
    BY <1>1
  <2>2. Cardinality(1 .. k) = IF 1 > k THEN 0 ELSE k - 1 + 1
    BY <2>1, FS_Interval
  <2> QED BY <1>1, <2>2, SameCount
<1>3. MI!Cardinality(1 .. len) = len
  BY <1>1, <1>2
<1>4. ASSUME NEW n \in 1 .. len PROVE MI!Rank(n, 1 .. len) = n
  <2>1. {m \in 1 .. len : m <= n} = 1 .. n
    BY <1>1
  <2>2. MI!Cardinality(1 .. n) = n
    BY <1>1, <1>2
  <2> QED BY <2>1, <2>2 DEF MI!Rank
<1> DEFINE place(k) == CHOOSE n \in 1 .. len : MI!Rank(n, 1 .. len) = k
<1>5. \A k \in 1 .. len : place(k) = k
  BY <1>4
<1>6. MI!Ordered(b, DOMAIN b) = [k \in 1 .. len |-> b[k]]
  <2>1. MI!Ordered(b, 1 .. len) = [k \in 1 .. MI!Cardinality(1 .. len) |-> b[place(k)]]
    BY Zenon DEF MI!Ordered
  <2> HIDE DEF place
  <2>2. [k \in 1 .. MI!Cardinality(1 .. len) |-> b[place(k)]] = [k \in 1 .. len |-> b[k]]
    BY <1>3, <1>5
  <2> QED BY <1>1, <2>1, <2>2, Zenon
<1>7. [k \in 1 .. len |-> b[k]] = b
  BY <1>1, SequenceAsFunction
<1> QED BY <1>6, <1>7

LEMMA WholeBatchPasses ==
  ASSUME NEW b \in Seq(MI!Row), NEW rejected
  PROVE  MI!Reconciles(MI!buildManifest(b, rejected), MI!Ordered(b, DOMAIN b))
<1>1. MI!Ordered(b, DOMAIN b) = b
  BY OrderedRows
<1>2. MI!Reconciles(MI!buildManifest(b, rejected), b)
  <2>1. MI!buildManifest(b, rejected).batch = b
    BY DEF MI!buildManifest
  <2>2. \A kind \in MI!Kinds : MI!buildManifest(b, rejected).counts[kind] = MI!Count(kind, b)
    BY DEF MI!buildManifest
  <2>3. \A kind \in {"filing", "payment"} : MI!buildManifest(b, rejected).sums[kind] = MI!Sum(kind, b)
    BY DEF MI!buildManifest
  <2> QED BY <2>1, <2>2, <2>3 DEF MI!Reconciles
<1> QED BY <1>1, <1>2

\* The three readings and the verdict.
LEMMA AuditStep ==
  ASSUME MI!MigrationInv, MI!VerdictInv, NEW a \in migration.Auditors,
         (\E b \in DOMAIN past : MI!VerifyBatch(a, b)) \/ MI!VerifyStep(a)
  PROVE  MI!VerdictInv'
<1> DEFINE me == u[a]
<1>1. UNCHANGED <<past, excepted>> /\ MI!ManifestTold /\ MI!AuditFair(me)
  BY DEF MI!VerifyBatch, MI!VerifyStep, MI!ListDocs, MI!ListFails, MI!FinishProof, MI!VerdictInv
<1>2. ASSUME NEW next, u' = [u EXCEPT ![a] = next], MI!AuditFair(next)
      PROVE  MI!VerdictInv'
  <2>1. \A c \in migration.Auditors : MI!AuditFair(u'[c])
    BY <1>2 DEF MI!VerdictInv
  <2>2. (\A c \in migration.Auditors : MI!AuditFair(u[c]))'
    BY <1>1, <2>1 DEF MI!AuditFair
  <2> QED BY <1>1, <1>2, <2>2 DEF MI!VerdictInv, MI!ManifestTold
<1>3. CASE \E b \in DOMAIN past : MI!VerifyBatch(a, b)
  <2>1. PICK b \in DOMAIN past : MI!VerifyBatch(a, b)
    BY <1>3
  <2> DEFINE kinds == <<"taxpayer", "filing", "payment">>
             next == [pc |-> "list", batch |-> b, left |-> kinds, seen |-> {}]
  <2>2. u' = [u EXCEPT ![a] = next]
    BY <2>1 DEF MI!VerifyBatch
  <2>3. \A n \in DOMAIN b : \E k \in DOMAIN kinds : kinds[k] = b[n].kind
    <3>1. b \in Seq(MI!Row)
      BY <1>1 DEF MI!ManifestTold
    <3>2. \A n \in DOMAIN b : b[n] \in MI!Row
      BY <3>1
    <3>3. \A n \in DOMAIN b : b[n].kind \in {"taxpayer", "filing", "payment"}
      BY <3>2 DEF MI!Row, MI!Kinds
    <3>4. DOMAIN kinds = 1 .. 3
      OBVIOUS
    <3>5. kinds[1] = "taxpayer" /\ kinds[2] = "filing" /\ kinds[3] = "payment"
      OBVIOUS
    <3> HIDE DEF kinds
    <3> QED BY <3>3, <3>4, <3>5
  <2>4. MI!AuditFair(next)
    BY <2>3 DEF MI!AuditFair
  <2> HIDE DEF next
  <2> QED BY <1>2, <2>2, <2>4
<1>4. CASE MI!ListDocs(a)
  <2> DEFINE b == me.batch
             found == {n \in DOMAIN b : b[n].kind = Head(me.left) /\ <<b, n>> \in store}
             next == [me EXCEPT !.left = Tail(@), !.seen = @ \cup found]
  <2>1. u' = [u EXCEPT ![a] = next] /\ me.pc = "list" /\ me.left # <<>>
    BY <1>4 DEF MI!ListDocs
  <2>2. /\ {"pc", "batch", "left", "seen"} \subseteq DOMAIN next
        /\ next.pc = "list" /\ next.batch = b /\ next.left = Tail(me.left) /\ next.seen = me.seen \cup found
    BY <1>1, <2>1 DEF MI!AuditFair
  <2>3. \/ b \in excepted
        \/ \A n \in DOMAIN b : b[n].kind = Head(me.left) => n \in found
    BY <1>1, <2>1 DEF MI!AuditFair, MI!MigrationInv, MI!CommittedIsComplete, MI!Complete
  <2>4. found \subseteq DOMAIN b
    OBVIOUS
  <2> HIDE DEF found
  <2>5. /\ Tail(me.left) \in {<<"filing", "payment">>, <<"payment">>, <<>>}
        /\ \A k \in DOMAIN me.left : \/ me.left[k] = Head(me.left)
                                     \/ \E j \in DOMAIN Tail(me.left) : Tail(me.left)[j] = me.left[k]
    <3>1. me.left \in {<<"taxpayer", "filing", "payment">>, <<"filing", "payment">>, <<"payment">>}
      BY <1>1, <2>1 DEF MI!AuditFair
    <3> DEFINE Splits(s) == \A k \in DOMAIN s : \/ s[k] = Head(s)
                                             \/ \E j \in DOMAIN Tail(s) : Tail(s)[j] = s[k]
    <3>2. Splits(<<"taxpayer", "filing", "payment">>) /\ Splits(<<"filing", "payment">>) /\ Splits(<<"payment">>)
      OBVIOUS
    <3>3. /\ Tail(<<"taxpayer", "filing", "payment">>) = <<"filing", "payment">>
          /\ Tail(<<"filing", "payment">>) = <<"payment">> /\ Tail(<<"payment">>) = <<>>
      OBVIOUS
    <3>4. Splits(me.left)
      <4> HIDE DEF Splits
      <4> QED BY <3>1, <3>2
    <3>5. Tail(me.left) \in {<<"filing", "payment">>, <<"payment">>, <<>>}
      BY <3>1, <3>3
    <3> QED BY <3>4, <3>5
  <2>6. MI!AuditFair(next)
    <3>1. \A n \in DOMAIN b : \/ n \in me.seen \cup found \/ b \in excepted
                              \/ \E k \in DOMAIN Tail(me.left) : Tail(me.left)[k] = b[n].kind
      BY <1>1, <2>1, <2>3, <2>5 DEF MI!AuditFair
    <3>2. b \in DOMAIN past /\ me.seen \cup found \subseteq DOMAIN b
      BY <1>1, <2>1, <2>4 DEF MI!AuditFair
    <3> HIDE DEF next, b
    <3> QED BY <2>2, <2>5, <3>1, <3>2 DEF MI!AuditFair
  <2> HIDE DEF next
  <2> QED BY <1>2, <2>1, <2>6
<1>5. CASE MI!ListFails(a)
  <2> DEFINE next == [me EXCEPT !.pc = "FAIL"]
  <2>1. u' = [u EXCEPT ![a] = next] /\ me.pc = "list" /\ me.left # <<>>
    BY <1>5 DEF MI!ListFails
  <2>2. next.pc = "FAIL" /\ next.left = me.left
    BY <1>1, <2>1 DEF MI!AuditFair
  <2> HIDE DEF next
  <2>3. MI!AuditFair(next)
    BY <2>1, <2>2 DEF MI!AuditFair
  <2> QED BY <1>2, <2>1, <2>3
<1>6. CASE MI!FinishProof(a)
  <2> DEFINE b == me.batch
             pc == IF MI!Reconciles(past[b], MI!Ordered(b, me.seen)) THEN "PASS" ELSE "FAIL"
             next == [me EXCEPT !.pc = pc]
  <2>1. u' = [u EXCEPT ![a] = next] /\ me.pc = "list" /\ me.left = <<>>
    BY <1>6 DEF MI!FinishProof
  <2>2. next.pc = pc /\ next.batch = b
    BY <1>1, <2>1 DEF MI!AuditFair
  <2>3. b \in excepted \/ pc = "PASS"
    <3>1. SUFFICES ASSUME b \notin excepted PROVE MI!Reconciles(past[b], MI!Ordered(b, me.seen))
      OBVIOUS
    <3>2. me.seen = DOMAIN b /\ b \in DOMAIN past
      <4>1. DOMAIN me.left = {}
        BY <2>1
      <4> QED BY <1>1, <2>1, <3>1, <4>1 DEF MI!AuditFair
    <3>3. b \in Seq(MI!Row) /\ past[b] = MI!buildManifest(b, past[b].rejected)
      BY <1>1, <3>2 DEF MI!ManifestTold
    <3> QED BY <3>2, <3>3, WholeBatchPasses
  <2>4. pc \in {"PASS", "FAIL"}
    OBVIOUS
  <2> HIDE DEF next, pc
  <2>5. MI!AuditFair(next)
    BY <2>2, <2>3, <2>4 DEF MI!AuditFair
  <2> QED BY <1>2, <2>1, <2>5
<1> QED BY <1>3, <1>4, <1>5, <1>6 DEF MI!VerifyStep

LEMMA VerdictStep ==
  ASSUME MI!MigrationInv, MI!VerdictInv, [MI!Next]_MI!vars
  PROVE  MI!VerdictInv'
<1>1. ASSUME UNCHANGED <<u, past>>, excepted \subseteq excepted' PROVE MI!VerdictInv'
  BY <1>1 DEF MI!VerdictInv, MI!AuditFair, MI!ManifestTold
<1>2. ASSUME NEW i \in migration.Importers, MI!PersistManifest(i) PROVE MI!VerdictInv'
  <2> DEFINE b == local[i].valid
             told == MI!buildManifest(b, local[i].rejected)
  <2>1. /\ past' = [c \in DOMAIN past \cup {b} |-> IF c = b THEN told ELSE past[c]]
        /\ UNCHANGED <<u, excepted>>
    BY <1>2 DEF MI!PersistManifest, MI!Batch
  <2>2. b \in Seq(MI!Row)
    BY DEF MI!MigrationInv, MI!ImportTyped
  <2>3. told = MI!buildManifest(b, told.rejected)
    BY DEF MI!buildManifest
  <2> HIDE DEF told, b
  <2>4. MI!ManifestTold'
    <3>1. \A c \in DOMAIN past' : c \in Seq(MI!Row) /\ past'[c] = MI!buildManifest(c, past'[c].rejected)
      BY <2>1, <2>2, <2>3 DEF MI!VerdictInv, MI!ManifestTold
    <3> QED BY <3>1 DEF MI!ManifestTold
  <2>5. (\A a \in migration.Auditors : MI!AuditFair(u[a]))'
    BY <2>1 DEF MI!VerdictInv, MI!AuditFair
  <2> QED BY <2>1, <2>4, <2>5 DEF MI!VerdictInv
<1>3. CASE MI!Crash
  <2>1. UNCHANGED <<past, excepted>> /\ u' = [a \in migration.Auditors |-> u'[a]]
    BY <1>3 DEF MI!Crash
  <2>2. ASSUME NEW a \in migration.Auditors PROVE MI!AuditFair(u'[a])
    <3>1. MI!AuditFair(u[a])
      BY DEF MI!VerdictInv
    <3>2. \/ u'[a] = u[a]
          \/ u'[a] = [u[a] EXCEPT !.pc = "failed"] /\ u[a].pc = "list"
      BY <1>3 DEF MI!Crash
    <3>3. CASE u'[a] = [u[a] EXCEPT !.pc = "failed"] /\ u[a].pc = "list"
      <4>1. u'[a].pc = "failed"
        BY <3>1, <3>3 DEF MI!AuditFair
      <4> QED BY <4>1 DEF MI!AuditFair
    <3> QED BY <3>1, <3>2, <3>3
  <2> QED BY <2>1, <2>2 DEF MI!VerdictInv, MI!AuditFair, MI!ManifestTold
<1>4. ASSUME NEW i \in migration.Importers,
             \/ \E how \in {"dry_run", "commit"}, input \in migration.Inputs : MI!Import(i, how, input)
             \/ MI!CheckRow(i) \/ MI!LookupFails(i) \/ MI!FindBatch(i) \/ MI!FindBatchFails(i)
             \/ MI!PutDoc(i) \/ MI!PutFails(i) \/ MI!Rollback(i) \/ MI!RolledBack(i) \/ MI!PersistFails(i)
      PROVE  UNCHANGED <<u, past>> /\ excepted \subseteq excepted'
  BY <1>4 DEF MI!Import, MI!CheckRow, MI!LookupFails, MI!FindBatch, MI!FindBatchFails, MI!PutDoc, MI!PutFails,
     MI!Rollback, MI!RolledBack, MI!PersistFails
<1>5. (\E tin \in migration.TINs : MI!Provision(tin)) \/ UNCHANGED MI!vars
        => UNCHANGED <<u, past>> /\ excepted \subseteq excepted'
  BY DEF MI!Provision, MI!vars
<1> QED BY <1>1, <1>2, <1>3, <1>4, <1>5, AuditStep DEF MI!Next, MI!ImportStep

-----------------------------------------------------------------------------
(* Recursive functions over the subsets of a finite set, which take out    *)
(* one element at a time.                                                  *)

LEMMA Without ==
  ASSUME NEW S, IsFiniteSet(S), NEW s \in SUBSET S, NEW x \in s
  PROVE  /\ Cardinality(s) \in Nat /\ Cardinality(s \ {x}) \in Nat
         /\ Cardinality(s \ {x}) = Cardinality(s) - 1
<1>1. IsFiniteSet(s) /\ IsFiniteSet(s \ {x})
  BY FS_Subset
<1> QED BY <1>1, FS_CardinalityType, FS_RemoveElement

\* A set of counterexamples in which each has a smaller one is empty.
LEMMA NoLeastSet ==
  ASSUME NEW S, IsFiniteSet(S), NEW B, B \subseteq SUBSET S,
         \A s \in B : \E x \in s : s \ {x} \in B
  PROVE  B = {}
<1>1. SUFFICES ASSUME B # {} PROVE FALSE
  OBVIOUS
<1> DEFINE Sizes == {n \in Nat : \E s \in B : Cardinality(s) = n}
<1>2. \A s \in B : Cardinality(s) \in Sizes
  BY FS_Subset, FS_CardinalityType
<1>3. Sizes \subseteq Nat /\ Sizes # {}
  BY <1>1, <1>2
<1>4. PICK n \in Sizes : \A m \in Sizes : n <= m
  <2> HIDE DEF Sizes
  <2> QED BY <1>3, LeastPosition
<1>5. PICK s \in B : Cardinality(s) = n
  OBVIOUS
<1>6. PICK x \in s : s \ {x} \in B
  OBVIOUS
<1>7. Cardinality(s \ {x}) = n - 1 /\ n - 1 \in Nat
  BY <1>5, Without
<1>8. n <= n - 1
  BY <1>2, <1>4, <1>6, <1>7
<1> QED BY <1>7, <1>8

-----------------------------------------------------------------------------
(* The newest published version of a rule pack.                            *)

\* The listing of the store, and what latestPublished keeps of the records
\* at a set of its positions.
Stored(ps) == {ps[x] : x \in RP!Versions} \ {RP!None}
Listing(ps) == RP!SetToSeq(Stored(ps))
Kept(best, p) ==
  IF p.status # "published" THEN best
  ELSE IF best = RP!None \/ RP!SemverLess(best.version, p.version) THEN p ELSE best
Latest(s) == CHOOSE x \in s : \A y \in s : x >= y
Keeps(h, seq, D) ==
  h = [s \in D |-> IF s = {} THEN RP!None ELSE Kept(h[s \ {Latest(s)}], seq[Latest(s)])]

LEMMA LatestUnfolds ==
  ASSUME NEW ps
  PROVE  RP!LatestPublished(ps) =
           (CHOOSE h : Keeps(h, Listing(ps), SUBSET DOMAIN Listing(ps)))[DOMAIN Listing(ps)]
BY Zenon DEF RP!LatestPublished, RP!FoldLeft, RP!MapThenFoldSet, RP!Max, Keeps, Kept, Latest, Listing, Stored

LEMMA LatestIn ==
  ASSUME NEW n \in Nat, NEW s \in SUBSET (1..n), s # {}
  PROVE  Latest(s) \in s
<1>1. PICK x \in s : \A y \in s : y <= x
  BY LatestPosition
<1>2. \A y \in s : x >= y
  BY <1>1
<1> QED BY <1>2, Zenon DEF Latest

LEMMA KeepsExists ==
  ASSUME NEW n \in Nat, NEW seq
  PROVE  \E h : Keeps(h, seq, SUBSET (1..n))
<1> DEFINE S == 1..n
           Small(m) == {s \in SUBSET S : Cardinality(s) <= m}
           Bad == {m \in Nat : ~\E h : Keeps(h, seq, Small(m))}
<1>1. IsFiniteSet(S) /\ Cardinality(S) = n
  BY FS_Interval
<1>2. \A s \in SUBSET S : Cardinality(s) \in Nat /\ Cardinality(s) <= n
  BY <1>1, FS_Subset, FS_CardinalityType
<1>3. Bad = {}
  <2>1. SUFFICES ASSUME Bad # {} PROVE FALSE
    OBVIOUS
  <2>2. PICK m \in Bad : \A k \in Bad : m <= k
    <3>1. Bad \subseteq Nat
      OBVIOUS
    <3> HIDE DEF Bad
    <3> QED BY <2>1, <3>1, LeastPosition
  <2>3. m \in Nat /\ ~\E h : Keeps(h, seq, Small(m))
    OBVIOUS
  <2>4. CASE m = 0
    <3>1. \A s \in Small(m) : s = {}
      <4>1. ASSUME NEW s \in SUBSET S, NEW x \in s PROVE ~(Cardinality(s) <= 0)
        <5>1. Cardinality(s) \in Nat /\ Cardinality(s) - 1 \in Nat
          BY <1>1, Without
        <5> QED BY <5>1
      <4> QED BY <2>4, <4>1
    <3> HIDE DEF Small
    <3>2. PICK h : h = [s \in Small(m) |-> RP!None]
      OBVIOUS
    <3>3. Keeps(h, seq, Small(m))
      BY <3>1, <3>2 DEF Keeps
    <3> QED BY <2>3, <3>3
  <2>5. CASE m # 0
    <3>1. m - 1 \in Nat /\ m - 1 \notin Bad
      <4> HIDE DEF Bad
      <4> QED BY <2>2, <2>3, <2>5
    <3>2. PICK g : Keeps(g, seq, Small(m - 1))
      BY <3>1
    <3>3. PICK h : h = [s \in Small(m) |->
                          IF s = {} THEN RP!None ELSE Kept(g[s \ {Latest(s)}], seq[Latest(s)])]
      OBVIOUS
    <3>4. \A s \in Small(m) : s # {} => s \ {Latest(s)} \in Small(m - 1)
      <4>1. ASSUME NEW s \in SUBSET S, Cardinality(s) <= m, s # {}
            PROVE  s \ {Latest(s)} \in Small(m - 1)
        <5>1. Latest(s) \in s
          BY <4>1, LatestIn
        <5>2. Cardinality(s) \in Nat /\ Cardinality(s \ {Latest(s)}) = Cardinality(s) - 1
          BY <1>1, <5>1, Without
        <5>3. Cardinality(s \ {Latest(s)}) <= m - 1
          BY <2>3, <4>1, <5>2
        <5> QED BY <5>3
      <4> QED BY <4>1
    <3>5. \A s \in Small(m - 1) : s \in Small(m)
      BY <1>2, <2>3
    <3> HIDE DEF Small
    <3>6. \A s \in Small(m - 1) : h[s] = g[s]
      BY <3>2, <3>3, <3>5 DEF Keeps
    <3>7. Keeps(h, seq, Small(m))
      BY <3>3, <3>4, <3>6 DEF Keeps
    <3> QED BY <2>3, <3>7
  <2> QED BY <2>4, <2>5
<1>4. Small(n) = SUBSET S
  BY <1>2
<1>5. \E h : Keeps(h, seq, Small(n))
  BY <1>3
<1> QED BY <1>4, <1>5

\* Versions as numbers: the base is above all their components, of which
\* there are finitely many.
Components3 == UNION {{x[1], x[2], x[3]} : x \in RP!Versions}

LEMMA ComponentsBounded ==
  ASSUME RP!Parameters
  PROVE  /\ Components3 \subseteq Nat
         /\ \E m \in Nat : \A c \in Components3 : c <= m
<1> DEFINE All == rulePacks.Artifacts
           Bound(s, m) == \A a \in s : a.version[1] <= m /\ a.version[2] <= m /\ a.version[3] <= m
           Bad == {s \in SUBSET All : ~\E m \in Nat : Bound(s, m)}
<1>1. \A a \in All : a.version[1] \in Nat /\ a.version[2] \in Nat /\ a.version[3] \in Nat
  BY DEF RP!Parameters
<1>2. ASSUME NEW s \in Bad PROVE \E a \in s : s \ {a} \in Bad
  <2>1. s \in SUBSET All /\ ~\E m \in Nat : Bound(s, m)
    OBVIOUS
  <2>2. PICK a \in s : TRUE
    <3>1. Bound({}, 0)
      OBVIOUS
    <3> HIDE DEF Bound
    <3> QED BY <2>1, <3>1
  <2>3. ASSUME NEW m \in Nat, Bound(s \ {a}, m) PROVE FALSE
    <3>1. PICK k \in Nat : m <= k /\ a.version[1] <= k /\ a.version[2] <= k /\ a.version[3] <= k
      <4>1. PICK i \in Nat, j \in Nat, l \in Nat : a.version[1] = i /\ a.version[2] = j /\ a.version[3] = l
        BY <1>1, <2>1
      <4>2. m + i + j + l \in Nat /\ m <= m + i + j + l /\ i <= m + i + j + l
            /\ j <= m + i + j + l /\ l <= m + i + j + l
        OBVIOUS
      <4> QED BY <4>1, <4>2
    <3>2. \A b \in s \ {a} : b.version[1] <= k /\ b.version[2] <= k /\ b.version[3] <= k
      BY <1>1, <2>1, <2>3, <3>1
    <3>3. Bound(s, k)
      BY <3>1, <3>2
    <3> QED BY <2>1, <3>3
  <2> QED BY <2>1, <2>2, <2>3
<1>3. Bad \subseteq SUBSET All
  <2> HIDE DEF Bound
  <2> QED OBVIOUS
<1>4. Bad = {}
  <2>1. IsFiniteSet(All)
    BY DEF RP!Parameters, RP!IsFiniteSet, IsFiniteSet
  <2> HIDE DEF Bad
  <2> QED BY <2>1, <1>2, <1>3, NoLeastSet
<1>5. PICK m \in Nat : Bound(All, m)
  BY <1>4
<1> QED BY <1>1, <1>5 DEF Components3, RP!Versions

LEMMA LargestComponent ==
  ASSUME RP!Parameters, Components3 # {}
  PROVE  RP!Base \in Nat /\ \A c \in Components3 : c < RP!Base
<1> DEFINE Above == {m \in Nat : \A c \in Components3 : c <= m}
<1>1. Above \subseteq Nat /\ Above # {}
  BY ComponentsBounded
<1>2. PICK m \in Above : \A k \in Above : m <= k
  <2> HIDE DEF Above
  <2> QED BY <1>1, LeastPosition
<1>3. m \in Components3
  <2>1. SUFFICES ASSUME m \notin Components3 PROVE FALSE
    OBVIOUS
  <2>2. \A c \in Components3 : c \in Nat /\ c <= m - 1
    BY <1>2, <2>1, ComponentsBounded
  <2>3. m - 1 \in Above
    BY <1>2, <2>2
  <2> QED BY <1>2, <2>3
<1>4. \A c \in Components3 : c \in Nat /\ m >= c
  BY <1>2, ComponentsBounded
<1>5. RP!Max(Components3) \in Components3 /\ \A c \in Components3 : RP!Max(Components3) >= c
  BY <1>3, <1>4, Zenon DEF RP!Max
<1>6. RP!Base = 1 + RP!Max(Components3)
  BY DEF RP!Base, Components3
<1> QED BY <1>4, <1>5, <1>6

\* A number tells its last digit and the rest.
LEMMA DigitsTell ==
  ASSUME NEW n \in Nat, NEW x \in Nat, NEW y \in Nat, NEW i \in Nat, NEW j \in Nat, i < n, j < n
  PROVE  /\ x * n + i \in Nat
         /\ x * n + i < y * n + j <=> x < y \/ (x = y /\ i < j)
         /\ x * n + i = y * n + j => x = y /\ i = j
<1>1. x < y => x * n + n <= y * n
  <2>1. SUFFICES ASSUME x < y PROVE x * n + n <= y * n
    OBVIOUS
  <2>2. PICK d \in Nat : y = x + 1 + d
    <3>1. y - x - 1 \in Nat /\ y = x + 1 + (y - x - 1)
      BY <2>1
    <3> QED BY <3>1
  <2>3. y * n = x * n + n + d * n /\ d * n \in Nat /\ x * n \in Nat
    BY <2>2
  <2> QED BY <2>3
<1>2. y < x => y * n + n <= x * n
  <2>1. SUFFICES ASSUME y < x PROVE y * n + n <= x * n
    OBVIOUS
  <2>2. PICK d \in Nat : x = y + 1 + d
    <3>1. x - y - 1 \in Nat /\ x = y + 1 + (x - y - 1)
      BY <2>1
    <3> QED BY <3>1
  <2>3. x * n = y * n + n + d * n /\ d * n \in Nat /\ y * n \in Nat
    BY <2>2
  <2> QED BY <2>3
<1>3. PICK xn \in Nat, yn \in Nat : xn = x * n /\ yn = y * n
  OBVIOUS
<1>4. (x < y => xn + n <= yn) /\ (y < x => yn + n <= xn) /\ (x = y => xn = yn)
  BY <1>1, <1>2, <1>3
<1>5. /\ xn + i \in Nat
      /\ xn + i < yn + j <=> x < y \/ (x = y /\ i < j)
      /\ xn + i = yn + j => x = y /\ i = j
  BY <1>4
<1> QED BY <1>3, <1>5

\* Comparing component by component compares numbers.
LEMMA RankTells ==
  ASSUME RP!Parameters, NEW a \in RP!Versions, NEW b \in RP!Versions
  PROVE  /\ RP!Rank(a) \in Nat
         /\ RP!SemverLess(a, b) <=> RP!Rank(a) < RP!Rank(b)
<1> DEFINE In(x) == x[1] \in Components3 /\ x[2] \in Components3 /\ x[3] \in Components3
<1>1. In(a) /\ In(b)
  BY DEF Components3
<1>2. Components3 # {}
  BY <1>1
<1>3. PICK n \in Nat : n = RP!Base /\ \A c \in Components3 : c \in Nat /\ c < n
  BY <1>2, LargestComponent, ComponentsBounded
<1>4. PICK a1 \in Nat, a2 \in Nat, a3 \in Nat : a1 = a[1] /\ a2 = a[2] /\ a3 = a[3] /\ a1 < n /\ a2 < n /\ a3 < n
  BY <1>1, <1>3
<1>5. PICK b1 \in Nat, b2 \in Nat, b3 \in Nat : b1 = b[1] /\ b2 = b[2] /\ b3 = b[3] /\ b1 < n /\ b2 < n /\ b3 < n
  BY <1>1, <1>3
<1>6. RP!Rank(a) = (a1 * n + a2) * n + a3 /\ RP!Rank(b) = (b1 * n + b2) * n + b3
  BY <1>3, <1>4, <1>5 DEF RP!Rank
<1>7. RP!SemverLess(a, b) <=> a1 < b1 \/ (a1 = b1 /\ a2 < b2) \/ (a1 = b1 /\ a2 = b2 /\ a3 < b3)
  <2>1. RP!SemverLess(a, b) <=>
          \/ a[1] < b[1] \/ (a[1] = b[1] /\ a[2] < b[2])
          \/ (a[1] = b[1] /\ a[2] = b[2] /\ a[3] < b[3])
    BY <1>4, <1>5 DEF RP!SemverLess
  <2> QED BY <2>1, <1>4, <1>5
<1>8. /\ a1 * n + a2 \in Nat /\ b1 * n + b2 \in Nat
      /\ a1 * n + a2 < b1 * n + b2 <=> a1 < b1 \/ (a1 = b1 /\ a2 < b2)
      /\ a1 * n + a2 = b1 * n + b2 => a1 = b1 /\ a2 = b2
  <2>1. b1 * n + b2 \in Nat
    BY <1>5
  <2>2. a2 < n /\ b2 < n
    BY <1>4, <1>5
  <2> QED BY <2>1, <2>2, DigitsTell
<1>9. PICK p \in Nat, q \in Nat : p = a1 * n + a2 /\ q = b1 * n + b2
  BY <1>8
<1>10. (p < q <=> a1 < b1 \/ (a1 = b1 /\ a2 < b2)) /\ (p = q <=> a1 = b1 /\ a2 = b2)
  BY <1>8, <1>9
<1>11. /\ p * n + a3 \in Nat
       /\ p * n + a3 < q * n + b3 <=> p < q \/ (p = q /\ a3 < b3)
  BY <1>4, <1>5, DigitsTell
<1> QED BY <1>6, <1>7, <1>9, <1>10, <1>11

\* The fold never loses a version to an older one.
Published(p) == p.status = "published"
Newest(best, seq, s) ==
  /\ best = RP!None => \A i \in s : ~Published(seq[i])
  /\ best # RP!None => /\ \E i \in s : best = seq[i] /\ Published(seq[i])
                       /\ \A i \in s : Published(seq[i]) => ~RP!SemverLess(best.version, seq[i].version)

LEMMA KeepsNewest ==
  ASSUME RP!Parameters, NEW n \in Nat, NEW seq, NEW h, Keeps(h, seq, SUBSET (1..n)),
         \A i \in 1..n : seq[i] # RP!None /\ seq[i].version \in RP!Versions
  PROVE  Newest(h[1..n], seq, 1..n)
<1> DEFINE S == 1..n
           Bad == {s \in SUBSET S : ~Newest(h[s], seq, s)}
<1>1. ASSUME NEW s \in SUBSET S, s # {}, Newest(h[s \ {Latest(s)}], seq, s \ {Latest(s)})
      PROVE  Newest(h[s], seq, s)
  <2>1. PICK x, p, best, t : x \in S /\ x = Latest(s) /\ x \in s /\ p = seq[x] /\ t = s \ {x} /\ best = h[t]
    BY <1>1, LatestIn
  <2>2. h[s] = Kept(best, p) /\ s = t \cup {x} /\ Newest(best, seq, t)
    BY <1>1, <2>1 DEF Keeps
  <2>3. p # RP!None /\ p.version \in RP!Versions
    BY <2>1
  <2>4. CASE ~Published(p)
    BY <2>1, <2>2, <2>4 DEF Kept, Newest, Published
  <2>5. CASE Published(p) /\ best = RP!None
    <3>1. h[s] = p
      BY <2>2, <2>5 DEF Kept, Published
    <3>2. ~RP!SemverLess(p.version, p.version)
      BY <2>3, RankTells
    <3>3. \A i \in s : Published(seq[i]) => i = x
      BY <2>2, <2>5 DEF Newest
    <3> QED BY <2>1, <2>3, <2>5, <3>1, <3>2, <3>3 DEF Newest
  <2>6. CASE Published(p) /\ best # RP!None
    <3>1. PICK j \in t : best = seq[j] /\ Published(seq[j])
      BY <2>2, <2>6 DEF Newest
    <3>2. best.version \in RP!Versions
      BY <2>1, <3>1
    <3>3. h[s] = IF RP!SemverLess(best.version, p.version) THEN p ELSE best
      BY <2>2, <2>6 DEF Kept, Published
    <3>4. ASSUME NEW i \in s, Published(seq[i]) PROVE ~RP!SemverLess(h[s].version, seq[i].version)
      <4>1. seq[i].version \in RP!Versions
        BY <3>4
      <4>2. i = x \/ ~RP!SemverLess(best.version, seq[i].version)
        BY <2>2, <2>6, <3>4 DEF Newest
      <4>3. /\ ~RP!SemverLess(p.version, p.version)
            /\ RP!SemverLess(best.version, p.version) /\ RP!SemverLess(p.version, seq[i].version)
                 => RP!SemverLess(best.version, seq[i].version)
        BY <2>3, <3>2, <4>1, RankTells
      <4> QED BY <2>1, <3>3, <4>2, <4>3
    <3> QED BY <2>1, <2>2, <2>3, <2>6, <3>1, <3>3, <3>4 DEF Newest
  <2> QED BY <2>4, <2>5, <2>6
<1>2. Newest(h[{}], seq, {})
  BY DEF Keeps, Newest
<1>3. ASSUME NEW s \in Bad PROVE \E x \in s : s \ {x} \in Bad
  <2>1. s # {}
    BY <1>2, <1>3
  <2>2. Latest(s) \in s
    BY <2>1, LatestIn
  <2>3. ~Newest(h[s \ {Latest(s)}], seq, s \ {Latest(s)})
    BY <1>1, <1>3, <2>1
  <2> QED BY <2>2, <2>3
<1>4. Bad \subseteq SUBSET S /\ IsFiniteSet(S)
  BY FS_Interval
<1>5. Bad = {}
  <2> HIDE DEF Bad, S
  <2> QED BY <1>3, <1>4, NoLeastSet
<1> QED BY <1>5

\* The listing has every record of the store.
LEMMA StoredFinite ==
  ASSUME RP!Parameters, NEW ps
  PROVE  IsFiniteSet(Stored(ps))
<1> DEFINE G == {ps[x] : x \in RP!Versions}
           f == [a \in rulePacks.Artifacts |-> ps[a.version]]
<1>1. f \in Surjection(rulePacks.Artifacts, G)
  <2>1. \A a \in rulePacks.Artifacts : f[a] \in G
    BY DEF RP!Versions
  <2>2. \A p \in G : \E a \in rulePacks.Artifacts : f[a] = p
    BY DEF RP!Versions
  <2>3. f \in [rulePacks.Artifacts -> G]
    BY <2>1
  <2> HIDE DEF f, G
  <2> QED BY <2>2, <2>3 DEF Surjection
<1>2. IsFiniteSet(rulePacks.Artifacts)
  BY DEF RP!Parameters, RP!IsFiniteSet, IsFiniteSet
<1>3. IsFiniteSet(G)
  <2> HIDE DEF f, G
  <2> QED BY <1>1, <1>2, FS_Surjection
<1> QED BY <1>3, FS_Subset DEF Stored

LEMMA ListingHasAll ==
  ASSUME NEW ps, IsFiniteSet(Stored(ps))
  PROVE  \E n \in Nat : /\ Listing(ps) \in [1..n -> Stored(ps)]
                        /\ \A p \in Stored(ps) : \E i \in 1..n : Listing(ps)[i] = p
<1>1. PICK n, G : n = Cardinality(G) /\ G = Stored(ps)
  OBVIOUS
<1>2. n \in Nat /\ ExistsBijection(1..n, G) /\ IsFiniteSet(G)
  BY <1>1, FS_CardinalityType
<1>3. RP!Cardinality(G) = Cardinality(G)
  BY Zenon DEF RP!Cardinality, Cardinality
<1>4. \E f \in [1..RP!Cardinality(G) -> G] : RP!IsInjective(f)
  <2>1. PICK f : f \in Bijection(1..n, G)
    BY <1>2 DEF ExistsBijection
  <2>2. f \in [1..n -> G] /\ IsInjective(f)
    BY <2>1 DEF Bijection, Injection
  <2> QED BY <1>1, <1>3, <2>2 DEF IsInjective, RP!IsInjective
<1>5. RP!SetToSeq(G) \in [1..RP!Cardinality(G) -> G] /\ RP!IsInjective(RP!SetToSeq(G))
  BY <1>4, Zenon DEF RP!SetToSeq
<1>6. PICK seq : seq = Listing(ps) /\ seq = RP!SetToSeq(G)
  BY <1>1 DEF Listing
<1>7. seq \in Injection(1..n, G)
  BY <1>1, <1>3, <1>5, <1>6 DEF Injection, IsInjective, RP!IsInjective
<1>8. IsFiniteSet(1..n) /\ Cardinality(1..n) = n
  BY <1>2, FS_Interval
<1>9. seq \in Surjection(1..n, G)
  BY <1>1, <1>2, <1>7, <1>8, FS_Injection
<1> QED BY <1>1, <1>2, <1>6, <1>9 DEF Surjection

LEMMA LatestIsNewest ==
  ASSUME RP!Parameters, NEW ps, \A x \in RP!Versions : ps[x] # RP!None => RP!Names(ps[x], x),
         NEW x \in RP!Versions, ps[x] # RP!None, ps[x].status = "published"
  PROVE  LET best == RP!LatestPublished(ps)
         IN  /\ best # RP!None /\ best.version \in RP!Versions
             /\ RP!Rank(x) <= RP!Rank(best.version)
<1>1. PICK G : G = Stored(ps)
  OBVIOUS
<1>2. IsFiniteSet(G)
  BY <1>1, StoredFinite
<1>3. PICK n \in Nat : Listing(ps) \in [1..n -> G] /\ \A p \in G : \E i \in 1..n : Listing(ps)[i] = p
  BY <1>1, <1>2, ListingHasAll
<1>4. PICK seq : seq = Listing(ps)
  OBVIOUS
<1>5. seq \in [1..n -> G] /\ DOMAIN seq = 1..n /\ \A p \in G : \E i \in 1..n : seq[i] = p
  BY <1>3, <1>4
<1>6. \A p \in G : p # RP!None /\ p.version \in RP!Versions
  BY <1>1 DEF Stored, RP!Names
<1>7. PICK h : Keeps(h, seq, SUBSET (1..n)) /\ RP!LatestPublished(ps) = h[1..n]
  <2>1. \E h : Keeps(h, seq, SUBSET (1..n))
    BY KeepsExists
  <2>2. PICK h : h = CHOOSE g : Keeps(g, seq, SUBSET (1..n))
    OBVIOUS
  <2>3. Keeps(h, seq, SUBSET (1..n))
    BY <2>1, <2>2, Zenon
  <2>4. RP!LatestPublished(ps) = h[1..n]
    BY <1>4, <1>5, <2>2, LatestUnfolds
  <2> QED BY <2>3, <2>4
<1>8. \A i \in 1..n : seq[i] # RP!None /\ seq[i].version \in RP!Versions
  BY <1>5, <1>6
<1>9. Newest(h[1..n], seq, 1..n)
  BY <1>7, <1>8, KeepsNewest
<1>10. PICK best : best = RP!LatestPublished(ps) /\ best = h[1..n]
  BY <1>7
<1>11. PICK i \in 1..n : seq[i] = ps[x]
  BY <1>1, <1>5 DEF Stored
<1>12. best # RP!None
  BY <1>9, <1>10, <1>11 DEF Newest, Published
<1>13. best.version \in RP!Versions /\ ~RP!SemverLess(best.version, x)
  BY <1>8, <1>9, <1>10, <1>11, <1>12 DEF Newest, Published, RP!Names
<1>14. RP!Rank(x) <= RP!Rank(best.version)
  BY <1>13, RankTells
<1> QED BY <1>10, <1>12, <1>13, <1>14

LEMMA NewestTold ==
  ASSUME RP!Parameters, RP!ListingInv
  PROVE  RP!NewestIsFound
<1> SUFFICES ASSUME NEW x \in RP!Versions, store[x] # RP!None, store[x].status = "published"
             PROVE  /\ RP!Rank(RP!LatestPublished(store).version) >= RP!Rank(x)
                    /\ \A c \in rulePacks.Consumers :
                         mirror[c] # <<>> /\ RP!Rank(mirror[c]) < RP!Rank(x) => c \in RP!StaleConsumers
  BY DEF RP!NewestIsFound
<1>1. PICK best : best = RP!LatestPublished(store)
  OBVIOUS
<1>2. best # RP!None /\ best.version \in RP!Versions /\ RP!Rank(x) <= RP!Rank(best.version)
  BY <1>1, LatestIsNewest DEF RP!ListingInv
<1>3. \A y \in RP!Versions : RP!Rank(y) \in Nat
  BY RankTells
<1>4. ASSUME NEW c \in rulePacks.Consumers, mirror[c] # <<>>, RP!Rank(mirror[c]) < RP!Rank(x)
      PROVE  c \in RP!StaleConsumers
  <2>1. mirror[c] \in RP!Versions
    BY <1>4 DEF RP!ListingInv
  <2>2. RP!Rank(mirror[c]) < RP!Rank(best.version)
    BY <1>2, <1>3, <1>4, <2>1
  <2>3. RP!SemverLess(mirror[c], best.version)
    BY <1>2, <2>1, <2>2, RankTells
  <2> QED BY <1>1, <1>2, <1>4, <2>3 DEF RP!StaleConsumers
<1> QED BY <1>1, <1>2, <1>3, <1>4

\* A record names its version from its registration on.
LEMMA ListingStep ==
  ASSUME RP!Parameters, RP!ListingInv, [RP!Next]_RP!vars
  PROVE  RP!ListingInv'
<1> USE DEF RP!ListingInv
<1>1. ASSUME NEW r \in rulePacks.Requests, NEW a \in rulePacks.Artifacts, RP!RegisterRead(r, a)
      PROVE  RP!ListingInv'
  <2>0. PICK found :
          /\ local' = [local EXCEPT ![r] =
               IF RP!MayRegister(a, found)
               THEN [pc |-> "register", artifact |-> a, seen |-> found] ELSE RP!Done]
          /\ UNCHANGED <<store, mirror>>
    BY <1>1 DEF RP!RegisterRead
  <2> DEFINE read == [pc |-> "register", artifact |-> a, seen |-> found]
             me == IF RP!MayRegister(a, found) THEN read ELSE RP!Done
  <2>1. local' = [local EXCEPT ![r] = me] /\ UNCHANGED <<store, mirror>>
    BY <2>0
  <2>2. me.pc # "publish" /\ (me.pc = "register" => me.artifact \in rulePacks.Artifacts)
    BY DEF RP!Done
  <2> HIDE DEF me
  <2> QED BY <2>1, <2>2
<1>2. ASSUME NEW r \in rulePacks.Requests, NEW x \in RP!Versions, RP!PublishRead(r, x)
      PROVE  RP!ListingInv'
  <2> DEFINE read == [pc |-> "publish", copy |-> store[x]]
             me == IF RP!MayPublish(store[x]) THEN read ELSE RP!Done
  <2>1. local' = [local EXCEPT ![r] = me] /\ UNCHANGED <<store, mirror>> /\ store[x] # RP!None
    BY <1>2 DEF RP!PublishRead
  <2>2. me.pc # "register" /\ (me.pc = "publish" => RP!Names(me.copy, x))
    <3>1. RP!Names(store[x], x)
      BY <2>1
    <3> QED BY <3>1 DEF RP!Done
  <2> HIDE DEF me
  <2> QED BY <2>1, <2>2
<1>3. ASSUME NEW r \in rulePacks.Requests, RP!RegisterPut(r)
      PROVE  RP!ListingInv'
  <2>1. PICK a, new :
          /\ a = local[r].artifact /\ local[r].pc = "register" /\ new = RP!Record(a)
          /\ store' = [store EXCEPT ![a.version] = new]
          /\ local' = [local EXCEPT ![r] = RP!Done] /\ UNCHANGED mirror
    BY <1>3 DEF RP!RegisterPut
  <2>2. a \in rulePacks.Artifacts /\ RP!Names(new, a.version)
    BY <2>1 DEF RP!Names, RP!Record
  <2> QED BY <2>1, <2>2 DEF RP!Done
<1>4. ASSUME NEW r \in rulePacks.Requests, RP!PublishPut(r)
      PROVE  RP!ListingInv'
  <2> DEFINE new == [local[r].copy EXCEPT !.status = "published"]
             me == [pc |-> "announce", copy |-> local[r].copy]
  <2>1. PICK x \in RP!Versions : RP!Names(local[r].copy, x)
    BY <1>4 DEF RP!PublishPut
  <2>2. /\ store' = [store EXCEPT ![x] = new] /\ local' = [local EXCEPT ![r] = me]
        /\ UNCHANGED mirror
    BY <1>4, <2>1 DEF RP!PublishPut, RP!Names
  <2>3. RP!Names(new, x)
    BY <2>1 DEF RP!Names
  <2>4. me.pc = "announce"
    OBVIOUS
  <2> HIDE DEF new, me
  <2> QED BY <2>2, <2>3, <2>4
<1>5. ASSUME NEW r \in rulePacks.Requests, RP!PublishAnnounce(r)
      PROVE  RP!ListingInv'
  BY <1>5 DEF RP!PublishAnnounce, RP!Done
<1>6. ASSUME NEW c \in rulePacks.Consumers, NEW x \in RP!Versions, RP!RegisterConsumer(c, x)
      PROVE  RP!ListingInv'
  BY <1>6 DEF RP!RegisterConsumer
<1>7. CASE RP!Restart
  BY <1>7 DEF RP!Restart, RP!New, RP!Done
<1>8. CASE UNCHANGED RP!vars
  BY <1>8 DEF RP!vars
<1> QED BY <1>1, <1>2, <1>3, <1>4, <1>5, <1>6, <1>7, <1>8 DEF RP!Next

-----------------------------------------------------------------------------
(* Thresholds.                                                             *)

\* The part of the invariant about accounts survives a step that observes
\* nothing and loses no alert of theirs.
LEMMA AccountsStay ==
  ASSUME TH!ThresholdsInv, UNCHANGED <<store, mirror, past>>, excepted \subseteq excepted',
         \A a \in thresholds.Accounts \ excepted' : \A t : <<a, t>> \in TH!Alerts => <<a, t>> \in TH!Alerts'
  PROVE  \A a \in thresholds.Accounts \ excepted' :
           TH!InOrder(a)' /\ TH!WindowFits(a)' /\ TH!AlertsFit(a)'
<1> TAKE a \in thresholds.Accounts \ excepted'
<1>1. TH!InOrder(a) /\ TH!WindowFits(a) /\ TH!AlertsFit(a)
  BY DEF TH!ThresholdsInv
<1>2. TH!InOrder(a)'
  BY <1>1 DEF TH!InOrder
<1>3. TH!WindowFits(a)'
  BY <1>1 DEF TH!WindowFits, TH!Entries
<1>4. \A k : TH!Splits(TH!Recent'[k]) <=> TH!Splits(TH!Recent[k])
  BY DEF TH!Recent, TH!Entries
<1>5. TH!AlertsFit(a)'
  BY <1>1, <1>4 DEF TH!AlertsFit
<1> QED BY <1>2, <1>3, <1>5

LEMMA ObservationBegins ==
  ASSUME TH!ThresholdsInv, NEW o \in thresholds.Observers, NEW b \in thresholds.Accounts,
         NEW amount \in thresholds.Amounts, TH!Begin(o, b, amount)
  PROVE  TH!ThresholdsInv'
<1>1. PICK me : /\ local' = [local EXCEPT ![o] = me] /\ me.pc \in {"lock", "emit"}
                /\ me.account = b /\ me.now = time /\ (me.pc = "lock" => me.amount = amount)
  <2> DEFINE large == [pc |-> "emit", account |-> b, now |-> time, types |-> {"ctr"}]
             small == [pc |-> "lock", account |-> b, now |-> time, amount |-> amount,
                       types |-> IF amount >= thresholds.nearThreshold THEN {"threshold_review"} ELSE {}]
             me == IF amount >= thresholds.ctrThreshold THEN large ELSE small
  <2>1. local' = [local EXCEPT ![o] = me]
    BY DEF TH!Begin
  <2>2. /\ me.pc \in {"lock", "emit"}
        /\ me.account = b /\ me.now = time /\ (me.pc = "lock" => me.amount = amount)
    OBVIOUS
  <2> HIDE DEF me
  <2> QED BY <2>1, <2>2
<1>2. UNCHANGED <<store, mirror, sent, time, past, excepted>> /\ local[o].pc = "idle"
  BY DEF TH!Begin, TH!Idle
<1>3. local = [q \in thresholds.Observers |-> local[q]]
  BY DEF TH!ThresholdsInv
<1>4. \A a, t : <<a, t>> \in TH!Alerts => <<a, t>> \in TH!Alerts'
  BY <1>1, <1>2, <1>3 DEF TH!Alerts
<1>5. \A q \in thresholds.Observers : TH!ObserverFits(local[q])'
  BY <1>1, <1>2, <1>3 DEF TH!ThresholdsInv, TH!ObserverFits
<1> QED BY <1>1, <1>2, <1>3, <1>4, <1>5, AccountsStay DEF TH!ThresholdsInv

LEMMA EventsEmitted ==
  ASSUME TH!ThresholdsInv, NEW o \in thresholds.Observers, TH!Emit(o)
  PROVE  TH!ThresholdsInv'
<1>1. /\ local' = [local EXCEPT ![o] = TH!Idle] /\ UNCHANGED <<store, mirror, time, past>>
      /\ excepted \subseteq excepted' /\ sent \subseteq sent'
  BY DEF TH!Emit
<1>2. local = [q \in thresholds.Observers |-> local[q]]
  BY DEF TH!ThresholdsInv
<1>3. ASSUME NEW a \in thresholds.Accounts \ excepted', NEW t, <<a, t>> \in TH!Alerts PROVE <<a, t>> \in TH!Alerts'
  <2>1. CASE \E ev \in sent : ev.type = "structuring" /\ ev.account = a /\ ev.at = t
    BY <1>1, <2>1 DEF TH!Alerts
  <2>2. CASE \E q \in thresholds.Observers \ {o} :
               /\ local[q].pc = "emit" /\ local[q].account = a
               /\ local[q].now = t /\ "structuring" \in local[q].types
    BY <1>1, <1>2, <2>2 DEF TH!Alerts
  <2>3. CASE local[o].account = a /\ local[o].now = t /\ "structuring" \in local[o].types
    <3>1. TH!Event("structuring", o) \in sent'
      BY <2>3 DEF TH!Emit
    <3> QED BY <2>3, <3>1 DEF TH!Alerts, TH!Event
  <2> QED BY <1>3, <2>1, <2>2, <2>3 DEF TH!Alerts
<1>4. \A q \in thresholds.Observers : TH!ObserverFits(local[q])'
  BY <1>1, <1>2 DEF TH!ThresholdsInv, TH!ObserverFits, TH!Idle
<1> QED BY <1>1, <1>2, <1>3, <1>4, AccountsStay DEF TH!ThresholdsInv

LEMMA AppendedOne ==
  ASSUME NEW S, NEW s \in Seq(S), NEW e \in S
  PROVE  /\ Len(s) \in Nat /\ DOMAIN s = 1..Len(s) /\ DOMAIN Append(s, e) = 1..(Len(s) + 1)
         /\ Append(s, e) \in Seq(S) /\ Append(s, e)[Len(s) + 1] = e
         /\ \A i \in 1..Len(s) : Append(s, e)[i] = s[i] /\ s[i] \in S
OBVIOUS

LEMMA EachIsOf ==
  ASSUME NEW S, NEW s \in Seq(S), NEW i \in DOMAIN s
  PROVE  s[i] \in S
OBVIOUS

\* What enters the window of an account with no excuse is the latest of it,
\* and the window is what the split rule is about.
LEMMA ObservationEnters ==
  ASSUME TH!Parameters, TH!ThresholdsInv, NEW o \in thresholds.Observers, TH!Enter(o)
  PROVE  TH!ThresholdsInv'
<1>1. PICK me, a, n, now : me = local[o] /\ a = me.account /\ n = Len(past) /\ now = me.now
  OBVIOUS
<1>2. PICK new, rec : /\ new = [nr |-> n + 1, at |-> now, amount |-> me.amount]
                      /\ rec = [account |-> a, at |-> now, amount |-> me.amount]
  OBVIOUS
<1>3. PICK kept : kept = TH!Pruned(now, store[a]) \cup {new}
  OBVIOUS
<1>4. PICK split : split <=> TH!Splits(kept) /\ ~TH!Deduplicated(a, now)
  OBVIOUS
<1>5. PICK next : /\ next.pc = "emit" /\ next.account = a /\ next.now = now
                  /\ local' = [local EXCEPT ![o] = next]
                  /\ split => "structuring" \in next.types
  <2> DEFINE next == [pc |-> "emit", account |-> a, now |-> now,
                      types |-> me.types \cup IF split THEN {"structuring"} ELSE {}]
  <2>1. local' = [local EXCEPT ![o] = next]
    BY <1>1, <1>2, <1>3, <1>4 DEF TH!Enter
  <2>2. next.pc = "emit" /\ next.account = a /\ next.now = now /\ (split => "structuring" \in next.types)
    OBVIOUS
  <2> HIDE DEF next
  <2> QED BY <2>1, <2>2
<1>6. /\ me.pc = "lock" /\ store' = [store EXCEPT ![a] = kept]
      /\ mirror' = IF split THEN [mirror EXCEPT ![a] = now] ELSE mirror
      /\ past' = Append(past, rec) /\ UNCHANGED <<sent, time>>
      /\ excepted' = IF \E i \in DOMAIN past : past[i].account = a /\ past[i].at > now
                       THEN excepted \cup {a} ELSE excepted
  BY <1>1, <1>2, <1>3, <1>4 DEF TH!Enter
<1>7. a \in thresholds.Accounts /\ now \in Nat /\ me.amount \in thresholds.Amounts
  BY <1>1, <1>6 DEF TH!ThresholdsInv, TH!ObserverFits
<1>8. rec \in [account : thresholds.Accounts, at : Nat, amount : thresholds.Amounts]
  BY <1>2, <1>7
<1>9. /\ n \in Nat /\ DOMAIN past = 1..n /\ DOMAIN past' = 1..(n + 1)
      /\ past'[n + 1] = rec /\ \A i \in 1..n : past'[i] = past[i]
      /\ past' \in Seq([account : thresholds.Accounts, at : Nat, amount : thresholds.Amounts])
      /\ \A i \in 1..n : past[i].at \in Nat
  <2>1. past \in Seq([account : thresholds.Accounts, at : Nat, amount : thresholds.Amounts])
    BY DEF TH!ThresholdsInv
  <2>2. /\ n \in Nat /\ DOMAIN past = 1..n /\ DOMAIN past' = 1..(n + 1)
        /\ past' \in Seq([account : thresholds.Accounts, at : Nat, amount : thresholds.Amounts])
        /\ past'[n + 1] = rec
        /\ \A i \in 1..n : past'[i] = past[i]
                          /\ past[i] \in [account : thresholds.Accounts, at : Nat, amount : thresholds.Amounts]
    <3>1. PICK S : S = [account : thresholds.Accounts, at : Nat, amount : thresholds.Amounts]
      OBVIOUS
    <3>2. past \in Seq(S) /\ rec \in S /\ past' = Append(past, rec) /\ n = Len(past)
      BY <1>1, <1>6, <1>8, <2>1, <3>1
    <3>3. /\ Len(past) \in Nat /\ DOMAIN past = 1..Len(past) /\ DOMAIN Append(past, rec) = 1..(Len(past) + 1)
          /\ Append(past, rec) \in Seq(S) /\ Append(past, rec)[Len(past) + 1] = rec
          /\ \A i \in 1..Len(past) : Append(past, rec)[i] = past[i] /\ past[i] \in S
      BY <3>2, AppendedOne
    <3> QED BY <3>1, <3>2, <3>3
  <2>3. \A i \in 1..n : past[i].at \in Nat
    BY <2>2
  <2> QED BY <2>2, <2>3
<1>10. /\ store = [b \in thresholds.Accounts |-> store[b]]
       /\ mirror = [b \in thresholds.Accounts |-> mirror[b]]
       /\ local = [q \in thresholds.Observers |-> local[q]]
       /\ \A b \in thresholds.Accounts : mirror[b] \in Nat \cup {TH!Never}
  BY DEF TH!ThresholdsInv
<1>11. (\A i \in 1..n : TH!Entries'[i] = TH!Entries[i]) /\ TH!Entries'[n + 1] = new
  BY <1>2, <1>9 DEF TH!Entries
<1>12. \A k \in 1..n : TH!Recent'[k] = TH!Recent[k]
  <2> TAKE k \in 1..n
  <2>1. \A j \in 1..k : j \in 1..n
    BY <1>9
  <2>2. {TH!Entries'[i] : i \in {j \in 1..k : past'[j].account = past'[k].account}}
          = {TH!Entries[i] : i \in {j \in 1..k : past[j].account = past[k].account}}
    BY <1>9, <1>11, <2>1
  <2>3. TH!Recent'[k] = {e \in {TH!Entries'[i] : i \in {j \in 1..k : past'[j].account = past'[k].account}} :
                           past'[k].at - e.at <= thresholds.structuringWindow}
    <3>1. k \in DOMAIN past'
      BY <1>9
    <3> QED BY <3>1 DEF TH!Recent, TH!Within
  <2>4. TH!Recent[k] = {e \in {TH!Entries[i] : i \in {j \in 1..k : past[j].account = past[k].account}} :
                          past[k].at - e.at <= thresholds.structuringWindow}
    <3>1. k \in DOMAIN past
      BY <1>9
    <3> QED BY <3>1 DEF TH!Recent, TH!Within
  <2>5. past'[k] = past[k]
    BY <1>9
  <2> QED BY <2>2, <2>3, <2>4, <2>5
<1>13. \A b, t : <<b, t>> \in TH!Alerts => <<b, t>> \in TH!Alerts'
  BY <1>1, <1>5, <1>6, <1>10 DEF TH!Alerts
<1>14. split => <<a, now>> \in TH!Alerts'
  BY <1>5, <1>10 DEF TH!Alerts
<1>15. ASSUME NEW b \in thresholds.Accounts \ excepted', b # a
       PROVE  TH!InOrder(b)' /\ TH!WindowFits(b)' /\ TH!AlertsFit(b)'
  <2>1. TH!InOrder(b) /\ TH!WindowFits(b) /\ TH!AlertsFit(b)
    BY <1>6, <1>15 DEF TH!ThresholdsInv
  <2>2. store'[b] = store[b] /\ mirror'[b] = mirror[b]
    BY <1>6, <1>10, <1>15
  <2>3. \A i \in 1..(n + 1) : past'[i].account = b => i \in 1..n /\ past[i].account = b
    BY <1>2, <1>9, <1>15
  <2>a. \A i \in 1..n : i \in 1..(n + 1)
    BY <1>9
  <2>4. TH!InOrder(b)'
    <3>1. ASSUME NEW i \in 1..(n + 1), NEW j \in 1..(n + 1), i < j,
                 past'[i].account = b, past'[j].account = b
          PROVE  past'[i].at <= past'[j].at
      BY <1>9, <2>1, <2>3, <3>1 DEF TH!InOrder
    <3> QED BY <1>9, <3>1 DEF TH!InOrder
  <2>5. TH!WindowFits(b)'
    <3>1. ASSUME NEW e \in store[b]
          PROVE  \E i \in 1..(n + 1) : past'[i].account = b /\ e = TH!Entries'[i]
      <4>1. PICK i \in 1..n : past[i].account = b /\ e = TH!Entries[i]
        BY <1>9, <2>1 DEF TH!WindowFits
      <4> QED BY <1>9, <1>11, <2>a, <4>1
    <3>2. ASSUME NEW i \in 1..(n + 1), past'[i].account = b, TH!Entries'[i] \notin store[b]
          PROVE  \E j \in 1..(n + 1) : past'[j].account = b
                                        /\ past'[j].at - past'[i].at > thresholds.structuringWindow
      <4>1. i \in 1..n /\ past[i].account = b /\ TH!Entries[i] \notin store[b]
        BY <1>11, <2>3, <3>2
      <4>2. PICK j \in 1..n : past[j].account = b /\ past[j].at - past[i].at > thresholds.structuringWindow
        BY <1>9, <2>1, <4>1 DEF TH!WindowFits
      <4> QED BY <1>9, <2>a, <4>1, <4>2
    <3> QED BY <1>9, <2>2, <3>1, <3>2 DEF TH!WindowFits
  <2>6. TH!AlertsFit(b)'
    <3>1. ASSUME mirror[b] # TH!Never
          PROVE  /\ \E i \in 1..(n + 1) : past'[i].account = b /\ past'[i].at = mirror[b]
                 /\ <<b, mirror[b]>> \in TH!Alerts'
      BY <1>9, <1>13, <2>1, <2>a, <3>1 DEF TH!AlertsFit
    <3>2. ASSUME NEW k \in 1..(n + 1), past'[k].account = b, TH!Splits(TH!Recent'[k])
          PROVE  \E i \in 1..(n + 1) : past'[k].at - past'[i].at \in 0 .. thresholds.structuringWindow
                                         /\ <<b, past'[i].at>> \in TH!Alerts'
      <4>1. k \in 1..n /\ past[k].account = b
        BY <2>3, <3>2
      <4>2. TH!Splits(TH!Recent[k])
        BY <1>12, <3>2, <4>1
      <4>3. PICK i \in 1..n : past[k].at - past[i].at \in 0 .. thresholds.structuringWindow
                              /\ <<b, past[i].at>> \in TH!Alerts
        BY <1>9, <2>1, <4>1, <4>2 DEF TH!AlertsFit
      <4> QED BY <1>9, <1>13, <2>a, <4>1, <4>3
    <3> QED BY <1>9, <2>2, <3>1, <3>2 DEF TH!AlertsFit
  <2> QED BY <2>4, <2>5, <2>6
<1>16. ASSUME a \notin excepted'
       PROVE  TH!InOrder(a)' /\ TH!WindowFits(a)' /\ TH!AlertsFit(a)'
  <2>1. a \notin excepted /\ \A i \in 1..n : past[i].account = a => past[i].at <= now
    BY <1>6, <1>7, <1>9, <1>16
  <2>2. TH!InOrder(a) /\ TH!WindowFits(a) /\ TH!AlertsFit(a)
    BY <1>7, <2>1 DEF TH!ThresholdsInv
  <2>a. \A i \in 1..n : i \in 1..(n + 1)
    BY <1>9
  <2>3. TH!InOrder(a)'
    <3>1. ASSUME NEW i \in 1..(n + 1), NEW j \in 1..(n + 1), i < j,
                 past'[i].account = a, past'[j].account = a
          PROVE  past'[i].at <= past'[j].at
      <4>1. i \in 1..n
        BY <1>9, <3>1
      <4>2. CASE j = n + 1
        BY <1>2, <1>9, <2>1, <3>1, <4>1, <4>2
      <4>3. CASE j \in 1..n
        BY <1>9, <2>2, <3>1, <4>1, <4>3 DEF TH!InOrder
      <4> QED BY <1>9, <4>2, <4>3
    <3> QED BY <1>9, <3>1 DEF TH!InOrder
  <2>4. store'[a] = kept /\ mirror'[a] = IF split THEN now ELSE mirror[a]
    BY <1>6, <1>7, <1>10
  <2>5. kept = {e \in store[a] : now - e.at <= thresholds.structuringWindow} \cup {new}
    BY <1>3 DEF TH!Pruned, TH!Within
  <2>6. \A i \in 1..n : TH!Entries[i].at = past[i].at
    BY <1>9 DEF TH!Entries
  <2>7. thresholds.structuringWindow \in Nat
    BY DEF TH!Parameters
  <2>8. ASSUME NEW i \in 1..n, past[i].account = a, now - past[i].at <= thresholds.structuringWindow
        PROVE  TH!Entries[i] \in kept
    <3>1. \A j \in 1..n : past[j].account = a =>
            ~(past[j].at - past[i].at > thresholds.structuringWindow)
      BY <1>7, <1>9, <2>1, <2>7, <2>8
    <3>2. TH!Entries[i] \in store[a]
      BY <1>9, <2>2, <2>8, <3>1 DEF TH!WindowFits
    <3> QED BY <2>5, <2>6, <2>8, <3>2
  <2>9. \A e \in kept : e = new \/ \E i \in 1..n : past[i].account = a /\ e = TH!Entries[i]
                                     /\ now - e.at <= thresholds.structuringWindow
    BY <1>9, <2>2, <2>5 DEF TH!WindowFits
  <2>10. TH!WindowFits(a)'
    <3>1. \A e \in kept : \E i \in 1..(n + 1) : past'[i].account = a /\ e = TH!Entries'[i]
      <4>1. ASSUME NEW e \in kept PROVE \E i \in 1..(n + 1) : past'[i].account = a /\ e = TH!Entries'[i]
        <5>1. CASE e = new
          <6>1. n + 1 \in 1..(n + 1) /\ past'[n + 1].account = a
            BY <1>2, <1>9
          <6> QED BY <1>11, <5>1, <6>1
        <5>2. CASE \E i \in 1..n : past[i].account = a /\ e = TH!Entries[i]
          BY <1>9, <1>11, <2>a, <5>2
        <5> QED BY <2>9, <5>1, <5>2
      <4> QED BY <4>1
    <3>2. ASSUME NEW i \in 1..n, past[i].account = a
          PROVE  TH!Entries[i] \in kept \/ now - past[i].at > thresholds.structuringWindow
      <4>1. now - past[i].at <= thresholds.structuringWindow \/ now - past[i].at > thresholds.structuringWindow
        BY <1>7, <1>9, <2>7
      <4> QED BY <2>8, <3>2, <4>1
    <3>3. new \in kept /\ past'[n + 1].account = a /\ past'[n + 1].at = now /\ n + 1 \in 1..(n + 1)
      BY <1>2, <1>9, <2>5
    <3>4. ASSUME NEW i \in 1..(n + 1), past'[i].account = a
          PROVE  \/ TH!Entries'[i] \in kept
                 \/ \E j \in 1..(n + 1) : past'[j].account = a
                                            /\ past'[j].at - past'[i].at > thresholds.structuringWindow
      <4>1. CASE i = n + 1
        BY <1>11, <3>3, <4>1
      <4>2. CASE i \in 1..n
        BY <1>9, <1>11, <3>2, <3>3, <3>4, <4>2
      <4> QED BY <1>9, <4>1, <4>2
    <3> QED BY <1>9, <2>4, <3>1, <3>4 DEF TH!WindowFits
  <2>11. kept = TH!Recent'[n + 1]
    <3>1. past'[n + 1].account = a /\ past'[n + 1].at = now
      BY <1>2, <1>9
    <3>2. PICK E : E = {TH!Entries'[i] : i \in {j \in 1..(n + 1) : past'[j].account = a}}
      OBVIOUS
    <3>3. TH!Recent'[n + 1] = {e \in E : now - e.at <= thresholds.structuringWindow}
      <4>1. n + 1 \in DOMAIN past'
        BY <1>9
      <4>2. TH!Recent'[n + 1] = {e \in {TH!Entries'[i] : i \in {j \in 1..(n + 1) : past'[j].account = past'[n + 1].account}} :
                                   past'[n + 1].at - e.at <= thresholds.structuringWindow}
        BY <4>1 DEF TH!Recent, TH!Within
      <4> QED BY <3>1, <3>2, <4>2
    <3>4. \A e \in kept : e \in E /\ now - e.at <= thresholds.structuringWindow
      <4>1. new \in E /\ now - new.at <= thresholds.structuringWindow
        BY <1>2, <1>7, <1>9, <1>11, <2>7, <3>1, <3>2
      <4>2. \A i \in 1..n : past[i].account = a => TH!Entries[i] \in E
        BY <1>9, <1>11, <3>2
      <4> QED BY <2>9, <4>1, <4>2
    <3>5. ASSUME NEW e \in E, now - e.at <= thresholds.structuringWindow PROVE e \in kept
      <4>1. PICK i \in 1..(n + 1) : past'[i].account = a /\ e = TH!Entries'[i]
        BY <3>2
      <4>2. CASE i = n + 1
        BY <1>11, <2>5, <4>1, <4>2
      <4>3. CASE i \in 1..n
        BY <1>9, <1>11, <2>6, <2>8, <3>5, <4>1, <4>3
      <4> QED BY <1>9, <4>2, <4>3
    <3> QED BY <3>3, <3>4, <3>5
  <2>12. TH!AlertsFit(a)'
    <3>1. past'[n + 1].account = a /\ past'[n + 1].at = now /\ n + 1 \in 1..(n + 1)
      BY <1>2, <1>9
    <3>2. mirror'[a] # TH!Never =>
            (\E i \in 1..(n + 1) : past'[i].account = a /\ past'[i].at = mirror'[a]) /\ <<a, mirror'[a]>> \in TH!Alerts'
      <4>1. CASE split
        BY <1>14, <2>4, <3>1, <4>1
      <4>2. CASE ~split
        <5>1. mirror'[a] = mirror[a]
          BY <2>4, <4>2
        <5>2. ASSUME mirror[a] # TH!Never
              PROVE  (\E i \in 1..n : past[i].account = a /\ past[i].at = mirror[a]) /\ <<a, mirror[a]>> \in TH!Alerts
          BY <1>9, <2>2, <5>2 DEF TH!AlertsFit
        <5> QED BY <1>9, <1>13, <2>a, <5>1, <5>2
      <4> QED BY <4>1, <4>2
    <3>3. ASSUME NEW k \in 1..n, past[k].account = a, TH!Splits(TH!Recent[k])
          PROVE  \E i \in 1..(n + 1) : past'[k].at - past'[i].at \in 0 .. thresholds.structuringWindow
                                         /\ <<a, past'[i].at>> \in TH!Alerts'
      <4>1. PICK i \in 1..n : past[k].at - past[i].at \in 0 .. thresholds.structuringWindow
                              /\ <<a, past[i].at>> \in TH!Alerts
        BY <1>9, <2>2, <3>3 DEF TH!AlertsFit
      <4> QED BY <1>9, <1>13, <2>a, <4>1
    <3>4. ASSUME TH!Splits(kept)
          PROVE  \E i \in 1..(n + 1) : now - past'[i].at \in 0 .. thresholds.structuringWindow
                                         /\ <<a, past'[i].at>> \in TH!Alerts'
      <4>1. CASE split
        BY <1>7, <1>14, <2>7, <3>1, <4>1
      <4>2. CASE ~split
        <5>1. mirror[a] # TH!Never /\ now - mirror[a] <= thresholds.structuringWindow
          BY <1>4, <3>4, <4>2 DEF TH!Deduplicated
        <5>2. PICK i \in 1..n : past[i].account = a /\ past[i].at = mirror[a] /\ <<a, mirror[a]>> \in TH!Alerts
          BY <1>9, <2>2, <5>1 DEF TH!AlertsFit
        <5>3. now - past[i].at \in 0 .. thresholds.structuringWindow
          <6>1. past[i].at \in Nat /\ past[i].at <= now /\ now - past[i].at <= thresholds.structuringWindow
            BY <1>9, <2>1, <5>1, <5>2
          <6> QED BY <1>7, <2>7, <6>1
        <5>4. past'[i].at = past[i].at /\ <<a, past[i].at>> \in TH!Alerts' /\ i \in 1..(n + 1)
          BY <1>9, <1>13, <2>a, <5>2
        <5> QED BY <5>3, <5>4
      <4> QED BY <4>1, <4>2
    <3>5. TH!Splits(TH!Recent'[n + 1]) => TH!Splits(kept)
      BY <2>11 DEF TH!Splits, TH!Total
    <3>6. \A k \in 1..n : TH!Splits(TH!Recent'[k]) => TH!Splits(TH!Recent[k])
      BY <1>12 DEF TH!Splits, TH!Total
    <3>7. ASSUME NEW k \in 1..(n + 1), past'[k].account = a, TH!Splits(TH!Recent'[k])
          PROVE  \E i \in 1..(n + 1) : past'[k].at - past'[i].at \in 0 .. thresholds.structuringWindow
                                         /\ <<a, past'[i].at>> \in TH!Alerts'
      <4>1. CASE k = n + 1
        BY <3>1, <3>4, <3>5, <3>7, <4>1
      <4>2. CASE k \in 1..n
        <5>1. past[k].account = a /\ TH!Splits(TH!Recent[k])
          BY <1>9, <3>6, <3>7, <4>2
        <5>2. past'[k] = past[k]
          BY <1>9, <4>2
        <5> QED BY <3>3, <4>2, <5>1, <5>2
      <4>3. k = n + 1 \/ k \in 1..n
        BY <1>9
      <4> QED BY <4>1, <4>2, <4>3
    <3> QED BY <1>9, <3>2, <3>7 DEF TH!AlertsFit
  <2> QED BY <2>3, <2>10, <2>12
<1>17. \A q \in thresholds.Observers : TH!ObserverFits(local[q])'
  BY <1>5, <1>7, <1>10 DEF TH!ThresholdsInv, TH!ObserverFits
<1>18. /\ (time \in Nat)' /\ (store = [b \in thresholds.Accounts |-> store[b]])'
       /\ (mirror = [b \in thresholds.Accounts |-> mirror[b]])'
       /\ (local = [q \in thresholds.Observers |-> local[q]])'
       /\ (\A b \in thresholds.Accounts : mirror[b] \in Nat \cup {TH!Never})'
  BY <1>5, <1>6, <1>7, <1>10 DEF TH!ThresholdsInv
<1> QED BY <1>9, <1>15, <1>16, <1>17, <1>18 DEF TH!ThresholdsInv

LEMMA ThresholdsStep ==
  ASSUME TH!Parameters, TH!ThresholdsInv, [TH!Next]_TH!vars
  PROVE  TH!ThresholdsInv'
<1>1. CASE TH!Tick
  <2>1. UNCHANGED <<store, mirror, local, sent, past, excepted>> /\ time' = time + 1
    BY <1>1 DEF TH!Tick
  <2>2. \A a, t : <<a, t>> \in TH!Alerts => <<a, t>> \in TH!Alerts'
    BY <2>1 DEF TH!Alerts
  <2>3. time' \in Nat
    <3>1. time \in Nat
      BY DEF TH!ThresholdsInv
    <3> QED BY <2>1, <3>1
  <2>4. \A q \in thresholds.Observers : TH!ObserverFits(local[q])'
    BY <2>1 DEF TH!ThresholdsInv, TH!ObserverFits
  <2> QED BY <2>1, <2>2, <2>3, <2>4, AccountsStay DEF TH!ThresholdsInv
<1>2. CASE TH!Restart
  <2>1. /\ store' = [a \in thresholds.Accounts |-> {}]
        /\ mirror' = [a \in thresholds.Accounts |-> TH!Never]
        /\ local' = [o \in thresholds.Observers |-> TH!Idle]
        /\ past' = <<>> /\ time' = time
    BY <1>2 DEF TH!Restart
  <2> QED BY <2>1 DEF TH!ThresholdsInv, TH!ObserverFits, TH!Idle, TH!InOrder, TH!WindowFits, TH!AlertsFit
<1>3. CASE UNCHANGED TH!vars
  <2>1. UNCHANGED <<store, mirror, local, sent, past, excepted, time>>
    BY <1>3 DEF TH!vars
  <2>2. \A a, t : <<a, t>> \in TH!Alerts => <<a, t>> \in TH!Alerts'
    BY <2>1 DEF TH!Alerts
  <2> QED BY <2>1, <2>2, AccountsStay DEF TH!ThresholdsInv, TH!ObserverFits
<1> QED BY <1>1, <1>2, <1>3, ObservationBegins, ObservationEnters, EventsEmitted DEF TH!Next

LEMMA SplitsTold ==
  ASSUME TH!ThresholdsInv
  PROVE  TH!SplitIsFlagged
<1> SUFFICES ASSUME NEW k \in DOMAIN past, TH!Splits(TH!Recent[k]), past[k].account \notin excepted,
                    \A o \in thresholds.Observers : local[o].pc # "emit"
             PROVE  \E ev \in sent : /\ ev.type = "structuring" /\ ev.account = past[k].account
                                     /\ past[k].at - ev.at \in 0 .. thresholds.structuringWindow
  BY DEF TH!SplitIsFlagged
<1>1. past[k].account \in thresholds.Accounts
  <2>1. past \in Seq([account : thresholds.Accounts, at : Nat, amount : thresholds.Amounts])
    BY DEF TH!ThresholdsInv
  <2>2. past[k] \in [account : thresholds.Accounts, at : Nat, amount : thresholds.Amounts]
    BY <2>1, EachIsOf
  <2> QED BY <2>2
<1>2. TH!AlertsFit(past[k].account)
  BY <1>1 DEF TH!ThresholdsInv
<1>3. PICK i \in DOMAIN past : /\ past[k].at - past[i].at \in 0 .. thresholds.structuringWindow
                               /\ <<past[k].account, past[i].at>> \in TH!Alerts
  BY <1>2 DEF TH!AlertsFit
<1> QED BY <1>3 DEF TH!Alerts

-----------------------------------------------------------------------------
(* Matching: the edit distance.                                            *)

LEMMA PairsCounted == \A S : MA!Cardinality(S) = Cardinality(S)
BY DEF MA!Cardinality, Cardinality

\* The pairs of different letters.
Differing(a, b, m) == {p \in m : a[p[1]] # b[p[2]]}

LEMMA PairingsFinite ==
  ASSUME NEW i \in Nat, NEW j \in Nat, NEW m \in MA!Pairings(i, j), NEW a, NEW b
  PROVE  /\ IsFiniteSet(m) /\ Cardinality(m) \in Nat
         /\ IsFiniteSet(Differing(a, b, m)) /\ Cardinality(Differing(a, b, m)) \in Nat
         /\ MA!Cost(a, b, i, j, m) = i + j - 2 * Cardinality(m) + Cardinality(Differing(a, b, m))
         /\ MA!Cost(a, b, i, j, m) \in Int
<1>1. IsFiniteSet((1..i) \X (1..j))
  <2>1. IsFiniteSet(1..i) /\ IsFiniteSet(1..j)
    BY FS_Interval
  <2> QED BY <2>1, FS_Product
<1>2. m \subseteq (1..i) \X (1..j)
  BY DEF MA!Pairings
<1>3. IsFiniteSet(m)
  BY <1>1, <1>2, FS_Subset
<1>4. IsFiniteSet(Differing(a, b, m))
  BY <1>3, FS_Subset DEF Differing
<1>5. Cardinality(m) \in Nat /\ Cardinality(Differing(a, b, m)) \in Nat
  BY <1>3, <1>4, FS_CardinalityType
<1>6. MA!Cost(a, b, i, j, m) = i + j - 2 * Cardinality(m) + Cardinality(Differing(a, b, m))
  BY PairsCounted, Zenon DEF MA!Cost, Differing
<1>7. i + j - 2 * Cardinality(m) + Cardinality(Differing(a, b, m)) \in Int
  BY <1>5
<1> QED BY <1>3, <1>4, <1>5, <1>6, <1>7

\* c is the least cost of pairing i letters of a with j letters of b.
IsDistance(a, b, i, j, c) ==
  /\ \E m \in MA!Pairings(i, j) : c = MA!Cost(a, b, i, j, m)
  /\ \A m \in MA!Pairings(i, j) : c <= MA!Cost(a, b, i, j, m)

\* One distance at most, and it is the one that Distance chooses.
LEMMA DistanceIs ==
  ASSUME NEW a, NEW b, NEW i \in Nat, NEW j \in Nat, NEW c, IsDistance(a, b, i, j, c)
  PROVE  c \in Int /\ MA!PrefixDistance(a, b, i, j) = c
<1> DEFINE costs == {MA!Cost(a, b, i, j, m) : m \in MA!Pairings(i, j)}
<1>1. costs \subseteq Int
  <2>1. \A m \in MA!Pairings(i, j) : MA!Cost(a, b, i, j, m) \in Int
    BY PairingsFinite
  <2> QED BY <2>1
<1>2. c \in costs /\ \A d \in costs : c <= d
  BY DEF IsDistance
<1>3. MA!PrefixDistance(a, b, i, j) = CHOOSE x \in costs : \A d \in costs : x <= d
  BY Zenon DEF MA!PrefixDistance
<1> HIDE DEF costs
<1>4. PICK x : x = MA!PrefixDistance(a, b, i, j)
  OBVIOUS
<1>5. x \in costs /\ \A d \in costs : x <= d
  BY <1>2, <1>3, <1>4, Zenon
<1>6. x <= c /\ c <= x
  BY <1>2, <1>5
<1>7. x \in Int /\ c \in Int
  BY <1>1, <1>2, <1>5
<1> QED BY <1>4, <1>6, <1>7

\* Against no letters at all every letter is without partner.
LEMMA DistanceAtBorder ==
  ASSUME NEW a, NEW b, NEW i \in Nat, NEW j \in Nat, i = 0 \/ j = 0
  PROVE  IsDistance(a, b, i, j, i + j)
<1>1. (1..i) \X (1..j) = {}
  OBVIOUS
<1>2. MA!Pairings(i, j) = {{}}
  BY <1>1 DEF MA!Pairings
<1>3. Differing(a, b, {}) = {}
  BY DEF Differing
<1>4. MA!Cost(a, b, i, j, {}) = i + j - 2 * 0 + 0
  BY <1>2, <1>3, PairingsFinite, FS_EmptySet
<1> QED BY <1>2, <1>4 DEF IsDistance

\* A pairing of shorter prefixes pairs longer ones.
LEMMA PairingGrows ==
  ASSUME NEW i \in Nat, NEW j \in Nat, NEW i1 \in Nat, NEW j1 \in Nat, i <= i1, j <= j1,
         NEW m \in MA!Pairings(i, j)
  PROVE  m \in MA!Pairings(i1, j1)
BY DEF MA!Pairings

\* A pairing that joins the last letters is one of the letters before, and
\* that pair.
LEMMA PairingSplits ==
  ASSUME NEW a, NEW b, NEW i \in Nat \ {0}, NEW j \in Nat \ {0},
         NEW m \in MA!Pairings(i - 1, j - 1)
  PROVE  /\ m \cup {<<i, j>>} \in MA!Pairings(i, j)
         /\ MA!Cost(a, b, i, j, m \cup {<<i, j>>}) =
              MA!Cost(a, b, i - 1, j - 1, m) + IF a[i] = b[j] THEN 0 ELSE 1
<1> DEFINE l == m \cup {<<i, j>>}
           Differ(s) == Differing(a, b, s)
<1>1. m \subseteq (1..(i - 1)) \X (1..(j - 1)) /\ i - 1 \in Nat /\ j - 1 \in Nat
  BY DEF MA!Pairings
<1>2. \A p \in m : p[1] \in Nat /\ p[2] \in Nat /\ p[1] < i /\ p[2] < j
  BY <1>1
<1>3. l \subseteq (1..i) \X (1..j)
  BY <1>1
<1>4. l \in MA!Pairings(i, j)
  BY <1>2, <1>3 DEF MA!Pairings
<1>5. <<i, j>> \notin m
  BY <1>2
<1>6. /\ IsFiniteSet(m) /\ IsFiniteSet(Differ(m)) /\ Cardinality(m) \in Nat /\ Cardinality(Differ(m)) \in Nat
      /\ MA!Cost(a, b, i - 1, j - 1, m) = (i - 1) + (j - 1) - 2 * Cardinality(m) + Cardinality(Differ(m))
      /\ MA!Cost(a, b, i, j, l) = i + j - 2 * Cardinality(l) + Cardinality(Differ(l))
  <2>1. m \in MA!Pairings(i - 1, j - 1)
    OBVIOUS
  <2> HIDE DEF l
  <2>2. /\ IsFiniteSet(m) /\ IsFiniteSet(Differ(m)) /\ Cardinality(m) \in Nat /\ Cardinality(Differ(m)) \in Nat
        /\ MA!Cost(a, b, i - 1, j - 1, m) = (i - 1) + (j - 1) - 2 * Cardinality(m) + Cardinality(Differ(m))
    BY <1>1, <2>1, PairingsFinite
  <2>3. MA!Cost(a, b, i, j, l) = i + j - 2 * Cardinality(l) + Cardinality(Differ(l))
    BY <1>4, PairingsFinite
  <2> QED BY <2>2, <2>3
<1>7. Cardinality(l) = Cardinality(m) + 1
  BY <1>5, <1>6, FS_AddElement
<1>8. Cardinality(Differ(l)) = Cardinality(Differ(m)) + IF a[i] = b[j] THEN 0 ELSE 1
  <2>1. CASE a[i] = b[j]
    <3>1. Differ(l) = Differ(m)
      BY <2>1 DEF Differing
    <3> QED BY <1>6, <2>1, <3>1
  <2>2. CASE a[i] # b[j]
    <3>1. Differ(l) = Differ(m) \cup {<<i, j>>} /\ <<i, j>> \notin Differ(m)
      BY <1>5, <2>2 DEF Differing
    <3> QED BY <1>6, <2>2, <3>1, FS_AddElement
  <2> QED BY <2>1, <2>2
<1> HIDE DEF l
<1>9. MA!Cost(a, b, i, j, l) = MA!Cost(a, b, i - 1, j - 1, m) + IF a[i] = b[j] THEN 0 ELSE 1
  BY <1>6, <1>7, <1>8
<1> QED BY <1>4, <1>9 DEF l

\* Any other one leaves one of the last letters without partner.
LEMMA PairingEnds ==
  ASSUME NEW i \in Nat \ {0}, NEW j \in Nat \ {0}, NEW m \in MA!Pairings(i, j)
  PROVE  \/ m \in MA!Pairings(i - 1, j)
         \/ m \in MA!Pairings(i, j - 1)
         \/ \E l \in MA!Pairings(i - 1, j - 1) : m = l \cup {<<i, j>>}
<1>1. /\ m \subseteq (1..i) \X (1..j)
      /\ \A p, q \in m : p = q \/ (p[1] < q[1] /\ p[2] < q[2]) \/ (q[1] < p[1] /\ q[2] < p[2])
  BY DEF MA!Pairings
<1>2. \A p \in m : p = <<p[1], p[2]>> /\ p[1] \in 1..i /\ p[2] \in 1..j
  BY <1>1
<1>3. CASE \A p \in m : p[1] # i
  <2>1. \A p \in m : p \in (1..(i - 1)) \X (1..j)
    BY <1>2, <1>3
  <2> QED BY <1>1, <2>1 DEF MA!Pairings
<1>4. CASE \A p \in m : p[2] # j
  <2>1. \A p \in m : p \in (1..i) \X (1..(j - 1))
    BY <1>2, <1>4
  <2> QED BY <1>1, <2>1 DEF MA!Pairings
<1>5. CASE (\E p \in m : p[1] = i) /\ (\E q \in m : q[2] = j)
  <2>1. PICK p \in m, q \in m : p[1] = i /\ q[2] = j
    BY <1>5
  <2>2. p = q
    BY <1>1, <1>2, <2>1
  <2>3. p = <<i, j>> /\ <<i, j>> \in m
    BY <1>2, <2>1, <2>2
  <2> DEFINE l == m \ {<<i, j>>}
  <2>4. \A r \in l : r[1] < i /\ r[2] < j
    <3>1. ASSUME NEW r \in l PROVE r[1] < i /\ r[2] < j
      <4>1. r \in m /\ r # p
        BY <2>3
      <4>2. (r[1] < i /\ r[2] < j) \/ (i < r[1] /\ j < r[2])
        BY <1>1, <2>1, <2>2, <4>1
      <4> QED BY <1>2, <4>1, <4>2
    <3> QED BY <3>1
  <2>5. \A r \in l : r \in (1..(i - 1)) \X (1..(j - 1))
    BY <1>2, <2>4
  <2>6. l \in MA!Pairings(i - 1, j - 1)
    BY <1>1, <2>5 DEF MA!Pairings
  <2> QED BY <2>3, <2>6
<1> QED BY <1>3, <1>4, <1>5

\* The recurrence of levenshtein.
LEMMA DistanceGrows ==
  ASSUME NEW a, NEW b, NEW i \in Nat \ {0}, NEW j \in Nat \ {0}, NEW above, NEW before, NEW both,
         IsDistance(a, b, i - 1, j, above), IsDistance(a, b, i, j - 1, before),
         IsDistance(a, b, i - 1, j - 1, both)
  PROVE  IsDistance(a, b, i, j, MA!min3(above + 1, before + 1, both + IF a[i] = b[j] THEN 0 ELSE 1))
<1>1. PICK d : d = IF a[i] = b[j] THEN 0 ELSE 1
  OBVIOUS
<1>2. PICK c : c = MA!min3(above + 1, before + 1, both + d)
  OBVIOUS
<1>3. above \in Int /\ before \in Int /\ both \in Int /\ d \in {0, 1} /\ i - 1 \in Nat /\ j - 1 \in Nat
  BY <1>1, DistanceIs
<1>4. /\ c \in {above + 1, before + 1, both + d}
      /\ c <= above + 1 /\ c <= before + 1 /\ c <= both + d
  BY <1>2, <1>3 DEF MA!min3, MA!Lesser
<1>5. ASSUME NEW m \in MA!Pairings(i - 1, j)
      PROVE  m \in MA!Pairings(i, j) /\ MA!Cost(a, b, i, j, m) = MA!Cost(a, b, i - 1, j, m) + 1
  <2>1. m \in MA!Pairings(i, j)
    BY <1>3, <1>5, PairingGrows
  <2>2. MA!Cost(a, b, i, j, m) = i + j - 2 * Cardinality(m) + Cardinality(Differing(a, b, m))
        /\ Cardinality(m) \in Nat /\ Cardinality(Differing(a, b, m)) \in Nat
    BY <2>1, PairingsFinite
  <2>3. MA!Cost(a, b, i - 1, j, m) = (i - 1) + j - 2 * Cardinality(m) + Cardinality(Differing(a, b, m))
    BY <1>3, <1>5, PairingsFinite
  <2> QED BY <2>1, <2>2, <2>3
<1>6. ASSUME NEW m \in MA!Pairings(i, j - 1)
      PROVE  m \in MA!Pairings(i, j) /\ MA!Cost(a, b, i, j, m) = MA!Cost(a, b, i, j - 1, m) + 1
  <2>1. m \in MA!Pairings(i, j)
    BY <1>3, <1>6, PairingGrows
  <2>2. MA!Cost(a, b, i, j, m) = i + j - 2 * Cardinality(m) + Cardinality(Differing(a, b, m))
        /\ Cardinality(m) \in Nat /\ Cardinality(Differing(a, b, m)) \in Nat
    BY <2>1, PairingsFinite
  <2>3. MA!Cost(a, b, i, j - 1, m) = i + (j - 1) - 2 * Cardinality(m) + Cardinality(Differing(a, b, m))
    BY <1>3, <1>6, PairingsFinite
  <2> QED BY <2>1, <2>2, <2>3
<1>7. ASSUME NEW m \in MA!Pairings(i - 1, j - 1)
      PROVE  /\ m \cup {<<i, j>>} \in MA!Pairings(i, j)
             /\ MA!Cost(a, b, i, j, m \cup {<<i, j>>}) = MA!Cost(a, b, i - 1, j - 1, m) + d
  <2>1. m \in MA!Pairings(i - 1, j - 1)
    BY <1>7
  <2>2. /\ m \cup {<<i, j>>} \in MA!Pairings(i, j)
        /\ MA!Cost(a, b, i, j, m \cup {<<i, j>>}) =
             MA!Cost(a, b, i - 1, j - 1, m) + IF a[i] = b[j] THEN 0 ELSE 1
    BY <2>1, PairingSplits
  <2> QED BY <1>1, <2>2
<1>8. \E m \in MA!Pairings(i, j) : c = MA!Cost(a, b, i, j, m)
  <2>1. CASE c = above + 1
    BY <1>5, <2>1 DEF IsDistance
  <2>2. CASE c = before + 1
    BY <1>6, <2>2 DEF IsDistance
  <2>3. CASE c = both + d
    <3>1. PICK m \in MA!Pairings(i - 1, j - 1) : both = MA!Cost(a, b, i - 1, j - 1, m)
      BY DEF IsDistance
    <3> QED BY <1>7, <2>3, <3>1
  <2> QED BY <1>4, <2>1, <2>2, <2>3
<1>9. ASSUME NEW m \in MA!Pairings(i, j)
      PROVE  c <= MA!Cost(a, b, i, j, m)
  <2>1. CASE m \in MA!Pairings(i - 1, j)
    <3>1. above <= MA!Cost(a, b, i - 1, j, m) /\ MA!Cost(a, b, i - 1, j, m) \in Int
      BY <1>3, <2>1, PairingsFinite DEF IsDistance
    <3> QED BY <1>3, <1>4, <1>5, <2>1, <3>1
  <2>2. CASE m \in MA!Pairings(i, j - 1)
    <3>1. before <= MA!Cost(a, b, i, j - 1, m) /\ MA!Cost(a, b, i, j - 1, m) \in Int
      BY <1>3, <2>2, PairingsFinite DEF IsDistance
    <3> QED BY <1>3, <1>4, <1>6, <2>2, <3>1
  <2>3. CASE \E l \in MA!Pairings(i - 1, j - 1) : m = l \cup {<<i, j>>}
    <3>1. PICK l \in MA!Pairings(i - 1, j - 1) : m = l \cup {<<i, j>>}
      BY <2>3
    <3>2. both <= MA!Cost(a, b, i - 1, j - 1, l) /\ MA!Cost(a, b, i - 1, j - 1, l) \in Int
      BY <1>3, PairingsFinite DEF IsDistance
    <3> QED BY <1>3, <1>4, <1>7, <3>1, <3>2
  <2> QED BY <2>1, <2>2, <2>3, PairingEnds
<1> QED BY <1>1, <1>2, <1>8, <1>9 DEF IsDistance

LEMMA DistanceExists ==
  ASSUME NEW a, NEW b, NEW i \in Nat, NEW j \in Nat
  PROVE  IsDistance(a, b, i, j, MA!PrefixDistance(a, b, i, j))
<1> DEFINE Found(k, l) == \E c : IsDistance(a, b, k, l, c)
           Bad == {n \in Nat : \E k, l \in Nat : k + l = n /\ ~Found(k, l)}
<1>1. Bad = {}
  <2>1. SUFFICES ASSUME Bad # {} PROVE FALSE
    OBVIOUS
  <2>2. PICK n \in Bad : \A m \in Bad : n <= m
    <3>1. Bad \subseteq Nat
      OBVIOUS
    <3> HIDE DEF Bad
    <3> QED BY <2>1, <3>1, LeastPosition
  <2>3. PICK k \in Nat, l \in Nat : k + l = n /\ ~Found(k, l)
    OBVIOUS
  <2>4. k # 0 /\ l # 0
    BY <2>3, DistanceAtBorder
  <2>5. \A k1, l1 \in Nat : k1 + l1 < n => Found(k1, l1)
    <3>1. ASSUME NEW k1 \in Nat, NEW l1 \in Nat, k1 + l1 < n, ~Found(k1, l1) PROVE FALSE
      <4>1. k1 + l1 \in Bad
        BY <3>1
      <4> HIDE DEF Bad, Found
      <4> QED BY <2>2, <2>3, <3>1, <4>1
    <3> QED BY <3>1
  <2>6. Found(k - 1, l) /\ Found(k, l - 1) /\ Found(k - 1, l - 1)
    <3> HIDE DEF Found
    <3>1. /\ k - 1 \in Nat /\ l - 1 \in Nat
          /\ (k - 1) + l < n /\ k + (l - 1) < n /\ (k - 1) + (l - 1) < n
      BY <2>3, <2>4
    <3> QED BY <2>5, <3>1
  <2>7. PICK c, d, e : /\ IsDistance(a, b, k - 1, l, c) /\ IsDistance(a, b, k, l - 1, d)
                       /\ IsDistance(a, b, k - 1, l - 1, e)
    BY <2>6
  <2>8. k \in Nat \ {0} /\ l \in Nat \ {0}
    BY <2>4
  <2>9. \E x : IsDistance(a, b, k, l, x)
    BY <2>7, <2>8, DistanceGrows
  <2> QED BY <2>3, <2>9
<1>2. PICK c : IsDistance(a, b, i, j, c)
  <2>1. i + j \in Nat /\ i + j \notin Bad
    <3> HIDE DEF Bad
    <3> QED BY <1>1
  <2>2. Found(i, j)
    <3> HIDE DEF Found
    <3> QED BY <2>1
  <2> QED BY <2>2
<1> QED BY <1>2, DistanceIs

-----------------------------------------------------------------------------
(* The rows of the table.                                                  *)

Row(a, b, i) == [j \in 0..Len(b) |-> MA!PrefixDistance(a, b, i, j)]
Fills(f, a, b, i, last) ==
  f = [j \in 0..Len(b) |->
         IF j = 0 THEN MA!FirstCell(i)
         ELSE MA!min3(last[j] + 1, f[j - 1] + 1, last[j - 1] + IF a[i] = b[j] THEN 0 ELSE 1)]

LEMMA NextRowUnfolds ==
  ASSUME NEW a, NEW b, NEW i, NEW last
  PROVE  MA!NextRow(a, b, i, last) = [j \in 0..Len(b) |-> (CHOOSE f : Fills(f, a, b, i, last))[j]]
BY Zenon DEF MA!NextRow, Fills

LEMMA CellRight ==
  ASSUME NEW a, NEW b, NEW i \in Nat \ {0}, NEW j \in Nat \ {0},
         NEW c, c = MA!min3(MA!PrefixDistance(a, b, i - 1, j) + 1, MA!PrefixDistance(a, b, i, j - 1) + 1,
                            MA!PrefixDistance(a, b, i - 1, j - 1) + IF a[i] = b[j] THEN 0 ELSE 1)
  PROVE  MA!PrefixDistance(a, b, i, j) = c
<1>1. /\ IsDistance(a, b, i - 1, j, MA!PrefixDistance(a, b, i - 1, j))
      /\ IsDistance(a, b, i, j - 1, MA!PrefixDistance(a, b, i, j - 1))
      /\ IsDistance(a, b, i - 1, j - 1, MA!PrefixDistance(a, b, i - 1, j - 1))
  <2>1. i - 1 \in Nat /\ j - 1 \in Nat
    OBVIOUS
  <2> QED BY <2>1, DistanceExists
<1>2. IsDistance(a, b, i, j, c)
  BY <1>1, DistanceGrows
<1> QED BY <1>2, DistanceIs

LEMMA FirstRowRight ==
  ASSUME NEW a, NEW b, Len(b) \in Nat
  PROVE  MA!FirstRow(b) = Row(a, b, 0)
<1>1. \A j \in Nat : MA!PrefixDistance(a, b, 0, j) = 0 + j
  BY DistanceAtBorder, DistanceIs
<1> QED BY <1>1 DEF MA!FirstRow, Row

LEMMA NextRowRight ==
  ASSUME NEW a, NEW b, Len(b) \in Nat, NEW i \in Nat \ {0}
  PROVE  MA!NextRow(a, b, i, Row(a, b, i - 1)) = Row(a, b, i)
<1> DEFINE n == Len(b)
           F(f) == Fills(f, a, b, i, Row(a, b, i - 1))
<1>1. MA!PrefixDistance(a, b, i, 0) = i
  <2>1. IsDistance(a, b, i, 0, i + 0)
    BY DistanceAtBorder
  <2>2. MA!PrefixDistance(a, b, i, 0) = i + 0
    BY <2>1, DistanceIs
  <2> QED BY <2>2
<1>2. \A j \in 0..n : j # 0 => j \in Nat \ {0} /\ j - 1 \in 0..n
  OBVIOUS
<1>3. F(Row(a, b, i))
  <2>1. \A j \in 0..n :
          MA!PrefixDistance(a, b, i, j) =
            IF j = 0 THEN MA!FirstCell(i)
            ELSE MA!min3(Row(a, b, i - 1)[j] + 1, Row(a, b, i)[j - 1] + 1,
                         Row(a, b, i - 1)[j - 1] + IF a[i] = b[j] THEN 0 ELSE 1)
    <3>1. ASSUME NEW j \in 0..n, j # 0
          PROVE  /\ Row(a, b, i - 1)[j] = MA!PrefixDistance(a, b, i - 1, j)
                 /\ Row(a, b, i)[j - 1] = MA!PrefixDistance(a, b, i, j - 1)
                 /\ Row(a, b, i - 1)[j - 1] = MA!PrefixDistance(a, b, i - 1, j - 1)
      BY <1>2, <3>1 DEF Row
    <3>2. ASSUME NEW j \in 0..n, j # 0
          PROVE  MA!PrefixDistance(a, b, i, j) =
                   MA!min3(Row(a, b, i - 1)[j] + 1, Row(a, b, i)[j - 1] + 1,
                           Row(a, b, i - 1)[j - 1] + IF a[i] = b[j] THEN 0 ELSE 1)
      <4>1. j \in Nat \ {0}
        BY <1>2, <3>2
      <4>2. PICK c : c = MA!min3(MA!PrefixDistance(a, b, i - 1, j) + 1, MA!PrefixDistance(a, b, i, j - 1) + 1,
                                 MA!PrefixDistance(a, b, i - 1, j - 1) + IF a[i] = b[j] THEN 0 ELSE 1)
        OBVIOUS
      <4>3. MA!PrefixDistance(a, b, i, j) = c
        BY <4>1, <4>2, CellRight
      <4> QED BY <3>1, <3>2, <4>2, <4>3
    <3> QED BY <1>1, <3>2 DEF MA!FirstCell
  <2>2. PICK r : r = Row(a, b, i)
    OBVIOUS
  <2>3. r = [j \in 0..n |-> MA!PrefixDistance(a, b, i, j)]
    BY <2>2 DEF Row
  <2> QED BY <2>1, <2>2, <2>3 DEF Fills
<1>4. ASSUME NEW f, F(f), NEW k \in 0..n, f[k] # MA!PrefixDistance(a, b, i, k)
      PROVE  FALSE
  <2> DEFINE Wrong == {j \in 0..n : f[j] # MA!PrefixDistance(a, b, i, j)}
  <2>1. Wrong \subseteq Nat /\ Wrong # {}
    BY <1>4
  <2>2. PICK j \in Wrong : \A l \in Wrong : j <= l
    <3> HIDE DEF Wrong
    <3> QED BY <2>1, LeastPosition
  <2>3. j \in 0..n /\ f[j] # MA!PrefixDistance(a, b, i, j)
    OBVIOUS
  <2>4. \A g : Fills(g, a, b, i, Row(a, b, i - 1)) =>
          g[j] = IF j = 0 THEN MA!FirstCell(i)
                 ELSE MA!min3(Row(a, b, i - 1)[j] + 1, g[j - 1] + 1,
                              Row(a, b, i - 1)[j - 1] + IF a[i] = b[j] THEN 0 ELSE 1)
    BY <2>3 DEF Fills
  <2>5. j # 0
    BY <1>1, <1>4, <2>3, <2>4 DEF MA!FirstCell
  <2>6. j - 1 \in 0..n /\ f[j - 1] = MA!PrefixDistance(a, b, i, j - 1)
    <3>1. j - 1 \in 0..n /\ ~(j <= j - 1)
      BY <2>3, <2>5
    <3> QED BY <2>2, <3>1
  <2>7. Row(a, b, i)[j - 1] = f[j - 1] /\ Row(a, b, i)[j] = MA!PrefixDistance(a, b, i, j)
    BY <2>3, <2>6 DEF Row
  <2> QED BY <1>3, <1>4, <2>3, <2>4, <2>5, <2>7
<1> HIDE DEF F
<1>5. F(CHOOSE f : F(f))
  BY <1>3
<1>6. \A k \in 0..n : (CHOOSE f : F(f))[k] = MA!PrefixDistance(a, b, i, k)
  BY <1>4, <1>5
<1>7. MA!NextRow(a, b, i, Row(a, b, i - 1)) = [j \in 0..n |-> (CHOOSE f : F(f))[j]]
  BY NextRowUnfolds, Zenon DEF F
<1> QED BY <1>6, <1>7 DEF Row

-----------------------------------------------------------------------------
(* Scores and the verdict.                                                 *)

\* What the text of a request or an entity has to be, and what an entity is.
Text(t) == Len(t) \in Nat /\ (t # <<>> => Len(t) > 0)

LEMMA TextsFit ==
  ASSUME MA!Parameters
  PROVE  /\ \A x \in matching.Requests : Text(x.name)
         /\ \A es \in matching.Stores : /\ Len(es) \in Nat /\ DOMAIN es = 1..Len(es)
                                        /\ \A i \in 1..Len(es) : Text(es[i].name)
<1>1. \A t : t \in Seq(MA!Range(t)) => Text(t) /\ DOMAIN t = 1..Len(t)
  <2>1. ASSUME NEW t, NEW S, t \in Seq(S) PROVE Text(t) /\ DOMAIN t = 1..Len(t)
    BY <2>1 DEF Text
  <2> QED BY <2>1
<1>2. \A x \in matching.Requests : Text(x.name)
  BY <1>1 DEF MA!Parameters
<1>3. ASSUME NEW es \in matching.Stores
      PROVE  /\ Len(es) \in Nat /\ DOMAIN es = 1..Len(es)
             /\ \A i \in 1..Len(es) : Text(es[i].name)
  <2>1. es \in Seq(MA!Range(es)) /\ \A e \in MA!Range(es) : e.name \in Seq(MA!Range(e.name))
    BY DEF MA!Parameters
  <2>2. Len(es) \in Nat /\ DOMAIN es = 1..Len(es)
    BY <1>1, <2>1 DEF Text
  <2>3. \A i \in 1..Len(es) : es[i] \in MA!Range(es)
    BY <2>2 DEF MA!Range
  <2> QED BY <1>1, <2>1, <2>2, <2>3
<1> QED BY <1>2, <1>3

LEMMA ScoresFit ==
  ASSUME MA!Parameters, NEW x, NEW y, NEW d \in Int, NEW short \in BOOLEAN,
         Text(x.name), Text(y.name)
  PROVE  MA!ScoreCandidate(x, y, d, short) \in [num : Int, den : Nat \ {0}, short : BOOLEAN]
<1> DEFINE C == MA!Comparable(x, y)
           Weight(f) == IF f \in C THEN MA!weights[f] ELSE 0
           Share(f) == IF f \in C THEN MA!weights[f] * MA!FieldScore(f, x, y, d) ELSE 0
<1>1. MA!weights["name"] = 30 /\ MA!weights["phone"] = 25 /\ MA!weights["nin"] = 15
  BY DEF MA!weights
<1>2. Weight("name") \in Nat /\ Weight("phone") \in Nat /\ Weight("nin") \in Nat
  BY <1>1
<1>3. matching.Scale \in Nat \ {0}
  BY DEF MA!Parameters
<1>4. "name" \in C => MA!FieldScore("name", x, y, d) \in Int
  <2>1. SUFFICES ASSUME "name" \in C PROVE MA!stringSimilarity(x.name, y.name, d) \in Int
    BY DEF MA!FieldScore
  <2>2. x.name # <<>> /\ y.name # <<>>
    BY <2>1 DEF MA!Comparable, MA!Absent
  <2>3. PICK l : l = MA!Greater(Len(x.name), Len(y.name))
    OBVIOUS
  <2>4. l \in Nat \ {0}
    BY <2>2, <2>3 DEF Text, MA!Greater
  <2>5. matching.Scale \div l \in Int
    BY <1>3, <2>4
  <2>6. PICK s : s = matching.Scale \div l
    OBVIOUS
  <2>7. s * (l - d) \in Int
    BY <2>4, <2>5, <2>6
  <2> QED BY <2>3, <2>6, <2>7 DEF MA!stringSimilarity
<1>5. MA!FieldScore("phone", x, y, d) \in Int /\ MA!FieldScore("nin", x, y, d) \in Int
  BY <1>3 DEF MA!FieldScore
<1>6. Share("name") \in Int /\ Share("phone") \in Int /\ Share("nin") \in Int
  BY <1>1, <1>4, <1>5
<1>7. MA!ScoreCandidate(x, y, d, short) =
        [num |-> Share("name") + Share("phone") + Share("nin"),
         den |-> MA!Greater(1, Weight("name") + Weight("phone") + Weight("nin")),
         short |-> short]
  BY Zenon DEF MA!ScoreCandidate
<1> HIDE DEF Share, Weight
<1>8. MA!Greater(1, Weight("name") + Weight("phone") + Weight("nin")) \in Nat \ {0}
  BY <1>2 DEF MA!Greater
<1>9. Share("name") + Share("phone") + Share("nin") \in Int
  BY <1>6
<1> QED BY <1>7, <1>8, <1>9

\* What the candidates are made of.
Scores == [num : Int, den : Nat \ {0}, short : BOOLEAN]

\* Between scores rounded alike, the fractions decide.
LEMMA AboveAlike ==
  ASSUME NEW s \in Scores, NEW t \in Scores, s.short = t.short
  PROVE  MA!Above(s, t) <=> s.num * t.den > t.num * s.den
BY DEF MA!Above, Scores

\* A fraction that is not below another reaches what the other does.
LEMMA ReachesUp ==
  ASSUME MA!Parameters, NEW s \in Scores, NEW t \in Scores, s.short = t.short,
         ~MA!Above(s, t), NEW percent \in Nat, MA!Reaches(s, percent)
  PROVE  MA!Reaches(t, percent)
<1>1. PICK sn \in Int, sd \in Nat \ {0}, tn \in Int, td \in Nat \ {0}, q \in Int :
        sn = s.num /\ sd = s.den /\ tn = t.num /\ td = t.den /\ q = percent * matching.Scale
  BY DEF MA!Parameters, Scores
<1>2. sn * td <= tn * sd
  BY <1>1, AboveAlike
<1>3. (sn * td) * 100 <= (tn * sd) * 100
  BY <1>2
<1>4. sn * 100 >= q * sd => tn * 100 >= q * td
  <2>1. SUFFICES ASSUME sn * 100 >= q * sd, ~(tn * 100 >= q * td) PROVE FALSE
    OBVIOUS
  <2>2. tn * 100 - q * td < 0 /\ tn * 100 - q * td \in Int
    BY <2>1
  <2>3. (tn * 100 - q * td) * sd < 0
    BY <2>2
  <2>4. (tn * sd) * 100 < (q * sd) * td
    BY <2>3
  <2>5. (q * sd) * td <= (sn * 100) * td
    BY <2>1
  <2> QED BY <1>3, <2>4, <2>5
<1>5. sn * 100 > q * sd => tn * 100 > q * td
  <2>1. SUFFICES ASSUME sn * 100 > q * sd, ~(tn * 100 > q * td) PROVE FALSE
    OBVIOUS
  <2>2. sn * 100 - q * sd > 0 /\ sn * 100 - q * sd \in Int
    BY <2>1
  <2>3. (sn * 100 - q * sd) * td > 0
    BY <2>2
  <2>4. (sn * td) * 100 > (q * sd) * td
    BY <2>3
  <2>5. (tn * 100) * sd <= (q * td) * sd
    BY <2>1
  <2> QED BY <1>3, <2>4, <2>5
<1> QED BY <1>1, <1>4, <1>5 DEF MA!Reaches

\* The verdict on the best is that on all, where all are rounded alike.
LEMMA VerdictOfBest ==
  ASSUME MA!Parameters, NEW S, S \subseteq Scores, NEW t \in S,
         \A s \in S : s.short = t.short /\ ~MA!Above(s, t)
  PROVE  MA!Verdict({t}) = MA!Verdict(S)
<1>1. ASSUME NEW percent \in Nat
      PROVE  (\E s \in S : MA!Reaches(s, percent)) <=> (\E s \in {t} : MA!Reaches(s, percent))
  <2>1. ASSUME NEW s \in S, MA!Reaches(s, percent) PROVE MA!Reaches(t, percent)
    BY <2>1, ReachesUp
  <2> QED BY <2>1
<1>2. matching.autoMatchThreshold \in Nat /\ matching.reviewThreshold \in Nat
  BY DEF MA!Parameters
<1> QED BY <1>1, <1>2, Zenon DEF MA!Verdict

\* Sorting keeps the candidates and puts none behind a lesser one.
LEMMA FirstIsBest ==
  ASSUME NEW T, NEW s \in Seq(T), NEW c \in MA!BestFirst(s)
  PROVE  /\ c = <<>> <=> s = <<>>
         /\ s # <<>> => /\ c[1] \in {s[k] : k \in DOMAIN s}
                        /\ \A k \in DOMAIN s : ~MA!Above(s[k], c[1]) \/ s[k] = c[1]
<1>1. DOMAIN s = 1..Len(s) /\ Len(s) \in Nat
  OBVIOUS
<1>2. PICK q \in [DOMAIN s -> DOMAIN s] :
        /\ \A k \in DOMAIN s : \E i \in DOMAIN s : q[i] = k
        /\ \A i, j \in DOMAIN s : i < j => ~MA!Above(s[q[j]], s[q[i]])
        /\ c = [i \in DOMAIN s |-> s[q[i]]]
  BY DEF MA!BestFirst, MA!Bijection, MA!Surjection
<1>3. DOMAIN c = DOMAIN s
  BY <1>2
<1>4. c = <<>> <=> s = <<>>
  BY <1>1, <1>2, <1>3
<1>5. ASSUME s # <<>>
      PROVE  /\ c[1] \in {s[k] : k \in DOMAIN s}
             /\ \A k \in DOMAIN s : ~MA!Above(s[k], c[1]) \/ s[k] = c[1]
  <2>1. 1 \in DOMAIN s
    BY <1>1, <1>5
  <2>2. c[1] = s[q[1]] /\ q[1] \in DOMAIN s
    BY <1>2, <2>1
  <2>3. ASSUME NEW k \in DOMAIN s PROVE ~MA!Above(s[k], c[1]) \/ s[k] = c[1]
    <3>1. PICK i \in DOMAIN s : q[i] = k
      BY <1>2
    <3>2. CASE i = 1
      BY <2>2, <3>1, <3>2
    <3>3. CASE 1 < i
      BY <1>2, <2>1, <2>2, <3>1, <3>3
    <3> QED BY <1>1, <3>2, <3>3
  <2> QED BY <2>2, <2>3
<1> QED BY <1>4, <1>5

-----------------------------------------------------------------------------
(* The steps.                                                              *)

LEMMA TrueScoresFit ==
  ASSUME MA!Parameters, store \in matching.Stores, u \in matching.Requests,
         NEW i \in 1..Len(store), NEW short \in BOOLEAN
  PROVE  MA!TrueScore(i, short) \in Scores /\ MA!TrueScore(i, short).short = short
<1>1. Text(u.name) /\ Text(store[i].name)
  BY TextsFit
<1>2. MA!Distance(u.name, store[i].name) \in Int
  <2>1. Len(u.name) \in Nat /\ Len(store[i].name) \in Nat
    BY <1>1 DEF Text
  <2> QED BY <2>1, DistanceExists, DistanceIs DEF MA!Distance
<1>3. MA!TrueScore(i, short) \in Scores
  BY <1>1, <1>2, ScoresFit DEF MA!TrueScore, Scores
<1> QED BY <1>3 DEF MA!TrueScore, MA!ScoreCandidate

\* How an entity scores does not depend on the rounding.
LEMMA OnlyShortDiffers ==
  ASSUME NEW i, NEW a, NEW b
  PROVE  /\ MA!TrueScore(i, a).num = MA!TrueScore(i, b).num
         /\ MA!TrueScore(i, a).den = MA!TrueScore(i, b).den
BY DEF MA!TrueScore, MA!ScoreCandidate

LEMMA RowCompared ==
  ASSUME MA!Parameters, MA!MatchingInv, MA!CompareRow
  PROVE  MA!MatchingInv'
<1>1. /\ UNCHANGED <<u, store, count, sent, past>> /\ v' = v + 1
      /\ past = "none" /\ count <= Len(store) /\ "name" \in MA!Comparable(u, store[count])
      /\ v < Len(u.name)
      /\ mirror' = MA!NextRow(u.name, store[count].name, v + 1,
                              IF v = 0 THEN MA!FirstRow(store[count].name) ELSE mirror)
  BY DEF MA!CompareRow, MA!Other, MA!None
<1>2. /\ u \in matching.Requests /\ store \in matching.Stores
      /\ count \in 1..(Len(store) + 1) /\ v \in Nat
      /\ MA!RowFits
  BY DEF MA!MatchingInv
<1>3. Text(u.name) /\ Text(store[count].name) /\ Len(store) \in Nat
  BY <1>1, <1>2, TextsFit
<1>4. v + 1 \in Nat \ {0} /\ (v + 1) - 1 = v /\ v + 1 <= Len(u.name)
  BY <1>1, <1>2, <1>3 DEF Text
<1>5. (IF v = 0 THEN MA!FirstRow(store[count].name) ELSE mirror) = Row(u.name, store[count].name, v)
  <2>1. CASE v = 0
    BY <1>3, <2>1, FirstRowRight DEF Text
  <2>2. CASE v # 0
    BY <1>1, <1>2, <2>2 DEF MA!RowFits, MA!Other, Row
  <2> QED BY <2>1, <2>2
<1>6. mirror' = Row(u.name, store[count].name, v + 1)
  <2>1. PICK r : r = Row(u.name, store[count].name, v)
    OBVIOUS
  <2>2. mirror' = MA!NextRow(u.name, store[count].name, v + 1, r)
    BY <1>1, <1>5, <2>1
  <2>3. PICK n \in Nat \ {0} : n = v + 1 /\ n - 1 = v
    BY <1>4
  <2>4. MA!NextRow(u.name, store[count].name, n, Row(u.name, store[count].name, n - 1))
          = Row(u.name, store[count].name, n)
    BY <1>3, NextRowRight DEF Text
  <2> QED BY <2>1, <2>2, <2>3, <2>4
<1>7. MA!RowFits'
  BY <1>1, <1>4, <1>6 DEF MA!RowFits, MA!Other, Row
<1>8. MA!CandidatesFit' /\ MA!DecidesByReference'
  <2>1. \A n, short : MA!TrueScores(n, short)' = MA!TrueScores(n, short)
    BY <1>1 DEF MA!TrueScores, MA!TrueScore
  <2>2. MA!CandidatesFit
    BY <1>1 DEF MA!MatchingInv, MA!None
  <2>3. MA!CandidatesFit'
    BY <1>1, <2>1, <2>2 DEF MA!CandidatesFit
  <2> QED BY <1>1, <2>3 DEF MA!DecidesByReference, MA!None
<1>9. sent \in Seq([num : Int, den : Nat \ {0}, short : BOOLEAN])
  BY DEF MA!MatchingInv
<1> QED BY <1>1, <1>2, <1>4, <1>7, <1>8, <1>9 DEF MA!MatchingInv

LEMMA EntityScored ==
  ASSUME MA!Parameters, MA!MatchingInv, MA!Score
  PROVE  MA!MatchingInv'
<1> DEFINE named == "name" \in MA!Comparable(u, store[count])
<1>1. PICK b, s :
        /\ b \in BOOLEAN
        /\ s = MA!ScoreCandidate(u, store[count], IF named THEN mirror[Len(store[count].name)] ELSE 0, b)
        /\ sent' = IF s.num > 0 THEN Append(sent, s) ELSE sent
  BY DEF MA!Score, MA!Other
<1>2. /\ UNCHANGED <<u, store, past>> /\ past = "none" /\ count <= Len(store)
      /\ (named => v = Len(u.name)) /\ count' = count + 1 /\ v' = 0
      /\ sent' = IF s.num > 0 THEN Append(sent, s) ELSE sent
  <2>1. /\ UNCHANGED <<u, store, past>> /\ past = "none" /\ count <= Len(store)
        /\ (named => v = Len(u.name)) /\ count' = count + 1 /\ v' = 0
    BY Zenon DEF MA!Score, MA!Other, MA!None
  <2> QED BY <1>1, <2>1
<1>3. /\ u \in matching.Requests /\ store \in matching.Stores
      /\ count \in 1..(Len(store) + 1) /\ v \in Nat /\ sent \in Seq(Scores)
      /\ MA!RowFits /\ MA!CandidatesFit
  BY <1>2 DEF MA!MatchingInv, MA!None, Scores
<1>4. Text(u.name) /\ Text(store[count].name) /\ Len(store) \in Nat /\ count \in 1..Len(store)
  BY <1>2, <1>3, TextsFit
<1>5. s = MA!TrueScore(count, b)
  <2>1. CASE named
    <3>1. Len(u.name) > 0 /\ Len(u.name) \in Nat /\ Len(store[count].name) \in Nat
      BY <1>4, <2>1 DEF Text, MA!Comparable, MA!Absent
    <3>2. mirror = [j \in 0..Len(store[count].name) |->
                      MA!PrefixDistance(u.name, store[count].name, Len(u.name), j)]
      BY <1>2, <1>3, <2>1, <3>1 DEF MA!RowFits, MA!Other
    <3>3. mirror[Len(store[count].name)] = MA!Distance(u.name, store[count].name)
      BY <3>1, <3>2 DEF MA!Distance
    <3> QED BY <1>1, <2>1, <3>3 DEF MA!TrueScore
  <2>2. CASE ~named
    <3>1. \A d, e : MA!ScoreCandidate(u, store[count], d, b) = MA!ScoreCandidate(u, store[count], e, b)
      BY <2>2 DEF MA!ScoreCandidate, MA!FieldScore
    <3> QED BY <1>1, <2>2, <3>1 DEF MA!TrueScore
  <2> QED BY <2>1, <2>2
<1>B. b \in BOOLEAN
  BY <1>1
<1>6. s \in Scores
  BY <1>B, <1>3, <1>4, <1>5, TrueScoresFit
<1>7. sent' \in Seq(Scores)
  BY <1>2, <1>3, <1>6
<1>8. MA!CandidatesFit'
  <2>1. \A n, short : /\ MA!TrueScore(n, short)' = MA!TrueScore(n, short)
                      /\ MA!TrueScores(n, short)' = MA!TrueScores(n, short)
    BY <1>2 DEF MA!TrueScores, MA!TrueScore
  <2>2. /\ 1..(count' - 1) = 1..(count - 1) \cup {count} /\ count' - 1 = count
    BY <1>2, <1>4
  <2>3. \A short : MA!TrueScores(count, short) =
                     MA!TrueScores(count - 1, short) \cup {x \in {MA!TrueScore(count, short)} : x.num > 0}
    BY <2>2 DEF MA!TrueScores
  <2>4. {sent'[k] : k \in DOMAIN sent'} =
          {sent[k] : k \in DOMAIN sent} \cup IF s.num > 0 THEN {s} ELSE {}
    <3>1. CASE s.num > 0
      <4>1. /\ DOMAIN sent = 1..Len(sent) /\ DOMAIN sent' = 1..(Len(sent) + 1) /\ Len(sent) \in Nat
            /\ sent'[Len(sent) + 1] = s /\ \A k \in 1..Len(sent) : sent'[k] = sent[k]
        BY <1>2, <1>3, <1>6, <3>1, AppendedOne
      <4>2. 1..(Len(sent) + 1) = 1..Len(sent) \cup {Len(sent) + 1}
        BY <4>1
      <4> QED BY <3>1, <4>1, <4>2
    <3>2. CASE ~(s.num > 0)
      BY <1>2, <3>2
    <3> QED BY <3>1, <3>2
  <2>5. ASSUME NEW k \in DOMAIN sent'
        PROVE  \E short \in BOOLEAN : sent'[k] \in MA!TrueScores(count, short)
    <3>1. CASE sent'[k] \in {sent[m] : m \in DOMAIN sent}
      BY <1>3, <2>3, <3>1 DEF MA!CandidatesFit
    <3>2. CASE sent'[k] = s /\ s.num > 0
      BY <1>1, <1>5, <2>3, <3>2
    <3> QED BY <2>4, <3>1, <3>2
  <2>6. ASSUME NEW short \in BOOLEAN, NEW x \in MA!TrueScores(count, short)
        PROVE  \E k \in DOMAIN sent' : sent'[k].num = x.num /\ sent'[k].den = x.den
    <3>1. CASE x \in MA!TrueScores(count - 1, short)
      <4>1. PICK m \in DOMAIN sent : sent[m].num = x.num /\ sent[m].den = x.den
        BY <1>3, <3>1 DEF MA!CandidatesFit
      <4>2. PICK k \in DOMAIN sent' : sent'[k] = sent[m]
        BY <2>4
      <4> QED BY <4>1, <4>2
    <3>2. CASE x = MA!TrueScore(count, short) /\ x.num > 0
      <4>1. s.num = x.num /\ s.den = x.den
        BY <1>5, <3>2, OnlyShortDiffers
      <4>2. PICK k \in DOMAIN sent' : sent'[k] = s
        BY <2>4, <3>2, <4>1
      <4> QED BY <4>1, <4>2
    <3> QED BY <2>3, <3>1, <3>2
  <2> QED BY <2>1, <2>2, <2>5, <2>6 DEF MA!CandidatesFit
<1>9. count' \in 1..(Len(store) + 1)
  BY <1>2, <1>4
<1>10. MA!RowFits' /\ MA!DecidesByReference'
  <2>1. \A i \in 1..Len(store) : Len(u.name) \in Nat
    BY <1>4 DEF Text
  <2> QED BY <1>2, <1>4, <2>1 DEF MA!RowFits, MA!DecidesByReference, MA!None, Text
<1> QED BY <1>2, <1>3, <1>7, <1>8, <1>9, <1>10 DEF MA!MatchingInv, Scores

LEMMA VerdictGiven ==
  ASSUME MA!Parameters, MA!MatchingInv, MA!Decide
  PROVE  MA!MatchingInv'
<1>1. /\ UNCHANGED <<u, store, count, v, mirror>> /\ past = "none" /\ count > Len(store)
      /\ sent' \in MA!BestFirst(sent)
      /\ past' = MA!Verdict(IF sent' = <<>> THEN {} ELSE {sent'[1]})
  BY DEF MA!Decide, MA!None
<1>2. /\ u \in matching.Requests /\ store \in matching.Stores
      /\ count \in 1..(Len(store) + 1) /\ v \in Nat /\ sent \in Seq(Scores)
      /\ MA!RowFits /\ MA!CandidatesFit
  BY <1>1 DEF MA!MatchingInv, MA!None, Scores
<1>3. Len(store) \in Nat /\ DOMAIN store = 1..Len(store) /\ count - 1 = Len(store)
  BY <1>1, <1>2, TextsFit
<1>4. \A short \in BOOLEAN : /\ MA!TrueScores(Len(store), short) \subseteq Scores
                             /\ \A s \in MA!TrueScores(Len(store), short) : s.short = short
  BY <1>2, <1>3, TrueScoresFit DEF MA!TrueScores
<1>5. /\ \A k \in DOMAIN sent : \E short \in BOOLEAN : sent[k] \in MA!TrueScores(Len(store), short)
      /\ \A short \in BOOLEAN : \A s \in MA!TrueScores(Len(store), short) :
           \E k \in DOMAIN sent : sent[k].num = s.num /\ sent[k].den = s.den
  BY <1>2, <1>3 DEF MA!CandidatesFit
<1>6. ASSUME sent = <<>> PROVE past' = MA!Verdict(MA!TrueScores(Len(store), FALSE))
  <2>1. sent' = <<>>
    BY <1>1, <1>2, <1>6, FirstIsBest
  <2>2. MA!TrueScores(Len(store), FALSE) = {}
    <3>1. DOMAIN sent = {} /\ FALSE \in BOOLEAN
      BY <1>6
    <3>2. ASSUME NEW s \in MA!TrueScores(Len(store), FALSE) PROVE FALSE
      BY <1>5, <3>1
    <3> QED BY <3>2
  <2> QED BY <1>1, <2>1, <2>2
<1>7. ASSUME sent # <<>> PROVE \E short \in BOOLEAN : past' = MA!Verdict(MA!TrueScores(Len(store), short))
  <2>1. /\ sent' # <<>> /\ \E k \in DOMAIN sent : sent'[1] = sent[k]
        /\ \A k \in DOMAIN sent : ~MA!Above(sent[k], sent'[1]) \/ sent[k] = sent'[1]
    BY <1>1, <1>2, <1>7, FirstIsBest
  <2>2. PICK short, t : short \in BOOLEAN /\ t = sent'[1] /\ t \in MA!TrueScores(Len(store), short)
    BY <1>5, <2>1
  <2>3. t \in Scores /\ t.short = short
    BY <1>4, <2>2
  <2>4. ASSUME NEW s \in MA!TrueScores(Len(store), short) PROVE s.short = t.short /\ ~MA!Above(s, t)
    <3>1. s \in Scores /\ s.short = t.short
      BY <1>4, <2>2, <2>3
    <3>2. PICK k \in DOMAIN sent : sent[k].num = s.num /\ sent[k].den = s.den
      BY <1>5, <2>2
    <3>3. ~MA!Above(sent[k], t) \/ sent[k] = t
      BY <2>1, <2>2
    <3>4. ~(s.num * t.den > t.num * s.den)
      <4>1. CASE sent[k] = t
        BY <2>3, <3>2, <4>1 DEF Scores
      <4>2. CASE ~MA!Above(sent[k], t)
        BY <3>2, <4>2 DEF MA!Above
      <4> QED BY <3>3, <4>1, <4>2
    <3> QED BY <2>3, <3>1, <3>4, AboveAlike
  <2>5. PICK S : S = MA!TrueScores(Len(store), short)
    OBVIOUS
  <2>6. S \subseteq Scores /\ t \in S /\ \A s \in S : s.short = t.short /\ ~MA!Above(s, t)
    BY <1>4, <2>2, <2>4, <2>5
  <2>7. MA!Verdict({t}) = MA!Verdict(S)
    BY <2>6, VerdictOfBest
  <2> QED BY <1>1, <2>1, <2>2, <2>5, <2>7
<1>8. MA!DecidesByReference'
  <2>1. \A n, short : MA!TrueScores(n, short)' = MA!TrueScores(n, short)
    BY <1>1 DEF MA!TrueScores, MA!TrueScore
  <2>2. Len(store') = Len(store)
    BY <1>1
  <2> QED BY <1>6, <1>7, <2>1, <2>2 DEF MA!DecidesByReference
<1>9. past' # "none"
  BY <1>1 DEF MA!Verdict
<1>10. sent' \in Seq(Scores)
  <2>1. PICK q \in [DOMAIN sent -> DOMAIN sent] : sent' = [i \in DOMAIN sent |-> sent[q[i]]]
    BY <1>1 DEF MA!BestFirst, MA!Bijection, MA!Surjection
  <2>2. DOMAIN sent = 1..Len(sent) /\ Len(sent) \in Nat /\ \A k \in DOMAIN sent : sent[k] \in Scores
    BY <1>2
  <2>3. sent' \in [1..Len(sent) -> Scores]
    BY <2>1, <2>2
  <2> QED BY <2>2, <2>3
<1>11. MA!RowFits'
  BY <1>1, <1>2 DEF MA!RowFits, MA!Other
<1> QED BY <1>1, <1>2, <1>8, <1>9, <1>10, <1>11 DEF MA!MatchingInv, MA!None, Scores

LEMMA MatchingStep ==
  ASSUME MA!Parameters, MA!MatchingInv, [MA!Next]_MA!vars
  PROVE  MA!MatchingInv'
<1>1. CASE UNCHANGED MA!vars
  <2>1. UNCHANGED <<u, store, count, v, mirror, sent, past>>
    BY <1>1 DEF MA!vars
  <2>2. \A n, short : MA!TrueScores(n, short)' = MA!TrueScores(n, short)
    BY <2>1 DEF MA!TrueScores, MA!TrueScore
  <2>3. (MA!CandidatesFit => MA!CandidatesFit') /\ (MA!DecidesByReference => MA!DecidesByReference')
    BY <2>1, <2>2 DEF MA!CandidatesFit, MA!DecidesByReference
  <2>4. MA!RowFits => MA!RowFits'
    BY <2>1 DEF MA!RowFits, MA!Other
  <2> QED BY <2>1, <2>3, <2>4 DEF MA!MatchingInv
<1> QED BY <1>1, RowCompared, EntityScored, VerdictGiven DEF MA!Next
=============================================================================
