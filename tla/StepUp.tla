------------------------------- MODULE StepUp -------------------------------
(***************************************************************************)
(* packages/stepup and its two users, admin-api/stepup.go and              *)
(* ledger/stepup.go: TOTP enrolment, recovery codes, and single-use        *)
(* tickets that bind an actor, an action and a payload.                    *)
(*                                                                         *)
(* MemStore locks single accesses; Confirm and VerifyCode read a record    *)
(* and write it back later.  Secrets are numbered by enrolment.  Time is   *)
(* in half seconds, as tickets carry whole seconds.                        *)
(***************************************************************************)
EXTENDS Integers, Sequences, FiniteSets

CONSTANTS
  Admins,      \* actors
  Bindings,    \* pairs of an action and a hash of a payload
  Codes,       \* numbers of the recovery codes of an enrolment
  Requests,    \* requests, each served once
  TicketTTL,   \* in seconds
  MaxEnrolments, MaxTickets, MaxTime \* bounds of the instance

Parameters == {TicketTTL, MaxEnrolments, MaxTickets, MaxTime} \subseteq Nat

Services == {"admin-api", "ledger"}
None == [enrolment |-> 0]

VARIABLES
  records,   \* admin -> enrolment record of the admin API, or None
  enrolments,\* secrets generated so far
  tickets,   \* signed tickets handed out: sequence
  consumed,  \* service -> numbers of the tickets it remembers as used
  time,
  request,   \* request -> its local state
  burnt,     \* bag of accepted recovery codes: [enrolment, code] -> how often
  passed,    \* service -> ticket -> how often it opened a route
  overlap,   \* recovery codes that were burnt from an outdated record
  forgotten  \* tickets used in their last second, or before a restart

vars == <<records, enrolments, tickets, consumed, time, request, burnt, passed, overlap, forgotten>>

New == [pc |-> "new"]
Step(r, op, pc) == request[r].pc = pc /\ request[r].op = op

-----------------------------------------------------------------------------
(* Enrolment: service.go.                                                  *)

AllCodes(n) == {[enrolment |-> n, code |-> c] : c \in Codes}

\* A record of the secret of enrolment n, and the store with it.
Record(n) == [enrolment |-> n, enabled |-> FALSE, recovery |-> AllCodes(n)]
Put(a, record) == [records EXCEPT ![a] = record]

\* Enroll starts afresh whatever there is, and disables until confirmed.
Enroll(a) ==
  /\ enrolments < MaxEnrolments
  /\ enrolments' = enrolments + 1
  /\ records' = Put(a, Record(enrolments + 1))
  /\ UNCHANGED <<tickets, consumed, time, request, burnt, passed, overlap, forgotten>>

\* Confirm with a code of the secret it read.
ConfirmRead(r, a) ==
  /\ request[r] = New
  /\ records[a] # None
  /\ request' = [request EXCEPT ![r] = [op |-> "confirm", pc |-> "put", actor |-> a,
                                        copy |-> records[a]]]
  /\ UNCHANGED <<records, enrolments, tickets, consumed, time, burnt, passed, overlap, forgotten>>

ConfirmPut(r) ==
  /\ Step(r, "confirm", "put")
  /\ records' = Put(request[r].actor, [request[r].copy EXCEPT !.enabled = TRUE])
  /\ overlap' = IF records[request[r].actor] = request[r].copy THEN overlap
                ELSE overlap \cup AllCodes(request[r].copy.enrolment)
  /\ request' = [request EXCEPT ![r] = [pc |-> "done"]]
  /\ UNCHANGED <<enrolments, tickets, consumed, time, burnt, passed, forgotten>>

-----------------------------------------------------------------------------
(* VerifyCode, and what the admin API does after it.                       *)

\* A live TOTP of the current secret passes at once; it may pass again while
\* its window lasts.
VerifyTOTP(r, a, op, binding) ==
  /\ request[r] = New
  /\ records[a] # None /\ records[a].enabled
  /\ request' = [request EXCEPT ![r] = [op |-> op, pc |-> "verified", actor |-> a,
                                        binding |-> binding]]
  /\ UNCHANGED <<records, enrolments, tickets, consumed, time, burnt, passed, overlap, forgotten>>

\* A recovery code is looked up in the record read.
VerifyRecovery(r, a, op, binding, code) ==
  /\ request[r] = New
  /\ records[a] # None /\ records[a].enabled
  /\ code \in records[a].recovery
  /\ request' = [request EXCEPT ![r] = [op |-> op, pc |-> "burn", actor |-> a,
                                        binding |-> binding, code |-> code, copy |-> records[a]]]
  /\ UNCHANGED <<records, enrolments, tickets, consumed, time, burnt, passed, overlap, forgotten>>

Without(record, code) == [record EXCEPT !.recovery = @ \ {code}]

\* The record without the code is written, over whatever is there by now.
Burn(r) ==
  LET me == request[r]
  IN  /\ me.pc = "burn"
      /\ records' = Put(me.actor, Without(me.copy, me.code))
      /\ burnt' = [burnt EXCEPT ![me.code] = @ + 1]
      /\ overlap' = IF records[me.actor] = me.copy THEN overlap
                                                   ELSE overlap \cup AllCodes(me.code.enrolment)
      /\ request' = [request EXCEPT ![r] = [op |-> me.op, pc |-> "verified", actor |-> me.actor,
                                            binding |-> me.binding]]
      /\ UNCHANGED <<enrolments, tickets, consumed, time, passed, forgotten>>

\* MintTicket: the expiry is cut to whole seconds.
Ticket(actor, binding) == [actor |-> actor, binding |-> binding, exp |-> time \div 2 + TicketTTL]

\* handleStepupChallenge.
Challenge(r) ==
  /\ Step(r, "challenge", "verified")
  /\ Len(tickets) < MaxTickets
  /\ tickets' = Append(tickets, Ticket(request[r].actor, request[r].binding))
  /\ request' = [request EXCEPT ![r] = [pc |-> "done"]]
  /\ UNCHANGED <<records, enrolments, consumed, time, burnt, passed, overlap, forgotten>>

\* handleStepupDisable.
Disable(r) ==
  /\ Step(r, "disable", "verified")
  /\ records' = Put(request[r].actor, None)
  /\ request' = [request EXCEPT ![r] = [pc |-> "done"]]
  /\ UNCHANGED <<enrolments, tickets, consumed, time, burnt, passed, overlap, forgotten>>

\* requireStepUp of the admin API with a code: the route opens.
CodeRoute(r) ==
  /\ Step(r, "route", "verified")
  /\ request' = [request EXCEPT ![r] = [pc |-> "done"]]
  /\ UNCHANGED <<records, enrolments, tickets, consumed, time, burnt, passed, overlap, forgotten>>

-----------------------------------------------------------------------------
(* VerifyTicket and ConsumeTicket, on a route of either service.           *)

\* Slip: the sweep drops the tickets that are still valid.
RememberedExpired(service) == {n \in consumed[service] : time > 2 * tickets[n].exp}

Remembered(service) == {n \in consumed[service] : ~ time > 2 * tickets[n].exp}
Replayed(service, n) == n \in Remembered(service) /\ time < 2 * tickets[n].exp

\* VerifyTicket: expiry and binding.
Holds(n, a, binding) ==
  /\ time \div 2 <= tickets[n].exp
  /\ tickets[n].actor = a /\ tickets[n].binding = binding

\* ConsumeTicket: the sweep, the replay test and the mark in one critical
\* section; a refused ticket leaves only the sweep.
Consume(service, n) ==
  /\ ~ Replayed(service, n)
  /\ consumed' = [consumed EXCEPT ![service] = Remembered(service) \cup {n}]
  /\ passed' = [passed EXCEPT ![service][n] = @ + 1]
  /\ forgotten' = IF time >= 2 * tickets[n].exp THEN forgotten \cup {n} ELSE forgotten
  /\ UNCHANGED <<records, enrolments, tickets, time, request, burnt, overlap>>

\* requireStepUp of the admin API and of the ledger, with a ticket.
AdminRoute(n, a, binding) == Holds(n, a, binding) /\ Consume("admin-api", n)
LedgerRoute(n, a, binding) == Holds(n, a, binding) /\ Consume("ledger", n)

\* Enrolments and used tickets are in memory only.
Restart(service) ==
  /\ consumed' = [consumed EXCEPT ![service] = {}]
  /\ forgotten' = forgotten \cup consumed[service]
  /\ \/ service = "ledger" /\ UNCHANGED <<records, request>>
     \/ /\ service = "admin-api"
        /\ records' = [a \in Admins |-> None]
        /\ request' = [r \in Requests |-> [pc |-> "done"]]
  /\ UNCHANGED <<enrolments, tickets, time, burnt, passed, overlap>>

Pass ==
  /\ time < MaxTime
  /\ time' = time + 1
  /\ UNCHANGED <<records, enrolments, tickets, consumed, request, burnt, passed, overlap, forgotten>>

-----------------------------------------------------------------------------
Init ==
  /\ records = [a \in Admins |-> None]
  /\ enrolments = 0 /\ tickets = <<>> /\ time = 0
  /\ consumed = [s \in Services |-> {}]
  /\ request = [r \in Requests |-> New]
  /\ burnt = [c \in UNION {AllCodes(n) : n \in 1 .. MaxEnrolments} |-> 0]
  /\ passed = [s \in Services |-> [n \in 1 .. MaxTickets |-> 0]]
  /\ overlap = {} /\ forgotten = {}

Next ==
  \/ \E a \in Admins :
       \/ Enroll(a)
       \/ \E r \in Requests :
            \/ ConfirmRead(r, a)
            \/ \E op \in {"challenge", "disable", "route"}, binding \in Bindings :
                 \/ VerifyTOTP(r, a, op, binding)
                 \/ \E code \in DOMAIN burnt : VerifyRecovery(r, a, op, binding, code)
       \/ \E n \in DOMAIN tickets, binding \in Bindings :
            \/ AdminRoute(n, a, binding) /\ passed["admin-api"][n] < 2
            \/ LedgerRoute(n, a, binding) /\ passed["ledger"][n] < 2
  \/ \E r \in Requests : ConfirmPut(r) \/ Burn(r) \/ Challenge(r) \/ Disable(r) \/ CodeRoute(r)
  \/ \E service \in Services : Restart(service)
  \/ Pass

Spec == Init /\ [][Next]_vars

-----------------------------------------------------------------------------
\* VerifyCode: "A used recovery code is burned immediately".  A code passes
\* twice only when requests of the same actor worked on one record at once.
RecoveryCodeOnce == \A c \in DOMAIN burnt : burnt[c] > 1 => c \in overlap

\* ConsumeTicket: a service lets a ticket through once; again only after it
\* restarted, or in the last second, when the sweep has already dropped what
\* the expiry test still accepts.
TicketOnce ==
  \A s \in Services, n \in DOMAIN tickets : passed[s][n] > 1 => n \in forgotten

\* Neither credential of a step-up (a recovery code, a ticket) is good twice.
SingleUse == RecoveryCodeOnce /\ TicketOnce
=============================================================================
