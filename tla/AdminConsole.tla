---------------------------- MODULE AdminConsole ----------------------------
(***************************************************************************)
(* Commands of the admin console (services/admin-api: handlers_data.go,    *)
(* handlers_ledger.go, handlers_services.go, handlers_admin.go) and the    *)
(* trail of audit events they leave.                                       *)
(*                                                                         *)
(* Some commands belong to another service: the console posts them there   *)
(* with a timeout of 1.2 s and falls back on its own copy on any error, a  *)
(* refusal and a lost answer included.  The others change the console's    *)
(* own store, which starts from its seeds with the process.  After the     *)
(* change an event is kept locally and posted to audit-evidence; what      *)
(* cannot be delivered waits in a queue in memory for the flush loop.      *)
(***************************************************************************)
EXTENDS Integers, Sequences, FiniteSets

CONSTANTS
  Requests,  \* requests, each served once
  MaxFaults, MaxFlushes, MaxRestarts \* bounds of the instance

VARIABLES
  prod,     \* PROFILE=prod
  store,    \* thing -> its value in the console's store
  owner,    \* thing -> its value at the service that owns it
  request,  \* request -> its local state
  queue,    \* events waiting for delivery
  worm,     \* events audit-evidence has taken, in order
  flush,    \* the flusher: events to post, events that failed again
  faults, flushes, restarts,
  gone      \* events that were in memory only when the process ended

vars == <<prod, store, owner, request, queue, worm, flush, faults, flushes, restarts, gone>>

\* One tenant, flag, API key, evidence object, service switch and workflow
\* are the console's own; a pack, gate, transfer and the WAF have an owner.
Seeds == [tenant |-> "none", flag |-> "off", key |-> "none", evidence |-> "none", toggle |-> "on",
          workflow |-> "none", receipt |-> "none", trail |-> "none",
          pack |-> "draft", gate |-> "off", transfer |-> "none", waf |-> "detect"]
Owned == {"pack", "gate", "transfer", "waf"}

Command(thing, from, to, audited) == [thing |-> thing, from |-> from, to |-> to, audited |-> audited]

\* The commands by handler: what each applies to, the value it leaves, and
\* whether it leaves an event (for an owner's command: when the owner has
\* taken it; a fallback always does).
TenantCommands ==
  {Command("tenant", {"none"}, "active", TRUE),
   Command("tenant", {"active", "suspended"}, "suspended", TRUE),
   Command("tenant", {"active", "suspended"}, "none", TRUE)}
SettingsCommands ==
  {Command("flag", {"off", "on"}, "on", TRUE),
   Command("key", {"none"}, "live", TRUE),
   Command("key", {"live", "revoked"}, "revoked", TRUE)}
EvidenceCommands == {Command("evidence", {"none"}, "sealed", TRUE)}
ToggleCommands == {Command("toggle", {"on"}, "off", TRUE), Command("toggle", {"off"}, "on", TRUE)}
\* A receipt of F9 or F10 is refused, recorded and audited.
ReceiptCommands ==
  {Command("receipt", {"none"}, "accepted", FALSE), Command("receipt", {"none"}, "forbidden", TRUE)}
\* A posted event stays in the local trail.
TrailCommands == {Command("trail", {"none"}, "appended", FALSE)}
WorkflowCommands ==
  {Command("workflow", {"none", "completed", "failed"}, status, TRUE) : status \in {"completed", "failed"}}

LocalCommands ==
  TenantCommands \cup SettingsCommands \cup EvidenceCommands \cup ToggleCommands
    \cup ReceiptCommands \cup TrailCommands \cup WorkflowCommands

PackCommands == {Command("pack", {"draft"}, "published", TRUE)}
GateCommands == {Command("gate", {"off"}, "on", TRUE), Command("gate", {"on"}, "off", TRUE)}
TransferCommands == {Command("transfer", {"none"}, "pending", TRUE)}
SettleCommands ==
  {Command("transfer", {"pending"}, state, FALSE) : state \in {"posted", "voided"}}
WAFCommands == {Command("waf", {"detect", "enforce"}, "enforce", FALSE)}

OwnedCommands ==
  PackCommands \cup GateCommands \cup TransferCommands \cup SettleCommands \cup WAFCommands

New == [pc |-> "new"]
Done(answer) == [pc |-> "done", answer |-> answer, event |-> FALSE]
Auditing(answer) == [pc |-> "audit", answer |-> answer, event |-> TRUE]
Fault == faults < MaxFaults /\ faults' = faults + 1

-----------------------------------------------------------------------------
(* Commands.                                                               *)

\* The change happens under the store's lock, the event after it.
Local(r, c) ==
  /\ request[r] = New
  /\ IF store[c.thing] \in c.from
       THEN /\ store' = [store EXCEPT ![c.thing] = c.to]
            /\ request' = [request EXCEPT ![r] = IF c.audited THEN Auditing("local") ELSE Done("local")]
       ELSE /\ request' = [request EXCEPT ![r] = Done("refused")]
            /\ UNCHANGED store
  /\ UNCHANGED <<prod, owner, queue, worm, flush, faults, flushes, restarts, gone>>

\* postJSON to the owner: it takes the command or refuses it (>= 400, which
\* may also be for want of a token), is not reached, or takes the command
\* and its answer is lost.
Post(r, c) ==
  /\ request[r] = New
  /\ \/ /\ owner[c.thing] \in c.from
        /\ owner' = [owner EXCEPT ![c.thing] = c.to]
        /\ request' = [request EXCEPT ![r] = IF c.audited THEN Auditing("live") ELSE Done("live")]
        /\ UNCHANGED faults
     \/ /\ request' = [request EXCEPT ![r] = [pc |-> "fallback", command |-> c, cause |-> "refused"]]
        /\ UNCHANGED <<owner, faults>>
     \/ /\ Fault
        /\ request' = [request EXCEPT ![r] = [pc |-> "fallback", command |-> c, cause |-> "unreachable"]]
        /\ UNCHANGED owner
     \/ /\ Fault
        /\ owner[c.thing] \in c.from
        /\ owner' = [owner EXCEPT ![c.thing] = c.to]
        /\ request' = [request EXCEPT ![r] = [pc |-> "fallback", command |-> c, cause |-> "lost"]]
  /\ UNCHANGED <<prod, store, queue, worm, flush, flushes, restarts, gone>>

\* ledgerFallbackAllowed.
FallbackAllowed(thing) == thing = "transfer" => ~prod

\* The fallback: a publish is only answered and audited, a flip turns the
\* console's own gate over, a transfer goes to the seeded ledger, whose
\* transfers have ids of their own.
Fallback(r) ==
  LET c == request[r].command
  IN  /\ request[r].pc = "fallback"
      /\ IF ~FallbackAllowed(c.thing)
           THEN /\ request' = [request EXCEPT ![r] = Done("unavailable")]
                /\ UNCHANGED store
           ELSE IF c.thing = "pack"
           THEN /\ request' = [request EXCEPT ![r] = Auditing(request[r].cause)]
                /\ UNCHANGED store
           ELSE IF c.thing = "gate"
           THEN /\ store' = [store EXCEPT !.gate = IF @ = "on" THEN "off" ELSE "on"]
                /\ request' = [request EXCEPT ![r] = Auditing(request[r].cause)]
           ELSE IF store[c.thing] \in c.from
           THEN /\ store' = [store EXCEPT ![c.thing] = c.to]
                /\ request' = [request EXCEPT ![r] = Auditing(request[r].cause)]
           ELSE /\ request' = [request EXCEPT ![r] = Done("refused")]
                /\ UNCHANGED store
      /\ UNCHANGED <<prod, owner, queue, worm, flush, faults, flushes, restarts, gone>>

-----------------------------------------------------------------------------
(* The audit trail: appendAudit, forwardAudit, flushAuditQueue.  An event  *)
(* is named after the request that left it.                                *)

\* postAuditEvent: delivered, not delivered, or delivered with its answer lost.
Delivered(e) == worm' = Append(worm, e) /\ UNCHANGED faults
NotDelivered(e) == Fault /\ (UNCHANGED worm \/ worm' = Append(worm, e))

Forward(r) ==
  /\ request[r].pc = "audit"
  /\ request' = [request EXCEPT ![r].pc = "done"]
  /\ \/ Delivered(r) /\ UNCHANGED queue
     \/ NotDelivered(r) /\ queue' = Append(queue, r)
  /\ UNCHANGED <<prod, store, owner, flush, flushes, restarts, gone>>

NotFlushing == [todo |-> <<>>, still |-> <<>>]

FlushTake ==
  /\ flush = NotFlushing
  /\ queue # <<>>
  /\ flushes < MaxFlushes
  /\ flushes' = flushes + 1
  /\ flush' = [todo |-> queue, still |-> <<>>]
  /\ queue' = <<>>
  /\ UNCHANGED <<prod, store, owner, request, worm, faults, restarts, gone>>

FlushPost ==
  /\ flush.todo # <<>>
  /\ \/ /\ Delivered(Head(flush.todo))
        /\ flush' = [flush EXCEPT !.todo = Tail(@)]
     \/ /\ NotDelivered(Head(flush.todo))
        /\ flush' = [todo |-> Tail(flush.todo), still |-> Append(flush.still, Head(flush.todo))]
  /\ UNCHANGED <<prod, store, owner, request, queue, flushes, restarts, gone>>

\* Slip: what failed replaces the queue.
PutBackOnly(still, later) == still

\* What failed goes in front of what was queued in the meantime.
PutBack(still, later) == still \o later

FlushEnd ==
  /\ flush.todo = <<>> /\ flush.still # <<>>
  /\ queue' = PutBack(flush.still, queue)
  /\ flush' = NotFlushing
  /\ UNCHANGED <<prod, store, owner, request, worm, faults, flushes, restarts, gone>>

\* Events that are nowhere but in memory.
InMemory ==
  {queue[i] : i \in DOMAIN queue} \cup {flush.todo[i] : i \in DOMAIN flush.todo}
    \cup {flush.still[i] : i \in DOMAIN flush.still} \cup {r \in Requests : request[r].pc = "audit"}

Restart ==
  /\ restarts < MaxRestarts
  /\ restarts' = restarts + 1
  /\ store' = Seeds
  /\ queue' = <<>>
  /\ flush' = NotFlushing
  /\ gone' = gone \cup InMemory
  /\ request' = [r \in Requests |->
                   IF request[r].pc \in {"fallback", "audit"} THEN Done("aborted") ELSE request[r]]
  /\ UNCHANGED <<prod, owner, worm, faults, flushes>>

-----------------------------------------------------------------------------
Init ==
  /\ prod \in BOOLEAN
  /\ store = Seeds
  /\ owner = [t \in Owned |-> Seeds[t]]
  /\ request = [r \in Requests |-> New]
  /\ queue = <<>>
  /\ worm = <<>>
  /\ flush = NotFlushing
  /\ faults = 0
  /\ flushes = 0
  /\ restarts = 0
  /\ gone = {}

Next ==
  \/ \E r \in Requests : \/ \E c \in LocalCommands : Local(r, c)
                         \/ \E c \in OwnedCommands : Post(r, c)
                         \/ Fallback(r)
                         \/ Forward(r)
  \/ FlushTake
  \/ FlushPost
  \/ FlushEnd
  \/ Restart

Spec == Init /\ [][Next]_vars

-----------------------------------------------------------------------------
Taken(r) == \E i \in DOMAIN worm : worm[i] = r

Answered(r) == request[r].pc = "done"

\* No event is lost while the process runs (handlers_data.go:198-199,
\* "queued and retried - never silently dropped"): it is with audit-evidence or
\* still in memory, whatever fails and however requests and the flusher meet.
NoAuditLost ==
  \A r \in Requests :
    Answered(r) /\ request[r].event => Taken(r) \/ r \in InMemory \/ r \in gone

\* Known not to hold: a publish is emulated only when the registry is
\* unreachable (handlers_data.go:107, "rp-registry unreachable; publish
\* emulated locally and audited").  A refusal is emulated too.
EmulatedOnlyWhenUnreachable ==
  \A r \in Requests :
    Answered(r) /\ request[r].event => request[r].answer # "refused"

\* Known not to hold: "every privileged mutation must reach the WORM
\* audit-evidence service" (main.go:79).  A settlement or a WAF mode that
\* its owner has taken leaves no event.
EveryMutationAudited ==
  \A r \in Requests :
    Answered(r) /\ request[r].answer = "live" => request[r].event

-----------------------------------------------------------------------------
\* The inductive invariant.
ConsoleInv ==
  /\ request = [r \in Requests |-> request[r]]
  /\ \A r \in Requests : request[r].pc = "audit" =>
       request[r] = [pc |-> "audit", answer |-> request[r].answer, event |-> TRUE]
  /\ queue \in Seq(Requests) /\ worm \in Seq(Requests)
  /\ flush \in [todo : Seq(Requests), still : Seq(Requests)]
  /\ NoAuditLost
=============================================================================
