------------------------------ MODULE PgOutbox ------------------------------
(***************************************************************************)
(* The transactional outbox on Postgres, packages/events/store/pgoutbox.go:*)
(* producers write an outbox row in the transaction of the domain change,  *)
(* and relay replicas stamp rows published_at before they publish them.    *)
(*                                                                         *)
(* Relays are separate processes; between the claim statement and each     *)
(* publish, and between a failed publish and the unclaim, anything else    *)
(* may happen.  A crash loses a relay's list of claims, never a row.       *)
(***************************************************************************)
EXTENDS Integers, Sequences, FiniteSets, Functions

CONSTANTS
  Events,      \* events, each written by one producer transaction
  Relays,      \* OutboxRelay replicas
  Batch,       \* OutboxRelayConfig.Batch
  FaultKinds,  \* what may go wrong
  MaxFaults    \* bound on how often something does

ASSUME PgOutboxAssumption ==
  /\ Batch \in Nat \ {0}
  /\ MaxFaults \in Nat

VARIABLES
  row,        \* event -> its row: absent, inserted (not yet visible), free, stamped
  changed,    \* the domain changes that committed, each named by its event
  seqno,      \* event -> seq of its row, 0 before the insert
  lastSeq,    \* the BIGSERIAL sequence
  relay,      \* relay -> [pc, claims, at]
  log,        \* the topic: events in offset order
  failures,   \* event -> publishes of it that reported an error
  faults

outboxVars == <<row, changed, seqno, lastSeq, relay, log, failures, faults>>

Waiting == [pc |-> "idle", claims |-> {}, at |-> {}]
Fault(kind) == kind \in FaultKinds /\ faults < MaxFaults /\ faults' = faults + 1

-----------------------------------------------------------------------------
(* Producers: WithTx around the domain write and AppendOutboxTx.           *)

\* AppendOutboxTx: other transactions do not see the row yet.
InsertRow(e) == [row EXCEPT ![e] = "inserted"]

AppendOutboxTx(e) ==
  /\ row[e] = "absent"
  /\ row' = InsertRow(e)
  /\ lastSeq' = lastSeq + 1
  /\ seqno' = [seqno EXCEPT ![e] = lastSeq + 1]
  /\ UNCHANGED <<changed, relay, log, failures, faults>>

\* The domain change and the row become visible together.  Transactions
\* commit in any order, so a smaller seq may appear after a larger one.
Commit(e) ==
  /\ row[e] = "inserted"
  /\ row' = [row EXCEPT ![e] = "free"]
  /\ changed' = changed \cup {e}
  /\ UNCHANGED <<seqno, lastSeq, relay, log, failures, faults>>

\* fn or Commit fails, or the producer crashes: both are gone, the seq is spent.
Rollback(e) ==
  /\ row[e] = "inserted"
  /\ Fault("rollback")
  /\ row' = [row EXCEPT ![e] = "absent"]
  /\ seqno' = [seqno EXCEPT ![e] = 0]
  /\ UNCHANGED <<changed, lastSeq, relay, log, failures>>

-----------------------------------------------------------------------------
(* OutboxRelay.                                                            *)

Free == {e \in Events : row[e] = "free"}

\* claimOutboxSQL: the first Batch unpublished rows in seq order.
Picked == {e \in Free : Cardinality({f \in Free : seqno[f] <= seqno[e]}) <= Batch}

\* Slip: the rows are only locked while the statement runs.
PickedNotStamped == row

\* UPDATE ... SET published_at = now() in the same statement.
StampPicked == [e \in Events |-> IF e \in Picked THEN "stamped" ELSE row[e]]

\* The statement commits as a whole; RETURNING promises no order.
ClaimOutbox(r) ==
  /\ relay[r].pc = "idle"
  /\ Free # {}
  /\ row' = StampPicked
  /\ relay' = [relay EXCEPT ![r] = [pc |-> "publish", claims |-> Picked, at |-> {}]]
  /\ UNCHANGED <<changed, seqno, lastSeq, log, failures, faults>>

\* The statement takes effect and reading its rows fails: the claims are dropped.
ClaimUnread(r) ==
  /\ relay[r].pc = "idle"
  /\ Free # {}
  /\ Fault("read")
  /\ row' = StampPicked
  /\ UNCHANGED <<changed, seqno, lastSeq, relay, log, failures>>

\* Done with one claim; the tick is over with the last.
Without(r, e) ==
  LET rest == relay[r].claims \ {e}
  IN  [relay EXCEPT ![r] = IF rest = {} THEN Waiting
                           ELSE [pc |-> "publish", claims |-> rest, at |-> {}]]

PublishOK(r) ==
  /\ relay[r].pc = "publish"
  /\ \E e \in relay[r].claims :
       /\ log' = Append(log, e)
       /\ relay' = Without(r, e)
  /\ UNCHANGED <<row, changed, seqno, lastSeq, failures, faults>>

\* Publish reports an error; the broker may have stored the record all the same.
PublishFails(r) ==
  /\ relay[r].pc = "publish"
  /\ Fault("publish")
  /\ \E e \in relay[r].claims :
       /\ log' \in {log, Append(log, e)}
       /\ failures' = [failures EXCEPT ![e] = @ + 1]
       /\ relay' = [relay EXCEPT ![r].pc = "unclaim", ![r].at = {e}]
  /\ UNCHANGED <<row, changed, seqno, lastSeq>>

\* unclaim; its own failure is only logged and the row stays stamped.
Unclaim(r) ==
  /\ relay[r].pc = "unclaim"
  /\ \E e \in relay[r].at :
       /\ \/ row' = [row EXCEPT ![e] = "free"] /\ UNCHANGED faults
          \/ Fault("unclaim") /\ UNCHANGED row
       /\ relay' = Without(r, e)
  /\ UNCHANGED <<changed, seqno, lastSeq, log, failures>>

RelayCrash(r) ==
  /\ relay[r].pc # "idle"
  /\ Fault("crash")
  /\ relay' = [relay EXCEPT ![r] = Waiting]
  /\ UNCHANGED <<row, changed, seqno, lastSeq, log, failures>>

OutboxInit ==
  /\ row = [e \in Events |-> "absent"]
  /\ changed = {}
  /\ seqno = [e \in Events |-> 0]
  /\ lastSeq = 0
  /\ relay = [r \in Relays |-> Waiting]
  /\ log = <<>>
  /\ failures = [e \in Events |-> 0]
  /\ faults = 0

RelayStep(r) == ClaimOutbox(r) \/ PublishOK(r) \/ PublishFails(r) \/ Unclaim(r)

OutboxNext ==
  \/ \E e \in Events : AppendOutboxTx(e) \/ Commit(e) \/ Rollback(e)
  \/ \E r \in Relays : RelayStep(r) \/ ClaimUnread(r) \/ RelayCrash(r)

OutboxSpec == OutboxInit /\ [][OutboxNext]_outboxVars

-----------------------------------------------------------------------------
(* Properties.                                                             *)

OutboxTypeOK ==
  /\ row \in [Events -> {"absent", "inserted", "free", "stamped"}]
  /\ changed \subseteq Events
  /\ seqno \in [Events -> Nat] /\ lastSeq \in Nat
  /\ relay \in [Relays -> [pc : {"idle", "publish", "unclaim"},
                           claims : SUBSET Events, at : SUBSET Events]]
  /\ log \in Seq(Events)
  /\ failures \in [Events -> Nat]
  /\ faults \in Nat

Committed(e) == row[e] \in {"free", "stamped"}
Published(e) == e \in Range(log)
Copies(e) == Cardinality({i \in DOMAIN log : log[i] = e})

\* "Concurrent relays never double-publish": a second copy of an event is
\* on the topic only after a publish of it reported an error.
OneCopyPerClaim == \A e \in Events : Copies(e) <= 1 + failures[e]

\* Row and domain change stand or fall together: no event is on the topic,
\* or may come there, whose change was not made, and no change is without a
\* row, through rollbacks, claims, failed publishes and unclaims.
OnlyCommittedIsPublished ==
  /\ Range(log) \subseteq changed
  /\ \A e \in Events : Committed(e) <=> e \in changed

\* The topic has what was committed, one copy for each successful publish.
PublishedAsCommitted == OneCopyPerClaim /\ OnlyCommittedIsPublished

\* A row that is stamped although nobody will publish it: the relay that
\* claimed it crashed, lost the claim statement's rows or could not unclaim.
Forgotten(e) ==
  /\ row[e] = "stamped"
  /\ ~Published(e)
  /\ \A r \in Relays : e \notin relay[r].claims

\* The only way to lose an event is to be forgotten while stamped: every
\* other committed event reaches the topic, whatever fails on the way.
PublishedOrForgotten ==
  \A e \in Events : Committed(e) ~> Published(e) \/ Forgotten(e)

\* What the module says of itself: "a crash can never lose the event after
\* the state commit".
CommittedIsNeverLost == \A e \in Events : Committed(e) ~> Published(e)
=============================================================================
