--------------------------- MODULE RefundExecutor ---------------------------
(***************************************************************************)
(* RefundExecutor of services/settlement/app/refund_execution.py over the  *)
(* core ledger's REST routes (HTTPLedger): one refund, that is one         *)
(* (tin_hash, period, tax_type), executed and swept by several request     *)
(* threads of the settlement service.                                      *)
(*                                                                         *)
(* The store holds one execution record for the refund.  The ledger holds, *)
(* per attempt, the transfer with the deterministic id ref-pend:<rid>:<n>; *)
(* its post ref-post:<rid>:<n> exists just when that transfer is posted.   *)
(* A store access and a ledger call are one step each.                     *)
(***************************************************************************)
EXTENDS Integers, FiniteSets

CONSTANTS
  Workers,      \* request threads of the settlement service
  Amounts,      \* amounts a caller may ask for
  MaxAttempt,   \* bound on the attempt counter
  MaxLost       \* bound on the calls whose answer never arrives

ASSUME RefundAssumption ==
  /\ Amounts \subseteq Nat \ {0}
  /\ MaxAttempt \in Nat
  /\ MaxLost \in Nat

VARIABLES
  record,       \* store["refund_executions"][rid], or NoRecord
  hold,         \* attempt -> the ledger transfer ref-pend of that attempt
  inFlight,     \* calls the ledger may still receive; the caller gave up
  lost,         \* how many calls were given up so far
  worker,       \* thread -> where it is, the execution it holds, its result
  announced     \* nrs.refund.executed.v1 was appended to the outbox

vars == <<record, hold, inFlight, lost, worker, announced>>

Attempts == 0 .. MaxAttempt
Statuses == {"pending", "posted", "failed", "post_failed", "voided"}
Results == {"", "posted", "pending", "raised", "swept"}   \* how the last call ended
NoRecord == [status |-> "absent", attempt |-> 0, amount |-> 0]
NoHold == [stage |-> "none", amount |-> 0]

Execution(status, exe) == [status |-> status, attempt |-> exe.attempt, amount |-> exe.amount]
Idle(result) == [pc |-> "idle", attempt |-> 0, amount |-> 0, result |-> result]

At(w, pc) == worker[w].pc = pc
Ready(w) == worker[w] = Idle("")
Goto(w, pc) == worker' = [worker EXCEPT ![w].pc = pc]
Return(w, result) == worker' = [worker EXCEPT ![w] = Idle(result)]

-----------------------------------------------------------------------------
(* The ledger's routes, as Ledger.tla has them for one transfer: what a    *)
(* call is answered, and what it does.                                     *)

MkCall(op, exe) == [op |-> op, attempt |-> exe.attempt, amount |-> exe.amount]

\* create: 201, or 200 for an open pending with the same attributes.
\* post: 201, also when this post is already recorded.  void: 201.
Accepted(c) ==
  LET h == hold[c.attempt]
  IN  \/ c.op = "create" /\ (h.stage = "none" \/ (h.stage = "open" /\ h.amount = c.amount))
      \/ c.op = "post" /\ (h.stage = "posted" \/ (h.stage = "open" /\ c.amount <= h.amount))
      \/ c.op = "void" /\ h.stage = "open"

Outcome(c) ==
  CASE c.op = "create" -> [stage |-> "open", amount |-> c.amount]
    [] c.op = "post" -> [stage |-> "posted", amount |-> c.amount]
    [] c.op = "void" -> [hold[c.attempt] EXCEPT !.stage = "voided"]

Effect(c) ==
  IF Accepted(c) /\ hold[c.attempt].stage # "posted"
    THEN [hold EXCEPT ![c.attempt] = Outcome(c)] ELSE hold

\* _call: the answer arrives and the thread goes on at yes or at no ...
Answered(w, c, yes, no) ==
  /\ hold' = Effect(c)
  /\ worker' = [worker EXCEPT ![w].pc = IF Accepted(c) THEN yes ELSE no]
  /\ UNCHANGED <<inFlight, lost>>

\* ... or it never does: a refused connection, a timeout, a broken answer.
\* The thread sees an exception; the ledger may get the call later, or never.
\* (The second also stands for a ledger that declines for reasons of its own,
\* a treasury account without funds.)
GivenUp(w, c, no) ==
  /\ lost < MaxLost
  /\ lost' = lost + 1
  /\ inFlight' = inFlight \cup {c}
  /\ Goto(w, no)
  /\ UNCHANGED hold

LedgerCall(w, op, yes, no) ==
  LET c == MkCall(op, worker[w]) IN Answered(w, c, yes, no) \/ GivenUp(w, c, no)

Deliver(c) ==
  /\ c \in inFlight
  /\ hold' = Effect(c)
  /\ inFlight' = inFlight \ {c}
  /\ UNCHANGED <<record, lost, worker, announced>>

\* The ledger's sweeper voids a pending past REFUND_PENDING_TTL_SECONDS.
Expire(k) ==
  /\ hold[k].stage = "open"
  /\ hold' = [hold EXCEPT ![k].stage = "voided"]
  /\ UNCHANGED <<record, inFlight, lost, worker, announced>>

-----------------------------------------------------------------------------
(* execute.                                                                *)

\* Slip: every failure is retried under fresh ids.
FreshAttempt(r) == IF r.status \in {"post_failed", "failed"} THEN r.attempt + 1 ELSE 0

\* A voided pending's ids cannot be used again; all other retries reuse them.
NextAttempt(r) == IF r.status = "post_failed" THEN r.attempt + 1 ELSE 0

\* The stored execution is served, or conflicts with another amount.
Replay(w, amount) ==
  /\ Ready(w)
  /\ record.status \in {"posted", "pending"}
  /\ Return(w, IF record.amount = amount THEN record.status ELSE "raised")
  /\ UNCHANGED <<record, hold, inFlight, lost, announced>>

\* No payment source on file, a sanctions hit, no screening service, an
\* account that cannot be ensured: the call raises before any movement.
Refuse(w) ==
  /\ Ready(w)
  /\ Return(w, "raised")
  /\ UNCHANGED <<record, hold, inFlight, lost, announced>>

Execute(w, amount) ==
  /\ Ready(w)
  /\ record.status \notin {"posted", "pending"}
  /\ NextAttempt(record) <= MaxAttempt
  /\ worker' = [worker EXCEPT ![w] =
       [pc |-> "create", attempt |-> NextAttempt(record), amount |-> amount, result |-> ""]]
  /\ UNCHANGED <<record, hold, inFlight, lost, announced>>

CreatePending(w) ==
  /\ At(w, "create")
  /\ LedgerCall(w, "create", "save", "save_failed")
  /\ UNCHANGED <<record, announced>>

\* store.put of a copy of exe.
Put(status, w) == record' = Execution(status, worker[w])

SaveFailed(w) ==
  /\ At(w, "save_failed")
  /\ Put("failed", w)
  /\ Return(w, "raised")
  /\ UNCHANGED <<hold, inFlight, lost, announced>>

\* The single durable write that binds both transfer ids before the post.
SavePending(w) ==
  /\ At(w, "save")
  /\ Put("pending", w)
  /\ Goto(w, "post")
  /\ UNCHANGED <<hold, inFlight, lost, announced>>

-----------------------------------------------------------------------------
(* _finish.                                                                *)

PostPending(w) ==
  /\ At(w, "post")
  /\ LedgerCall(w, "post", "save_posted", "void")
  /\ UNCHANGED <<record, announced>>

\* The compensation; when the void itself raises, nothing more is written.
VoidPending(w) ==
  /\ At(w, "void")
  /\ LedgerCall(w, "void", "save_post_failed", "raise")
  /\ UNCHANGED <<record, announced>>

SavePostFailed(w) ==
  /\ At(w, "save_post_failed")
  /\ Put("post_failed", w)
  /\ Return(w, "raised")
  /\ UNCHANGED <<hold, inFlight, lost, announced>>

SavePosted(w) ==
  /\ At(w, "save_posted")
  /\ Put("posted", w)
  /\ Goto(w, "emit")
  /\ UNCHANGED <<hold, inFlight, lost, announced>>

Emit(w) ==
  /\ At(w, "emit")
  /\ announced' = TRUE
  /\ Return(w, "posted")
  /\ UNCHANGED <<record, hold, inFlight, lost>>

\* An exception leaves the thread, or the process ends: shared state stays.
Raise(w) ==
  /\ worker[w].pc # "idle"
  /\ Return(w, "raised")
  /\ UNCHANGED <<record, hold, inFlight, lost, announced>>

\* The caller takes the result.
Collect(w) ==
  /\ At(w, "idle")
  /\ Return(w, "")
  /\ UNCHANGED <<record, hold, inFlight, lost, announced>>

-----------------------------------------------------------------------------
(* sweep_pending.                                                          *)

BeginSweep(w) ==
  /\ Ready(w)
  /\ record.status = "pending"
  /\ worker' = [worker EXCEPT ![w] =
       [pc |-> "read_post", attempt |-> record.attempt, amount |-> record.amount, result |-> ""]]
  /\ UNCHANGED <<record, hold, inFlight, lost, announced>>

\* get_transfer turns every exception into None: a lookup that fails looks
\* like a transfer that is not there.
Reads == {"answered", "error"}

ReadPost(w, read) ==
  /\ At(w, "read_post")
  /\ Goto(w, IF read = "answered" /\ hold[worker[w].attempt].stage = "posted"
               THEN "mark_posted" ELSE "read_pend")
  /\ UNCHANGED <<record, hold, inFlight, lost, announced>>

\* Slip: a resolved pending is taken to be posted.
ReadPendResolved(w, read) ==
  /\ At(w, "read_pend")
  /\ LET stage == hold[worker[w].attempt].stage
     IN  Goto(w, CASE read = "error" -> "mark_voided"
                   [] stage = "open" -> "post"
                   [] OTHER -> "mark_posted")
  /\ UNCHANGED <<record, hold, inFlight, lost, announced>>

\* An open pending is finished, a posted one keeps pending = TRUE, anything
\* else counts as voided.
ReadPend(w, read) ==
  /\ At(w, "read_pend")
  /\ LET stage == IF read = "answered" THEN hold[worker[w].attempt].stage ELSE "none"
     IN  Goto(w, CASE stage = "open" -> "post"
                   [] stage = "posted" -> "mark_posted"
                   [] OTHER -> "mark_voided")
  /\ UNCHANGED <<record, hold, inFlight, lost, announced>>

\* The sweeper's own writes emit nothing.
MarkPosted(w) ==
  /\ At(w, "mark_posted")
  /\ Put("posted", w)
  /\ Return(w, "swept")
  /\ UNCHANGED <<hold, inFlight, lost, announced>>

MarkVoided(w) ==
  /\ At(w, "mark_voided")
  /\ Put("voided", w)
  /\ Return(w, "swept")
  /\ UNCHANGED <<hold, inFlight, lost, announced>>

-----------------------------------------------------------------------------
Init ==
  /\ record = NoRecord
  /\ hold = [k \in Attempts |-> NoHold]
  /\ inFlight = {}
  /\ lost = 0
  /\ worker = [w \in Workers |-> Idle("")]
  /\ announced = FALSE

\* What a thread inside execute or sweep_pending does next.
Running(w) ==
  \/ CreatePending(w) \/ SaveFailed(w) \/ SavePending(w)
  \/ PostPending(w) \/ VoidPending(w) \/ SavePostFailed(w) \/ SavePosted(w) \/ Emit(w)
  \/ Raise(w)
  \/ \E read \in Reads : ReadPost(w, read) \/ ReadPend(w, read)
  \/ MarkPosted(w) \/ MarkVoided(w)

LedgerStep ==
  \/ \E c \in inFlight : Deliver(c)
  \/ \E k \in Attempts : Expire(k)

Next ==
  \/ \E w \in Workers :
       \/ \E amount \in Amounts : Replay(w, amount) \/ Execute(w, amount)
       \/ Refuse(w)
       \/ BeginSweep(w)
       \/ Collect(w)
       \/ Running(w)
  \/ LedgerStep

Spec == Init /\ [][Next]_vars

-----------------------------------------------------------------------------
(* Properties.                                                             *)

PCs == {"idle", "create", "save", "save_failed", "post", "void", "raise",
        "save_post_failed", "save_posted", "emit", "read_post", "read_pend",
        "mark_posted", "mark_voided"}

TypeOK ==
  /\ record \in [status : Statuses \cup {"absent"}, attempt : Attempts, amount : Nat]
  /\ hold \in [Attempts -> [stage : {"none", "open", "posted", "voided"}, amount : Nat]]
  /\ inFlight \subseteq [op : {"create", "post", "void"}, attempt : Attempts, amount : Nat]
  /\ lost \in Nat
  /\ worker \in [Workers -> [pc : PCs, attempt : Attempts, amount : Nat,
                             result : Results]]
  /\ announced \in BOOLEAN

Live(k) == hold[k].stage \in {"open", "posted"}

\* One refund has at most one live hold on the treasury, reserved or paid,
\* over all its attempts: threads that execute and sweep it at the same time,
\* answers that never arrive, calls the ledger gets late, and expiry never
\* lead to a second attempt while an earlier one can still pay.
OneLiveAttempt == \A j, k \in Attempts : Live(j) /\ Live(k) => j = k

\* The attempts before k are closed for good.
ClosedBelow(k) == \A j \in Attempts : j < k => hold[j].stage = "voided"

\* Why: an attempt is begun only after every earlier one was voided, and
\* whoever holds an attempt number, a thread, the record or a late call,
\* holds one for which that is so.
AttemptsInTurn ==
  /\ \A k \in Attempts : hold[k].stage # "none" => ClosedBelow(k)
  /\ ClosedBelow(record.attempt)
  /\ record.status = "post_failed" => hold[record.attempt].stage = "voided"
  /\ \A w \in Workers :
       /\ ClosedBelow(worker[w].attempt)
       /\ At(w, "save_post_failed") => hold[worker[w].attempt].stage = "voided"
  /\ \A c \in inFlight : ClosedBelow(c.attempt)

RefundInv == TypeOK /\ OneLiveAttempt /\ AttemptsInTurn

\* Paid for this attempt and amount.
Paid(e) == hold[e.attempt] = [stage |-> "posted", amount |-> e.amount]

\* The record never claims more than the ledger did: "posted" only for an
\* attempt whose transfer is posted, in that amount, although the record was
\* read before the ledger was asked and other threads overwrite it;
\* "post_failed" only for one that is voided; and an event only for money
\* that moved.
RecordIsTrue ==
  /\ record.status = "posted" => Paid(record)
  /\ record.status = "post_failed" => hold[record.attempt].stage = "voided"
  /\ announced => \E k \in Attempts : hold[k].stage = "posted"

\* What the comment in sweep_pending says, "The money moved, so the refund is
\* posted - never mark it voided": a refund recorded as voided was not paid.
VoidedIsUnpaid ==
  record.status = "voided" => hold[record.attempt].stage # "posted"

\* What _emit says, "the event is written with the state change": once no
\* thread is at work, a posted refund has had its event.
PostedIsAnnounced ==
  (\A w \in Workers : At(w, "idle")) /\ record.status = "posted" => announced
=============================================================================
