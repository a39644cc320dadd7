---------------------------- MODULE RefundProofs ----------------------------
(***************************************************************************)
(* Proofs about RefundExecutor and RefundDesk, for any number of threads,  *)
(* attempts and lost calls: at most one attempt of a refund is live.  The  *)
(* argument: the ledger never changes a voided hold; an attempt number is  *)
(* handed out only when every smaller attempt is voided, and that stays    *)
(* so.  And what the refund's record says of its hold is so, since every   *)
(* thread that is about to write a result holds the outcome of that        *)
(* attempt.  The endpoints use the executor only as it is specified, so    *)
(* both hold of the desk.                                                  *)
(***************************************************************************)
EXTENDS RefundDesk, TLAPS

Calls == [op : {"create", "post", "void"}, attempt : Attempts, amount : Nat]
Holds == [stage : {"none", "open", "posted", "voided"}, amount : Nat]

\* The part of the invariant that speaks of the ledger alone.
HoldInv ==
  /\ hold \in [Attempts -> Holds]
  /\ OneLiveAttempt
  /\ \A k \in Attempts : hold[k].stage # "none" => ClosedBelow(k)

\* A step of the ledger keeps its part, and what was voided stays voided.
HoldStep ==
  /\ HoldInv'
  /\ \A j \in Attempts : hold[j].stage = "voided" => hold'[j].stage = "voided"

\* Attempt numbers are integers in a range.
LEMMA AttemptsAreIntegers == Attempts \subseteq Int /\ 0 \in Attempts
  BY RefundAssumption DEF Attempts

\* HTTPLedger's calls: whatever a call for an attempt in turn does to the
\* ledger, the attempts stay in turn.
LEMMA EffectKeepsHolds ==
  ASSUME HoldInv, NEW c \in Calls, ClosedBelow(c.attempt), hold' = Effect(c)
  PROVE  HoldStep
<1>1. CASE hold' = hold
  BY <1>1 DEF HoldInv, HoldStep, OneLiveAttempt, Live, ClosedBelow
<1>2. CASE /\ Accepted(c) /\ hold[c.attempt].stage # "posted"
           /\ hold' = [hold EXCEPT ![c.attempt] = Outcome(c)]
  <2> DEFINE k == c.attempt
  <2>1. k \in Attempts /\ c.amount \in Nat
    BY DEF Calls
  <2>2. hold[k] \in Holds /\ hold[k].stage \in {"none", "open"}
    BY <1>2, <2>1 DEF HoldInv, Holds, Accepted, Calls
  <2>3. /\ Outcome(c) \in Holds /\ Outcome(c).stage # "none"
        /\ Outcome(c).stage = "voided" => hold[k].stage = "open"
    BY <1>2, <2>1, <2>2 DEF Outcome, Holds, Accepted, Calls
  <2>4. hold' \in [Attempts -> Holds]
    BY <1>2, <2>1, <2>3 DEF HoldInv
  <2>5. hold'[k] = Outcome(c) /\ \A j \in Attempts : j # k => hold'[j] = hold[j]
    BY <1>2, <2>1 DEF HoldInv
  <2>6. \A j \in Attempts : hold[j].stage = "voided" => hold'[j].stage = "voided"
    BY <2>2, <2>5
  <2>7. \A j \in Attempts : j # k => ~Live(j)
    <3>1. SUFFICES ASSUME NEW j \in Attempts, j # k, Live(j) PROVE FALSE
      OBVIOUS
    <3>2. hold[j].stage # "none" /\ hold[j].stage # "voided"
      BY <3>1 DEF Live
    <3>3. j > k
      BY <3>1, <3>2, <2>1, AttemptsAreIntegers DEF ClosedBelow
    <3>4. hold[k].stage = "voided"
      BY <3>1, <3>2, <3>3, <2>1 DEF HoldInv, ClosedBelow
    <3>5. QED BY <3>4, <2>2
  <2>8. OneLiveAttempt'
    BY <2>5, <2>7 DEF OneLiveAttempt, Live
  <2>9. (\A j \in Attempts : hold[j].stage # "none" => ClosedBelow(j))'
    <3>1. SUFFICES ASSUME NEW j \in Attempts, hold'[j].stage # "none",
                          NEW i \in Attempts, i < j
                   PROVE  hold'[i].stage = "voided"
      BY DEF ClosedBelow
    <3>2. CASE j = k
      BY <3>1, <3>2, <2>6 DEF ClosedBelow
    <3>3. CASE j # k
      BY <3>1, <3>3, <2>5, <2>6 DEF HoldInv, ClosedBelow
    <3>4. QED BY <3>2, <3>3
  <2>10. QED BY <2>4, <2>6, <2>8, <2>9 DEF HoldStep, HoldInv
<1>3. QED BY <1>1, <1>2 DEF Effect

\* The expiry sweeper of the ledger keeps the attempts in turn as well.
LEMMA ExpireKeepsHolds ==
  ASSUME HoldInv, NEW k \in Attempts, Expire(k)
  PROVE  HoldStep
<1> DEFINE c == [op |-> "void", attempt |-> k, amount |-> 0]
<1>1. c \in Calls
  BY DEF Calls
<1>2. ClosedBelow(c.attempt)
  BY DEF Expire, HoldInv
<1>3. hold' = Effect(c)
  BY DEF Expire, Effect, Accepted, Outcome, HoldInv, Holds
<1>4. QED BY <1>1, <1>2, <1>3, EffectKeepsHolds

\* Everything but the ledger's own part: the attempt numbers in circulation.
NumbersInTurn ==
  /\ record \in [status : Statuses \cup {"absent"}, attempt : Attempts, amount : Nat]
  /\ inFlight \subseteq Calls
  /\ lost \in Nat
  /\ worker \in [Workers -> [pc : PCs, attempt : Attempts, amount : Nat, result : Results]]
  /\ announced \in BOOLEAN
  /\ ClosedBelow(record.attempt)
  /\ record.status = "post_failed" => hold[record.attempt].stage = "voided"
  /\ \A w \in Workers :
       /\ ClosedBelow(worker[w].attempt)
       /\ At(w, "save_post_failed") => hold[worker[w].attempt].stage = "voided"
  /\ \A c \in inFlight : ClosedBelow(c.attempt)

\* The two parts are the invariant.
LEMMA InvariantParts == RefundInv <=> HoldInv /\ NumbersInTurn
  BY DEF RefundInv, TypeOK, OneLiveAttempt, AttemptsInTurn, HoldInv, NumbersInTurn, Calls, Holds

\* A step of the ledger alone keeps the numbers in circulation in turn.
LEMMA NumbersSurvive ==
  ASSUME NumbersInTurn, HoldStep,
         record' = record, lost' \in Nat, announced' = announced,
         inFlight' \subseteq inFlight, worker' = worker
  PROVE  NumbersInTurn'
  BY DEF NumbersInTurn, HoldStep, ClosedBelow, At

\* Steps that leave the ledger alone leave its part alone.
LEMMA HoldsUntouched ==
  ASSUME HoldInv, UNCHANGED hold
  PROVE  HoldStep
  BY DEF HoldInv, HoldStep, OneLiveAttempt, Live, ClosedBelow

\* A ledger call of a thread, answered or given up: the thread keeps its
\* attempt, and only an answered void leads on to the post_failed record.
LEMMA CallKeepsInvariant ==
  ASSUME HoldInv, NumbersInTurn, NEW w \in Workers,
         NEW op \in {"create", "post", "void"}, NEW yes \in PCs, NEW no \in PCs,
         LedgerCall(w, op, yes, no), UNCHANGED <<record, announced>>,
         no # "save_post_failed",
         yes = "save_post_failed" => op = "void"
  PROVE  HoldInv' /\ NumbersInTurn'
<1> DEFINE c == MkCall(op, worker[w])
<1>1. c \in Calls /\ ClosedBelow(c.attempt) /\ c.attempt = worker[w].attempt /\ c.op = op
  BY DEF NumbersInTurn, MkCall, Calls
<1>2. CASE Answered(w, c, yes, no)
  <2>1. HoldStep
    BY <1>1, <1>2, EffectKeepsHolds DEF Answered
  <2>2. worker' = [worker EXCEPT ![w].pc = IF Accepted(c) THEN yes ELSE no]
    BY <1>2 DEF Answered
  <2>3. \A v \in Workers : worker'[v].attempt = worker[v].attempt
    BY <2>2 DEF NumbersInTurn
  <2>4. \A v \in Workers : v # w => worker'[v] = worker[v]
    BY <2>2 DEF NumbersInTurn
  <2>5. worker'[w].pc = "save_post_failed" => hold'[worker[w].attempt].stage = "voided"
    <3>1. SUFFICES ASSUME worker'[w].pc = "save_post_failed"
                   PROVE  hold'[worker[w].attempt].stage = "voided"
      OBVIOUS
    <3>2. Accepted(c) /\ op = "void"
      BY <3>1, <2>2 DEF NumbersInTurn
    <3>3. hold[c.attempt].stage = "open" /\ c.attempt \in Attempts
      BY <3>2, <1>1 DEF Accepted, Calls
    <3>4. hold' = [hold EXCEPT ![c.attempt] = [hold[c.attempt] EXCEPT !.stage = "voided"]]
      BY <3>2, <3>3, <1>1, <1>2 DEF Answered, Effect, Outcome
    <3>5. QED BY <3>3, <3>4, <1>1 DEF HoldInv, Holds
  <2>6. worker' \in [Workers -> [pc : PCs, attempt : Attempts, amount : Nat, result : Results]]
    BY <2>2 DEF NumbersInTurn
  <2>7. inFlight' = inFlight /\ lost' = lost
    BY <1>2 DEF Answered
  <2>8. NumbersInTurn'
    BY <2>1, <2>3, <2>4, <2>5, <2>6, <2>7 DEF NumbersInTurn, HoldStep, ClosedBelow, At
  <2>9. QED BY <2>1, <2>8 DEF HoldStep
<1>3. CASE GivenUp(w, c, no)
  <2>1. HoldStep
    BY <1>3, HoldsUntouched DEF GivenUp
  <2>2. worker' = [worker EXCEPT ![w].pc = no] /\ lost' \in Nat /\ inFlight' = inFlight \cup {c}
    BY <1>3 DEF GivenUp, Goto, NumbersInTurn
  <2>3. hold' = hold
    BY <1>3 DEF GivenUp
  <2>4. NumbersInTurn'
    BY <1>1, <2>2, <2>3 DEF NumbersInTurn, ClosedBelow, At
  <2>5. QED BY <2>1, <2>4 DEF HoldStep
<1>4. QED BY <1>2, <1>3 DEF LedgerCall

\* A step of one thread that touches neither the ledger nor the calls in
\* flight: it may write the record, under the attempt the thread holds, and
\* move on with that attempt or return.
LEMMA LocalStep ==
  ASSUME HoldInv, NumbersInTurn, NEW w \in Workers,
         UNCHANGED <<hold, inFlight, lost>>, announced' \in BOOLEAN,
         NEW r \in [pc : PCs, attempt : Attempts, amount : Nat, result : Results],
         worker' = [worker EXCEPT ![w] = r],
         ClosedBelow(r.attempt), r.pc # "save_post_failed",
         \/ record' = record
         \/ \E status \in Statuses :
              /\ record' = Execution(status, worker[w])
              /\ status = "post_failed" => At(w, "save_post_failed")
  PROVE  HoldInv' /\ NumbersInTurn'
<1>1. HoldStep
  BY HoldsUntouched
<1>2. worker' \in [Workers -> [pc : PCs, attempt : Attempts, amount : Nat, result : Results]]
  BY DEF NumbersInTurn
<1>3. \A v \in Workers : /\ ClosedBelow(worker'[v].attempt)
                         /\ worker'[v].pc = "save_post_failed" =>
                              hold[worker'[v].attempt].stage = "voided"
  BY DEF NumbersInTurn, At
<1>4. /\ record' \in [status : Statuses \cup {"absent"}, attempt : Attempts, amount : Nat]
      /\ ClosedBelow(record'.attempt)
      /\ record'.status = "post_failed" => hold[record'.attempt].stage = "voided"
  BY DEF NumbersInTurn, Execution, At, Statuses
<1>5. NumbersInTurn'
  BY <1>2, <1>3, <1>4 DEF NumbersInTurn, ClosedBelow, At
<1>6. QED BY <1>1, <1>5 DEF HoldStep

\* Nothing is below attempt 0.
LEMMA NothingBelowZero == ClosedBelow(0)
  BY AttemptsAreIntegers, RefundAssumption DEF ClosedBelow, Attempts

\* Returning to the caller.
LEMMA ReturnStep ==
  ASSUME HoldInv, NumbersInTurn, NEW w \in Workers, NEW result \in Results,
         UNCHANGED <<hold, inFlight, lost>>, announced' \in BOOLEAN, Return(w, result),
         \/ record' = record
         \/ \E status \in Statuses :
              Put(status, w) /\ (status = "post_failed" => At(w, "save_post_failed"))
  PROVE  HoldInv' /\ NumbersInTurn'
<1>1. Idle(result) \in [pc : PCs, attempt : Attempts, amount : Nat, result : Results]
  BY AttemptsAreIntegers DEF Idle, PCs
<1>2. ClosedBelow(Idle(result).attempt) /\ Idle(result).pc # "save_post_failed"
  BY NothingBelowZero DEF Idle
<1>3. QED BY <1>1, <1>2, LocalStep DEF Return, Put

\* Going on with the same attempt.
LEMMA GotoStep ==
  ASSUME HoldInv, NumbersInTurn, NEW w \in Workers, NEW pc \in PCs,
         UNCHANGED <<hold, inFlight, lost, announced>>, Goto(w, pc),
         pc # "save_post_failed",
         \/ record' = record
         \/ \E status \in Statuses \ {"post_failed"} : Put(status, w)
  PROVE  HoldInv' /\ NumbersInTurn'
<1> DEFINE r == [worker[w] EXCEPT !.pc = pc]
<1>1. /\ r \in [pc : PCs, attempt : Attempts, amount : Nat, result : Results]
      /\ r.attempt = worker[w].attempt /\ r.pc = pc
  BY DEF NumbersInTurn
<1>2. ClosedBelow(r.attempt)
  BY <1>1 DEF NumbersInTurn
<1>3. worker' = [worker EXCEPT ![w] = r]
  BY DEF Goto
<1>4. announced' \in BOOLEAN
  BY DEF NumbersInTurn
<1> HIDE DEF r
<1>5. QED BY <1>1, <1>2, <1>3, <1>4, LocalStep DEF Put

\* execute starts with an attempt that is in turn: attempt 0, or the one
\* after an attempt whose hold the compensation voided.
LEMMA NextAttemptInTurn ==
  ASSUME NumbersInTurn, NextAttempt(record) <= MaxAttempt
  PROVE  NextAttempt(record) \in Attempts /\ ClosedBelow(NextAttempt(record))
<1>1. CASE record.status = "post_failed"
  <2>1. NextAttempt(record) = record.attempt + 1 /\ record.attempt \in Attempts
    BY <1>1 DEF NextAttempt, NumbersInTurn
  <2>2. \A j \in Attempts : j < record.attempt + 1 => j < record.attempt \/ j = record.attempt
    BY <2>1, RefundAssumption DEF Attempts
  <2>3. QED BY <1>1, <2>1, <2>2, RefundAssumption DEF NumbersInTurn, ClosedBelow, Attempts
<1>2. CASE record.status # "post_failed"
  BY <1>2, NothingBelowZero, AttemptsAreIntegers DEF NextAttempt
<1>3. QED BY <1>1, <1>2

\* Every step of the executor and of the ledger keeps the invariant.
THEOREM RefundStep == RefundInv /\ [Next]_vars => RefundInv'
<1>1. SUFFICES ASSUME HoldInv, NumbersInTurn, [Next]_vars
               PROVE  HoldInv' /\ NumbersInTurn'
  BY InvariantParts DEF RefundInv, TypeOK, OneLiveAttempt, AttemptsInTurn, HoldInv,
     NumbersInTurn, Calls, Holds
<1> USE <1>1
<1>2. ASSUME NEW w \in Workers, NEW amount \in Amounts, Replay(w, amount)
      PROVE  HoldInv' /\ NumbersInTurn'
  <2>1. (IF record.amount = amount THEN record.status ELSE "raised") \in Results
    BY <1>2 DEF Replay, Results
  <2>2. QED BY <1>2, <2>1, ReturnStep DEF Replay, NumbersInTurn
<1>3. ASSUME NEW w \in Workers, Refuse(w) PROVE HoldInv' /\ NumbersInTurn'
  BY <1>3, ReturnStep DEF Refuse, NumbersInTurn, Results
<1>4. ASSUME NEW w \in Workers, NEW amount \in Amounts, Execute(w, amount)
      PROVE  HoldInv' /\ NumbersInTurn'
  <2> DEFINE r == [pc |-> "create", attempt |-> NextAttempt(record), amount |-> amount,
                   result |-> ""]
  <2>1. r \in [pc : PCs, attempt : Attempts, amount : Nat, result : Results]
    BY <1>4, NextAttemptInTurn, RefundAssumption DEF Execute, PCs, Results
  <2>2. ClosedBelow(r.attempt) /\ r.pc # "save_post_failed"
    BY <1>4, NextAttemptInTurn DEF Execute
  <2>3. announced' \in BOOLEAN
    BY <1>4 DEF Execute, NumbersInTurn
  <2>4. QED BY <1>4, <2>1, <2>2, <2>3, LocalStep DEF Execute
<1>5. ASSUME NEW w \in Workers, BeginSweep(w) PROVE HoldInv' /\ NumbersInTurn'
  <2> DEFINE r == [pc |-> "read_post", attempt |-> record.attempt, amount |-> record.amount,
                   result |-> ""]
  <2>1. r \in [pc : PCs, attempt : Attempts, amount : Nat, result : Results]
    BY DEF NumbersInTurn, PCs, Results
  <2>2. ClosedBelow(r.attempt) /\ r.pc # "save_post_failed"
    BY DEF NumbersInTurn
  <2>3. announced' \in BOOLEAN
    BY <1>5 DEF BeginSweep, NumbersInTurn
  <2>4. QED BY <1>5, <2>1, <2>2, <2>3, LocalStep DEF BeginSweep
<1>6. ASSUME NEW w \in Workers, Collect(w) PROVE HoldInv' /\ NumbersInTurn'
  BY <1>6, ReturnStep DEF Collect, NumbersInTurn, Results
<1>7. ASSUME NEW w \in Workers, Running(w) PROVE HoldInv' /\ NumbersInTurn'
  <2>1. CASE CreatePending(w)
    BY <2>1, CallKeepsInvariant DEF CreatePending, PCs
  <2>2. CASE SaveFailed(w)
    BY <2>2, ReturnStep DEF SaveFailed, NumbersInTurn, Results, Statuses
  <2>3. CASE SavePending(w)
    BY <2>3, GotoStep DEF SavePending, PCs, Statuses
  <2>4. CASE PostPending(w)
    BY <2>4, CallKeepsInvariant DEF PostPending, PCs
  <2>5. CASE VoidPending(w)
    BY <2>5, CallKeepsInvariant DEF VoidPending, PCs
  <2>6. CASE SavePostFailed(w)
    BY <2>6, ReturnStep DEF SavePostFailed, NumbersInTurn, Results, Statuses
  <2>7. CASE SavePosted(w)
    BY <2>7, GotoStep DEF SavePosted, PCs, Statuses
  <2>8. CASE Emit(w)
    BY <2>8, ReturnStep DEF Emit, Results
  <2>9. CASE Raise(w)
    BY <2>9, ReturnStep DEF Raise, NumbersInTurn, Results
  <2>10. ASSUME NEW read \in Reads, ReadPost(w, read) PROVE HoldInv' /\ NumbersInTurn'
    <3> DEFINE pc == IF read = "answered" /\ hold[worker[w].attempt].stage = "posted"
                       THEN "mark_posted" ELSE "read_pend"
    <3>1. pc \in PCs /\ pc # "save_post_failed"
      BY DEF PCs
    <3>2. QED BY <2>10, <3>1, GotoStep DEF ReadPost
  <2>11. ASSUME NEW read \in Reads, ReadPend(w, read) PROVE HoldInv' /\ NumbersInTurn'
    <3>1. PICK pc \in {"post", "mark_posted", "mark_voided"} : Goto(w, pc)
      BY <2>11 DEF ReadPend
    <3>2. QED BY <2>11, <3>1, GotoStep DEF ReadPend, PCs
  <2>12. CASE MarkPosted(w)
    BY <2>12, ReturnStep DEF MarkPosted, NumbersInTurn, Results, Statuses
  <2>13. CASE MarkVoided(w)
    BY <2>13, ReturnStep DEF MarkVoided, NumbersInTurn, Results, Statuses
  <2>14. QED
    BY <1>7, <2>1, <2>2, <2>3, <2>4, <2>5, <2>6, <2>7, <2>8, <2>9, <2>10, <2>11, <2>12, <2>13
       DEF Running
<1>8. ASSUME NEW c \in inFlight, Deliver(c) PROVE HoldInv' /\ NumbersInTurn'
  <2>1. c \in Calls /\ ClosedBelow(c.attempt)
    BY DEF NumbersInTurn
  <2>2. HoldStep
    BY <1>8, <2>1, EffectKeepsHolds DEF Deliver
  <2>3. QED BY <1>8, <2>2, NumbersSurvive DEF Deliver, NumbersInTurn, HoldStep
<1>9. ASSUME NEW k \in Attempts, Expire(k) PROVE HoldInv' /\ NumbersInTurn'
  <2>1. HoldStep
    BY <1>9, ExpireKeepsHolds
  <2>2. QED BY <1>9, <2>1, NumbersSurvive DEF Expire, NumbersInTurn, HoldStep
<1>10. CASE UNCHANGED vars
  BY <1>10, HoldsUntouched, NumbersSurvive DEF vars, NumbersInTurn, HoldStep
<1>11. QED
  BY <1>2, <1>3, <1>4, <1>5, <1>6, <1>7, <1>8, <1>9, <1>10 DEF Next, LedgerStep

\* The executor starts with no attempt in circulation.
THEOREM RefundInit == Init => RefundInv
<1>1. SUFFICES ASSUME Init PROVE RefundInv
  OBVIOUS
<1>2. HoldInv
  BY <1>1 DEF Init, HoldInv, Holds, NoHold, OneLiveAttempt, Live, ClosedBelow
<1>3. NumbersInTurn
  BY <1>1, NothingBelowZero, AttemptsAreIntegers
     DEF Init, NumbersInTurn, NoRecord, Idle, PCs, Results, At
<1>4. QED BY <1>2, <1>3, InvariantParts

\* RefundInv, the inductive strengthening of OneLiveAttempt with the type
\* invariant, holds throughout.
THEOREM RefundInvariant == Spec => []RefundInv
  BY RefundInit, RefundStep, PTL DEF Spec

\* A refund never has two live holds on the treasury: it is paid at most once
\* and never reserved again while it may still be paid, whatever threads,
\* lost answers, late calls and expiry do.
THEOREM PaidAtMostOnce == Spec => []OneLiveAttempt
<1>1. RefundInv => OneLiveAttempt
  BY DEF RefundInv
<1>2. QED BY <1>1, RefundInvariant, PTL

-----------------------------------------------------------------------------
(* The record tells the truth.  The argument: once a hold is made for an   *)
(* attempt its amount is fixed, and once it is posted it never changes;    *)
(* whoever passed the create call holds the amount the ledger agreed to,   *)
(* so what was read before a ledger call is still right after it.          *)

\* The ledger has made the hold of this attempt, in this amount.
Bound(e) == hold[e.attempt].stage # "none" /\ hold[e.attempt].amount = e.amount

\* Where a thread is past an accepted create, and past an accepted post.
BoundPCs == {"save", "post", "void", "save_post_failed", "save_posted", "emit",
             "read_post", "read_pend", "mark_posted", "mark_voided"}
PaidPCs == {"save_posted", "emit", "mark_posted"}

\* What the record, the threads and the late posts rely on.
AgreedInv ==
  /\ record.status = "pending" => Bound(record)
  /\ record.status = "posted" => Paid(record)
  /\ \A w \in Workers :
       /\ worker[w].pc \in BoundPCs => Bound(worker[w])
       /\ worker[w].pc \in PaidPCs => Paid(worker[w])
  /\ \A c \in inFlight : c.op = "post" => Bound(c)
  /\ announced => \E k \in Attempts : hold[k].stage = "posted"

\* What no ledger step takes back: a hold keeps its amount, a posted one
\* everything.
HoldsKept ==
  \A k \in Attempts :
    /\ hold[k].stage # "none" =>
         hold'[k].stage # "none" /\ hold'[k].amount = hold[k].amount
    /\ hold[k].stage = "posted" => hold'[k] = hold[k]

\* Steps that leave the ledger alone keep the holds.
LEMMA UntouchedHoldsKept == ASSUME UNCHANGED hold PROVE HoldsKept
  BY DEF HoldsKept

\* HTTPLedger's calls keep the holds, when posts are for the agreed amount.
LEMMA EffectKeepsAmounts ==
  ASSUME HoldInv, NEW c \in Calls, c.op = "post" => Bound(c), hold' = Effect(c)
  PROVE  HoldsKept
<1>1. CASE hold' = hold
  BY <1>1, UntouchedHoldsKept
<1>2. CASE /\ Accepted(c) /\ hold[c.attempt].stage # "posted"
           /\ hold' = [hold EXCEPT ![c.attempt] = Outcome(c)]
  <2>1. c.attempt \in Attempts /\ hold[c.attempt] \in Holds
    BY DEF Calls, HoldInv
  <2>2. /\ Outcome(c).stage # "none"
        /\ hold[c.attempt].stage # "none" => Outcome(c).amount = hold[c.attempt].amount
    BY <1>2, <2>1 DEF Accepted, Outcome, Bound, Calls, Holds
  <2>3. hold'[c.attempt] = Outcome(c) /\ \A j \in Attempts : j # c.attempt => hold'[j] = hold[j]
    BY <1>2, <2>1 DEF HoldInv
  <2> QED BY <1>2, <2>2, <2>3 DEF HoldsKept
<1> QED BY <1>1, <1>2 DEF Effect

\* The ledger's sweeper keeps the amounts.
LEMMA ExpireKeepsAmounts ==
  ASSUME HoldInv, NEW k \in Attempts, Expire(k)
  PROVE  HoldsKept
  BY DEF HoldInv, Holds, Expire, HoldsKept

\* A ledger step takes nothing from who stands still.
LEMMA AgreementSurvives ==
  ASSUME NumbersInTurn, AgreedInv, HoldInv, HoldsKept,
         record' = record, announced' = announced,
         inFlight' \subseteq inFlight, worker' = worker
  PROVE  AgreedInv'
<1>1. \A e : e.attempt \in Attempts /\ Bound(e) => Bound(e)'
  BY DEF HoldsKept, Bound
<1> QED BY DEF NumbersInTurn, AgreedInv, HoldsKept, Bound, Paid, Calls

\* What a step of one thread must bring: the record it writes and the place
\* it goes to are covered by the ledger as the step leaves it.
LEMMA ThreadAgrees ==
  ASSUME NumbersInTurn, AgreedInv, HoldsKept, NEW w \in Workers,
         NEW r, worker' = [worker EXCEPT ![w] = r],
         r.pc \in BoundPCs =>
           hold'[r.attempt].stage # "none" /\ hold'[r.attempt].amount = r.amount,
         r.pc \in PaidPCs => hold'[r.attempt] = [stage |-> "posted", amount |-> r.amount],
         \/ record' = record
         \/ /\ record'.status = "pending" => Bound(record)'
            /\ record'.status = "posted" => Paid(record)',
         \A c \in inFlight' : c \in inFlight \/ (c.op = "post" => Bound(c)'),
         announced' => announced \/ \E k \in Attempts : hold'[k].stage = "posted"
  PROVE  AgreedInv'
<1>1. /\ record'.status = "pending" => Bound(record)'
      /\ record'.status = "posted" => Paid(record)'
  BY DEF NumbersInTurn, AgreedInv, HoldsKept, Bound, Paid
<1>2. ASSUME NEW v \in Workers
      PROVE  /\ worker'[v].pc \in BoundPCs => Bound(worker[v])'
             /\ worker'[v].pc \in PaidPCs => Paid(worker[v])'
  <2>1. CASE v = w
    BY <2>1 DEF NumbersInTurn, Bound, Paid
  <2>2. CASE v # w
    BY <2>2 DEF NumbersInTurn, AgreedInv, HoldsKept, Bound, Paid
  <2> QED BY <2>1, <2>2
<1>3. \A c \in inFlight' : c.op = "post" => Bound(c)'
  BY DEF NumbersInTurn, AgreedInv, HoldsKept, Bound, Calls
<1>4. announced' => \E k \in Attempts : hold'[k].stage = "posted"
  BY DEF AgreedInv, HoldsKept
<1> QED BY <1>1, <1>2, <1>3, <1>4 DEF AgreedInv

\* A step of one thread that calls nobody.
LEMMA QuietThreadAgrees ==
  ASSUME NumbersInTurn, AgreedInv, NEW w \in Workers,
         UNCHANGED <<hold, inFlight>>,
         NEW r, worker' = [worker EXCEPT ![w] = r],
         r.pc \in BoundPCs => Bound(r), r.pc \in PaidPCs => Paid(r),
         \/ record' = record
         \/ \E status \in Statuses :
              /\ record' = Execution(status, worker[w])
              /\ status = "pending" => Bound(worker[w])
              /\ status = "posted" => Paid(worker[w]),
         announced' => announced \/ Paid(worker[w])
  PROVE  AgreedInv'
<1>1. HoldsKept
  BY UntouchedHoldsKept
<1>2. \/ record' = record
      \/ /\ record'.status = "pending" => Bound(record)'
         /\ record'.status = "posted" => Paid(record)'
  BY DEF Execution, Bound, Paid
<1>3. announced' => announced \/ \E k \in Attempts : hold'[k].stage = "posted"
  BY DEF Paid, NumbersInTurn
<1> QED BY <1>1, <1>2, <1>3, ThreadAgrees DEF Bound, Paid

\* Returning: nothing is held any more.
LEMMA ReturnAgrees ==
  ASSUME NumbersInTurn, AgreedInv, NEW w \in Workers, NEW result,
         UNCHANGED <<hold, inFlight>>, Return(w, result),
         \/ record' = record
         \/ \E status \in Statuses :
              /\ Put(status, w)
              /\ status = "pending" => Bound(worker[w])
              /\ status = "posted" => Paid(worker[w]),
         announced' => announced \/ Paid(worker[w])
  PROVE  AgreedInv'
<1>1. Idle(result).pc \notin BoundPCs /\ Idle(result).pc \notin PaidPCs
  BY DEF Idle, BoundPCs, PaidPCs
<1>2. worker' = [worker EXCEPT ![w] = Idle(result)]
  BY DEF Return
<1> QED BY <1>1, <1>2, QuietThreadAgrees DEF Put

\* Going on with the same execution.
LEMMA GotoAgrees ==
  ASSUME NumbersInTurn, AgreedInv, NEW w \in Workers, NEW pc,
         UNCHANGED <<hold, inFlight, announced>>, Goto(w, pc),
         Bound(worker[w]), pc \in PaidPCs => Paid(worker[w]),
         \/ record' = record
         \/ \E status \in Statuses :
              Put(status, w) /\ (status = "posted" => Paid(worker[w]))
  PROVE  AgreedInv'
<1> DEFINE r == [worker[w] EXCEPT !.pc = pc]
<1>1. r.attempt = worker[w].attempt /\ r.amount = worker[w].amount /\ r.pc = pc
  BY DEF NumbersInTurn
<1>2. worker' = [worker EXCEPT ![w] = r]
  BY DEF Goto
<1>3. Bound(r) /\ (r.pc \in PaidPCs => Paid(r))
  BY <1>1 DEF Bound, Paid
<1> HIDE DEF r
<1> QED BY <1>2, <1>3, QuietThreadAgrees DEF Put

\* A ledger call of a thread.  create: an accepted one binds.  post: an
\* accepted one pays what was bound, also when it was posted before.
LEMMA CallAgrees ==
  ASSUME HoldInv, NumbersInTurn, AgreedInv, NEW w \in Workers,
         NEW op \in {"create", "post", "void"}, NEW yes, NEW no,
         LedgerCall(w, op, yes, no), UNCHANGED <<record, announced>>,
         op # "create" => Bound(worker[w]),
         op = "create" => no \notin BoundPCs,
         yes \in PaidPCs => op = "post", no \notin PaidPCs
  PROVE  AgreedInv'
<1> DEFINE c == MkCall(op, worker[w])
<1>1. /\ c \in Calls /\ c.op = op
      /\ c.attempt = worker[w].attempt /\ c.amount = worker[w].amount
      /\ c.attempt \in Attempts
  BY DEF NumbersInTurn, MkCall, Calls
<1>2. op # "create" => Bound(c)
  BY <1>1 DEF Bound
<1>3. CASE Answered(w, c, yes, no)
  <2>1. hold' = Effect(c)
    BY <1>3 DEF Answered
  <2>2. HoldsKept
    BY <1>1, <1>2, <2>1, EffectKeepsAmounts
  <2>3. PICK r : /\ worker' = [worker EXCEPT ![w] = r]
                 /\ r = [worker[w] EXCEPT !.pc = IF Accepted(c) THEN yes ELSE no]
    BY <1>3 DEF Answered
  <2>4. /\ r.attempt = c.attempt /\ r.amount = c.amount
        /\ r.pc = IF Accepted(c) THEN yes ELSE no
    BY <1>1, <2>3 DEF NumbersInTurn
  <2>5. ASSUME op = "create", Accepted(c)
        PROVE  hold'[c.attempt].stage # "none" /\ hold'[c.attempt].amount = c.amount
    <3>1. hold' = [hold EXCEPT ![c.attempt] = [stage |-> "open", amount |-> c.amount]]
      BY <1>1, <2>1, <2>5 DEF Effect, Accepted, Outcome
    <3> QED BY <1>1, <3>1 DEF HoldInv
  <2>6. r.pc \in BoundPCs =>
          hold'[r.attempt].stage # "none" /\ hold'[r.attempt].amount = r.amount
    BY <1>1, <1>2, <2>2, <2>4, <2>5 DEF HoldsKept, Bound
  <2>7. ASSUME op = "post", Accepted(c)
        PROVE  hold'[c.attempt] = [stage |-> "posted", amount |-> c.amount]
    <3>1. CASE hold[c.attempt].stage = "posted"
      BY <1>1, <1>2, <2>2, <2>7, <3>1 DEF HoldsKept, Bound, HoldInv, Holds
    <3>2. CASE hold[c.attempt].stage # "posted"
      <4>1. hold' = [hold EXCEPT ![c.attempt] = [stage |-> "posted", amount |-> c.amount]]
        BY <1>1, <2>1, <2>7, <3>2 DEF Effect, Outcome
      <4> QED BY <1>1, <4>1 DEF HoldInv
    <3> QED BY <3>1, <3>2
  <2>8. r.pc \in PaidPCs => hold'[r.attempt] = [stage |-> "posted", amount |-> r.amount]
    BY <2>4, <2>7
  <2>9. inFlight' = inFlight
    BY <1>3 DEF Answered
  <2> HIDE DEF c
  <2> QED BY <2>2, <2>3, <2>6, <2>8, <2>9, ThreadAgrees
<1>4. CASE GivenUp(w, c, no)
  <2>1. HoldsKept /\ hold' = hold /\ inFlight' = inFlight \cup {c}
    BY <1>4, UntouchedHoldsKept DEF GivenUp
  <2>2. PICK r : worker' = [worker EXCEPT ![w] = r] /\ r = [worker[w] EXCEPT !.pc = no]
    BY <1>4 DEF GivenUp, Goto
  <2>3. r.attempt = c.attempt /\ r.amount = c.amount /\ r.pc = no
    BY <1>1, <2>2 DEF NumbersInTurn
  <2>4. r.pc \in BoundPCs =>
          hold'[r.attempt].stage # "none" /\ hold'[r.attempt].amount = r.amount
    BY <1>2, <2>1, <2>3 DEF Bound
  <2>5. PICK d : d = c
    OBVIOUS
  <2>6. \A e \in inFlight' : e \in inFlight \/ (e.op = "post" => Bound(e)')
    <3>1. d.op = "post" => hold'[d.attempt].stage # "none" /\ hold'[d.attempt].amount = d.amount
      BY <1>1, <1>2, <2>1, <2>5 DEF Bound
    <3> QED BY <2>1, <2>5, <3>1 DEF Bound
  <2> HIDE DEF c
  <2> QED BY <2>1, <2>2, <2>3, <2>4, <2>6, ThreadAgrees
<1> QED BY <1>3, <1>4 DEF LedgerCall

\* Every step of the executor and of the ledger keeps the agreement.
THEOREM AgreementStep == RefundInv /\ AgreedInv /\ [Next]_vars => AgreedInv'
<1>1. SUFFICES ASSUME HoldInv, NumbersInTurn, AgreedInv, [Next]_vars
               PROVE  AgreedInv'
  BY InvariantParts
<1> USE <1>1
<1>2. ASSUME NEW w \in Workers, NEW amount \in Amounts, Replay(w, amount) PROVE AgreedInv'
  BY <1>2, ReturnAgrees DEF Replay
<1>3. ASSUME NEW w \in Workers, Refuse(w) PROVE AgreedInv'
  BY <1>3, ReturnAgrees DEF Refuse
<1>4. ASSUME NEW w \in Workers, NEW amount \in Amounts, Execute(w, amount) PROVE AgreedInv'
  <2> DEFINE r == [pc |-> "create", attempt |-> NextAttempt(record), amount |-> amount,
                   result |-> ""]
  <2>1. r.pc \notin BoundPCs /\ r.pc \notin PaidPCs
    BY DEF BoundPCs, PaidPCs
  <2>2. worker' = [worker EXCEPT ![w] = r]
    BY <1>4 DEF Execute
  <2> HIDE DEF r
  <2> QED BY <1>4, <2>1, <2>2, QuietThreadAgrees DEF Execute
<1>5. ASSUME NEW w \in Workers, BeginSweep(w) PROVE AgreedInv'
  <2> DEFINE r == [pc |-> "read_post", attempt |-> record.attempt, amount |-> record.amount,
                   result |-> ""]
  <2>1. Bound(r) /\ r.pc \notin PaidPCs
    BY <1>5 DEF BeginSweep, AgreedInv, Bound, PaidPCs
  <2>2. worker' = [worker EXCEPT ![w] = r]
    BY <1>5 DEF BeginSweep
  <2> HIDE DEF r
  <2> QED BY <1>5, <2>1, <2>2, QuietThreadAgrees DEF BeginSweep
<1>6. ASSUME NEW w \in Workers, Collect(w) PROVE AgreedInv'
  BY <1>6, ReturnAgrees DEF Collect
<1>7. ASSUME NEW w \in Workers, Running(w) PROVE AgreedInv'
  <2>1. CASE CreatePending(w)
    BY <2>1, CallAgrees DEF CreatePending, BoundPCs, PaidPCs
  <2>2. CASE SaveFailed(w)
    BY <2>2, ReturnAgrees DEF SaveFailed, Statuses
  <2>3. CASE SavePending(w)
    <3>1. Bound(worker[w]) /\ "post" \notin PaidPCs
      BY <2>3 DEF SavePending, At, AgreedInv, BoundPCs, PaidPCs
    <3> QED BY <2>3, <3>1, GotoAgrees DEF SavePending, Statuses
  <2>4. CASE PostPending(w)
    <3>1. Bound(worker[w]) /\ "void" \notin PaidPCs
      BY <2>4 DEF PostPending, At, AgreedInv, BoundPCs, PaidPCs
    <3> QED BY <2>4, <3>1, CallAgrees DEF PostPending
  <2>5. CASE VoidPending(w)
    <3>1. Bound(worker[w]) /\ "save_post_failed" \notin PaidPCs /\ "raise" \notin PaidPCs
      BY <2>5 DEF VoidPending, At, AgreedInv, BoundPCs, PaidPCs
    <3> QED BY <2>5, <3>1, CallAgrees DEF VoidPending
  <2>6. CASE SavePostFailed(w)
    BY <2>6, ReturnAgrees DEF SavePostFailed, Statuses
  <2>7. CASE SavePosted(w)
    <3>1. Bound(worker[w]) /\ Paid(worker[w])
      BY <2>7 DEF SavePosted, At, AgreedInv, BoundPCs, PaidPCs
    <3> QED BY <2>7, <3>1, GotoAgrees DEF SavePosted, Statuses
  <2>8. CASE Emit(w)
    <3>1. Paid(worker[w])
      BY <2>8 DEF Emit, At, AgreedInv, PaidPCs
    <3> QED BY <2>8, <3>1, ReturnAgrees DEF Emit
  <2>9. CASE Raise(w)
    BY <2>9, ReturnAgrees DEF Raise
  <2>10. ASSUME NEW read \in Reads, ReadPost(w, read) PROVE AgreedInv'
    <3>1. Bound(worker[w]) /\ worker[w].attempt \in Attempts
      BY <2>10 DEF ReadPost, At, AgreedInv, BoundPCs, NumbersInTurn
    <3>2. hold[worker[w].attempt].stage = "posted" => Paid(worker[w])
      BY <3>1 DEF Bound, Paid, HoldInv, Holds
    <3>3. PICK pc : Goto(w, pc) /\ (pc \in PaidPCs => hold[worker[w].attempt].stage = "posted")
      BY <2>10 DEF ReadPost, PaidPCs
    <3> QED BY <2>10, <3>1, <3>2, <3>3, GotoAgrees DEF ReadPost
  <2>11. ASSUME NEW read \in Reads, ReadPend(w, read) PROVE AgreedInv'
    <3>1. Bound(worker[w]) /\ worker[w].attempt \in Attempts
      BY <2>11 DEF ReadPend, At, AgreedInv, BoundPCs, NumbersInTurn
    <3>2. hold[worker[w].attempt].stage = "posted" => Paid(worker[w])
      BY <3>1 DEF Bound, Paid, HoldInv, Holds
    <3>3. PICK pc : Goto(w, pc) /\ (pc \in PaidPCs => hold[worker[w].attempt].stage = "posted")
      BY <2>11 DEF ReadPend, PaidPCs
    <3> QED BY <2>11, <3>1, <3>2, <3>3, GotoAgrees DEF ReadPend
  <2>12. CASE MarkPosted(w)
    <3>1. Paid(worker[w])
      BY <2>12 DEF MarkPosted, At, AgreedInv, PaidPCs
    <3> QED BY <2>12, <3>1, ReturnAgrees DEF MarkPosted, Statuses
  <2>13. CASE MarkVoided(w)
    BY <2>13, ReturnAgrees DEF MarkVoided, Statuses
  <2>14. QED
    BY <1>7, <2>1, <2>2, <2>3, <2>4, <2>5, <2>6, <2>7, <2>8, <2>9, <2>10, <2>11, <2>12, <2>13
       DEF Running
<1>8. ASSUME NEW c \in inFlight, Deliver(c) PROVE AgreedInv'
  <2>1. c \in Calls /\ (c.op = "post" => Bound(c))
    BY DEF NumbersInTurn, AgreedInv
  <2>2. HoldsKept
    BY <1>8, <2>1, EffectKeepsAmounts DEF Deliver
  <2> QED BY <1>8, <2>2, AgreementSurvives DEF Deliver
<1>9. ASSUME NEW k \in Attempts, Expire(k) PROVE AgreedInv'
  BY <1>9, ExpireKeepsAmounts, AgreementSurvives DEF Expire
<1>10. CASE UNCHANGED vars
  BY <1>10, UntouchedHoldsKept, AgreementSurvives DEF vars
<1> QED
  BY <1>2, <1>3, <1>4, <1>5, <1>6, <1>7, <1>8, <1>9, <1>10 DEF Next, LedgerStep

\* The agreement holds throughout.
THEOREM AgreementHolds == Spec => []AgreedInv
<1>1. Init => AgreedInv
  <2>1. SUFFICES ASSUME Init PROVE AgreedInv
    OBVIOUS
  <2>2. record.status = "absent" /\ inFlight = {} /\ announced = FALSE
    BY <2>1 DEF Init, NoRecord
  <2>3. \A w \in Workers : worker[w].pc = "idle"
    BY <2>1 DEF Init, Idle
  <2>4. "idle" \notin BoundPCs /\ "idle" \notin PaidPCs
    BY DEF BoundPCs, PaidPCs
  <2> QED BY <2>2, <2>3, <2>4 DEF AgreedInv
<1> QED BY <1>1, AgreementStep, RefundInvariant, PTL DEF Spec

\* RefundExecutor's record never claims more than the ledger did: "posted"
\* means the attempt's transfer is posted in the recorded amount,
\* "post_failed" that it is voided, and an event that money moved, however
\* threads that execute and sweep the refund overwrite each other's record.
THEOREM RecordTells == Spec => []RecordIsTrue
<1>1. RefundInv /\ AgreedInv => RecordIsTrue
  BY DEF RefundInv, AttemptsInTurn, AgreedInv, RecordIsTrue
<1> QED BY <1>1, RefundInvariant, AgreementHolds, PTL

-----------------------------------------------------------------------------
(* The endpoints.                                                          *)

\* A decision document, or the one that stands for none.
Document(doc) ==
  doc = [lane |-> doc.lane, status |-> doc.status, execution |-> doc.execution,
         amount |-> doc.amount, aged |-> doc.aged]

Priced(doc) == Document(doc) /\ (doc.lane # "none" => doc.amount \in Amounts)

\* What the endpoints hand to the executor was read from a decision.
DeskInv ==
  /\ Priced(decision)
  /\ desk = [w \in Workers |-> desk[w]]
  /\ \A w \in Workers :
       /\ Priced(desk[w].doc)
       /\ Serving(w, {"find", "auto", "replay", "approve"}) => desk[w].doc.lane # "none"

\* No decision, and a new one.
LEMMA NewDocuments ==
  /\ Priced(NoDecision)
  /\ \A lane \in Lanes, amount \in Amounts : Priced(NewDecision(lane, amount))
BY DEF Priced, Document, NoDecision, NewDecision, Lanes

\* Status, execution and age of a document may change.
LEMMA DocumentUpdate ==
  ASSUME NEW doc, Priced(doc), NEW v
  PROVE  /\ Priced([doc EXCEPT !.status = v])
         /\ Priced([doc EXCEPT !.execution = v])
         /\ Priced([doc EXCEPT !.aged = v])
<1>1. Priced([doc EXCEPT !.status = v])
  BY DEF Priced, Document
<1>2. Priced([doc EXCEPT !.execution = v])
  BY DEF Priced, Document
<1>3. Priced([doc EXCEPT !.aged = v])
  BY DEF Priced, Document
<1> QED BY <1>1, <1>2, <1>3

\* A thread takes up a request for a document.
LEMMA TakeUp ==
  ASSUME DeskInv, NEW w \in Workers, NEW task, NEW doc, Priced(doc),
         task \in {"find", "auto", "replay", "approve"} => doc.lane # "none",
         desk' = [desk EXCEPT ![w] = [task |-> task, doc |-> doc]],
         Priced(decision')
  PROVE  DeskInv'
BY DEF DeskInv, Priced, Serving

\* One step of the desk is a step of the executor or leaves it alone, and the
\* documents stay documents.
LEMMA DeskStep ==
  ASSUME RefundInv, DeskInv, [DeskNext]_allVars
  PROVE  [Next]_vars /\ DeskInv'
<1>1. ASSUME UNCHANGED deskVars PROVE DeskInv'
  BY <1>1 DEF deskVars, DeskInv, Serving, Priced
<1>2. Priced(NoDecision) /\ Priced(decision) /\ \A w \in Workers : Priced(desk[w].doc)
  BY NewDocuments DEF DeskInv
<1>3. ASSUME NEW w \in Workers, desk' = [desk EXCEPT ![w] = Free], Priced(decision')
      PROVE  DeskInv'
  <2>1. "none" \notin {"find", "auto", "replay", "approve"}
    OBVIOUS
  <2> QED BY <1>2, <1>3, <2>1, TakeUp DEF Free
<1>4. ASSUME NEW w \in Workers, NEW amount \in Amounts, NEW lane \in Lanes,
             Decide(w, lane, amount)
      PROVE  [Next]_vars /\ DeskInv'
  <2>1. Priced(NewDecision(lane, amount)) /\ Priced(decision')
    BY <1>2, <1>4, NewDocuments DEF Decide
  <2>2. "decide" \notin {"find", "auto", "replay", "approve"}
    OBVIOUS
  <2> QED BY <1>4, <2>1, <2>2, TakeUp DEF Decide, Serve
<1>5. ASSUME NEW w \in Workers, NEW amount \in Amounts, FindDecision(w, amount)
      PROVE  [Next]_vars /\ DeskInv'
  <2>1. Priced(Prior) /\ Prior.lane # "none"
    BY <1>2, <1>5 DEF FindDecision, Prior
  <2> QED BY <1>2, <1>5, <2>1, TakeUp DEF FindDecision, Serve
<1>19. ASSUME NEW w \in Workers, ReplayDecision(w) PROVE [Next]_vars /\ DeskInv'
  <2>1. CASE PostedFor(desk[w].doc)
    BY <1>2, <1>3, <1>19, <2>1 DEF ReplayDecision
  <2>2. CASE ~PostedFor(desk[w].doc)
    <3>1. desk[w].doc.lane # "none"
      BY <1>19 DEF ReplayDecision, DeskInv, Serving
    <3> QED BY <1>2, <1>19, <2>2, <3>1, TakeUp DEF ReplayDecision, Serve
  <2> QED BY <2>1, <2>2
<1>6. ASSUME NEW w \in Workers, StoreDecision(w) PROVE [Next]_vars /\ DeskInv'
  <2>1. Priced(decision') /\ Priced(desk[w].doc)
    BY <1>2, <1>6 DEF StoreDecision
  <2>2. CASE desk[w].doc.lane = "auto"
    BY <1>6, <2>1, <2>2, TakeUp DEF StoreDecision, Serve
  <2>3. CASE desk[w].doc.lane # "auto"
    BY <1>3, <1>6, <2>1, <2>3 DEF StoreDecision
  <2> QED BY <2>2, <2>3
<1>7. ASSUME NEW w \in Workers, Approve(w) PROVE [Next]_vars /\ DeskInv'
  BY <1>2, <1>7, TakeUp DEF Approve, Serve
<1>8. ASSUME NEW w \in Workers, Reject(w) PROVE [Next]_vars /\ DeskInv'
  <2>1. "reject" \notin {"find", "auto", "replay", "approve"}
    OBVIOUS
  <2> QED BY <1>2, <1>8, <2>1, TakeUp DEF Reject, Serve
<1>9. ASSUME NEW w \in Workers, StoreRejection(w) PROVE [Next]_vars /\ DeskInv'
  BY <1>2, <1>3, <1>9, DocumentUpdate DEF StoreRejection
<1>10. ASSUME NEW w \in Workers, Enter(w) PROVE [Next]_vars /\ DeskInv'
  <2>1. desk[w].doc.amount \in Amounts
    <3>1. desk[w].doc.lane # "none"
      BY <1>10 DEF Enter, DeskInv, Serving
    <3> QED BY <3>1 DEF DeskInv, Priced
  <2> QED BY <1>1, <1>10, <2>1 DEF Enter, Next
<1>11. ASSUME NEW w \in Workers, Settle(w) PROVE [Next]_vars /\ DeskInv'
  <2> DEFINE doc == [desk[w].doc EXCEPT !.execution = worker[w].result]
  <2>1. Priced(doc)
    BY <1>2, DocumentUpdate
  <2>2. Priced([doc EXCEPT !.status = "executed"])
    BY <2>1, DocumentUpdate
  <2>3. Priced(decision')
    BY <1>2, <1>11, <2>1, <2>2 DEF Settle
  <2> QED BY <1>3, <1>11, <2>3 DEF Settle, Next
<1>12. ASSUME NEW w \in Workers, Sweep(w) PROVE [Next]_vars /\ DeskInv'
  <2>1. "sweep" \notin {"find", "auto", "replay", "approve"}
    OBVIOUS
  <2>2. DeskInv'
    BY <1>2, <1>12, <2>1, TakeUp DEF Sweep, Serve
  <2> QED BY <1>12, <2>2 DEF Sweep, Next
<1>13. ASSUME NEW w \in Workers, Purge(w) PROVE [Next]_vars /\ DeskInv'
  BY <1>2, <1>3, <1>13 DEF Purge
<1>20. ASSUME NEW w \in Workers, ListExpired(w) PROVE [Next]_vars /\ DeskInv'
  <2>1. CASE decision.aged
    <3>1. "expired" \notin {"find", "auto", "replay", "approve"}
      OBVIOUS
    <3>2. DeskInv'
      BY <1>2, <1>20, <2>1, <3>1, TakeUp DEF ListExpired, Serve
    <3> QED BY <1>20, <3>2 DEF ListExpired, Next
  <2>2. CASE ~decision.aged
    BY <1>2, <1>3, <1>20, <2>2 DEF ListExpired, Next
  <2> QED BY <2>1, <2>2
<1>21. ASSUME NEW w \in Workers, Judge(w) PROVE [Next]_vars /\ DeskInv'
  <2>1. CASE Terminal(desk[w].doc)
    <3>1. "purge" \notin {"find", "auto", "replay", "approve"}
      OBVIOUS
    <3> QED BY <1>2, <1>21, <2>1, <3>1, TakeUp DEF Judge, Serve
  <2>2. CASE ~Terminal(desk[w].doc)
    BY <1>2, <1>3, <1>21, <2>2 DEF Judge
  <2> QED BY <2>1, <2>2
<1>14. ASSUME NEW w \in Workers, Abandon(w) PROVE [Next]_vars /\ DeskInv'
  BY <1>2, <1>3, <1>14 DEF Abandon, Next
<1>15. ASSUME NEW w \in Workers, Running(w), UNCHANGED deskVars
       PROVE  [Next]_vars /\ DeskInv'
  BY <1>1, <1>15 DEF Next
<1>16. ASSUME LedgerStep, UNCHANGED deskVars PROVE [Next]_vars /\ DeskInv'
  BY <1>1, <1>16 DEF Next
<1>17. CASE Age
  <2>1. Priced(decision')
    BY <1>2, <1>17, DocumentUpdate DEF Age
  <2>2. DeskInv'
    BY <1>17, <2>1 DEF Age, DeskInv, Serving, Priced
  <2> QED BY <1>17, <2>2 DEF Age
<1>18. CASE UNCHANGED allVars
  BY <1>1, <1>18 DEF allVars, deskVars
<1> QED
  BY <1>4, <1>5, <1>6, <1>7, <1>8, <1>9, <1>10, <1>11, <1>12, <1>13, <1>14, <1>15,
     <1>16, <1>17, <1>18, <1>19, <1>20, <1>21 DEF DeskNext

-----------------------------------------------------------------------------
\* The desk implements the executor.
THEOREM DeskImplementsExecutor == DeskSpec => ImplementsExecutor
<1>1. DeskInit => Init /\ RefundInv /\ DeskInv
  <2>1. SUFFICES ASSUME DeskInit PROVE DeskInv
    BY RefundInit DEF DeskInit
  <2>2. Priced(decision) /\ Priced(NoDecision)
    BY <2>1, NewDocuments DEF DeskInit
  <2> QED BY <2>1, <2>2 DEF DeskInit, DeskInv, Free, Serving, Priced
<1>2. RefundInv /\ DeskInv /\ [DeskNext]_allVars => [Next]_vars /\ RefundInv' /\ DeskInv'
  BY DeskStep, RefundStep
<1> QED BY <1>1, <1>2, PTL DEF DeskSpec, Spec, ImplementsExecutor

\* A refund that is decided, replayed, approved, rejected, swept and purged by
\* any number of requests at once never has two live holds on the treasury.
THEOREM DeskPaysAtMostOnce == DeskSpec => []OneLiveAttempt
BY DeskImplementsExecutor, PaidAtMostOnce, PTL DEF ImplementsExecutor

\* And the execution record behind those requests never claims a payment, a
\* compensation or an event the ledger did not see.
THEOREM DeskRecordTells == DeskSpec => []RecordIsTrue
BY DeskImplementsExecutor, RecordTells, PTL DEF ImplementsExecutor
=============================================================================
