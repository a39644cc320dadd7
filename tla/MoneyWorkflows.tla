--------------------------- MODULE MoneyWorkflows ---------------------------
(***************************************************************************)
(* The money sagas of packages/temporal-sdkx/money (CaptureSaga,           *)
(* RefundWorkflow, RemittanceWorkflow), run by sdkx.Saga over the adapter  *)
(* tbMoneyAdapter of the ledger service.                                   *)
(*                                                                         *)
(* One business key (a payment, a refund or a remittance run) is executed  *)
(* by several attempts: retries after a failure or a crash, possibly while *)
(* an earlier attempt is still running.  All of them use the same          *)
(* deterministic transfer ids, here the legs.  The ledger behind the       *)
(* adapter is the two-phase protocol TwoPhase; one client call is one      *)
(* step.  A saga whose FeeKobo is 0 has no fee leg and is, but for its     *)
(* name, the refund workflow.                                              *)
(***************************************************************************)
EXTENDS Integers, Sequences

CONSTANTS
  Attempts,     \* executions of the workflow for the one business key
  NumCredits,   \* WHT credits of a remittance run
  Answers       \* what a client call may come back with, a subset of AllAnswers

\* "ok": the ledger's answer arrives.  "refused": the call fails and nothing
\* is changed (a limit, an unknown account, no connection).  "lost": the
\* call takes effect and the caller gets an error.
AllAnswers == {"ok", "refused", "lost"}

ASSUME MoneyAssumption ==
  /\ NumCredits \in Nat
  /\ Answers \subseteq AllAnswers /\ "ok" \in Answers

VARIABLES
  kind,         \* which workflow: "capture", "refund" or "remittance"
  ledger,       \* leg -> stage of the transfer with that id
  marked,       \* MarkRemitted was recorded
  attempt,      \* attempt -> [pc, step, compErr]
  compensated   \* history: some attempt has begun to compensate

vars == <<kind, ledger, marked, attempt, compensated>>

Protocol == INSTANCE TwoPhase WITH Movements <- {}, status <- ledger

Kinds == {"capture", "refund", "remittance"}

(* The legs: DeterministicID of a seed. *)
Pend == <<"pend", 0>>
Post == <<"post", 0>>
RevPost == <<"rev", 0>>
Fee == <<"fee", 0>>
RevFee == <<"rev-fee", 0>>
Credit(i) == <<"credit", i>>
RevCredit(i) == <<"rev-credit", i>>
Credits == 1 .. NumCredits

Legs == {Pend, Post, RevPost, Fee, RevFee}
          \cup {Credit(i) : i \in Credits} \cup {RevCredit(i) : i \in Credits}

\* A saga step: what its action calls on which leg, and, for its
\* compensation, the leg it looks up and the leg it reverses with.
PendingStep == [op |-> "pending", leg |-> Pend, probe |-> Pend, rev |-> Pend]
PostStep == [op |-> "post", leg |-> Pend, probe |-> Post, rev |-> RevPost]
FeeStep == [op |-> "transfer", leg |-> Fee, probe |-> Fee, rev |-> RevFee]
CreditStep(i) ==
  [op |-> "transfer", leg |-> Credit(i), probe |-> Credit(i), rev |-> RevCredit(i)]
MarkStep == [op |-> "mark", leg |-> Pend, probe |-> Pend, rev |-> Pend]

CaptureSaga == <<PendingStep, PostStep, FeeStep>>
RefundWorkflow == <<PendingStep, PostStep>>
RemittanceWorkflow == [i \in Credits |-> CreditStep(i)] \o <<MarkStep>>

Steps ==
  CASE kind = "capture" -> CaptureSaga
    [] kind = "refund" -> RefundWorkflow
    [] kind = "remittance" -> RemittanceWorkflow

Current(a) == Steps[attempt[a].step]
At(a, pc, op) == attempt[a].pc = pc /\ Current(a).op = op

-----------------------------------------------------------------------------
(* Saga.Run.                                                               *)

\* The step after the current one is next.
Advance(r) ==
  IF r.step = Len(Steps) THEN [r EXCEPT !.pc = "done"]
                         ELSE [r EXCEPT !.pc = "run", !.step = r.step + 1]

\* A step of the saga succeeded.
Succeed(a) ==
  /\ attempt' = [attempt EXCEPT ![a] = Advance(@)]
  /\ UNCHANGED compensated

\* The compensation of the step before the current one is next.
Unwind(r) ==
  IF r.step <= 1 THEN [r EXCEPT !.pc = "failed"]
                 ELSE [r EXCEPT !.pc = "undo", !.step = r.step - 1]

\* A step failed: the completed ones are compensated in reverse order.
Fail(a) ==
  /\ attempt' = [attempt EXCEPT ![a] = Unwind(@)]
  /\ compensated' = TRUE

\* Slip: a compensation that failed is tried again, without end.
UndoneRetried(a, err) ==
  /\ attempt' = [attempt EXCEPT ![a] =
       IF err THEN [@ EXCEPT !.pc = "undo", !.compErr = TRUE] ELSE Unwind(@)]
  /\ UNCHANGED compensated

\* A compensation returned; its error is collected and the next one runs.
Undone(a, err) ==
  /\ attempt' = [attempt EXCEPT ![a] = Unwind([@ EXCEPT !.compErr = attempt[a].compErr \/ err])]
  /\ UNCHANGED compensated

\* A call that would change the leg to stage, and what the caller does on
\* success and on error.
Writes(leg, stage, answer) ==
  ledger' = IF answer = "refused" THEN ledger ELSE [ledger EXCEPT ![leg] = stage]

Start(a) ==
  /\ attempt[a].pc = "new"
  /\ attempt' = [attempt EXCEPT ![a].pc = "run"]
  /\ UNCHANGED <<kind, ledger, marked, compensated>>

\* The process running the attempt dies: the in-process runner keeps nothing.
Crash(a) ==
  /\ attempt[a].pc \in {"run", "post", "undo", "reverse"}
  /\ attempt' = [attempt EXCEPT ![a].pc = "gone"]
  /\ UNCHANGED <<kind, ledger, marked, compensated>>

-----------------------------------------------------------------------------
(* tbMoneyAdapter.                                                         *)

\* CreatePending: OK, or Exists for an open one, is success; so is a pending
\* that GetTransfer shows to be resolved, whichever way.
CreatePending(a, answer) ==
  /\ At(a, "run", "pending")
  /\ IF ledger[Pend] = "none"
       THEN Writes(Pend, "open", answer)
       ELSE UNCHANGED ledger
  /\ IF answer = "ok" THEN Succeed(a) ELSE Fail(a)
  /\ UNCHANGED <<kind, marked>>

\* PostPendingAs, first call: GetTransfer(pendingID).
LookupPending(a, answer) ==
  /\ At(a, "run", "post")
  /\ answer # "lost"
  /\ IF answer = "refused" \/ ledger[Pend] = "none"
       THEN Fail(a)
     ELSE IF ledger[Pend] # "open"
       THEN Succeed(a)
     ELSE /\ attempt' = [attempt EXCEPT ![a].pc = "post"]
          /\ UNCHANGED compensated
  /\ UNCHANGED <<kind, ledger, marked>>

\* Slip: the adapter posts without having looked, or looks at nothing.
PostPendingUnchecked(a, answer) ==
  /\ At(a, "post", "post")
  /\ IF answer = "ok" THEN Succeed(a) ELSE Fail(a)
  /\ UNCHANGED <<kind, ledger, marked>>

\* PostPendingAs, second call: PostPending under the pending's own id; the
\* post id of the caller is not used.  A pending that was resolved in
\* between counts as consumed by an earlier attempt.
PostPending(a, answer) ==
  /\ At(a, "post", "post")
  /\ IF ledger[Pend] = "open"
       THEN Writes(Pend, "posted", answer)
       ELSE UNCHANGED ledger
  /\ IF answer = "ok" THEN Succeed(a) ELSE Fail(a)
  /\ UNCHANGED <<kind, marked>>

\* Transfer: OK or Exists is success.
Transfer(a, answer) ==
  /\ At(a, "run", "transfer")
  /\ IF ledger[Current(a).leg] = "none"
       THEN Writes(Current(a).leg, "posted", answer)
       ELSE UNCHANGED ledger
  /\ IF answer = "ok" THEN Succeed(a) ELSE Fail(a)
  /\ UNCHANGED <<kind, marked>>

\* The MarkRemitted activity, a durable write of the registering service.
Mark(a, answer) ==
  /\ At(a, "run", "mark")
  /\ marked' = (marked \/ answer # "refused")
  /\ IF answer = "ok" THEN Succeed(a) ELSE Fail(a)
  /\ UNCHANGED <<kind, ledger>>

-----------------------------------------------------------------------------
(* The compensations.                                                      *)

\* VoidPending: a pending that is unknown or resolved is success.
VoidPending(a, answer) ==
  /\ At(a, "undo", "pending")
  /\ IF ledger[Pend] = "open"
       THEN Writes(Pend, "voided", answer)
       ELSE UNCHANGED ledger
  /\ Undone(a, answer # "ok")
  /\ UNCHANGED <<kind, marked>>

\* Slip: the leg is reversed whether or not it landed.
ReverseUnconditionally(a, answer) ==
  /\ attempt[a].pc = "undo" /\ Current(a).op \in {"post", "transfer"}
  /\ attempt' = [attempt EXCEPT ![a].pc = "reverse"]
  /\ UNCHANGED <<kind, ledger, marked, compensated>>

\* Only legs that landed are reversed: GetTransfer on the leg's id decides.
LookupLeg(a, answer) ==
  /\ attempt[a].pc = "undo" /\ Current(a).op \in {"post", "transfer"}
  /\ answer # "lost"
  /\ IF answer = "refused" \/ ledger[Current(a).probe] = "none"
       THEN Undone(a, answer = "refused")
       ELSE /\ attempt' = [attempt EXCEPT ![a].pc = "reverse"]
            /\ UNCHANGED compensated
  /\ UNCHANGED <<kind, ledger, marked>>

Reverse(a, answer) ==
  /\ attempt[a].pc = "reverse"
  /\ IF ledger[Current(a).rev] = "none"
       THEN Writes(Current(a).rev, "posted", answer)
       ELSE UNCHANGED ledger
  /\ Undone(a, answer # "ok")
  /\ UNCHANGED <<kind, marked>>

-----------------------------------------------------------------------------
Init ==
  /\ kind \in Kinds
  /\ ledger = [l \in Legs |-> "none"]
  /\ marked = FALSE
  /\ attempt = [a \in Attempts |-> [pc |-> "new", step |-> 1, compErr |-> FALSE]]
  /\ compensated = FALSE

ClientCall(a, answer) ==
  \/ CreatePending(a, answer)
  \/ LookupPending(a, answer)
  \/ PostPending(a, answer)
  \/ Transfer(a, answer)
  \/ Mark(a, answer)
  \/ VoidPending(a, answer)
  \/ LookupLeg(a, answer)
  \/ Reverse(a, answer)

Next ==
  \E a \in Attempts :
    \/ Start(a)
    \/ Crash(a)
    \/ \E answer \in Answers : ClientCall(a, answer)

Spec == Init /\ [][Next]_vars

\* Every client call returns, so an attempt that runs goes on.
FairSpec ==
  /\ Spec
  /\ \A a \in Attempts : WF_vars(\E answer \in Answers : ClientCall(a, answer))

-----------------------------------------------------------------------------
(* Properties.                                                             *)

Ended == {"done", "failed", "gone"}

TypeOK ==
  /\ kind \in Kinds
  /\ ledger \in [Legs -> Protocol!Stages]
  /\ marked \in BOOLEAN /\ compensated \in BOOLEAN
  /\ attempt \in [Attempts ->
       [pc : {"new", "run", "post", "undo", "reverse"} \cup Ended,
        step : Nat, compErr : BOOLEAN]]

Landed(leg, rev) == ledger[leg] = "posted" /\ ledger[rev] = "none"

\* The business effect of the workflow has happened and stands.
Settled ==
  CASE kind = "capture" -> Landed(Pend, RevPost) /\ Landed(Fee, RevFee)
    [] kind = "refund" -> Landed(Pend, RevPost)
    [] kind = "remittance" -> marked /\ \A i \in Credits : Landed(Credit(i), RevCredit(i))

\* As long as nothing was compensated, an attempt that reports success means
\* that all the money moved, once, and that nothing is left reserved: lost
\* attempts, retries on top of them and concurrent attempts all converge on
\* the same legs.
CleanCompletion ==
  ~compensated => \A a \in Attempts : attempt[a].pc = "done" => Settled

\* A reversal is posted only for a leg that was posted, whichever attempt
\* posted the one and reversed the other.
ReversesOnlyWhatLanded ==
  /\ ledger[RevPost] # "none" => ledger[Pend] = "posted"
  /\ ledger[RevFee] # "none" => ledger[Fee] = "posted"
  /\ \A i \in Credits : ledger[RevCredit(i)] # "none" => ledger[Credit(i)] = "posted"

\* The legs land in the order of the saga, across all attempts: no fee while
\* the payment is still unreserved or only reserved, no run marked remitted
\* before all its credits were posted.
LegsInOrder ==
  /\ ledger[Fee] # "none" => ledger[Pend] \in {"posted", "voided"}
  /\ marked => \A i \in Credits : ledger[Credit(i)] = "posted"
  /\ \A i \in Credits : \A j \in Credits :
       i < j /\ ledger[Credit(j)] # "none" => ledger[Credit(i)] # "none"

\* No leg moves before the one it depends on (the two invariants above).
LegsDependOnLegs == ReversesOnlyWhatLanded /\ LegsInOrder

\* Every attempt that starts comes to an end, through the compensations if
\* it must.
AttemptsEnd ==
  \A a \in Attempts : attempt[a].pc # "new" ~> attempt[a].pc \in Ended

\* What the comment on CaptureSaga says of its compensation: the legs that
\* landed are reversed.  An attempt that failed, alone and without
\* compensation errors, has taken nothing from the payer.
FailureLeavesNothingPosted ==
  \A a \in Attempts :
    attempt[a].pc = "failed" /\ ~attempt[a].compErr =>
      ~Landed(Pend, RevPost) /\ \A i \in Credits : ~Landed(Credit(i), RevCredit(i))

\* What LedgerPort says of a replay, "idempotent: replaying after the pending
\* was consumed by the same post returns success": an attempt that reports
\* success found the money moved, also when it is the retry of one that
\* failed and was compensated.
SuccessMeansSettled ==
  \A a \in Attempts : attempt[a].pc = "done" => Settled
=============================================================================
