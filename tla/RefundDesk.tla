----------------------------- MODULE RefundDesk -----------------------------
(***************************************************************************)
(* The refund endpoints of services/settlement/app/main.py around the      *)
(* executor: fasttrack (decide, and execute the auto lane), approve,       *)
(* reject, sweep with the purge of expired decisions.  One refund id; the  *)
(* endpoints run in the request threads of RefundExecutor.                 *)
(*                                                                         *)
(* A handler reads the decision document, works on its copy and writes the *)
(* copy back; each store access is a step, and so is each step of the      *)
(* executor in between.  Roles, step-up, tenant and maker-checker checks   *)
(* refuse a request before it touches anything and are left out.           *)
(***************************************************************************)
EXTENDS RefundExecutor

VARIABLES
  decision,     \* store["refund_decisions"][rid], or NoDecision
  desk          \* thread -> the request it serves and its copy of the document

deskVars == <<decision, desk>>
allVars == <<vars, decision, desk>>

Lanes == {"auto", "review"}   \* review: the manual_review and standard lanes

Decision ==
  [lane : Lanes, status : {"pending", "executed", "rejected"},
   execution : {"", "pending", "posted"}, amount : Amounts, aged : BOOLEAN]

NoDecision ==
  [lane |-> "none", status |-> "none", execution |-> "", amount |-> 0, aged |-> FALSE]

NewDecision(lane, amount) ==
  [lane |-> lane, status |-> "pending", execution |-> "", amount |-> amount, aged |-> FALSE]

Free == [task |-> "none", doc |-> NoDecision]
Serving(w, tasks) == desk[w].task \in tasks
Serve(w, task, doc) == desk' = [desk EXCEPT ![w] = [task |-> task, doc |-> doc]]
Available(w) == desk[w] = Free /\ Ready(w)

\* A decision whose replay window has closed is as good as none.
Prior == IF decision.aged THEN NoDecision ELSE decision

-----------------------------------------------------------------------------
\* The request finds no decision to replay and decides on the server's data,
\* which may select either lane.
Decide(w, lane, amount) ==
  /\ Available(w)
  /\ Prior = NoDecision
  /\ Serve(w, "decide", NewDecision(lane, amount))
  /\ UNCHANGED <<vars, decision>>

\* The document is stored; an auto decision goes to the executor and is not
\* stored again, one for review is announced and done.
StoreDecision(w) ==
  /\ Serving(w, {"decide"})
  /\ decision' = desk[w].doc
  /\ IF desk[w].doc.lane = "auto"
       THEN Serve(w, "auto", desk[w].doc)
       ELSE desk' = [desk EXCEPT ![w] = Free]
  /\ UNCHANGED vars

\* The execution behind a document: its record, or else the document's copy.
PostedFor(doc) ==
  IF record # NoRecord THEN record.status = "posted" ELSE doc.execution = "posted"

\* The request finds an auto decision for the same amount; a replay of any
\* other decision changes nothing.
FindDecision(w, amount) ==
  /\ Available(w)
  /\ Prior # NoDecision
  /\ Prior.amount = amount /\ Prior.lane = "auto"
  /\ Serve(w, "find", Prior)
  /\ UNCHANGED <<vars, decision>>

\* It then looks at the execution, and re-enters the executor unless posted.
ReplayDecision(w) ==
  /\ Serving(w, {"find"})
  /\ IF PostedFor(desk[w].doc)
       THEN desk' = [desk EXCEPT ![w] = Free]
       ELSE Serve(w, "replay", desk[w].doc)
  /\ UNCHANGED <<vars, decision>>

Approve(w) ==
  /\ Available(w)
  /\ decision.lane = "review" /\ decision.status # "rejected"
  /\ Serve(w, "approve", decision)
  /\ UNCHANGED <<vars, decision>>

Reject(w) ==
  /\ Available(w)
  /\ decision # NoDecision /\ decision.execution # "posted"
  /\ Serve(w, "reject", decision)
  /\ UNCHANGED <<vars, decision>>

StoreRejection(w) ==
  /\ Serving(w, {"reject"})
  /\ decision' = [desk[w].doc EXCEPT !.status = "rejected"]
  /\ desk' = [desk EXCEPT ![w] = Free]
  /\ UNCHANGED vars

-----------------------------------------------------------------------------
\* Slip: the handler goes straight to the ledger, past the stored execution.
EnterUnchecked(w) ==
  /\ Serving(w, {"auto", "replay", "approve"}) /\ Ready(w)
  /\ worker' = [worker EXCEPT ![w] =
       [pc |-> "create", attempt |-> record.attempt, amount |-> desk[w].doc.amount, result |-> ""]]
  /\ UNCHANGED <<record, hold, inFlight, lost, announced, deskVars>>

\* _executor.execute(...), for the amount of the document that was read.
Enter(w) ==
  /\ Serving(w, {"auto", "replay", "approve"})
  /\ \/ Replay(w, desk[w].doc.amount)
     \/ Refuse(w)
     \/ Execute(w, desk[w].doc.amount)
  /\ UNCHANGED deskVars

\* execute returned or raised.  The first fasttrack answers from memory; the
\* others write their copy of the document back.
Settle(w) ==
  /\ Serving(w, {"auto", "replay", "approve"})
  /\ worker[w].result # ""
  /\ decision' = LET doc == [desk[w].doc EXCEPT !.execution = worker[w].result]
                 IN  CASE worker[w].result = "raised" \/ desk[w].task = "auto" -> decision
                       [] desk[w].task = "replay" -> doc
                       [] OTHER -> [doc EXCEPT !.status = "executed"]
  /\ desk' = [desk EXCEPT ![w] = Free]
  /\ Collect(w)

-----------------------------------------------------------------------------
(* sweep: sweep_pending, then purge_expired_refund_decisions.              *)

Sweep(w) ==
  /\ Available(w)
  /\ BeginSweep(w) \/ (record.status # "pending" /\ UNCHANGED vars)
  /\ Serve(w, "sweep", NoDecision)
  /\ UNCHANGED decision

\* The purge lists the documents ...
ListExpired(w) ==
  /\ Serving(w, {"sweep"}) /\ At(w, "idle")
  /\ IF decision.aged
       THEN Serve(w, "expired", decision)
       ELSE desk' = [desk EXCEPT ![w] = Free]
  /\ Collect(w)
  /\ UNCHANGED decision

\* ... looks at the execution of one that expired ...
Terminal(doc) == PostedFor(doc) \/ doc.status = "rejected"

Judge(w) ==
  /\ Serving(w, {"expired"})
  /\ IF Terminal(desk[w].doc)
       THEN Serve(w, "purge", NoDecision)
       ELSE desk' = [desk EXCEPT ![w] = Free]
  /\ UNCHANGED <<vars, decision>>

\* ... and deletes what is then stored under its id, a fresh decision too.
Purge(w) ==
  /\ Serving(w, {"purge"})
  /\ decision' = NoDecision
  /\ desk' = [desk EXCEPT ![w] = Free]
  /\ UNCHANGED vars

\* REFUND_IDEMPOTENCY_TTL_SECONDS, seven days, pass between two requests.
Age ==
  /\ \A w \in Workers : Available(w)
  /\ decision # NoDecision
  /\ decision' = [decision EXCEPT !.aged = TRUE]
  /\ UNCHANGED <<vars, desk>>

\* A handler's thread ends with an exception of its own, or the process does.
Abandon(w) ==
  /\ desk[w] # Free /\ At(w, "idle")
  /\ desk' = [desk EXCEPT ![w] = Free]
  /\ Collect(w)
  /\ UNCHANGED decision

DeskInit == Init /\ decision = NoDecision /\ desk = [w \in Workers |-> Free]

DeskNext ==
  \/ \E w \in Workers :
       \/ \E amount \in Amounts :
            (\E lane \in Lanes : Decide(w, lane, amount)) \/ FindDecision(w, amount)
       \/ ReplayDecision(w) \/ StoreDecision(w) \/ Approve(w) \/ Reject(w) \/ StoreRejection(w)
       \/ Enter(w) \/ Settle(w) \/ Sweep(w)
       \/ ListExpired(w) \/ Judge(w) \/ Purge(w) \/ Abandon(w)
       \/ Running(w) /\ UNCHANGED deskVars
  \/ LedgerStep /\ UNCHANGED deskVars
  \/ Age

DeskSpec == DeskInit /\ [][DeskNext]_allVars

-----------------------------------------------------------------------------
(* Properties.                                                             *)

DeskTypeOK ==
  /\ decision \in Decision \cup {NoDecision}
  /\ desk \in [Workers ->
       [task : {"none", "decide", "find", "auto", "replay", "approve", "reject",
                "sweep", "expired", "purge"},
        doc : Decision \cup {NoDecision}]]

\* The endpoints only ever use the executor as RefundExecutor specifies it,
\* so what is proved there, one live attempt, holds for a refund that is
\* decided, replayed, approved and swept at once, and whose key is used again
\* after its decision expired and was purged.
ImplementsExecutor == Spec

\* What the docstring of refund_reject says: "Rejected decisions never
\* execute".  While the stored decision is rejected, no money moves.
RejectedNeverExecutes ==
  [][decision.status = "rejected" =>
       \A k \in Attempts : hold'[k].stage = "posted" => hold[k].stage = "posted"]_allVars
=============================================================================
