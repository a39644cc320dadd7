------------------------------- MODULE Breach -------------------------------
(***************************************************************************)
(* services/consent/breach.go: the register of personal-data breaches,     *)
(* with the time by which the regulator has to be told.  A transition      *)
(* reads the record and writes it back whole.                              *)
(***************************************************************************)
EXTENDS Integers, Sequences

CONSTANTS
  Requests,    \* transitions that are asked for, each once
  NotifyWindow,\* ndpcNotifyWindow
  MaxBreaches, MaxTime \* bounds of the instance

Parameters == {NotifyWindow, MaxBreaches, MaxTime} \subseteq Nat

VARIABLES
  breaches,    \* the register: sequence of records
  alerts,      \* stored copies of alerts, and published alerts
  request,     \* request -> its local state
  overtaken,   \* breaches written from an outdated copy
  time

vars == <<breaches, alerts, request, overtaken, time>>

New == [pc |-> "new"]
Done == [pc |-> "done"]
Never == -1

\* breachWorkflow: the only successor of each status but the last.
Workflow == [detected |-> "assessed", assessed |-> "notified", notified |-> "closed"]
Statuses == {"detected", "assessed", "notified", "closed"}

\* The record is stored before the alert; neither storing nor publishing the
\* alert may fail the request.  Detection may lie in the past.
BreachCreate ==
  /\ Len(breaches) < MaxBreaches
  /\ \E detected \in 0..time, stored, published \in BOOLEAN :
       /\ breaches' = Append(breaches, [status |-> "detected", history |-> <<"detected">>,
                                        deadline |-> detected + NotifyWindow,
                                        notifiedAt |-> Never, late |-> FALSE])
       /\ alerts' = Append(alerts, [stored |-> stored, published |-> published])
  /\ UNCHANGED <<request, overtaken, time>>

\* Slip: any later status may be asked for, again and again.
AnyStep(from, to) == to # "detected"

LegalStep(from, to) == from \in DOMAIN Workflow /\ Workflow[from] = to

TransitionRead(r, b, to) ==
  /\ request[r] = New
  /\ request' = [request EXCEPT ![r] =
       IF LegalStep(breaches[b].status, to)
       THEN [pc |-> "put", breach |-> b, to |-> to, copy |-> breaches[b]] ELSE Done]
  /\ UNCHANGED <<breaches, alerts, overtaken, time>>

\* Telling the regulator is timed and compared with the deadline.
Moved(c, to) ==
  [c EXCEPT !.status = to, !.history = Append(@, to),
            !.notifiedAt = IF to = "notified" THEN time ELSE @,
            !.late = IF to = "notified" THEN time > c.deadline ELSE @]

TransitionPut(r) ==
  /\ request[r].pc = "put"
  /\ LET q == request[r] IN
       /\ breaches' = [breaches EXCEPT ![q.breach] = Moved(q.copy, q.to)]
       /\ overtaken' = IF breaches[q.breach] = q.copy THEN overtaken ELSE overtaken \cup {q.breach}
  /\ request' = [request EXCEPT ![r] = Done]
  /\ UNCHANGED <<alerts, time>>

Tick ==
  /\ time < MaxTime
  /\ time' = time + 1
  /\ UNCHANGED <<breaches, alerts, request, overtaken>>

Init ==
  /\ breaches = <<>> /\ alerts = <<>>
  /\ request = [r \in Requests |-> New]
  /\ overtaken = {}
  /\ time = 0

Next ==
  \/ BreachCreate \/ Tick
  \/ \E r \in Requests :
       \/ \E b \in 1..Len(breaches), to \in Statuses : TransitionRead(r, b, to)
       \/ TransitionPut(r)

Spec == Init /\ [][Next]_vars

-----------------------------------------------------------------------------
(* Properties.                                                             *)

\* Evidence for the regulator: once a breach records when it was notified,
\* that time and whether it was late are never changed, and the breach goes
\* on to closed only; unless two transitions of it overlapped.
KeepsNotification ==
  \A b \in 1..Len(breaches) : breaches[b].notifiedAt # Never /\ b \notin overtaken' =>
    /\ breaches'[b].notifiedAt = breaches[b].notifiedAt
    /\ breaches'[b].late = (breaches[b].notifiedAt > breaches[b].deadline)
    /\ breaches'[b].status \in {"notified", "closed"}
NotificationIsKept == [][KeepsNotification]_vars

\* Why that is so: a record, in the register or copied by a request, tells of
\* a notification only after it, and a request asks for a legal step of the
\* copy it read.
Record == [status : Statuses, history : Seq(Statuses), deadline : Nat, notifiedAt : Int,
           late : BOOLEAN]
Truthful(rec) ==
  rec.notifiedAt # Never =>
    rec.status \in {"notified", "closed"} /\ rec.late = (rec.notifiedAt > rec.deadline)
Asked(q) == q.pc = "put" =>
  /\ q.breach \in DOMAIN breaches /\ q.copy \in Record /\ q.to \in Statuses
  /\ Truthful(q.copy) /\ LegalStep(q.copy.status, q.to)
RegisterInv ==
  /\ time \in Nat /\ breaches \in Seq(Record)
  /\ \A b \in DOMAIN breaches : Truthful(breaches[b])
  /\ DOMAIN request = Requests /\ \A r \in Requests : Asked(request[r])
=============================================================================
