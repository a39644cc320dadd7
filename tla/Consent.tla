------------------------------ MODULE Consent ------------------------------
(***************************************************************************)
(* services/consent: consent records and receipts (main.go), the check of  *)
(* processors (check.go) with its user, the verification gate of the       *)
(* TIN graph (consent_gate.go), and data subject rights (dsr.go).          *)
(*                                                                         *)
(* Every handler reads documents, works on its copy and writes it back     *)
(* whole, with no lock: a slot serves one request at a time, one step per  *)
(* access to the consents.  Ids are positions, as ULIDs ascend.  Receipts, *)
(* the access log, the audit of erasures and the register of breaches are  *)
(* appended to and read back by subject: of them only whom they name is    *)
(* kept, and an entry is written in the step it belongs to.                *)
(***************************************************************************)
EXTENDS Integers, Sequences, FiniteSets

CONSTANTS
  Slots,        \* requests served at the same time
  Subjects,     \* pseudonymised data subjects
  anonymisedSubject, \* subject -> its name after erasure
  Callers,      \* principals of requests: subjects and officers
  Purposes, Bases,
  Lifetimes,    \* expiry dates asked for; Never is none
  MaxConsents, MaxClock, MaxFaults, MaxServed \* bounds of the instance

Officers == {"admin", "privacy:officer"}
Never == 0

\* Nobody is known under an anonymised name ("anon-" and a digest).
Parameters ==
  /\ Subjects \cap Officers = {} /\ Callers \subseteq Subjects \cup Officers
  /\ \A s \in Subjects : anonymisedSubject[s] \notin Subjects
  /\ Lifetimes \subseteq Nat
  /\ {MaxConsents, MaxClock, MaxFaults, MaxServed} \subseteq Nat

VARIABLES
  consents,   \* sequence of records
  names,      \* pairs: a collection other than the consents, a subject it names
  clock,
  slot,       \* slot -> the request it serves
  faults,
  served,     \* requests begun so far
  withdrawn,  \* consents somebody has revoked
  erased,     \* subject -> consents a completed erasure found or should have
  stale       \* documents that were overwritten from an outdated copy

ghosts == <<withdrawn, erased, stale>>
vars == <<consents, names, clock, slot, faults, served, ghosts>>

Record(s, p, b, granted, expires) ==
  [subject |-> s, purpose |-> p, basis |-> b, granted |-> granted, expires |-> expires,
   status |-> IF granted THEN "active" ELSE "revoked"]

ownsConsent(caller, c) == caller = c.subject \/ caller = "admin"
dsrAuthorize(caller, s) == caller = s \/ caller \in Officers

Free == [op |-> "none", pc |-> "free"]
Served == served < MaxServed /\ served' = served + 1
Begin(q, local) == slot[q].pc = "free" /\ Served /\ slot' = [slot EXCEPT ![q] = local]
End(q) == slot' = [slot EXCEPT ![q] = Free]
At(q, op, pc) == slot[q].op = op /\ slot[q].pc = pc
Fault == faults < MaxFaults /\ faults' = faults + 1

Named(collection, s) == names' = names \cup {<<collection, s>>}

\* Receipts and the access log are written best effort: an error is printed.
NamedBestEffort(entries) ==
  \/ names' = names \cup entries /\ UNCHANGED faults
  \/ Fault /\ UNCHANGED names

Mark(doc, current, copy) == IF current = copy THEN stale ELSE stale \cup {doc}

-----------------------------------------------------------------------------
(* create, revoke, renew: main.go.                                         *)

Create(q, caller, s, p, b, granted, expires) ==
  /\ Len(consents) < MaxConsents
  /\ caller = s \/ caller = "admin"
  /\ slot[q].pc = "free" /\ Served
  /\ consents' = Append(consents, Record(s, p, b, granted, expires))
  /\ NamedBestEffort({<<"receipts", s>>})
  /\ UNCHANGED <<clock, slot, ghosts>>

\* Slip: whatever the status is.
MayRenewAny(c) == TRUE

MayRenew(c) == c.status # "revoked"
MayRevoke(c) == c.status # "revoked"

Renewed(c, expires) == [c EXCEPT !.status = "active", !.granted = TRUE, !.expires = expires]
Revoked(c) == [c EXCEPT !.status = "revoked", !.granted = FALSE]

\* The record is read, checked, and changed in the handler's copy.
ReadToChange(q, caller, id, action, expires) ==
  LET c == consents[id]
  IN  /\ ownsConsent(caller, c)
      /\ IF action = "renewed" THEN MayRenew(c) ELSE MayRevoke(c)
      /\ Begin(q, [op |-> "change", pc |-> "put", id |-> id, action |-> action, copy |-> c,
                   new |-> IF action = "renewed" THEN Renewed(c, expires) ELSE Revoked(c)])
      /\ UNCHANGED <<consents, names, clock, faults, ghosts>>

PutChange(q) ==
  LET me == slot[q]
  IN  /\ At(q, "change", "put")
      /\ stale' = Mark(<<"consent", me.id>>, consents[me.id], me.copy)
      /\ consents' = [consents EXCEPT ![me.id] = me.new]
      /\ withdrawn' = IF me.action = "revoked" THEN withdrawn \cup {me.id} ELSE withdrawn
      /\ NamedBestEffort({<<"receipts", me.new.subject>>})
      /\ End(q)
      /\ UNCHANGED <<served, clock, erased>>

-----------------------------------------------------------------------------
(* listBySubject, findValidConsent and the gate of verifyTIN, verifyNIN.   *)

Overdue(c) == c.status = "active" /\ c.expires # Never /\ c.expires < clock

Covers(c) == c.status = "active" /\ c.granted /\ ~ Overdue(c)

\* A snapshot of the collection is walked in the order of ids; a check ends
\* at the first record that covers it, whatever basis that record has.
FirstCovering(s, p) ==
  LET covering == {i \in DOMAIN consents :
                     consents[i].subject = s /\ consents[i].purpose = p /\ Covers(consents[i])}
  IN  {i \in covering : \A j \in covering : i <= j}

\* The records the walk finds overdue, and writes back as expired.
ToExpire(s, purposes, last) ==
  {i \in 1 .. last : consents[i].subject = s /\ consents[i].purpose \in purposes
                       /\ Overdue(consents[i])}
Copies(ids) == [i \in ids |-> consents[i]]

ListBySubject(q, caller, s) ==
  /\ caller = s \/ caller = "admin"
  /\ LET left == ToExpire(s, Purposes, Len(consents))
     IN  /\ left # {}   \* else it only reads
         /\ Begin(q, [op |-> "walk", pc |-> "expire", left |-> left, snapshot |-> Copies(left),
                      using |-> {}, withdrawn |-> {}])
  /\ UNCHANGED <<consents, names, clock, faults, ghosts>>

\* gateVerification asks for the caller's basis; without it there is no check.
Check(q, s, p, b) ==
  LET first == FirstCovering(s, p)
      last == IF first = {} THEN Len(consents) ELSE CHOOSE i \in first : TRUE
      left == ToExpire(s, {p}, last)
      using == {i \in first : consents[i].basis = b}
  IN  /\ left \cup using # {}   \* else the answer is no, and nothing is written
      /\ Begin(q, [op |-> "walk", pc |-> "expire", left |-> left, snapshot |-> Copies(left),
                   using |-> using, withdrawn |-> using \cap withdrawn])
      /\ UNCHANGED <<consents, names, clock, faults, ghosts>>

\* The error of this write is dropped.
ExpireOne(q) ==
  LET me == slot[q]
  IN  /\ At(q, "walk", "expire")
      /\ \E i \in me.left :
           /\ \/ /\ stale' = Mark(<<"consent", i>>, consents[i], me.snapshot[i])
                 /\ consents' = [consents EXCEPT ![i] =
                                   [me.snapshot[i] EXCEPT !.status = "expired"]]
                 /\ UNCHANGED faults
              \/ Fault /\ UNCHANGED <<consents, stale>>
           /\ slot' = [slot EXCEPT ![q].left = @ \ {i}]
      /\ UNCHANGED <<names, served, clock, withdrawn, erased>>

\* The answer: with a covering consent the processor goes on to its work.
Answer(q) ==
  /\ At(q, "walk", "expire") /\ slot[q].left = {}
  /\ IF slot[q].using = {} THEN End(q) ELSE slot' = [slot EXCEPT ![q].pc = "process"]
  /\ UNCHANGED <<served, consents, names, clock, faults, ghosts>>

\* verifyTIN, verifyNIN after the gate: the identity is looked up.
Process(q) ==
  /\ At(q, "walk", "process")
  /\ End(q)
  /\ UNCHANGED <<served, consents, names, clock, faults, ghosts>>

-----------------------------------------------------------------------------
(* Data subject rights: dsr.go.                                            *)

\* dsrExport, and dsrErasure under a legal hold: the subject is shown what the
\* collections hold, or refused, and the access log tells of it.
ExportOrRefuse(q, s, caller) ==
  /\ dsrAuthorize(caller, s)
  /\ slot[q].pc = "free" /\ Served
  /\ Named("dsr_access_log", s)
  /\ UNCHANGED <<consents, clock, slot, faults, ghosts>>

\* breachCreate: somebody reports whom a breach affects.  See Breach.
BreachAffects(q, s) ==
  /\ slot[q].pc = "free" /\ Served
  /\ Named("breaches", s)
  /\ UNCHANGED <<consents, clock, slot, faults, ghosts>>

\* Legal holds come from another service.  An active one refuses the request
\* here, unless it cannot be read; one placed later is not noticed.
BeginErasure(q, s, caller) ==
  /\ dsrAuthorize(caller, s)
  /\ Begin(q, [op |-> "erase", pc |-> "list", subject |-> s, left |-> {}, snapshot |-> <<>>,
               all |-> {}])
  /\ UNCHANGED <<consents, names, clock, faults, ghosts>>

\* Slip: only the records that are active.
ActiveOf(s) == {i \in DOMAIN consents : consents[i].subject = s /\ consents[i].status = "active"}

OwnedBy(s) == {i \in DOMAIN consents : consents[i].subject = s}

ListForErasure(q) ==
  /\ At(q, "erase", "list")
  /\ LET s == slot[q].subject
     IN  slot' = [slot EXCEPT ![q] =
           [op |-> "erase", pc |-> "put", subject |-> s, left |-> OwnedBy(s),
            snapshot |-> Copies(OwnedBy(s)),
            all |-> {i \in DOMAIN consents : consents[i].subject = s}]]
  /\ UNCHANGED <<served, consents, names, clock, faults, ghosts>>

Anonymised(c) ==
  [(IF c.status = "active" THEN Revoked(c) ELSE c) EXCEPT !.subject = anonymisedSubject[@]]

EraseOne(q) ==
  LET me == slot[q]
  IN  /\ At(q, "erase", "put")
      /\ \E i \in me.left :
           /\ stale' = Mark(<<"consent", i>>, consents[i], me.snapshot[i])
           /\ consents' = [consents EXCEPT ![i] = Anonymised(me.snapshot[i])]
           /\ withdrawn' = IF me.snapshot[i].status = "active" THEN withdrawn \cup {i}
                                                               ELSE withdrawn
           /\ slot' = [slot EXCEPT ![q].left = @ \ {i}]
      /\ UNCHANGED <<names, served, clock, faults, erased>>

\* The audit entry, which keeps the subject beside its new name, the access
\* log, and the answer.
EndErasure(q) ==
  LET me == slot[q]
  IN  /\ At(q, "erase", "put") /\ me.left = {}
      /\ erased' = [erased EXCEPT ![me.subject] = @ \cup me.all]
      /\ \/ names' = names \cup {<<"dsr_audit", me.subject>>, <<"dsr_access_log", me.subject>>}
            /\ UNCHANGED faults
         \/ Named("dsr_audit", me.subject) /\ Fault
      /\ End(q)
      /\ UNCHANGED <<served, consents, clock, withdrawn, stale>>

-----------------------------------------------------------------------------
\* An access fails and the handler returns, or its process dies.
HandlerDies(q) ==
  /\ slot[q].pc # "free"
  /\ Fault
  /\ End(q)
  /\ UNCHANGED <<served, consents, names, clock, ghosts>>

Tick ==
  /\ clock < MaxClock
  /\ clock' = clock + 1
  /\ UNCHANGED <<served, consents, names, slot, faults, ghosts>>

Init ==
  /\ consents = <<>> /\ names = {}
  /\ clock = 1
  /\ slot = [q \in Slots |-> Free]
  /\ faults = 0 /\ served = 0
  /\ withdrawn = {} /\ erased = [s \in Subjects |-> {}] /\ stale = {}

Next ==
  \/ \E q \in Slots :
       \/ \E caller \in Callers, s \in Subjects, p \in Purposes, b \in Bases,
            granted \in BOOLEAN, expires \in Lifetimes : Create(q, caller, s, p, b, granted, expires)
       \/ \E caller \in Callers, id \in DOMAIN consents, expires \in Lifetimes,
            action \in {"renewed", "revoked"} : ReadToChange(q, caller, id, action, expires)
       \/ PutChange(q)
       \/ \E caller \in Callers, s \in Subjects : ListBySubject(q, caller, s)
       \/ \E s \in Subjects, p \in Purposes, b \in Bases : Check(q, s, p, b)
       \/ ExpireOne(q) \/ Answer(q) \/ Process(q)
       \/ \E caller \in Callers, s \in Subjects :
            BeginErasure(q, s, caller) \/ ExportOrRefuse(q, s, caller)
       \/ \E s \in Subjects : BreachAffects(q, s)
       \/ ListForErasure(q) \/ EraseOne(q) \/ EndErasure(q)
       \/ HandlerDies(q)
  \/ Tick

Spec == Init /\ [][Next]_vars

-----------------------------------------------------------------------------
(* Properties.                                                             *)

\* renew: "a fresh grant, not a silent resurrection".  A consent somebody has
\* withdrawn stays withdrawn, unless a handler that read it before wrote its
\* outdated copy back: a renewal, or a lazy expiry.
WithdrawnStaysWithdrawn ==
  \A id \in withdrawn : consents[id].status # "revoked" => <<"consent", id>> \in stale

\* dsrErasure: when it has answered, no consent it should have found names the
\* subject any more, withdrawn and expired ones included, unless an outdated
\* copy was written back over it.
ConsentsAreErased ==
  \A s \in Subjects : \A id \in erased[s] :
    consents[id].subject = s => <<"consent", id>> \in stale

\* The mapping from the subject to its new name is kept in the audit.
MappingIsKept == \A s \in Subjects : erased[s] # {} => <<"dsr_audit", s>> \in names

\* An erasure is of the consents, and accounted for.
ErasureIsAccounted == ConsentsAreErased /\ MappingIsKept

\* Known not to hold: "the subject linkage [is] irreversibly pseudonymised",
\* dsr.go:13-14.  The receipts keep the subject's name beside the id of each
\* anonymised consent and are read by it, as the access log and the breaches
\* are; so does the audit, which "carries no re-identifiable subject reference
\* beyond the erasure mapping".
ErasureLeavesNoName ==
  \A s \in Subjects : erased[s] # {} =>
    \A collection \in {"receipts", "dsr_access_log", "breaches"} : <<collection, s>> \notin names

\* "a revocation takes effect immediately": a verification that is let through
\* rests on a consent for its basis that was not withdrawn when it began.
NotProcessedAfterWithdrawal ==
  \A q \in Slots : At(q, "walk", "process") =>
    \A id \in slot[q].using : id \in slot[q].withdrawn => <<"consent", id>> \in stale

\* A withdrawal is obeyed: by the record and by whoever relies on it.
WithdrawalHolds == WithdrawnStaysWithdrawn /\ NotProcessedAfterWithdrawal

-----------------------------------------------------------------------------
(* The inductive invariant.                                                *)

ConsentRecords ==
  [subject : Subjects \cup {anonymisedSubject[s] : s \in Subjects}, purpose : Purposes, basis : Bases,
   granted : BOOLEAN, expires : Lifetimes, status : {"active", "revoked", "expired"}]

\* A renewal or revocation is of a record that was not revoked.
ChangeShaped(me, docs) ==
  /\ me.pc = "put" /\ me.id \in DOMAIN docs
  /\ me.copy \in ConsentRecords /\ me.copy.status # "revoked"
  /\ me.new \in ConsentRecords /\ me.new.subject = me.copy.subject
  /\ me.action = "revoked" => me.new.status = "revoked"

\* A walk expires records that were active, and a check lets through nobody
\* who relies on a record that was withdrawn.
WalkShaped(me, docs, old) ==
  /\ me = [op |-> "walk", pc |-> me.pc, left |-> me.left, snapshot |-> me.snapshot,
           using |-> me.using, withdrawn |-> me.withdrawn]
  /\ me.left \subseteq DOMAIN docs
  /\ \A i \in me.left : me.snapshot[i] \in ConsentRecords /\ me.snapshot[i].status = "active"
  /\ \A i \in me.using : i \in me.withdrawn => <<"consent", i>> \in old

\* What an erasure has found is still to be written, or names the subject no
\* more.
EraseShaped(me, docs, old) ==
  /\ me = [op |-> "erase", pc |-> me.pc, subject |-> me.subject, left |-> me.left,
           snapshot |-> me.snapshot, all |-> me.all]
  /\ me.subject \in Subjects
  /\ me.left \subseteq DOMAIN docs /\ me.all \subseteq DOMAIN docs
  /\ \A i \in me.left : me.snapshot[i] \in ConsentRecords /\ me.snapshot[i].subject = me.subject
  /\ \A i \in me.all \ me.left : docs[i].subject = me.subject => <<"consent", i>> \in old

SlotShaped(me, docs, old) ==
  \/ me = Free
  \/ me.op = "change" /\ ChangeShaped(me, docs)
  \/ me.op = "walk" /\ WalkShaped(me, docs, old)
  \/ me.op = "erase" /\ EraseShaped(me, docs, old)

ConsentInv ==
  /\ consents \in Seq(ConsentRecords)
  /\ slot = [q \in Slots |-> slot[q]] /\ \A q \in Slots : SlotShaped(slot[q], consents, stale)
  /\ withdrawn \subseteq DOMAIN consents
  /\ erased = [s \in Subjects |-> erased[s]] /\ \A s \in Subjects : erased[s] \subseteq DOMAIN consents
  /\ WithdrawnStaysWithdrawn
  /\ ConsentsAreErased
=============================================================================
