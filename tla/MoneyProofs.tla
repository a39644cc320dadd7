---------------------------- MODULE MoneyProofs -----------------------------
(***************************************************************************)
(* Proofs about MoneyWorkflows, for any number of attempts and of credits  *)
(* and any answers of the ledger.  The argument: an attempt moves on only  *)
(* when the steps behind it have taken effect, and no attempt, whatever it *)
(* does afterwards, takes an effect back; before the first compensation    *)
(* nothing is voided or reversed either.                                   *)
(***************************************************************************)
EXTENDS MoneyWorkflows, SequenceTheorems, TLAPS

PCs == {"new", "run", "post", "undo", "reverse"} \cup Ended

Types ==
  /\ kind \in Kinds
  /\ ledger \in [Legs -> Protocol!Stages]
  /\ marked \in BOOLEAN /\ compensated \in BOOLEAN
  /\ attempt \in [Attempts -> [pc : PCs, step : 1 .. Len(Steps), compErr : BOOLEAN]]

Resolved == {"posted", "voided"}

\* The first n - 1 steps of the workflow have taken effect.
Taken(n) ==
  /\ kind # "remittance" =>
       /\ n > 1 => ledger[Pend] # "none"
       /\ n > 2 => ledger[Pend] \in Resolved
       /\ n > 3 => ledger[Fee] = "posted"
  /\ kind = "remittance" =>
       /\ \A i \in Credits : i < n => ledger[Credit(i)] = "posted"
       /\ n > NumCredits + 1 => marked

\* An attempt stands behind every step it has passed, and reverses only a leg
\* it found.
Grounded(a) ==
  /\ attempt[a].pc = "new" => attempt[a].step = 1
  /\ attempt[a].pc \in {"run", "post"} => Taken(attempt[a].step)
  /\ attempt[a].pc = "done" => Taken(Len(Steps) + 1)
  /\ attempt[a].pc = "reverse" =>
       Current(a).op = "transfer" /\ ledger[Current(a).leg] = "posted"

\* The one-step legs are posted or not there; the ids the post step would
\* use are never used, its adapter posts under the pending's id.
LegStages ==
  /\ ledger[Post] = "none" /\ ledger[RevPost] = "none"
  /\ \A l \in Legs \ {Pend} : ledger[l] \in {"none", "posted"}

\* Nothing is taken back before the first failure.
NothingTakenBack ==
  /\ ledger[Pend] # "voided" /\ ledger[RevFee] = "none"
  /\ \A i \in Credits : ledger[RevCredit(i)] = "none"

Failing == {"undo", "reverse", "failed"}

NothingUndone ==
  ~compensated => NothingTakenBack /\ \A a \in Attempts : attempt[a].pc \notin Failing

MoneyInv ==
  /\ Types /\ LegStages /\ NothingUndone /\ LegsDependOnLegs
  /\ \A a \in Attempts : Grounded(a)

-----------------------------------------------------------------------------
(* The workflows' steps and legs.                                          *)

\* The steps of each workflow, by number.
LEMMA StepList ==
  ASSUME kind \in Kinds
  PROVE  /\ Len(Steps) \in Nat \ {0}
         /\ kind = "capture" => /\ Len(Steps) = 3 /\ Steps[1] = PendingStep
                                /\ Steps[2] = PostStep /\ Steps[3] = FeeStep
         /\ kind = "refund" => /\ Len(Steps) = 2 /\ Steps[1] = PendingStep
                               /\ Steps[2] = PostStep
         /\ kind = "remittance" => /\ Len(Steps) = NumCredits + 1
                                   /\ \A i \in Credits : Steps[i] = CreditStep(i)
                                   /\ Steps[NumCredits + 1] = MarkStep
<1>1. CASE kind = "capture"
  <2>1. Steps = <<PendingStep, PostStep, FeeStep>>
    BY <1>1 DEF Steps, CaptureSaga
  <2> QED BY <1>1, <2>1
<1>2. CASE kind = "refund"
  <2>1. Steps = <<PendingStep, PostStep>>
    BY <1>2 DEF Steps, RefundWorkflow
  <2> QED BY <1>2, <2>1
<1>3. CASE kind = "remittance"
  <2> DEFINE credits == [i \in Credits |-> CreditStep(i)]
             All == {CreditStep(i) : i \in Credits} \cup {MarkStep}
  <2>1. credits \in Seq(All) /\ Len(credits) = NumCredits
    <3>1. credits \in [1 .. NumCredits -> All]
      BY DEF Credits
    <3> HIDE DEF credits, All
    <3> QED BY <3>1, MoneyAssumption, LenProperties
  <2>2. <<MarkStep>> \in Seq(All) /\ Len(<<MarkStep>>) = 1 /\ <<MarkStep>>[1] = MarkStep
    BY DEF MarkStep
  <2>3. Steps = credits \o <<MarkStep>>
    BY <1>3 DEF Steps, RemittanceWorkflow
  <2>4. \A i \in Credits : credits[i] = CreditStep(i)
    OBVIOUS
  <2> HIDE DEF credits, All
  <2>5. /\ Len(Steps) = NumCredits + 1
        /\ \A i \in 1 .. NumCredits + 1 :
             Steps[i] = IF i <= NumCredits THEN credits[i] ELSE <<MarkStep>>[i - NumCredits]
    BY <2>1, <2>2, <2>3, MoneyAssumption, ConcatProperties
  <2> QED BY <1>3, <2>2, <2>4, <2>5, MoneyAssumption DEF Credits
<1> QED BY <1>1, <1>2, <1>3 DEF Kinds

\* Distinct seeds give distinct transfer ids.
LEMMA LegsAreDistinct ==
  /\ {Pend, Post, RevPost, Fee, RevFee} \subseteq Legs
  /\ Pend \notin {Post, RevPost, Fee, RevFee} /\ Fee \notin {Post, RevPost, RevFee}
  /\ RevFee \notin {Post, RevPost}
  /\ \A i \in Credits :
       /\ Credit(i) \in Legs /\ RevCredit(i) \in Legs
       /\ Credit(i) \notin {Pend, Post, RevPost, Fee, RevFee}
       /\ RevCredit(i) \notin {Pend, Post, RevPost, Fee, RevFee}
       /\ \A j \in Credits : /\ Credit(i) # RevCredit(j)
                             /\ i # j => Credit(i) # Credit(j) /\ RevCredit(i) # RevCredit(j)
  BY DEF Legs, Pend, Post, RevPost, Fee, RevFee, Credit, RevCredit

\* The step an attempt is at, by what it calls.
LEMMA CurrentStep ==
  ASSUME Types, NEW a \in Attempts
  PROVE  LET n == attempt[a].step
             s == Current(a)
         IN  /\ s.op \in {"pending", "post", "transfer", "mark"}
             /\ s.op = "pending" => kind # "remittance" /\ n = 1
             /\ s.op = "post" => kind # "remittance" /\ n = 2 /\ s.probe = Post
             /\ s.op = "mark" => kind = "remittance" /\ n = NumCredits + 1
             /\ s.op = "transfer" =>
                  \/ /\ kind = "capture" /\ n = 3
                     /\ s.leg = Fee /\ s.probe = Fee /\ s.rev = RevFee
                  \/ /\ kind = "remittance" /\ n \in Credits
                     /\ s.leg = Credit(n) /\ s.probe = Credit(n) /\ s.rev = RevCredit(n)
<1> DEFINE n == attempt[a].step
<1>1. n \in 1 .. Len(Steps) /\ Len(Steps) \in Nat /\ kind \in Kinds /\ Current(a) = Steps[n]
  BY StepList DEF Types, Current
<1> HIDE DEF n
<1>2. CASE kind = "capture"
  <2>1. Len(Steps) = 3
    BY <1>1, <1>2, StepList
  <2>2. n = 1 \/ n = 2 \/ n = 3
    BY <1>1, <2>1
  <2> QED BY <1>1, <1>2, <2>2, StepList DEF n, PendingStep, PostStep, FeeStep
<1>3. CASE kind = "refund"
  <2>1. Len(Steps) = 2
    BY <1>1, <1>3, StepList
  <2>2. n = 1 \/ n = 2
    BY <1>1, <2>1
  <2> QED BY <1>1, <1>3, <2>2, StepList DEF n, PendingStep, PostStep
<1>4. CASE kind = "remittance"
  <2>1. Len(Steps) = NumCredits + 1
    BY <1>1, <1>4, StepList
  <2>2. n \in Credits \/ n = NumCredits + 1
    BY <1>1, <2>1, MoneyAssumption DEF Credits
  <2>3. CASE n \in Credits
    <3>1. Current(a) = CreditStep(n)
      BY <1>1, <1>4, <2>3, StepList
    <3> QED BY <1>4, <2>3, <3>1 DEF n, CreditStep
  <2>4. CASE n = NumCredits + 1
    <3>1. Current(a) = MarkStep
      BY <1>1, <1>4, <2>4, StepList
    <3> QED BY <1>4, <2>4, <3>1 DEF n, MarkStep
  <2> QED BY <2>2, <2>3, <2>4
<1> QED BY <1>1, <1>2, <1>3, <1>4 DEF Kinds

-----------------------------------------------------------------------------
(* What a call does to the ledger.                                         *)

\* No effect is taken back.
Grows ==
  /\ kind' = kind
  /\ marked => marked'
  /\ \A l \in Legs : /\ ledger[l] # "none" => ledger'[l] # "none"
                     /\ ledger[l] \in Resolved => ledger'[l] = ledger[l]

\* The parts of the invariant that speak of the ledger and the mark.
LedgerInv ==
  /\ ledger \in [Legs -> Protocol!Stages] /\ marked \in BOOLEAN
  /\ LegStages /\ LegsDependOnLegs

\* A call that leaves the ledger and the mark alone.
LEMMA NoCall ==
  ASSUME LedgerInv, UNCHANGED <<kind, ledger, marked>>
  PROVE  Grows /\ LedgerInv'
  BY DEF Grows, LedgerInv, LegStages, LegsDependOnLegs, ReversesOnlyWhatLanded, LegsInOrder

\* What has taken effect stays.
LEMMA TakenStays ==
  ASSUME Types, Grows, NEW n \in Nat, Taken(n)
  PROVE  Taken(n)'
  BY LegsAreDistinct DEF Types, Grows, Taken, Resolved

\* CreatePending, PostPending and VoidPending: the pending transfer goes on.
LEMMA PendingWritten ==
  ASSUME LedgerInv, UNCHANGED <<kind, marked>>, NEW stage,
         ledger' = [ledger EXCEPT ![Pend] = stage],
         \/ ledger[Pend] = "none" /\ stage = "open"
         \/ ledger[Pend] = "open" /\ stage \in Resolved
  PROVE  /\ Grows /\ LedgerInv' /\ ledger'[Pend] = stage
         /\ \A l \in Legs : l # Pend => ledger'[l] = ledger[l]
<1>1. ledger'[Pend] = stage /\ \A l \in Legs : l # Pend => ledger'[l] = ledger[l]
  BY LegsAreDistinct DEF LedgerInv
<1>2. ledger' \in [Legs -> Protocol!Stages]
  BY DEF LedgerInv, Resolved, Protocol!Stages
<1>3. Grows
  BY <1>1, LegsAreDistinct DEF Grows, Resolved
<1>4. LegStages'
  BY <1>1, LegsAreDistinct DEF LedgerInv, LegStages
<1>5. ReversesOnlyWhatLanded'
  BY <1>1, LegsAreDistinct
     DEF LedgerInv, LegStages, LegsDependOnLegs, ReversesOnlyWhatLanded
<1>6. LegsInOrder'
  BY <1>1, LegsAreDistinct DEF LedgerInv, LegsDependOnLegs, LegsInOrder, Resolved
<1> QED BY <1>1, <1>2, <1>3, <1>4, <1>5, <1>6 DEF LedgerInv, LegsDependOnLegs

\* Transfer and Reverse: a one-step leg is posted, after what it depends on.
LEMMA LegWritten ==
  ASSUME LedgerInv, UNCHANGED <<kind, marked>>, NEW leg \in Legs \ {Pend, Post, RevPost},
         ledger' = [ledger EXCEPT ![leg] = "posted"], ledger[leg] = "none",
         leg = Fee => ledger[Pend] \in Resolved,
         leg = RevFee => ledger[Fee] = "posted",
         \A i \in Credits :
           /\ leg = RevCredit(i) => ledger[Credit(i)] = "posted"
           /\ leg = Credit(i) =>
                \A j \in Credits : j < i => ledger[Credit(j)] = "posted"
  PROVE  /\ Grows /\ LedgerInv' /\ ledger'[leg] = "posted"
         /\ \A l \in Legs : l # leg => ledger'[l] = ledger[l]
<1>1. ledger'[leg] = "posted" /\ \A l \in Legs : l # leg => ledger'[l] = ledger[l]
  BY DEF LedgerInv
<1>2. ledger' \in [Legs -> Protocol!Stages]
  BY DEF LedgerInv, Protocol!Stages
<1>3. Grows
  BY <1>1 DEF Grows, Resolved
<1>4. LegStages'
  BY <1>1, LegsAreDistinct DEF LedgerInv, LegStages
<1>5. ReversesOnlyWhatLanded'
  BY <1>1, LegsAreDistinct
     DEF LedgerInv, LegStages, LegsDependOnLegs, ReversesOnlyWhatLanded
<1>6. LegsInOrder'
  <2>1. ledger'[Fee] # "none" => ledger'[Pend] \in {"posted", "voided"}
    BY <1>1, LegsAreDistinct DEF LedgerInv, LegsDependOnLegs, LegsInOrder, Resolved
  <2>2. marked' => \A i \in Credits : ledger'[Credit(i)] = "posted"
    BY <1>1, LegsAreDistinct DEF LedgerInv, LegsDependOnLegs, LegsInOrder
  <2>3. ASSUME NEW i \in Credits, NEW j \in Credits, i < j, ledger'[Credit(j)] # "none"
        PROVE  ledger'[Credit(i)] # "none"
    BY <1>1, <2>3, LegsAreDistinct DEF LedgerInv, LegsDependOnLegs, LegsInOrder
  <2> QED BY <2>1, <2>2, <2>3 DEF LegsInOrder
<1> QED BY <1>1, <1>2, <1>3, <1>4, <1>5, <1>6 DEF LedgerInv, LegsDependOnLegs

-----------------------------------------------------------------------------
(* What a step does to the attempts.                                       *)

AttemptRecords == [pc : PCs, step : 1 .. Len(Steps), compErr : BOOLEAN]

\* The ledger's part of the invariant.
LEMMA LedgerPart == ASSUME MoneyInv PROVE LedgerInv
  BY DEF MoneyInv, LedgerInv, Types

\* One attempt goes to r while the ledger only grows: r must be grounded in
\* the ledger as the step leaves it.
LEMMA AttemptStep ==
  ASSUME MoneyInv, Grows, LedgerInv', NEW a \in Attempts, NEW r \in AttemptRecords,
         attempt' = [attempt EXCEPT ![a] = r],
         compensated' \in BOOLEAN, compensated => compensated',
         ~compensated' => NothingTakenBack' /\ r.pc \notin Failing,
         r.pc # "new", r.pc \in {"run", "post"} => Taken(r.step)',
         r.pc = "done" => Taken(Len(Steps) + 1)',
         r.pc = "reverse" =>
           Steps[r.step].op = "transfer" /\ ledger'[Steps[r.step].leg] = "posted"
  PROVE  MoneyInv'
<1>1. Steps' = Steps /\ kind' \in Kinds
  BY DEF Grows, Steps, MoneyInv, Types
<1>2. attempt'[a] = r /\ \A b \in Attempts : b # a => attempt'[b] = attempt[b]
  BY DEF MoneyInv, Types
<1>3. attempt' \in [Attempts -> [pc : PCs, step : 1 .. Len(Steps), compErr : BOOLEAN]]
  BY DEF MoneyInv, Types, AttemptRecords
<1>4. Types'
  BY <1>1, <1>3 DEF Types, LedgerInv
<1>5. NothingUndone'
  BY <1>2 DEF MoneyInv, NothingUndone
<1>6. ASSUME NEW b \in Attempts PROVE Grounded(b)'
  <2>1. CASE b = a
    BY <1>1, <1>2, <2>1 DEF Grounded, Current
  <2>2. CASE b # a
    <3>1. attempt'[b] = attempt[b] /\ Grounded(b) /\ Types /\ Current(b)' = Current(b)
      BY <1>1, <1>2, <2>2 DEF MoneyInv, Current
    <3>2. attempt[b].step \in Nat /\ Len(Steps) + 1 \in Nat
      BY <3>1, StepList DEF Types
    <3>3. \A n \in Nat : Taken(n) => Taken(n)'
      BY <3>1, TakenStays
    <3>4. Current(b).op = "transfer" => Current(b).leg \in Legs
      BY <3>1, CurrentStep, LegsAreDistinct
    <3> QED BY <1>1, <3>1, <3>2, <3>3, <3>4 DEF Grounded, Grows, Resolved
  <2> QED BY <2>1, <2>2
<1> QED BY <1>4, <1>5, <1>6 DEF MoneyInv, LedgerInv

\* Saga.Run goes on: the step it was at must have taken effect.
LEMMA SucceedStep ==
  ASSUME MoneyInv, Grows, LedgerInv', NEW a \in Attempts, Succeed(a),
         ~compensated => NothingTakenBack',
         NEW n, n = attempt[a].step + 1, Taken(n)'
  PROVE  MoneyInv'
<1>1. /\ attempt[a] \in AttemptRecords
      /\ Len(Steps) \in Nat /\ attempt[a].step \in 1 .. Len(Steps)
  BY StepList DEF MoneyInv, Types, AttemptRecords
<1>2. CASE attempt[a].step = Len(Steps)
  <2>1. PICK r : r = [attempt[a] EXCEPT !.pc = "done"]
    OBVIOUS
  <2>2. r \in AttemptRecords /\ r.pc = "done"
    BY <1>1, <2>1 DEF AttemptRecords, PCs, Ended
  <2>3. attempt' = [attempt EXCEPT ![a] = r] /\ UNCHANGED compensated
    BY <1>2, <2>1 DEF Succeed, Advance
  <2>4. Taken(Len(Steps) + 1)'
    <3>1. Len(Steps)' + 1 = n
      BY <1>2 DEF Grows, Steps
    <3> QED BY <3>1
  <2> QED BY <2>2, <2>3, <2>4, AttemptStep DEF Failing, MoneyInv, Types
<1>3. CASE attempt[a].step # Len(Steps)
  <2>1. PICK r : r = [attempt[a] EXCEPT !.pc = "run", !.step = attempt[a].step + 1]
    OBVIOUS
  <2>2. r \in AttemptRecords /\ r.pc = "run" /\ r.step = n
    <3>1. attempt[a].step + 1 \in 1 .. Len(Steps)
      BY <1>1, <1>3
    <3> QED BY <1>1, <2>1, <3>1 DEF AttemptRecords, PCs
  <2>3. attempt' = [attempt EXCEPT ![a] = r] /\ UNCHANGED compensated
    BY <1>3, <2>1 DEF Succeed, Advance
  <2> QED BY <2>2, <2>3, AttemptStep DEF Failing, MoneyInv, Types
<1> QED BY <1>2, <1>3

\* An attempt that unwinds goes to the compensation before, or has failed.
LEMMA Unwinds ==
  ASSUME kind \in Kinds, NEW r \in AttemptRecords
  PROVE  Unwind(r) \in AttemptRecords /\ Unwind(r).pc \in {"failed", "undo"}
<1>1. r.step \in 1 .. Len(Steps) /\ Len(Steps) \in Nat
  BY StepList DEF AttemptRecords
<1>2. CASE r.step <= 1
  BY <1>2 DEF Unwind, AttemptRecords, PCs, Ended
<1>3. CASE ~(r.step <= 1)
  <2>1. r.step - 1 \in 1 .. Len(Steps)
    BY <1>1, <1>3
  <2> QED BY <1>3, <2>1 DEF Unwind, AttemptRecords, PCs
<1> QED BY <1>2, <1>3

\* Saga.Run turns back.
LEMMA FailStep ==
  ASSUME MoneyInv, Grows, LedgerInv', NEW a \in Attempts, Fail(a)
  PROVE  MoneyInv'
<1>1. kind \in Kinds /\ attempt[a] \in AttemptRecords
  BY DEF MoneyInv, Types, AttemptRecords
<1>2. PICK r : r = Unwind(attempt[a])
  OBVIOUS
<1>3. r \in AttemptRecords /\ r.pc \notin {"new", "run", "post", "done", "reverse"}
  BY <1>1, <1>2, Unwinds
<1>4. attempt' = [attempt EXCEPT ![a] = r] /\ compensated' = TRUE
  BY <1>2 DEF Fail
<1> QED BY <1>3, <1>4, AttemptStep

\* A compensation returned: some attempt has failed before.
LEMMA UndoneStep ==
  ASSUME MoneyInv, Grows, LedgerInv', NEW a \in Attempts, NEW err \in BOOLEAN,
         attempt[a].pc \in {"undo", "reverse"}, Undone(a, err)
  PROVE  MoneyInv'
<1>1. kind \in Kinds /\ attempt[a] \in AttemptRecords /\ compensated = TRUE
  BY DEF MoneyInv, Types, AttemptRecords, NothingUndone, Failing
<1>2. [attempt[a] EXCEPT !.compErr = attempt[a].compErr \/ err] \in AttemptRecords
  BY <1>1 DEF AttemptRecords
<1>3. PICK r : r = Unwind([attempt[a] EXCEPT !.compErr = attempt[a].compErr \/ err])
  OBVIOUS
<1>4. r \in AttemptRecords /\ r.pc \notin {"new", "run", "post", "done", "reverse"}
  BY <1>1, <1>2, <1>3, Unwinds
<1>5. attempt' = [attempt EXCEPT ![a] = r] /\ compensated' = compensated
  BY <1>3 DEF Undone
<1> QED BY <1>1, <1>4, <1>5, AttemptStep

\* The attempt stays at its step: it starts, ends, or is between two calls.
LEMMA PcStep ==
  ASSUME MoneyInv, Grows, LedgerInv', NEW a \in Attempts, NEW pc \in PCs,
         attempt' = [attempt EXCEPT ![a].pc = pc], UNCHANGED compensated,
         ~compensated => NothingTakenBack' /\ pc \notin Failing,
         pc \in {"run", "post"} => Taken(attempt[a].step),
         pc \notin {"new", "done"},
         pc = "reverse" =>
           Current(a).op = "transfer" /\ ledger[Current(a).leg] = "posted"
  PROVE  MoneyInv'
<1>1. PICK r : r = [attempt[a] EXCEPT !.pc = pc]
  OBVIOUS
<1>2. Types /\ r \in AttemptRecords /\ r.pc = pc /\ r.step = attempt[a].step /\ r.step \in Nat
  BY <1>1, StepList DEF MoneyInv, Types, AttemptRecords
<1>3. attempt' = [attempt EXCEPT ![a] = r]
  BY <1>1
<1>4. r.pc \in {"run", "post"} => Taken(r.step)'
  BY <1>2, TakenStays
<1>5. r.pc = "reverse" =>
        Steps[r.step].op = "transfer" /\ ledger'[Steps[r.step].leg] = "posted"
  <2>1. Current(a).op = "transfer" => Current(a).leg \in Legs
    BY <1>2, CurrentStep, LegsAreDistinct
  <2> QED BY <1>2, <2>1 DEF Current, Grows, Resolved
<1> QED BY <1>2, <1>3, <1>4, <1>5, AttemptStep DEF MoneyInv, Types

-----------------------------------------------------------------------------
(* The actions.                                                            *)

\* Nothing undone, and the legs that undoing writes untouched.
LEMMA StillNothingUndone ==
  ASSUME MoneyInv, ~compensated, ledger'[Pend] # "voided", ledger'[RevFee] = ledger[RevFee],
         \A i \in Credits : ledger'[RevCredit(i)] = ledger[RevCredit(i)]
  PROVE  NothingTakenBack'
  BY DEF MoneyInv, NothingUndone, NothingTakenBack

\* CreatePending leaves a pending transfer, open or resolved.
LEMMA CreatePendingStep ==
  ASSUME MoneyInv, NEW a \in Attempts, NEW answer \in Answers, CreatePending(a, answer)
  PROVE  MoneyInv'
<1>1. LedgerInv /\ Types /\ kind # "remittance" /\ attempt[a].step = 1
  BY LedgerPart, CurrentStep DEF MoneyInv, CreatePending, At
<1>2. /\ Grows /\ LedgerInv' /\ (answer = "ok" => ledger'[Pend] # "none")
      /\ ~compensated => NothingTakenBack'
  <2>1. CASE ledger' = ledger /\ (ledger[Pend] = "none" => answer # "ok")
    BY <1>1, <2>1, NoCall, StillNothingUndone
       DEF CreatePending, MoneyInv, NothingUndone, NothingTakenBack
  <2>2. CASE ledger[Pend] = "none" /\ ledger' = [ledger EXCEPT ![Pend] = "open"]
    <3>1. /\ Grows /\ LedgerInv' /\ ledger'[Pend] = "open"
          /\ \A l \in Legs : l # Pend => ledger'[l] = ledger[l]
      BY <1>1, <2>2, PendingWritten DEF CreatePending
    <3> QED BY <3>1, StillNothingUndone, LegsAreDistinct
  <2> QED BY <2>1, <2>2 DEF CreatePending, Writes
<1>3. CASE answer = "ok"
  <2>1. kind' = kind /\ Taken(2)'
    BY <1>1, <1>2, <1>3 DEF Grows, Taken
  <2> QED BY <1>1, <1>2, <1>3, <2>1, SucceedStep DEF CreatePending
<1>4. CASE answer # "ok"
  BY <1>2, <1>4, FailStep DEF CreatePending
<1> QED BY <1>3, <1>4

\* PostPendingAs looks the pending up: a resolved one counts as done.
LEMMA LookupPendingStep ==
  ASSUME MoneyInv, NEW a \in Attempts, NEW answer \in Answers, LookupPending(a, answer)
  PROVE  MoneyInv'
<1>1. LedgerInv /\ Types /\ kind # "remittance" /\ attempt[a].step = 2
  BY LedgerPart, CurrentStep DEF MoneyInv, LookupPending, At
<1>2. Grows /\ LedgerInv' /\ (~compensated => NothingTakenBack')
  BY <1>1, NoCall DEF LookupPending, MoneyInv, NothingUndone, NothingTakenBack
<1>3. CASE Fail(a)
  BY <1>2, <1>3, FailStep
<1>4. CASE Succeed(a) /\ ledger[Pend] \notin {"none", "open"}
  <2>1. ledger[Pend] \in Resolved /\ ledger' = ledger /\ kind' = kind
    BY <1>1, <1>4, LegsAreDistinct DEF Types, Protocol!Stages, Resolved, LookupPending
  <2>2. Taken(3)'
    BY <1>1, <2>1 DEF Taken, Resolved
  <2> QED BY <1>1, <1>2, <1>4, <2>2, SucceedStep
<1>5. CASE attempt' = [attempt EXCEPT ![a].pc = "post"] /\ UNCHANGED compensated
  <2>1. Taken(attempt[a].step)
    BY DEF LookupPending, At, MoneyInv, Grounded
  <2>2. "post" \in PCs /\ "post" \notin Failing
    BY DEF PCs, Failing
  <2> QED BY <1>2, <1>5, <2>1, <2>2, PcStep
<1> QED BY <1>3, <1>4, <1>5 DEF LookupPending

\* PostPending leaves the pending resolved, by this attempt or another.
LEMMA PostPendingStep ==
  ASSUME MoneyInv, NEW a \in Attempts, NEW answer \in Answers, PostPending(a, answer)
  PROVE  MoneyInv'
<1>1. LedgerInv /\ Types /\ kind # "remittance" /\ attempt[a].step = 2
  BY LedgerPart, CurrentStep DEF MoneyInv, PostPending, At
<1>2. ledger[Pend] \in Protocol!Stages \ {"none"}
  BY <1>1, LegsAreDistinct DEF MoneyInv, Grounded, PostPending, At, Taken, Types
<1>3. /\ Grows /\ LedgerInv' /\ (answer = "ok" => ledger'[Pend] \in Resolved)
      /\ ~compensated => NothingTakenBack'
  <2>1. CASE ledger' = ledger /\ (ledger[Pend] = "open" => answer # "ok")
    BY <1>1, <1>2, <2>1, NoCall, StillNothingUndone
       DEF PostPending, MoneyInv, NothingUndone, NothingTakenBack, Resolved, Protocol!Stages
  <2>2. CASE ledger[Pend] = "open" /\ ledger' = [ledger EXCEPT ![Pend] = "posted"]
    <3>1. /\ Grows /\ LedgerInv' /\ ledger'[Pend] = "posted"
          /\ \A l \in Legs : l # Pend => ledger'[l] = ledger[l]
      BY <1>1, <2>2, PendingWritten DEF PostPending, Resolved
    <3> QED BY <3>1, StillNothingUndone, LegsAreDistinct DEF Resolved
  <2> QED BY <2>1, <2>2 DEF PostPending, Writes
<1>4. CASE answer = "ok"
  <2>1. Taken(3)'
    BY <1>1, <1>3, <1>4 DEF Grows, Taken, Resolved
  <2> QED BY <1>1, <1>3, <1>4, <2>1, SucceedStep DEF PostPending
<1>5. CASE answer # "ok"
  BY <1>3, <1>5, FailStep DEF PostPending
<1> QED BY <1>4, <1>5

\* Transfer: the fee after the payment, a credit after the credits before.
LEMMA TransferStep ==
  ASSUME MoneyInv, NEW a \in Attempts, NEW answer \in Answers, Transfer(a, answer)
  PROVE  MoneyInv'
<1>1. PICK leg, n : leg = Current(a).leg /\ n = attempt[a].step
  OBVIOUS
<1>2. /\ LedgerInv /\ Types /\ Taken(n) /\ n \in Nat
      /\ \/ kind = "capture" /\ n = 3 /\ leg = Fee
         \/ kind = "remittance" /\ n \in Credits /\ leg = Credit(n)
  BY <1>1, LedgerPart, CurrentStep, StepList DEF MoneyInv, Transfer, At, Grounded, Types
<1>3. leg \in Legs \ {Pend, Post, RevPost, RevFee} /\ \A i \in Credits : leg # RevCredit(i)
  BY <1>2, LegsAreDistinct
<1>4. ledger[leg] \in {"none", "posted"}
  BY <1>2, <1>3 DEF LedgerInv, LegStages
<1>5. /\ Grows /\ LedgerInv' /\ (answer = "ok" => ledger'[leg] = "posted")
      /\ ~compensated => NothingTakenBack'
  <2>1. CASE ledger' = ledger /\ (ledger[leg] = "none" => answer # "ok")
    BY <1>2, <1>4, <2>1, NoCall, StillNothingUndone
       DEF Transfer, MoneyInv, NothingUndone, NothingTakenBack
  <2>2. CASE ledger[leg] = "none" /\ ledger' = [ledger EXCEPT ![leg] = "posted"]
    <3>1. leg = Fee => ledger[Pend] \in Resolved
      BY <1>2, LegsAreDistinct DEF Taken
    <3>2. ASSUME NEW i \in Credits, leg = Credit(i), NEW j \in Credits, j < i
          PROVE  ledger[Credit(j)] = "posted"
      BY <1>2, <3>2, LegsAreDistinct DEF Taken
    <3>3. UNCHANGED <<kind, marked>>
      BY DEF Transfer
    <3>4. /\ Grows /\ LedgerInv' /\ ledger'[leg] = "posted"
          /\ \A l \in Legs : l # leg => ledger'[l] = ledger[l]
      BY <1>2, <1>3, <2>2, <3>1, <3>2, <3>3, LegWritten
    <3> QED BY <1>3, <3>4, StillNothingUndone, LegsAreDistinct
         DEF MoneyInv, NothingUndone, NothingTakenBack
  <2> QED BY <1>1, <2>1, <2>2 DEF Transfer, Writes
<1>6. CASE answer = "ok"
  <2>1. Taken(n)' /\ kind' = kind
    BY <1>2, <1>5, TakenStays DEF Grows
  <2>2. PICK m : m = n + 1
    OBVIOUS
  <2>3. Taken(m)'
    BY <1>2, <1>5, <1>6, <2>1, <2>2, MoneyAssumption DEF Taken, Credits
  <2> QED BY <1>1, <1>5, <1>6, <2>2, <2>3, SucceedStep DEF Transfer
<1>7. CASE answer # "ok"
  BY <1>5, <1>7, FailStep DEF Transfer
<1> QED BY <1>6, <1>7

\* MarkRemitted comes after all the credits.
LEMMA MarkStepKeeps ==
  ASSUME MoneyInv, NEW a \in Attempts, NEW answer \in Answers, Mark(a, answer)
  PROVE  MoneyInv'
<1>1. PICK n : n = attempt[a].step
  OBVIOUS
<1>2. LedgerInv /\ Types /\ Taken(n) /\ kind = "remittance" /\ n = NumCredits + 1
  BY <1>1, LedgerPart, CurrentStep DEF MoneyInv, Mark, At, Grounded
<1>3. \A i \in Credits : ledger[Credit(i)] = "posted"
  BY <1>2, MoneyAssumption DEF Taken, Credits
<1>4. UNCHANGED <<kind, ledger>> /\ marked' \in BOOLEAN /\ (marked => marked')
  BY <1>2 DEF Mark, Types
<1>5. Grows /\ LedgerInv' /\ (~compensated => NothingTakenBack')
  BY <1>2, <1>3, <1>4 DEF Grows, LedgerInv, LegStages, LegsDependOnLegs, LegsInOrder,
     ReversesOnlyWhatLanded, MoneyInv, NothingUndone, NothingTakenBack
<1>6. CASE answer = "ok"
  <2>1. marked'
    BY <1>6 DEF Mark
  <2>2. PICK m : m = n + 1
    OBVIOUS
  <2>3. Taken(m)'
    BY <1>2, <1>3, <1>4, <2>1 DEF Taken
  <2> QED BY <1>1, <1>5, <1>6, <2>2, <2>3, SucceedStep DEF Mark
<1>7. CASE answer # "ok"
  BY <1>5, <1>7, FailStep DEF Mark
<1> QED BY <1>6, <1>7

\* VoidPending releases what is still reserved.
LEMMA VoidPendingStep ==
  ASSUME MoneyInv, NEW a \in Attempts, NEW answer \in Answers, VoidPending(a, answer)
  PROVE  MoneyInv'
<1>1. LedgerInv /\ UNCHANGED <<kind, marked>>
  BY LedgerPart DEF VoidPending
<1>2. Grows /\ LedgerInv'
  <2>1. CASE ledger' = ledger
    BY <1>1, <2>1, NoCall
  <2>2. CASE ledger[Pend] = "open" /\ ledger' = [ledger EXCEPT ![Pend] = "voided"]
    BY <1>1, <2>2, PendingWritten DEF Resolved
  <2> QED BY <2>1, <2>2 DEF VoidPending, Writes
<1> QED BY <1>2, UndoneStep DEF VoidPending, At

\* A compensation looks its leg up, and goes on only when it landed.
LEMMA LookupLegStep ==
  ASSUME MoneyInv, NEW a \in Attempts, NEW answer \in Answers, LookupLeg(a, answer)
  PROVE  MoneyInv'
<1>1. /\ LedgerInv /\ Types /\ compensated
      /\ attempt[a].pc = "undo" /\ Current(a).op \in {"post", "transfer"}
  BY LedgerPart DEF MoneyInv, LookupLeg, NothingUndone, Failing
<1>2. Grows /\ LedgerInv'
  BY <1>1, NoCall DEF LookupLeg
<1>3. CASE Undone(a, answer = "refused")
  BY <1>1, <1>2, <1>3, UndoneStep
<1>4. CASE /\ ledger[Current(a).probe] # "none"
           /\ attempt' = [attempt EXCEPT ![a].pc = "reverse"] /\ UNCHANGED compensated
  <2>1. /\ Current(a).op = "transfer" /\ Current(a).probe = Current(a).leg
        /\ Current(a).leg \in Legs \ {Pend}
    BY <1>1, <1>4, CurrentStep, LegsAreDistinct DEF LedgerInv, LegStages
  <2>2. ledger[Current(a).leg] = "posted"
    BY <1>1, <1>4, <2>1 DEF LedgerInv, LegStages
  <2>3. "reverse" \in PCs
    BY DEF PCs
  <2> QED BY <1>1, <1>2, <1>4, <2>1, <2>2, <2>3, PcStep
<1> QED BY <1>3, <1>4 DEF LookupLeg

\* Reverse posts the reversal of a leg that landed.
LEMMA ReverseStep ==
  ASSUME MoneyInv, NEW a \in Attempts, NEW answer \in Answers, Reverse(a, answer)
  PROVE  MoneyInv'
<1>1. PICK s : s = Current(a)
  OBVIOUS
<1>2. /\ LedgerInv /\ Types /\ UNCHANGED <<kind, marked>>
      /\ s.op = "transfer" /\ ledger[s.leg] = "posted"
      /\ \/ s.leg = Fee /\ s.rev = RevFee
         \/ \E i \in Credits : s.leg = Credit(i) /\ s.rev = RevCredit(i)
  BY <1>1, LedgerPart, CurrentStep DEF MoneyInv, Reverse, Grounded
<1>3. /\ s.rev \in Legs \ {Pend, Post, RevPost, Fee}
      /\ \A i \in Credits : s.rev # Credit(i)
      /\ s.rev = RevFee => ledger[Fee] = "posted"
      /\ \A i \in Credits : s.rev = RevCredit(i) => ledger[Credit(i)] = "posted"
  BY <1>2, LegsAreDistinct
<1>4. Grows /\ LedgerInv'
  <2>1. CASE ledger' = ledger
    BY <1>2, <2>1, NoCall
  <2>2. CASE ledger[s.rev] = "none" /\ ledger' = [ledger EXCEPT ![s.rev] = "posted"]
    <3>1. PICK leg : leg = s.rev
      OBVIOUS
    <3> QED BY <1>2, <1>3, <2>2, <3>1, LegWritten
  <2> QED BY <1>1, <2>1, <2>2 DEF Reverse, Writes
<1> QED BY <1>4, UndoneStep DEF Reverse

\* Start and Crash touch the attempt alone.
LEMMA StartStep ==
  ASSUME MoneyInv, NEW a \in Attempts, Start(a)
  PROVE  MoneyInv'
<1>1. LedgerInv /\ Grows /\ LedgerInv' /\ (~compensated => NothingTakenBack')
  BY LedgerPart, NoCall DEF Start, MoneyInv, NothingUndone, NothingTakenBack
<1>2. Taken(attempt[a].step)
  <2>1. attempt[a].step = 1
    BY DEF Start, MoneyInv, Grounded
  <2>2. Taken(1)
    BY MoneyAssumption DEF Taken, Credits
  <2> QED BY <2>1, <2>2
<1>3. "run" \in PCs /\ "run" \notin Failing
  BY DEF PCs, Failing
<1> QED BY <1>1, <1>2, <1>3, PcStep DEF Start

\* A crash forgets the attempt; what it did stays.
LEMMA CrashStep ==
  ASSUME MoneyInv, NEW a \in Attempts, Crash(a)
  PROVE  MoneyInv'
<1>1. LedgerInv /\ Grows /\ LedgerInv' /\ (~compensated => NothingTakenBack')
  BY LedgerPart, NoCall DEF Crash, MoneyInv, NothingUndone, NothingTakenBack
<1>2. "gone" \in PCs /\ "gone" \notin Failing
  BY DEF PCs, Ended, Failing
<1> QED BY <1>1, <1>2, PcStep DEF Crash

-----------------------------------------------------------------------------
\* Every step of the attempts keeps the invariant.
THEOREM MoneyStep == MoneyInv /\ [Next]_vars => MoneyInv'
<1>1. SUFFICES ASSUME MoneyInv, [Next]_vars PROVE MoneyInv'
  OBVIOUS
<1>2. ASSUME NEW a \in Attempts, Start(a) PROVE MoneyInv'
  BY <1>1, <1>2, StartStep
<1>3. ASSUME NEW a \in Attempts, Crash(a) PROVE MoneyInv'
  BY <1>1, <1>3, CrashStep
<1>4. ASSUME NEW a \in Attempts, NEW answer \in Answers, ClientCall(a, answer)
      PROVE  MoneyInv'
  BY <1>1, <1>4, CreatePendingStep, LookupPendingStep, PostPendingStep, TransferStep,
     MarkStepKeeps, VoidPendingStep, LookupLegStep, ReverseStep DEF ClientCall
<1>5. CASE UNCHANGED vars
  BY <1>1, <1>5 DEF vars, MoneyInv, Types, LegStages, NothingUndone, NothingTakenBack,
     LegsDependOnLegs, ReversesOnlyWhatLanded, LegsInOrder, Grounded, Taken, Current, Steps
<1> QED BY <1>1, <1>2, <1>3, <1>4, <1>5 DEF Next

\* No leg, no attempt at work: the invariant holds at the start.
THEOREM MoneyInit == Init => MoneyInv
<1>1. SUFFICES ASSUME Init PROVE MoneyInv
  OBVIOUS
<1>2. kind \in Kinds /\ Len(Steps) \in Nat \ {0} /\ 1 \in 1 .. Len(Steps)
  BY <1>1, StepList DEF Init
<1>3. /\ \A l \in Legs : ledger[l] = "none"
      /\ ledger \in [Legs -> Protocol!Stages]
  BY <1>1 DEF Init, Protocol!Stages
<1>4. /\ \A a \in Attempts : attempt[a].pc = "new" /\ attempt[a].step = 1
      /\ attempt \in [Attempts -> [pc : PCs, step : 1 .. Len(Steps), compErr : BOOLEAN]]
  BY <1>1, <1>2 DEF Init, PCs
<1>5. Types
  BY <1>1, <1>2, <1>3, <1>4 DEF Init, Types
<1>6. LegStages
  BY <1>3, LegsAreDistinct DEF LegStages
<1>7. NothingUndone
  BY <1>3, <1>4, LegsAreDistinct DEF NothingUndone, NothingTakenBack, Failing
<1>8. LegsDependOnLegs
  BY <1>1, <1>3, LegsAreDistinct DEF Init, LegsDependOnLegs, ReversesOnlyWhatLanded, LegsInOrder
<1>9. \A a \in Attempts : Grounded(a)
  BY <1>4 DEF Grounded
<1> QED BY <1>5, <1>6, <1>7, <1>8, <1>9 DEF MoneyInv

\* The inductive invariant, with the types, holds throughout.
THEOREM MoneyInvariant == Spec => []MoneyInv
  BY MoneyInit, MoneyStep, PTL DEF Spec

\* tbMoneyAdapter and Saga.Run never move a leg before the one it depends on:
\* no reversal of a leg that did not land, no fee before the payment is
\* resolved, no run marked remitted before all its credits, however many
\* attempts run, crash, retry and compensate at once.
THEOREM NoLegOutOfTurn == Spec => []LegsDependOnLegs
<1>1. MoneyInv => LegsDependOnLegs
  BY DEF MoneyInv
<1> QED BY <1>1, MoneyInvariant, PTL

\* As long as nothing was compensated, a workflow that reports success has
\* moved all its money, once: attempts on top of each other converge.
THEOREM SuccessIsSettled == Spec => []CleanCompletion
<1>1. MoneyInv => CleanCompletion
  <2>1. SUFFICES ASSUME MoneyInv, ~compensated, NEW a \in Attempts, attempt[a].pc = "done"
                 PROVE  Settled
    BY DEF CleanCompletion
  <2>2. PICK n : n = Len(Steps) + 1
    OBVIOUS
  <2>3. kind \in Kinds /\ NothingTakenBack /\ LegStages /\ Taken(n)
    BY <2>1, <2>2 DEF MoneyInv, Types, NothingUndone, Grounded
  <2>4. CASE kind = "capture"
    <3>1. n = 4
      <4>1. Len(Steps) = 3
        BY <2>3, <2>4, StepList
      <4> QED BY <2>2, <4>1
    <3> QED BY <2>3, <2>4, <3>1 DEF Taken, Settled, Landed, NothingTakenBack, LegStages, Resolved
  <2>5. CASE kind = "refund"
    <3>1. n = 3
      <4>1. Len(Steps) = 2
        BY <2>3, <2>5, StepList
      <4> QED BY <2>2, <4>1
    <3> QED BY <2>3, <2>5, <3>1 DEF Taken, Settled, Landed, NothingTakenBack, LegStages, Resolved
  <2>6. CASE kind = "remittance"
    <3>1. n = NumCredits + 2
      BY <2>2, <2>3, <2>6, StepList, MoneyAssumption
    <3>2. marked /\ \A i \in Credits : ledger[Credit(i)] = "posted"
      BY <2>3, <2>6, <3>1, MoneyAssumption DEF Taken, Credits
    <3> QED BY <2>3, <2>6, <3>2 DEF Settled, Landed, NothingTakenBack
  <2> QED BY <2>3, <2>4, <2>5, <2>6 DEF Kinds
<1> QED BY <1>1, MoneyInvariant, PTL
=============================================================================
