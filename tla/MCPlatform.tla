----------------------------- MODULE MCPlatform -----------------------------
(* TLC instance of the services around the ledger.  To work on one of them, *)
(* give Components in the cfg that one alone.                               *)
EXTENDS Platform, Integers, Sequences, FiniteSets, TLC

CONSTANTS p1, p2, p3  \* requests that may be interchanged

\* Sound for a service that uses two of the three as well: a permutation that
\* takes one of its states to another one keeps these two, or swaps them.
Symmetry == Permutations({p1, p2, p3})

-----------------------------------------------------------------------------
(* Inputs that are not plain sets.                                         *)

\* Two taxpayers of three are provisioned; a shareholder above 25 percent.
TwoKnown == <<"A", "B">>
OwnerProfiles == {[p \in {"ada"} |-> 26]}
HomeOfA == [x \in {"reg1"} |-> "A"]
PairScores == [pair \in {<<"A", "B">>} |-> [name |-> 100, dob |-> 100, contact |-> 0]]

Anonymised == [s \in {"s1"} |-> "anon1"]

\* Packs whose versions order differently as text, with and without numbers
\* that the store's JSON rewrites, signed and not.
Pack(version, body, status, signature, numbers, kinds) ==
  [version |-> version, body |-> body, status |-> status, signature |-> signature,
   numbers |-> numbers, wellFormed |-> TRUE, rules |-> <<[id |-> "r1", then |-> kinds]>>]
Packs ==
  {Pack(<<1, 9, 0>>, "b1", "review", "ceremony", FALSE, {"decision"}),
   Pack(<<1, 9, 0>>, "b2", "draft", "none", TRUE, {"rate_bps"}),
   Pack(<<1, 10, 0>>, "b3", "published", "ceremony", TRUE, {"band"}),
   Pack(<<1, 10, 0>>, "b4", "review", "ceremony", TRUE, {"band", "narrate"}),
   Pack(<<1, 10, 0>>, "b5", "draft", "none", FALSE, {"band", "formula"})}

Walks == {<<"sms", "email", "agent">>, <<"email">>, <<"email", "email">>}

\* Names to compare, and stores of two entities.
Names == UNION {[1..n -> {"x", "y"}] : n \in 0..3}
Lookups == [name : Names, phone : {"none", "0p"}, nin : {"n1"}]
Second == [name |-> <<"x", "y">>, phone |-> "+234p", nin |-> "none"]
PairsOfEntities ==
  {<<first, Second>> : first \in [name : Names, phone : {"none", "letters"}, nin : {"n1", "n2"}]}
    \cup {<<[Second EXCEPT !.phone = "letters"], [Second EXCEPT !.phone = "none"]>>}

\* Uploads that share rows: one with a rejected row, a repeated one, and a
\* filing that has no taxpayer.
Row(kind, key, tin, amount, valid) ==
  [kind |-> kind, key |-> key, tin |-> tin, amount |-> amount, valid |-> valid]
TaxpayerA == Row("taxpayer", "tp|A", "A", 0, TRUE)
FilingA == Row("filing", "fl|A", "A", 1, TRUE)
PaymentA == Row("payment", "pm|1", "A", 2, TRUE)
Uploads ==
  {<<TaxpayerA, FilingA, PaymentA>>,
   <<TaxpayerA, Row("taxpayer", "tp|B", "B", 0, FALSE), FilingA,
     Row("filing", "fl|B", "B", 1, TRUE), PaymentA, PaymentA>>}

-----------------------------------------------------------------------------
TinGraphOf ==
  [TINs |-> {"A", "B", "C"}, Known |-> TwoKnown, Persons |-> {"ada"},
   Profiles |-> OwnerProfiles, Registrations |-> {"reg1"}, Home |-> HomeOfA,
   Requests |-> {p1, p2, p3},
   Statuses |-> {"suspended", "deceased", "merged_into"}, MaxBusy |-> 2,
   FieldScores |-> PairScores, MaxFaults |-> 1]
ConsentOf ==
  [Slots |-> {p1, p2}, Subjects |-> {"s1"}, anonymisedSubject |-> Anonymised,
   Callers |-> {"s1", "admin"}, Purposes |-> {"tin_verification"},
   Bases |-> {"consent", "contract"}, Lifetimes |-> {0, 1}, MaxConsents |-> 2,
   MaxClock |-> 2, MaxFaults |-> 1, MaxServed |-> 4]
BreachOf ==
  [Requests |-> {"q1", "q2", "q3", "q4"}, NotifyWindow |-> 1, MaxBreaches |-> 1,
   MaxTime |-> 2]
StepUpOf ==
  [Admins |-> {"ada"}, Bindings |-> {"pay1"}, Codes |-> {1},
   Requests |-> {"r1", "r2", "r3"}, TicketTTL |-> 1, MaxEnrolments |-> 2,
   MaxTickets |-> 1, MaxTime |-> 4]
EvidenceOf ==
  [Writers |-> {"w1", "w2"}, Ids |-> {"ev1"}, Contents |-> {"c1", "c2"},
   MaxEvents |-> 3, MaxFaults |-> 2]
RulePacksOf ==
  [Artifacts |-> Packs, Requests |-> {"q1", "q2", "q3"}, Consumers |-> {"c1"},
   MaxRestarts |-> 1]
NotificationOf ==
  [Requests |-> {"q1", "q2"}, Keys |-> {"k"}, Chains |-> Walks, maxPerCh |-> 3, MaxFaults |-> 1]
DocumentsOf ==
  [Ids |-> {"d1", "d2"}, Requests |-> {"q1", "q2", "q3"}, MaxFaults |-> 2]
SessionsOf ==
  [Emails |-> {"ada"}, Logins |-> {"l1", "l2"}, Roles |-> {"operator", "auditor"},
   TokenTTL |-> 2, MaxIds |-> 2, MaxClock |-> 2, MaxFaults |-> 1, MaxRestarts |-> 1]
ConsoleOf ==
  [Requests |-> {"q1", "q2"}, MaxFaults |-> 3, MaxFlushes |-> 1, MaxRestarts |-> 1]
RealClientOf ==
  [Calls |-> {"c1", "c2", "c3"}, Holds |-> {"h1"}, PostIds |-> {"p1"},
   Codes |-> {0, 1}, Amounts |-> {0, 1}, MaxFaults |-> 1]
ThresholdsOf ==
  [Accounts |-> {"a"}, Observers |-> {p1, p2}, Amounts |-> {4, 10},
   ctrThreshold |-> 10, nearThreshold |-> 4, structuringWindow |-> 1,
   MaxObserved |-> 5, MaxClock |-> 3, MaxMishaps |-> 1]
KeyCacheOf ==
  [Kids |-> {"k1", "k2"}, Checks |-> {"c1", "c2"}, TTL |-> 1, MaxClock |-> 2,
   MaxFaults |-> 1]
MatchingOf ==
  [Requests |-> Lookups, Stores |-> PairsOfEntities, Scale |-> 6,
   autoMatchThreshold |-> 85, reviewThreshold |-> 50]
MigrationOf ==
  [Inputs |-> Uploads, TINs |-> {"A", "B"}, Importers |-> {p1, p2},
   Auditors |-> {"v1"}, MaxFaults |-> 2]
=============================================================================
