------------------------------ MODULE RulePacks ------------------------------
(***************************************************************************)
(* services/rp-registry with packages/rulepack-schema: versions of a rule  *)
(* pack are registered, published once and pinned by consumers.            *)
(*                                                                         *)
(* A handler reads and writes the document store in separate steps, and    *)
(* nothing locks a pack in between.  The signing keys and the profile come *)
(* from the environment, so a restart may change them.                     *)
(***************************************************************************)
EXTENDS Integers, Sequences, FiniteSets, SequencesExt, TLC

CONSTANTS
  Artifacts,    \* pack files that are submitted, of one pack id
  Requests,     \* requests, each served once
  Consumers,    \* consumers that pin a version
  MaxRestarts   \* bound of the instance

\* Versions are three numbers (versionPattern of validate.go).
Parameters ==
  IsFiniteSet(Artifacts) /\ \A a \in Artifacts : a.version \in Nat \X Nat \X Nat

VARIABLES
  prod, pinned, \* PROFILE=prod, RULEPACK_SIGNING_PUBKEYS is set
  packs,        \* "packs": version -> stored record
  pins,         \* "consumers": consumer -> version
  announced,    \* published events: set of [version, body]
  request,      \* request -> its local state
  lapsed,       \* versions written over a record that was not the one read
  restarts

vars == <<prod, pinned, packs, pins, announced, request, lapsed, restarts>>

Versions == {a.version : a \in Artifacts}
None == [body |-> "none"]
New == [pc |-> "new"]
Done == [pc |-> "done"]

-----------------------------------------------------------------------------
(* The schema: validate.go, verify.go.                                     *)

Statuses == {"draft", "review", "simulation", "published", "retired"}
RuleKinds == {"rate_bps", "threshold", "band", "formula", "decision_table"}

\* A rule's outcome is of one kind at most, and is something.
ValidRule(then) ==
  /\ then \subseteq RuleKinds \cup {"decision", "set", "narrate"}
  /\ Cardinality(then \cap RuleKinds) <= 1
  /\ then \cap (RuleKinds \cup {"decision", "set"}) # {}

\* Patterns of ids, versions, dates and signatures are the flag wellFormed.
Validate(p) ==
  /\ p.wellFormed
  /\ p.status \in Statuses
  /\ Len(p.rules) > 0
  /\ \A i, j \in 1..Len(p.rules) : i # j => p.rules[i].id # p.rules[j].id
  /\ \A i \in 1..Len(p.rules) : ValidRule(p.rules[i].then)

\* Go equality of the decoded pack and the decoded canonical bytes.  A pack
\* read back from the store went through JSON, which turns the whole numbers
\* and dates that YAML decodes into floats and strings.
BindCanonicalToPack(p) == p.decoded = "yaml" \/ ~p.numbers

\* Signed by a pinned key, over the canonical form of this very artifact.
VerifyPackSignature(p) == pinned /\ p.signature = "ceremony" /\ BindCanonicalToPack(p)

VerifyPackOnWrite(p) ==
  IF p.signature = "none" THEN ~pinned /\ ~(prod /\ p.status = "published")
  ELSE VerifyPackSignature(p)

-----------------------------------------------------------------------------
(* POST /v1/packs.                                                         *)

Record(a) == [body |-> a.body, version |-> a.version, status |-> a.status,
              signature |-> a.signature, numbers |-> a.numbers]

\* Slip: whatever is stored is replaced.
RegisterAnyway(a, found) == Validate(a) /\ VerifyPackOnWrite([decoded |-> "yaml"] @@ Record(a))

\* Validated, verified, and no record found under the key.
MayRegister(a, found) ==
  /\ Validate(a)
  /\ VerifyPackOnWrite([decoded |-> "yaml"] @@ Record(a))
  /\ found = None

\* A GetRaw that fails is taken for a version that is not registered.
RegisterRead(r, a) ==
  /\ request[r] = New
  /\ \E found \in {packs[a.version], None} :
       request' = [request EXCEPT ![r] =
         IF MayRegister(a, found) THEN [pc |-> "register", artifact |-> a, seen |-> found]
         ELSE Done]
  /\ UNCHANGED <<prod, pinned, packs, pins, announced, lapsed, restarts>>

\* Put is an upsert.
RegisterPut(r) ==
  /\ request[r].pc = "register"
  /\ LET a == request[r].artifact IN
       /\ packs' = [packs EXCEPT ![a.version] = Record(a)]
       /\ lapsed' = IF packs[a.version] = request[r].seen THEN lapsed
                    ELSE lapsed \cup {a.version}
  /\ request' = [request EXCEPT ![r] = Done]
  /\ UNCHANGED <<prod, pinned, pins, announced, restarts>>

-----------------------------------------------------------------------------
(* POST /v1/packs/{id}/{version}/publish.                                  *)

\* Unpublished, not retired, and verified again if signed or in prod.
MayPublish(p) ==
  /\ p.status \notin {"published", "retired"}
  /\ p.signature # "none" \/ prod => VerifyPackOnWrite([decoded |-> "json"] @@ p)

PublishRead(r, v) ==
  /\ request[r] = New
  /\ packs[v] # None
  /\ request' = [request EXCEPT ![r] =
       IF MayPublish(packs[v]) THEN [pc |-> "publish", copy |-> packs[v]] ELSE Done]
  /\ UNCHANGED <<prod, pinned, packs, pins, announced, lapsed, restarts>>

\* The whole record is written back.
PublishPut(r) ==
  /\ request[r].pc = "publish"
  /\ LET p == request[r].copy IN
       /\ packs' = [packs EXCEPT ![p.version] = [p EXCEPT !.status = "published"]]
       /\ lapsed' = IF packs[p.version] = p THEN lapsed ELSE lapsed \cup {p.version}
  /\ request' = [request EXCEPT ![r] = [pc |-> "announce", copy |-> request[r].copy]]
  /\ UNCHANGED <<prod, pinned, pins, announced, restarts>>

\* The outbox may refuse the event; that is only logged.
PublishAnnounce(r) ==
  /\ request[r].pc = "announce"
  /\ \/ announced' = announced \cup
          {[version |-> request[r].copy.version, body |-> request[r].copy.body]}
     \/ announced' = announced
  /\ request' = [request EXCEPT ![r] = Done]
  /\ UNCHANGED <<prod, pinned, packs, pins, lapsed, restarts>>

-----------------------------------------------------------------------------
(* Latest versions and stale consumers.                                    *)

\* Slip: the components compared as strings.
TextLess(a, b) ==
  LET digits(n) == IF n < 10 THEN <<n>> ELSE <<n \div 10, n % 10>>
      before(m, n) == \E i \in 1..Len(digits(n)) :
        /\ \A j \in 1..(i - 1) : j <= Len(digits(m)) /\ digits(m)[j] = digits(n)[j]
        /\ i > Len(digits(m)) \/ digits(m)[i] < digits(n)[i]
  IN \E i \in 1..3 : before(a[i], b[i]) /\ \A j \in 1..(i - 1) : a[j] = b[j]

\* Component by component, as numbers.
SemverLess(a, b) ==
  \E i \in 1..3 : a[i] < b[i] /\ \A j \in 1..(i - 1) : a[j] = b[j]

\* Over the listing, which is ordered by key, keeping the best so far.
LatestPublished(ps) ==
  FoldLeft(LAMBDA best, p : IF p.status # "published" THEN best
                            ELSE IF best = None \/ SemverLess(best.version, p.version)
                                 THEN p ELSE best,
           None, SetToSeq({ps[v] : v \in Versions} \ {None}))

RegisterConsumer(c, v) ==
  /\ pins' = [pins EXCEPT ![c] = v]
  /\ UNCHANGED <<prod, pinned, packs, announced, request, lapsed, restarts>>

StaleConsumers ==
  LET latest == LatestPublished(packs) IN
  {c \in Consumers : pins[c] # <<>> /\ latest # None /\ SemverLess(pins[c], latest.version)}

-----------------------------------------------------------------------------
\* main: prod refuses to start without pinned keys.
Restart ==
  /\ restarts < MaxRestarts
  /\ restarts' = restarts + 1
  /\ \E p, k \in BOOLEAN : (p => k) /\ prod' = p /\ pinned' = k
  /\ request' = [r \in Requests |-> IF request[r] = New THEN New ELSE Done]
  /\ UNCHANGED <<packs, pins, announced, lapsed>>

Init ==
  /\ prod \in BOOLEAN /\ pinned \in BOOLEAN /\ (prod => pinned)
  /\ packs = [v \in Versions |-> None]
  /\ pins = [c \in Consumers |-> <<>>]
  /\ announced = {}
  /\ request = [r \in Requests |-> New]
  /\ lapsed = {}
  /\ restarts = 0

Next ==
  \/ \E r \in Requests :
       \/ \E a \in Artifacts : RegisterRead(r, a)
       \/ \E v \in Versions : PublishRead(r, v)
       \/ RegisterPut(r) \/ PublishPut(r) \/ PublishAnnounce(r)
  \/ \E c \in Consumers, v \in Versions : RegisterConsumer(c, v)
  \/ Restart

Spec == Init /\ [][Next]_vars

-----------------------------------------------------------------------------
(* Properties.                                                             *)

\* Rule sets that consumers rely on never change: once a version is
\* published, its record keeps body and status for good, whatever is
\* registered or published later, unless a request wrote over it without
\* having read it: another request had overtaken its read, or that failed.
KeepsPublished ==
  \A v \in Versions : packs[v] # None /\ packs[v].status = "published" /\ v \notin lapsed'
    => packs'[v] = packs[v]
PublishedIsFrozen == [][KeepsPublished]_vars

\* Known not to hold: the same without that exception.  registerPack answers
\* "already registered with different content" (main.go:238), but a single
\* registration whose GetRaw fails replaces a published record.
NeverReplaced ==
  [][\A v \in Versions : packs[v] # None /\ packs[v].status = "published"
       => packs'[v] = packs[v]]_vars

\* A version as a number, in a base above all its components.
Base == 1 + Max(UNION {{v[1], v[2], v[3]} : v \in Versions})
Rank(v) == (v[1] * Base + v[2]) * Base + v[3]

\* A consumer that is up to date when it pins stays on the newest rules or is
\* listed as stale: the newest published version, which the fold over the
\* listing finds, is the newest as a number, and every older pin is reported.
NewestIsFound ==
  \A v \in Versions :
    packs[v] # None /\ packs[v].status = "published" =>
      /\ Rank(LatestPublished(packs).version) >= Rank(v)
      /\ \A c \in Consumers : pins[c] # <<>> /\ Rank(pins[c]) < Rank(v)
           => c \in StaleConsumers

\* Known not to hold: "Verified against the pack AS REGISTERED" (publishPack).
\* A signed pack that registration accepted would be accepted again on
\* publication under the same keys; one with a number in it never is.
SignedCanBePublished ==
  \A v \in Versions :
    /\ packs[v] # None /\ packs[v].signature = "ceremony"
    /\ packs[v].status \in {"draft", "review", "simulation"} /\ pinned
    => MayPublish(packs[v])

-----------------------------------------------------------------------------
\* Inductive invariants: a registration is based on no record, and a
\* publication on one that is not published; ...
RegistryInv ==
  /\ packs = [v \in Versions |-> packs[v]] /\ request = [r \in Requests |-> request[r]]
  /\ \A r \in Requests :
       /\ request[r].pc = "register" => request[r].seen = None
       /\ request[r].pc = "publish" => request[r].copy.status # "published"

\* ... a record, stored or about to be, names the version it is stored under.
Names(p, v) ==
  DOMAIN p = {"body", "version", "status", "signature", "numbers"} /\ p.version = v

ListingInv ==
  /\ packs = [v \in Versions |-> packs[v]] /\ request = [r \in Requests |-> request[r]]
  /\ pins \in [Consumers -> Versions \cup {<<>>}]
  /\ \A v \in Versions : packs[v] # None => Names(packs[v], v)
  /\ \A r \in Requests :
       /\ request[r].pc = "register" => request[r].artifact \in Artifacts
       /\ request[r].pc = "publish" => \E v \in Versions : Names(request[r].copy, v)
=============================================================================
