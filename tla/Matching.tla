------------------------------- MODULE Matching -------------------------------
(***************************************************************************)
(* Entity resolution of services/tin-graph (internal/graph/graph.go): the  *)
(* edit distance of names row by row, the weighted score over the fields   *)
(* both sides have, the verdict of Resolve, and the edges of BuildGraph.   *)
(*                                                                         *)
(* A text is a sequence of letters after normStr; e-mail is compared like  *)
(* a telephone number and the address like the name, and are left out.     *)
(* Similarities are in units of 1/Scale, a multiple of every length, so    *)
(* that scores stay whole.  Go sums floating-point numbers, in an order    *)
(* that changes from call to call: equal scores may differ in the last     *)
(* digits, and one that is at a threshold may fall short of it.  Scores    *)
(* that are not equal are much further apart than that.                    *)
(***************************************************************************)
EXTENDS Integers, Sequences, FiniteSets, Functions

CONSTANTS
  Requests, \* attributes to resolve: [name, phone, nin]
  Stores,   \* sequences of entities, [name, phone, nin] each
  Scale,    \* see above
  autoMatchThreshold, reviewThreshold \* percent

Parameters ==
  /\ Scale \in Nat \ {0} /\ autoMatchThreshold \in Nat /\ reviewThreshold \in Nat
  /\ \A x \in Requests : x.name \in Seq(Range(x.name))
  /\ \A es \in Stores : es \in Seq(Range(es)) /\ \A e \in Range(es) : e.name \in Seq(Range(e.name))

VARIABLES
  attrs, entities, \* the input of Resolve
  at,              \* number of the entity in hand
  row,             \* rows of the distance table done for it
  prev,            \* the last of them: column -> distance
  cands,           \* scored candidates, in the end best first
  decision         \* "none" until the end

vars == <<attrs, entities, at, row, prev, cands, decision>>

None == "none"
weights == [name |-> 30, phone |-> 25, nin |-> 15]
Other == entities[at]
Lesser(m, n) == IF m < n THEN m ELSE n
Greater(m, n) == IF m < n THEN n ELSE m

\* Digits only, and the country code written as 0.
normPhone(p) == IF p = "+234p" THEN "0p" ELSE IF p = "letters" THEN None ELSE p

-----------------------------------------------------------------------------
(* levenshtein.                                                            *)

FirstRow(b) == [j \in 0..Len(b) |-> j]

min3(l, m, n) == Lesser(l, Lesser(m, n))

\* Slip: a row starts from nothing instead of its own number.
FirstCellZero(i) == 0

FirstCell(i) == i

NextRow(a, b, i, last) ==
  LET cur[j \in 0..Len(b)] ==
        IF j = 0 THEN FirstCell(i)
        ELSE min3(last[j] + 1, cur[j - 1] + 1, last[j - 1] + IF a[i] = b[j] THEN 0 ELSE 1)
  IN  [j \in 0..Len(b) |-> cur[j]]

\* The fields both sides have.
Absent(f) == IF f = "name" THEN <<>> ELSE None
Comparable(x, y) == {f \in DOMAIN weights : x[f] # Absent(f) /\ y[f] # Absent(f)}

\* One turn of the outer loop.
CompareRow ==
  /\ decision = None /\ at <= Len(entities)
  /\ "name" \in Comparable(attrs, Other)
  /\ row < Len(attrs.name)
  /\ prev' = NextRow(attrs.name, Other.name, row + 1, IF row = 0 THEN FirstRow(Other.name) ELSE prev)
  /\ row' = row + 1
  /\ UNCHANGED <<attrs, entities, at, cands, decision>>

-----------------------------------------------------------------------------
(* ScoreCandidate, Resolve.                                                *)

stringSimilarity(a, b, d) ==
  LET l == Greater(Len(a), Len(b)) IN (Scale \div l) * (l - d)

FieldScore(f, x, y, d) ==
  IF f = "name" THEN stringSimilarity(x.name, y.name, d)
  ELSE IF (f = "phone" /\ normPhone(x.phone) = normPhone(y.phone)) \/ (f = "nin" /\ x.nin = y.nin)
    THEN Scale ELSE 0

\* The score over the comparable fields only, as a fraction, and whether the
\* computed number is short of it.
ScoreCandidate(x, y, d, short) ==
  LET Weight(f) == IF f \in Comparable(x, y) THEN weights[f] ELSE 0
      Share(f) == IF f \in Comparable(x, y) THEN weights[f] * FieldScore(f, x, y, d) ELSE 0
  IN  [num |-> Share("name") + Share("phone") + Share("nin"),
       den |-> Greater(1, Weight("name") + Weight("phone") + Weight("nin")),
       short |-> short]

Above(s, t) ==
  \/ s.num * t.den > t.num * s.den
  \/ s.num * t.den = t.num * s.den /\ t.short /\ ~ s.short
Reaches(s, percent) ==
  \/ s.num * 100 > percent * Scale * s.den
  \/ s.num * 100 = percent * Scale * s.den /\ ~ s.short

\* Candidates that score nothing are dropped.  Where every field is equal the
\* two sums are the same, and the score is exactly 1.
Score ==
  LET named == "name" \in Comparable(attrs, Other)
      d == IF named THEN prev[Len(Other.name)] ELSE 0
  IN  /\ decision = None /\ at <= Len(entities)
      /\ named => row = Len(attrs.name)
      /\ \E short \in BOOLEAN :
           LET s == ScoreCandidate(attrs, Other, d, short)
           IN  /\ short => s.num # Scale * s.den
               /\ cands' = IF s.num > 0 THEN Append(cands, s) ELSE cands
      /\ at' = at + 1
      /\ row' = 0
      /\ UNCHANGED <<attrs, entities, prev, decision>>

Verdict(scores) ==
  IF \E s \in scores : Reaches(s, autoMatchThreshold) THEN "auto_match"
  ELSE IF \E s \in scores : Reaches(s, reviewThreshold) THEN "review" ELSE "new_entity"

\* sort.Slice: best first, equals in any order.
BestFirst(s) ==
  {[i \in DOMAIN s |-> s[p[i]]] : p \in
     {q \in Bijection(DOMAIN s, DOMAIN s) :
        \A i, j \in DOMAIN s : i < j => ~Above(s[q[j]], s[q[i]])}}

Decide ==
  /\ decision = None /\ at > Len(entities)
  /\ cands' \in BestFirst(cands)
  /\ decision' = Verdict(IF cands' = <<>> THEN {} ELSE {cands'[1]})
  /\ UNCHANGED <<attrs, entities, at, row, prev>>

\* BuildGraph: how the root is related to another entity.
Related(root, e) ==
  \/ root.phone # None /\ normPhone(root.phone) = normPhone(e.phone)
  \/ root.nin # None /\ root.nin = e.nin

-----------------------------------------------------------------------------
Init ==
  /\ attrs \in Requests
  /\ entities \in Stores
  /\ at = 1 /\ row = 0 /\ prev = <<>> /\ cands = <<>> /\ decision = None

Next == CompareRow \/ Score \/ Decide

Spec == Init /\ [][Next]_vars

-----------------------------------------------------------------------------
\* The edit distance by what it means: the cheapest way to pair letters of a
\* and b in order, where a letter without partner and a pair that differs
\* cost one each.
Pairings(i, j) ==
  {m \in SUBSET ((1..i) \X (1..j)) :
     \A p, q \in m : p = q \/ (p[1] < q[1] /\ p[2] < q[2]) \/ (q[1] < p[1] /\ q[2] < p[2])}
Cost(a, b, i, j, m) ==
  i + j - 2 * Cardinality(m) + Cardinality({p \in m : a[p[1]] # b[p[2]]})

\* Of the first i letters of a from the first j letters of b.
PrefixDistance(a, b, i, j) ==
  LET costs == {Cost(a, b, i, j, m) : m \in Pairings(i, j)}
  IN  CHOOSE c \in costs : \A d \in costs : c <= d
Distance(a, b) == PrefixDistance(a, b, Len(a), Len(b))

TrueScore(i, short) ==
  ScoreCandidate(attrs, entities[i], Distance(attrs.name, entities[i].name), short)

\* The candidates among the first n entities.
TrueScores(n, short) == {s \in {TrueScore(i, short) : i \in 1..n} : s.num > 0}

\* Resolve decides by the best candidate under the true edit distance, and
\* not by the order of the entities: the table is filled right for every pair
\* of names, and the first of the sorted candidates is the best.  At a
\* threshold the verdict may be the one of scores that are short of it.
DecidesByReference ==
  decision # None => \E short \in BOOLEAN : decision = Verdict(TrueScores(Len(entities), short))

\* Known not to hold: Resolve "applies the pack thresholds" (graph.go:351), and
\* a score that equals one reaches it.
ThresholdIsReached ==
  decision # None => decision = Verdict(TrueScores(Len(entities), FALSE))

\* Known not to hold: entities are related to each other or not at all.  A
\* telephone number without digits equals a missing one, in one direction.
RelationIsMutual ==
  \A i, j \in DOMAIN entities : Related(entities[i], entities[j]) => Related(entities[j], entities[i])
-----------------------------------------------------------------------------
(* The inductive invariant: the rows are those of the true distance, and   *)
(* the candidates are the entities before the one in hand.                 *)
RowFits ==
  at <= Len(entities) /\ "name" \in Comparable(attrs, Other) =>
    /\ row <= Len(attrs.name)
    /\ row > 0 => prev = [j \in 0..Len(Other.name) |-> PrefixDistance(attrs.name, Other.name, row, j)]

CandidatesFit ==
  /\ \A k \in DOMAIN cands : \E short \in BOOLEAN : cands[k] \in TrueScores(at - 1, short)
  /\ \A short \in BOOLEAN : \A s \in TrueScores(at - 1, short) :
       \E k \in DOMAIN cands : cands[k].num = s.num /\ cands[k].den = s.den

MatchingInv ==
  /\ attrs \in Requests /\ entities \in Stores
  /\ at \in 1..(Len(entities) + 1) /\ row \in Nat
  /\ cands \in Seq([num : Int, den : Nat \ {0}, short : BOOLEAN])
  /\ RowFits
  /\ decision = None => CandidatesFit
  /\ DecidesByReference
=============================================================================
