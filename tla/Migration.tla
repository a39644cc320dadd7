----------------------------- MODULE Migration ------------------------------
(***************************************************************************)
(* services/migration: Import and Verify of internal/mig over the JSON     *)
(* store of main.go, with requests running concurrently.                   *)
(*                                                                         *)
(* A row is what parsing leaves of it: its entity, natural key, TIN and    *)
(* amount, and whether decodeRow and validateRow accept it.  Hashes are    *)
(* collision-free, so a batch id stands for the accepted rows it digests,  *)
(* and the n-th link of the row chain for the first n of them; a document  *)
(* is then its batch and its position there.                               *)
(***************************************************************************)
EXTENDS Integers, Sequences, SequencesExt, FiniteSets

CONSTANTS
  Inputs,      \* uploads: the rows of the files, in order
  TINs,        \* taxpayer numbers that occur in them
  Importers,   \* requests to POST /v1/migration/batches, each served once
  Auditors,    \* requests to verify or to read the proof of a batch
  MaxFaults    \* bound on failing lookups, reads and writes and on crashes

Kinds == {"taxpayer", "filing", "payment"}
Row == [kind : Kinds, key : STRING, tin : TINs, amount : Nat, valid : BOOLEAN]

Parameters == Inputs \subseteq Seq(Row) /\ MaxFaults \in Nat

VARIABLES
  live,        \* TINs the tin-graph knows
  docs,        \* the mig_<entity> collections: pairs of batch and position
  manifests,   \* mig_batches: batch -> its signed manifest
  importer,    \* importer -> [pc, mode, rows, at, valid, rejected]
  auditor,     \* auditor -> [pc, batch, left, seen]
  undone,      \* batches some request has begun to roll back
  abandoned,   \* batches whose request ended before it was done with them
  faults

vars == <<live, docs, manifests, importer, auditor, undone, abandoned, faults>>

Fault == faults < MaxFaults /\ faults' = faults + 1

-----------------------------------------------------------------------------
(* Import: parse, validate, check against the tin-graph.                   *)

\* addRow: rows that do not validate, and repetitions of a key, are errors.
Staged(input) ==
  LET rows[n \in 0 .. Len(input)] ==
        IF n = 0 THEN <<>>
        ELSE IF input[n].valid /\ \A k \in DOMAIN rows[n - 1] : rows[n - 1][k].key # input[n].key
               THEN Append(rows[n - 1], input[n]) ELSE rows[n - 1]
  IN  rows[Len(input)]

NewImport(mode, input) ==
  [pc |-> "check", mode |-> mode, rows |-> Staged(input), at |-> 1, valid |-> <<>>,
   rejected |-> Len(input) - Len(Staged(input))]

Import(i, mode, input) ==
  /\ importer[i].pc = "new"
  /\ importer' = [importer EXCEPT ![i] = NewImport(mode, input)]
  /\ UNCHANGED <<live, docs, manifests, auditor, undone, abandoned, faults>>

\* Slip: any row that carries a TIN vouches for it.
TINsOfAnyRow(rows) == {rows[k].tin : k \in DOMAIN rows}

\* batchTINs: the taxpayers of the upload.
BatchTINs(rows) == {rows[k].tin : k \in {j \in DOMAIN rows : rows[j].kind = "taxpayer"}}

\* A taxpayer must be new to the tin-graph, other rows need one there or in
\* the upload.
Admitted(r, rows) ==
  IF r.kind = "taxpayer" THEN r.tin \notin live ELSE r.tin \in BatchTINs(rows) \cup live

CheckRow(i) ==
  LET me == importer[i]
      r == me.rows[me.at]
  IN  /\ me.pc = "check" /\ me.at <= Len(me.rows)
      /\ importer' = [importer EXCEPT
           ![i].at = @ + 1,
           ![i].valid = IF Admitted(r, me.rows) THEN Append(@, r) ELSE @,
           ![i].rejected = IF Admitted(r, me.rows) THEN @ ELSE @ + 1]
      /\ UNCHANGED <<live, docs, manifests, auditor, undone, abandoned, faults>>

\* LookupTIN fails, of a row that needs it: the whole import does.
LookupFails(i) ==
  LET me == importer[i]
      r == me.rows[me.at]
  IN  /\ me.pc = "check" /\ me.at <= Len(me.rows)
      /\ r.kind = "taxpayer" \/ r.tin \notin BatchTINs(me.rows)
      /\ Fault
      /\ importer' = [importer EXCEPT ![i].pc = "failed"]
      /\ UNCHANGED <<live, docs, manifests, auditor, undone, abandoned>>

Sum(kind, rows) ==
  FoldLeft(LAMBDA n, r : IF r.kind = kind THEN n + r.amount ELSE n, 0, rows)

Count(kind, rows) == Len(SelectSeq(rows, LAMBDA r : r.kind = kind))

buildManifest(valid, rejected) ==
  [batch |-> valid,
   counts |-> [kind \in Kinds |-> Count(kind, valid)],
   sums |-> [kind \in {"filing", "payment"} |-> Sum(kind, valid)],
   rejected |-> rejected]

Batch(i) == importer[i].valid

\* A dry run ends with its manifest; a commit of a known batch returns the
\* stored one.
FindBatch(i) ==
  /\ importer[i].pc = "check" /\ importer[i].at > Len(importer[i].rows)
  /\ importer' = [importer EXCEPT
       ![i].pc = IF importer[i].mode = "dry_run" \/ Batch(i) \in DOMAIN manifests
                   THEN "done" ELSE "put",
       ![i].at = 1]
  /\ UNCHANGED <<live, docs, manifests, auditor, undone, abandoned, faults>>

\* The stored manifest cannot be read: the batch is written again.
FindBatchFails(i) ==
  /\ importer[i].pc = "check" /\ importer[i].at > Len(importer[i].rows)
  /\ importer[i].mode = "commit"
  /\ Fault
  /\ importer' = [importer EXCEPT ![i].pc = "put", ![i].at = 1]
  /\ UNCHANGED <<live, docs, manifests, auditor, undone, abandoned>>

-----------------------------------------------------------------------------
(* Import: commitBatch and the manifest.                                   *)

\* Slip: the manifest is stored first, then its rows.
PutAfterManifest(i) ==
  /\ importer[i].pc = "put" /\ importer[i].at <= Len(Batch(i))
  /\ manifests' = [b \in DOMAIN manifests \cup {Batch(i)} |->
       buildManifest(b, importer[i].rejected)]
  /\ docs' = docs \cup {<<Batch(i), importer[i].at>>}
  /\ importer' = [importer EXCEPT ![i].at = @ + 1]
  /\ UNCHANGED <<live, auditor, undone, abandoned, faults>>

PutDoc(i) ==
  /\ importer[i].pc = "put" /\ importer[i].at <= Len(Batch(i))
  /\ docs' = docs \cup {<<Batch(i), importer[i].at>>}
  /\ importer' = [importer EXCEPT ![i].at = @ + 1]
  /\ UNCHANGED <<live, manifests, auditor, undone, abandoned, faults>>

\* A write fails: everything written by this request is taken back.
PutFails(i) ==
  /\ importer[i].pc = "put" /\ importer[i].at <= Len(Batch(i))
  /\ Fault
  /\ importer' = [importer EXCEPT ![i].pc = "undo", ![i].rows = SubSeq(Batch(i), 1, importer[i].at - 1),
                                  ![i].at = 1]
  /\ undone' = undone \cup {Batch(i)}
  /\ UNCHANGED <<live, docs, manifests, auditor, abandoned>>

\* rollback deletes in the order of writing; an error is ignored.
Rollback(i) ==
  /\ importer[i].pc = "undo" /\ importer[i].at <= Len(importer[i].rows)
  /\ \/ /\ docs' = docs \ {<<Batch(i), importer[i].at>>}
        /\ UNCHANGED <<abandoned, faults>>
     \/ /\ Fault
        /\ abandoned' = abandoned \cup {Batch(i)}
        /\ UNCHANGED docs
  /\ importer' = [importer EXCEPT ![i].at = @ + 1]
  /\ UNCHANGED <<live, manifests, auditor, undone>>

RolledBack(i) ==
  /\ importer[i].pc = "undo" /\ importer[i].at > Len(importer[i].rows)
  /\ importer' = [importer EXCEPT ![i].pc = "failed"]
  /\ UNCHANGED <<live, docs, manifests, auditor, undone, abandoned, faults>>

PersistManifest(i) ==
  /\ importer[i].pc = "put" /\ importer[i].at > Len(Batch(i))
  /\ manifests' = [b \in DOMAIN manifests \cup {Batch(i)} |->
       IF b = Batch(i) THEN buildManifest(b, importer[i].rejected) ELSE manifests[b]]
  /\ importer' = [importer EXCEPT ![i].pc = "done"]
  /\ UNCHANGED <<live, docs, auditor, undone, abandoned, faults>>

\* The manifest cannot be stored: the request fails, the documents stay.
PersistFails(i) ==
  /\ importer[i].pc = "put" /\ importer[i].at > Len(Batch(i))
  /\ Fault
  /\ importer' = [importer EXCEPT ![i].pc = "failed"]
  /\ abandoned' = abandoned \cup {Batch(i)}
  /\ UNCHANGED <<live, docs, manifests, auditor, undone>>

-----------------------------------------------------------------------------
(* Verify.                                                                 *)

VerifyBatch(v, b) ==
  /\ auditor[v].pc = "new"
  /\ b \in DOMAIN manifests
  /\ auditor' = [auditor EXCEPT ![v] = 
       [pc |-> "list", batch |-> b, left |-> <<"taxpayer", "filing", "payment">>, seen |-> {}]]
  /\ UNCHANGED <<live, docs, manifests, importer, undone, abandoned, faults>>

\* List of one collection; the three are read in turn.
ListDocs(v) ==
  LET b == auditor[v].batch
      found == {n \in DOMAIN b : b[n].kind = Head(auditor[v].left) /\ <<b, n>> \in docs}
  IN  /\ auditor[v].pc = "list" /\ auditor[v].left # <<>>
      /\ auditor' = [auditor EXCEPT ![v].left = Tail(@), ![v].seen = @ \cup found]
      /\ UNCHANGED <<live, docs, manifests, importer, undone, abandoned, faults>>

\* Slip: the documents are taken as the directory lists them.
Unordered(b, seen) == [k \in 1 .. Cardinality(seen) |-> b[SetToSeq(seen)[Cardinality(seen) + 1 - k]]]

\* The rows that were found, by row index.
Rank(n, seen) == Cardinality({m \in seen : m <= n})
Ordered(b, seen) == [k \in 1 .. Cardinality(seen) |-> b[CHOOSE n \in seen : Rank(n, seen) = k]]

\* Counts, sums, and the chain: link n is that of the first n rows.  The manifest
\* signature verifies whenever the signing key is the one it was made with, which
\* no step here changes.
Reconciles(m, rows) ==
  /\ Len(rows) = Len(m.batch)
  /\ \A kind \in Kinds : Count(kind, rows) = m.counts[kind]
  /\ \A kind \in {"filing", "payment"} : Sum(kind, rows) = m.sums[kind]
  /\ \A n \in DOMAIN rows : SubSeq(rows, 1, n) = SubSeq(m.batch, 1, n)

FinishProof(v) ==
  LET b == auditor[v].batch
  IN  /\ auditor[v].pc = "list" /\ auditor[v].left = <<>>
      /\ auditor' = [auditor EXCEPT ![v].pc =
           IF Reconciles(manifests[b], Ordered(b, auditor[v].seen)) THEN "PASS" ELSE "FAIL"]
      /\ UNCHANGED <<live, docs, manifests, importer, undone, abandoned, faults>>

\* A collection cannot be read: the check store_read fails the proof at once.
ListFails(v) ==
  /\ auditor[v].pc = "list" /\ auditor[v].left # <<>>
  /\ Fault
  /\ auditor' = [auditor EXCEPT ![v].pc = "FAIL"]
  /\ UNCHANGED <<live, docs, manifests, importer, undone, abandoned>>

-----------------------------------------------------------------------------
AtWork(i) == importer[i].pc \in {"put", "undo"}

\* The process ends, and with it the requests it serves; the store stays.
Crash ==
  /\ Fault
  /\ importer' = [i \in Importers |->
       IF importer[i].pc = "check" \/ AtWork(i)
         THEN [importer[i] EXCEPT !.pc = "failed"] ELSE importer[i]]
  /\ auditor' = [v \in Auditors |->
       IF auditor[v].pc = "list" THEN [auditor[v] EXCEPT !.pc = "failed"] ELSE auditor[v]]
  /\ abandoned' = abandoned \cup {Batch(i) : i \in {j \in Importers : AtWork(j)}}
  /\ UNCHANGED <<live, docs, manifests, undone>>

\* The tin-graph provisions a taxpayer.
Provision(tin) ==
  /\ live' = live \cup {tin}
  /\ UNCHANGED <<docs, manifests, importer, auditor, undone, abandoned, faults>>

Init ==
  /\ live \in SUBSET TINs
  /\ docs = {}
  /\ manifests = <<>>
  /\ importer = [i \in Importers |->
       [pc |-> "new", mode |-> "dry_run", rows |-> <<>>, at |-> 1, valid |-> <<>>, rejected |-> 0]]
  /\ auditor = [v \in Auditors |-> [pc |-> "new", batch |-> <<>>, left |-> <<>>, seen |-> {}]]
  /\ undone = {} /\ abandoned = {}
  /\ faults = 0

ImportStep(i) ==
  \/ CheckRow(i) \/ LookupFails(i) \/ FindBatch(i) \/ FindBatchFails(i)
  \/ PutDoc(i) \/ PutFails(i) \/ Rollback(i) \/ RolledBack(i)
  \/ PersistManifest(i) \/ PersistFails(i)

VerifyStep(v) == ListDocs(v) \/ ListFails(v) \/ FinishProof(v)

Next ==
  \/ \E i \in Importers :
       \/ \E mode \in {"dry_run", "commit"}, input \in Inputs : Import(i, mode, input)
       \/ ImportStep(i)
  \/ \E v \in Auditors : (\E b \in DOMAIN manifests : VerifyBatch(v, b)) \/ VerifyStep(v)
  \/ Crash
  \/ \E tin \in TINs : Provision(tin)

Spec == Init /\ [][Next]_vars

-----------------------------------------------------------------------------
(* Properties.                                                             *)

Complete(b) == \A n \in DOMAIN b : <<b, n>> \in docs

\* "No partial-file corruption": a batch with a manifest has all its rows,
\* whatever requests for it run at once, fail or crash, unless one of them
\* rolled back the rows it shares with the others.
CommittedIsComplete ==
  \A b \in DOMAIN manifests : Complete(b) \/ b \in undone

\* "A failed write rolls the whole batch back": rows of a batch without a
\* manifest are there only while a request is at work on it, or because the
\* request ended without the chance, or the deletion or the manifest failed.
NothingLeftBehind ==
  \A d \in docs :
    \/ d[1] \in DOMAIN manifests
    \/ \E i \in Importers : AtWork(i) /\ Batch(i) = d[1]
    \/ d[1] \in abandoned

\* An upload is stored as a whole or not at all (the two parts above).
AllOrNothing == CommittedIsComplete /\ NothingLeftBehind

\* Every filing and payment of a committed batch has its taxpayer, among the
\* committed rows of the batch or in the tin-graph, although rows of the
\* same upload were rejected for their format, as repeated or as known.
ReferencesResolve ==
  \A b \in DOMAIN manifests : \A n \in DOMAIN b :
    b[n].kind # "taxpayer" =>
      b[n].tin \in live \/ \E k \in DOMAIN b : b[k].kind = "taxpayer" /\ b[k].tin = b[n].tin

\* A proof that read the store fails only a batch some request took rows
\* from; a batch that was left alone passes, whatever is imported while its
\* collections are read one after another.
VerdictIsJust ==
  \A v \in Auditors :
    auditor[v].pc = "FAIL" /\ auditor[v].left = <<>> => auditor[v].batch \in undone

-----------------------------------------------------------------------------
(* The inductive invariant.                                                *)

ImportTyped(me) ==
  /\ {"pc", "rows", "at", "valid", "rejected"} \subseteq DOMAIN me
  /\ me.at \in Nat \ {0} /\ me.valid \in Seq(Row)
  /\ me.pc = "check" => me.rows \in Seq(Row)

\* What a request has put so far is there, unless somebody takes rows of the
\* batch back; and whoever does so is noted.
WorkIsDone(i) ==
  /\ importer[i].pc = "put" =>
       /\ importer[i].at <= Len(Batch(i)) + 1
       /\ \A n \in 1 .. (importer[i].at - 1) : <<Batch(i), n>> \in docs \/ Batch(i) \in undone
  /\ importer[i].pc = "undo" => Len(importer[i].rows) \in Nat /\ Batch(i) \in undone

\* A request at work has put the document and not yet taken it back.
Holds(i, d) ==
  /\ Batch(i) = d[1]
  /\ \/ importer[i].pc = "put" /\ d[2] < importer[i].at
     \/ importer[i].pc = "undo" /\ d[2] \in importer[i].at .. Len(importer[i].rows)

MigrationInv ==
  /\ importer = [i \in Importers |-> importer[i]] /\ \A i \in Importers : ImportTyped(importer[i])
  /\ \A d \in docs : d = <<d[1], d[2]>> /\ d[2] \in Nat \ {0}
  /\ \A i \in Importers : WorkIsDone(i)
  /\ \A d \in docs : \/ d[1] \in DOMAIN manifests \cup abandoned
                     \/ \E i \in Importers : Holds(i, d)
  /\ CommittedIsComplete

\* Taxpayers of an upload checked so far were admitted or are known, and
\* other rows were admitted for one of the upload or a known one.
Vouched(tin, rows) ==
  tin \in live \/ \E k \in DOMAIN rows : rows[k].kind = "taxpayer" /\ rows[k].tin = tin
Resolves(rows) == \A n \in DOMAIN rows : rows[n].kind # "taxpayer" => Vouched(rows[n].tin, rows)

ImportResolves(me) ==
  /\ me.pc = "check" =>
       /\ \A k \in 1 .. (me.at - 1) :
            k \in DOMAIN me.rows /\ me.rows[k].kind = "taxpayer" => Vouched(me.rows[k].tin, me.valid)
       /\ \A n \in DOMAIN me.valid :
            me.valid[n].kind # "taxpayer" => me.valid[n].tin \in BatchTINs(me.rows) \cup live
  /\ me.pc = "put" => Resolves(me.valid)

ReferenceInv == ReferencesResolve /\ \A i \in Importers : ImportResolves(importer[i])

\* A manifest is of its batch; a verification has seen what it has read of a
\* batch that was left alone.
ManifestTold ==
  \A b \in DOMAIN manifests :
    b \in Seq(Row) /\ manifests[b] = buildManifest(b, manifests[b].rejected)

AuditFair(me) ==
  /\ me.pc = "list" =>
       /\ {"pc", "batch", "left", "seen"} \subseteq DOMAIN me
       /\ me.batch \in DOMAIN manifests
       /\ me.left \in {<<"taxpayer", "filing", "payment">>, <<"filing", "payment">>, <<"payment">>, <<>>}
       /\ me.seen \subseteq DOMAIN me.batch
       /\ \A n \in DOMAIN me.batch :
            \/ n \in me.seen \/ me.batch \in undone
            \/ \E k \in DOMAIN me.left : me.left[k] = me.batch[n].kind
  /\ me.pc = "FAIL" /\ me.left = <<>> => me.batch \in undone

VerdictInv ==
  /\ ManifestTold
  /\ auditor = [v \in Auditors |-> auditor[v]] /\ \A v \in Auditors : AuditFair(auditor[v])
=============================================================================
