------------------------------ MODULE TinGraph ------------------------------
(***************************************************************************)
(* services/tin-graph: provisioning and the in-memory entity index         *)
(* (main.go, entity_index.go), company ownership (graph/kyb.go), and the   *)
(* lifecycle, merge and unmerge of TINs (graph/lifecycle.go).              *)
(*                                                                         *)
(* The store takes no lock across the accesses of a handler, so a handler  *)
(* is a request with a program counter and one step per access, or per two *)
(* reads of one collection in a row.  An entity id is its position in      *)
(* `entities`: ULIDs ascend.  A TIN stands for its hash.                   *)
(***************************************************************************)
EXTENDS Integers, Sequences, FiniteSets

CONSTANTS
  TINs,          \* taxpayer numbers
  Known,         \* those that are provisioned from the start, in order
  Persons,       \* possible owners of companies
  Profiles,      \* shareholder lists: persons to percentages
  Registrations, \* documents of the collection "registrations"
  Home,          \* registration -> the TIN it was made under
  Requests,      \* requests, each served once
  Statuses,      \* lifecycle statuses that are asked for
  MaxBusy,       \* bound on requests served at the same time
  FieldScores,   \* pair of TINs -> similarity in percent of the fields both have
  MaxFaults      \* bound on failing accesses and crashes

Terminal == {"deceased", "business_closed", "deregistered"}
LifecycleStatus == {"active", "suspended", "merged_into"} \cup Terminal

NoTIN == "none"

Parameters ==
  /\ Known \in Seq(TINs) /\ \A i, j \in DOMAIN Known : Known[i] = Known[j] => i = j
  /\ NoTIN \notin TINs
  /\ Profiles \subseteq [Persons -> 0 .. 100]
  /\ Home \in [Registrations -> TINs]
  /\ Statuses \subseteq LifecycleStatus
  /\ {MaxBusy, MaxFaults} \subseteq Nat

VARIABLES
  entities,      \* collection "entities"
  index,         \* [loaded, list]: the in-memory copy
  lifecycle,     \* TIN -> [status, into]
  regs,          \* registration -> TIN it is filed under
  merges,        \* collection "merges", in the order of writing
  aged,          \* merges whose unmerge window has passed
  queue,         \* collection "dedup_queue": pairs of TINs
  req,           \* request -> its local state
  faults,
  contended,     \* TINs two requests worked on at the same time
  cut,           \* TINs of requests that ended half-way
  misread,       \* an index rebuild could not read the store
  byHand         \* TINs set to merged_into without a merge

store == <<entities, lifecycle, regs, merges, queue>>
ghosts == <<contended, cut, misread, byHand>>
vars == <<store, index, aged, req, faults, ghosts>>

-----------------------------------------------------------------------------
(* Ownership: graph/kyb.go.                                                *)

UBOThresholdPercent == 25
NoShares == [p \in Persons |-> 0]

\* DeriveUBOs: the declared ones stay, holders above the threshold join.
DeriveUBOs(shareholders, declared) ==
  declared \cup {p \in Persons : shareholders[p] > UBOThresholdPercent}

Entity(tin) == [tin |-> tin, holders |-> NoShares, ubos |-> {}]

\* Merge fills in the attributes the surviving entity lacks.
Filled(surv, merged) ==
  [surv EXCEPT !.holders = IF @ = NoShares THEN merged.holders ELSE @,
               !.ubos = IF @ = {} THEN merged.ubos ELSE @]

-----------------------------------------------------------------------------
(* Lifecycle table: graph/lifecycle.go.                                    *)

CanTransition(from, to) ==
  /\ from \in {"active", "suspended"}
  /\ to \in LifecycleStatus \ {from}

FilingAllowed(status) == status \in {"active", "suspended"}

\* Slip: suspended or not, merged or not.
AnySurvivor(status) == TRUE

\* The survivor of a merge must be able to file and not be suspended.
MaySurvive(status) == FilingAllowed(status) /\ status # "suspended"

-----------------------------------------------------------------------------
(* Requests.                                                               *)

Idle == [op |-> "none", pc |-> "new", tins |-> {}]
Served == [op |-> "none", pc |-> "done", tins |-> {}]
Busy(r) == req[r].pc \notin {"new", "done"}

Start(r, local) ==
  /\ req[r].pc = "new"
  /\ Cardinality({q \in Requests : Busy(q)}) < MaxBusy
  /\ req' = [req EXCEPT ![r] = IF local.pc = "done" THEN Served ELSE local]
  /\ contended' = contended \cup
       {t \in local.tins : \E q \in Requests : Busy(q) /\ t \in req[q].tins}

Fault == faults < MaxFaults /\ faults' = faults + 1

\* ensure: the index is rebuilt when a write has invalidated it.
Ensured == IF index.loaded THEN index ELSE [loaded |-> TRUE, list |-> entities]

\* findByTINHash: the first in the order of ids.
Find(list, tin) == {n \in DOMAIN list : list[n].tin = tin /\ \A k \in 1 .. n - 1 : list[k].tin # tin}

\* ListInto fails while the index is rebuilt: it counts as loaded, and empty.
RebuildFails ==
  /\ ~ index.loaded
  /\ Fault
  /\ index' = [loaded |-> TRUE, list |-> <<>>]
  /\ misread' = TRUE
  /\ UNCHANGED <<store, aged, req, contended, cut, byHand>>

-----------------------------------------------------------------------------
(* provision and updateKYB.                                                *)

\* provision answers with the entity it finds, else goes on to write one.
Provision(r, tin, profile) ==
  /\ Start(r, [op |-> "provision", tins |-> {tin}, doc |-> Entity(tin),
               profile |-> profile, at |-> Len(entities) + 1,
               pc |-> IF Find(Ensured.list, tin) = {} THEN "put" ELSE "done"])
  /\ index' = Ensured
  /\ UNCHANGED <<store, aged, faults, cut, misread, byHand>>

UpdateKYB(r, id, profile) ==
  /\ id \in DOMAIN Ensured.list
  /\ Start(r, [op |-> "kyb", tins |-> {Ensured.list[id].tin}, doc |-> Ensured.list[id],
               profile |-> profile, at |-> id, pc |-> "put"])
  /\ index' = Ensured
  /\ UNCHANGED <<store, aged, faults, cut, misread, byHand>>

WithProfile(doc, profile) ==
  [doc EXCEPT !.holders = profile, !.ubos = DeriveUBOs(profile, @)]

\* A document at a known position replaces it, a new one is added.
PutEntity(doc, id) ==
  entities' = IF id \in DOMAIN entities THEN [entities EXCEPT ![id] = doc]
                                        ELSE Append(entities, doc)

\* Slip: the index is invalidated first, the document written after that.
PutAfterInvalidate(r) ==
  /\ req[r].op \in {"provision", "kyb"}
  /\ \/ /\ req[r].pc = "put"
        /\ index' = [index EXCEPT !.loaded = FALSE]
        /\ req' = [req EXCEPT ![r].pc = "invalidate"]
        /\ UNCHANGED entities
     \/ /\ req[r].pc = "invalidate"
        /\ PutEntity(WithProfile(req[r].doc, req[r].profile), req[r].at)
        /\ req' = [req EXCEPT ![r] = Served]
        /\ UNCHANGED index
  /\ UNCHANGED <<lifecycle, regs, merges, queue, aged, faults, ghosts>>

\* entityStore.Put: the write, and the invalidation after it.
PutDocument(r) ==
  /\ req[r].op \in {"provision", "kyb"}
  /\ \/ /\ req[r].pc = "put"
        /\ PutEntity(WithProfile(req[r].doc, req[r].profile),
                     IF req[r].op = "kyb" THEN req[r].at ELSE Len(entities) + 1)
        /\ req' = [req EXCEPT ![r].pc = "invalidate"]
        /\ UNCHANGED index
     \/ /\ req[r].pc = "invalidate"
        /\ index' = [index EXCEPT !.loaded = FALSE]
        /\ req' = [req EXCEPT ![r] = Served]
        /\ UNCHANGED entities
  /\ UNCHANGED <<lifecycle, regs, merges, queue, aged, faults, ghosts>>

-----------------------------------------------------------------------------
(* setLifecycle.                                                           *)

\* Transition: an illegal change is refused.
ReadStatus(r, tin, to) ==
  /\ Start(r, [op |-> "status", tins |-> {tin}, to |-> to, tin |-> tin,
               pc |-> IF CanTransition(lifecycle[tin].status, to) THEN "put" ELSE "done"])
  /\ UNCHANGED <<store, index, aged, faults, cut, misread, byHand>>

\* applyTransition.
PutStatus(r) ==
  LET tin == req[r].tin
  IN  /\ req[r].op = "status" /\ req[r].pc = "put"
      /\ lifecycle' = [lifecycle EXCEPT ![tin] = [status |-> req[r].to, into |-> NoTIN]]
      /\ req' = [req EXCEPT ![r] = Served]
      /\ byHand' = IF req[r].to = "merged_into" THEN byHand \cup {tin} ELSE byHand
      /\ UNCHANGED <<entities, regs, merges, queue, index, aged, faults, contended, cut, misread>>

-----------------------------------------------------------------------------
(* MergeTINs.                                                              *)

\* findEntityByTINHash reads the store, not the index.
MergeEntities(r, surv, merged) ==
  /\ surv # merged
  /\ Find(entities, surv) # {} /\ Find(entities, merged) # {}
  /\ \E s \in Find(entities, surv), m \in Find(entities, merged) :
       Start(r, [op |-> "merge", tins |-> {surv, merged}, pc |-> "lifecycles",
                 surv |-> surv, merged |-> merged, survId |-> s, mergedId |-> m,
                 survSnapshot |-> entities[s], mergedSnapshot |-> entities[m],
                 prev |-> "active", moved |-> {}, left |-> {}])
  /\ UNCHANGED <<store, index, aged, faults, cut, misread, byHand>>

\* LoadLifecycle of both, and the refusals.
MergeLifecycles(r) ==
  LET me == req[r]
      allowed == MaySurvive(lifecycle[me.surv].status)
                   /\ CanTransition(lifecycle[me.merged].status, "merged_into")
  IN  /\ me.op = "merge" /\ me.pc = "lifecycles"
      /\ req' = [req EXCEPT ![r] =
           IF allowed THEN [me EXCEPT !.pc = "list", !.prev = lifecycle[me.merged].status] ELSE Served]
      /\ UNCHANGED <<store, index, aged, faults, ghosts>>

MergeList(r) ==
  /\ req[r].op = "merge" /\ req[r].pc = "list"
  /\ req' = [req EXCEPT ![r].pc = "move",
                        ![r].left = {x \in Registrations : regs[x] = req[r].merged}]
  /\ UNCHANGED <<store, index, aged, faults, ghosts>>

\* List fails: the merge goes on and moves nothing.
MergeListFails(r) ==
  /\ req[r].op = "merge" /\ req[r].pc = "list"
  /\ Fault
  /\ req' = [req EXCEPT ![r].pc = "move"]
  /\ cut' = cut \cup req[r].tins
  /\ UNCHANGED <<store, index, aged, contended, misread, byHand>>

MoveRegistration(r) ==
  /\ req[r].op = "merge" /\ req[r].pc = "move" /\ req[r].left # {}
  /\ \E x \in req[r].left :
       /\ regs' = [regs EXCEPT ![x] = req[r].surv]
       /\ req' = [req EXCEPT ![r].left = @ \ {x}, ![r].moved = @ \cup {x}]
  /\ UNCHANGED <<entities, lifecycle, merges, queue, index, aged, faults, ghosts>>

\* The surviving entity, with what it lacked.
MergePutEntity(r) ==
  LET me == req[r]
  IN  /\ me.op = "merge" /\ me.pc = "move" /\ me.left = {}
      /\ entities' = [entities EXCEPT ![me.survId] = Filled(me.survSnapshot, me.mergedSnapshot)]
      /\ index' = [index EXCEPT !.loaded = FALSE]
      /\ req' = [req EXCEPT ![r].pc = "record"]
      /\ UNCHANGED <<lifecycle, regs, merges, queue, aged, faults, ghosts>>

MergeRecord(me) ==
  [surv |-> me.surv, merged |-> me.merged, survId |-> me.survId, mergedId |-> me.mergedId,
   survSnapshot |-> me.survSnapshot, mergedSnapshot |-> me.mergedSnapshot,
   moved |-> me.moved, prev |-> me.prev, undone |-> FALSE]

\* Slip: the receipt is written when everything else is done.
RecordLast(r) ==
  LET me == req[r]
  IN  /\ me.op = "merge"
      /\ \/ /\ me.pc = "record"
            /\ lifecycle' = [lifecycle EXCEPT ![me.merged] = [status |-> "merged_into", into |-> NoTIN]]
            /\ req' = [req EXCEPT ![r].pc = "receipt"]
            /\ UNCHANGED merges
         \/ /\ me.pc = "receipt"
            /\ merges' = Append(merges, MergeRecord(me))
            /\ req' = [req EXCEPT ![r].pc = "status"]
            /\ UNCHANGED lifecycle
      /\ UNCHANGED <<entities, regs, queue, index, aged, faults, ghosts>>

MergePutRecord(r) ==
  /\ req[r].op = "merge" /\ req[r].pc = "record"
  /\ merges' = Append(merges, MergeRecord(req[r]))
  /\ req' = [req EXCEPT ![r].pc = "status"]
  /\ UNCHANGED <<entities, lifecycle, regs, queue, index, aged, faults, ghosts>>

\* applyTransition, and a second write that names the survivor: it puts back the
\* status read after the first, over what a rival wrote since.
MergePutStatus(r) ==
  LET me == req[r]
  IN  /\ me.op = "merge"
      /\ \/ /\ me.pc = "status"
            /\ lifecycle' = [lifecycle EXCEPT ![me.merged] = [status |-> "merged_into", into |-> NoTIN]]
            /\ req' = [req EXCEPT ![r].pc = "into"]
         \/ /\ me.pc = "into"
            /\ \E status \in {lifecycle[me.merged].status, "merged_into"} :
                 lifecycle' = [lifecycle EXCEPT ![me.merged] = [status |-> status, into |-> me.surv]]
            /\ req' = [req EXCEPT ![r] = Served]
      /\ UNCHANGED <<entities, regs, merges, queue, index, aged, faults, ghosts>>

-----------------------------------------------------------------------------
(* UnmergeTINs.                                                            *)

OpenMerges(tin) == {n \in DOMAIN merges : merges[n].merged = tin /\ ~ merges[n].undone}

\* The latest open merge of the TIN, while its window lasts.
UnmergeFind(r, tin) ==
  /\ OpenMerges(tin) # {}
  /\ LET n == CHOOSE k \in OpenMerges(tin) : \A j \in OpenMerges(tin) : j <= k
     IN  Start(r, [op |-> "unmerge", tins |-> {merges[n].surv, tin}, merged |-> tin, m |-> n,
                   left |-> merges[n].moved,
                   pc |-> IF n \in aged THEN "done" ELSE "survivor"])
  /\ UNCHANGED <<store, index, aged, faults, cut, misread, byHand>>

\* Both entities as they were before the merge.
UnmergePutEntity(r) ==
  LET record == merges[req[r].m]
  IN  /\ req[r].op = "unmerge"
      /\ \/ /\ req[r].pc = "survivor"
            /\ entities' = [entities EXCEPT ![record.survId] = record.survSnapshot]
            /\ req' = [req EXCEPT ![r].pc = "merged"]
         \/ /\ req[r].pc = "merged"
            /\ entities' = [entities EXCEPT ![record.mergedId] = record.mergedSnapshot]
            /\ req' = [req EXCEPT ![r].pc = "back"]
      /\ index' = [index EXCEPT !.loaded = FALSE]
      /\ UNCHANGED <<lifecycle, regs, merges, queue, aged, faults, ghosts>>

\* The moved registrations come back, wherever they are by now.
MoveBack(r) ==
  /\ req[r].op = "unmerge" /\ req[r].pc = "back" /\ req[r].left # {}
  /\ \E x \in req[r].left :
       /\ regs' = [regs EXCEPT ![x] = req[r].merged]
       /\ req' = [req EXCEPT ![r].left = @ \ {x}]
  /\ UNCHANGED <<entities, lifecycle, merges, queue, index, aged, faults, ghosts>>

\* A registration that cannot be read stays with the survivor.
MoveBackSkips(r) ==
  /\ req[r].op = "unmerge" /\ req[r].pc = "back" /\ req[r].left # {}
  /\ Fault
  /\ \E x \in req[r].left : req' = [req EXCEPT ![r].left = @ \ {x}]
  /\ cut' = cut \cup req[r].tins
  /\ UNCHANGED <<store, index, aged, contended, misread, byHand>>

UnmergePutStatus(r) ==
  /\ req[r].op = "unmerge" /\ req[r].pc = "back" /\ req[r].left = {}
  /\ lifecycle' = [lifecycle EXCEPT ![req[r].merged] =
       [status |-> merges[req[r].m].prev, into |-> NoTIN]]
  /\ req' = [req EXCEPT ![r].pc = "receipt"]
  /\ UNCHANGED <<entities, regs, merges, queue, index, aged, faults, ghosts>>

UnmergePutRecord(r) ==
  /\ req[r].op = "unmerge" /\ req[r].pc = "receipt"
  /\ merges' = [merges EXCEPT ![req[r].m].undone = TRUE]
  /\ req' = [req EXCEPT ![r] = Served]
  /\ UNCHANGED <<entities, lifecycle, regs, queue, index, aged, faults, ghosts>>

-----------------------------------------------------------------------------
(* dedupScan.                                                              *)

dedupWeights == [name |-> 40, dob |-> 30, contact |-> 30]
DefaultDedupThreshold == 70

\* The weighted mean over the fields that can be compared; without any, zero.
\* A sum of floats in the order of a map may end just under an exact threshold.
Score(scores, f) == IF f \in DOMAIN scores THEN dedupWeights[f] * scores[f] ELSE 0
Weight(scores, f) == IF f \in DOMAIN scores THEN dedupWeights[f] ELSE 0
ScoredAbove(scores, threshold, short) ==
  LET sum   == Score(scores, "name") + Score(scores, "dob") + Score(scores, "contact")
      least == threshold * (Weight(scores, "name") + Weight(scores, "dob") + Weight(scores, "contact"))
  IN  DOMAIN scores # {} /\ IF short THEN sum > least ELSE sum >= least

\* FindDedupCandidates: pairs of entities none of which is merged away; the
\* sums of the pairs of short fall short.
DedupCandidates(list, short) ==
  {pair \in {<<list[i].tin, list[j].tin>> : i, j \in DOMAIN list} \cap DOMAIN FieldScores :
     /\ \E i, j \in DOMAIN list : i < j /\ pair = <<list[i].tin, list[j].tin>>
     /\ lifecycle[pair[1]].status # "merged_into"
     /\ lifecycle[pair[2]].status # "merged_into"
     /\ ScoredAbove(FieldScores[pair], DefaultDedupThreshold, pair \in short)}

DedupScan(r) ==
  /\ \E short \in SUBSET DOMAIN FieldScores :
       Start(r, [op |-> "scan", tins |-> {}, pc |-> "queue",
                 left |-> DedupCandidates(Ensured.list, short)])
  /\ index' = Ensured
  /\ UNCHANGED <<store, aged, faults, cut, misread, byHand>>

\* Only what is not in the queue yet is written.
QueueCandidate(r) ==
  /\ req[r].op = "scan" /\ req[r].pc = "queue"
  /\ \/ /\ req[r].left = {}
        /\ req' = [req EXCEPT ![r] = Served]
        /\ UNCHANGED queue
     \/ \E pair \in req[r].left :
          /\ queue' = queue \cup {pair}
          /\ req' = [req EXCEPT ![r].left = @ \ {pair}]
  /\ UNCHANGED <<entities, lifecycle, regs, merges, index, aged, faults, ghosts>>

-----------------------------------------------------------------------------
(* Failures and time.                                                      *)

HalfDone(r) == Busy(r) /\ req[r].pc \notin {"lifecycles", "list", "put", "survivor"}

\* An access fails and the handler returns its error.
AccessFails(r) ==
  /\ Busy(r)
  /\ Fault
  /\ req' = [req EXCEPT ![r] = Served]
  /\ cut' = IF HalfDone(r) THEN cut \cup req[r].tins ELSE cut
  /\ index' = [index EXCEPT !.loaded = FALSE]
  /\ UNCHANGED <<store, aged, contended, misread, byHand>>

\* The process ends and starts again, with an index that is not loaded.
Restart ==
  /\ Fault
  /\ req' = [r \in Requests |-> IF Busy(r) THEN Served ELSE req[r]]
  /\ cut' = cut \cup UNION {req[r].tins : r \in {q \in Requests : HalfDone(q)}}
  /\ index' = [loaded |-> FALSE, list |-> <<>>]
  /\ UNCHANGED <<store, aged, contended, misread, byHand>>

WindowPasses(n) ==
  /\ n \in DOMAIN merges
  /\ aged' = aged \cup {n}
  /\ UNCHANGED <<store, index, req, faults, ghosts>>

-----------------------------------------------------------------------------
Init ==
  /\ entities = [n \in DOMAIN Known |-> Entity(Known[n])]
  /\ index = [loaded |-> FALSE, list |-> <<>>]
  /\ lifecycle = [t \in TINs |-> [status |-> "active", into |-> NoTIN]]
  /\ regs = Home
  /\ merges = <<>> /\ aged = {} /\ queue = {}
  /\ req = [r \in Requests |-> Idle]
  /\ faults = 0
  /\ contended = {} /\ cut = {} /\ misread = FALSE /\ byHand = {}

Serve(r) ==
  \/ PutDocument(r) \/ PutStatus(r)
  \/ MergeLifecycles(r) \/ MergeList(r) \/ MergeListFails(r) \/ MoveRegistration(r)
  \/ MergePutEntity(r) \/ MergePutRecord(r) \/ MergePutStatus(r)
  \/ UnmergePutEntity(r) \/ MoveBack(r) \/ MoveBackSkips(r)
  \/ UnmergePutStatus(r) \/ UnmergePutRecord(r)
  \/ QueueCandidate(r)

Next ==
  \/ \E r \in Requests :
       \/ \E tin \in TINs, profile \in Profiles : Provision(r, tin, profile)
       \/ \E id \in 1 .. Len(entities), profile \in Profiles : UpdateKYB(r, id, profile)
       \/ \E tin \in TINs, to \in Statuses : ReadStatus(r, tin, to)
       \/ \E surv, merged \in TINs : MergeEntities(r, surv, merged)
       \/ \E tin \in TINs : UnmergeFind(r, tin)
       \/ DedupScan(r)
       \/ Serve(r) \/ AccessFails(r)
  \/ \E n \in DOMAIN merges : WindowPasses(n)
  \/ RebuildFails \/ Restart

Spec == Init /\ [][Next]_vars

-----------------------------------------------------------------------------
(* Properties.                                                             *)

Untouched(tin) == \A r \in Requests : Busy(r) => tin \notin req[r].tins

\* "idempotent: same TIN fusion returns the existing entity": a TIN has two
\* entities only if two provisions of it overlapped, or the index was built
\* from a read that failed; never because the index is behind the store.
OneEntityPerTIN ==
  \A i, j \in DOMAIN entities :
    i # j /\ entities[i].tin = entities[j].tin => entities[i].tin \in contended \/ misread

\* Merges form no cycle: somebody at the end of them can still file, unless
\* rival merges of the same TIN were decided at the same time.
NoMergeCycle ==
  \A cycle \in (SUBSET TINs) \ {{}} :
    (\A t \in cycle : lifecycle[t].status = "merged_into" /\ lifecycle[t].into \in cycle)
      => cycle \cap contended # {}

\* Every merged TIN has a receipt to unmerge it from, at every moment of the
\* merge and whatever write fails, unless an officer set the status by hand
\* or worked on the TIN from two requests.
MergedIsReversible ==
  \A t \in TINs \ (contended \cup byHand) :
    lifecycle[t].status = "merged_into" => OpenMerges(t) # {}

\* Once nobody works on it, a merged TIN has no registration left.
MergedOwnsNothing ==
  \A t \in TINs \ (contended \cup cut \cup byHand) :
    Untouched(t) /\ lifecycle[t].status = "merged_into" =>
      \A x \in Registrations : regs[x] # t

\* A merge of a TIN is whole (MergeTINs, lifecycle.go:228): it can be taken
\* back at every moment, and when it is over it has moved everything.
MergesAreWhole == MergedIsReversible /\ MergedOwnsNothing

-----------------------------------------------------------------------------
(* The inductive invariant.                                                *)

EntityRecords == [tin : TINs, holders : [Persons -> 0 .. 100], ubos : SUBSET Persons]
MergeRecords ==
  [surv : TINs, merged : TINs, survId : Nat, mergedId : Nat, survSnapshot : EntityRecords,
   mergedSnapshot : EntityRecords, moved : SUBSET Registrations, prev : {"active", "suspended"},
   undone : BOOLEAN]

\* A position keeps its TIN: copies name the TIN that is found where they go.
CopyOf(doc, id, ents) == doc \in EntityRecords /\ id \in DOMAIN ents /\ ents[id].tin = doc.tin
CopiesFit(m, ents) ==
  CopyOf(m.survSnapshot, m.survId, ents) /\ CopyOf(m.mergedSnapshot, m.mergedId, ents)

WriteShaped(me, ents) ==
  /\ me = [op |-> me.op, tins |-> {me.doc.tin}, doc |-> me.doc, profile |-> me.profile,
           at |-> me.at, pc |-> me.pc]
  /\ me.doc \in EntityRecords /\ me.profile \in Profiles /\ me.pc \in {"put", "invalidate"}
  /\ me.op = "kyb" => CopyOf(me.doc, me.at, ents)
StatusShaped(me) ==
  /\ me = [op |-> "status", tins |-> {me.tin}, to |-> me.to, tin |-> me.tin, pc |-> "put"]
  /\ me.tin \in TINs /\ me.to \in LifecycleStatus
MergeShaped(me, ents) ==
  /\ me = [op |-> "merge", tins |-> {me.surv, me.merged}, pc |-> me.pc, surv |-> me.surv,
           merged |-> me.merged, survId |-> me.survId, mergedId |-> me.mergedId,
           survSnapshot |-> me.survSnapshot, mergedSnapshot |-> me.mergedSnapshot,
           prev |-> me.prev, moved |-> me.moved, left |-> me.left]
  /\ me.surv \in TINs /\ me.merged \in TINs /\ me.surv # me.merged
  /\ me.pc \in {"lifecycles", "list", "move", "record", "status", "into"}
  /\ CopiesFit(me, ents) /\ me.survId \in Nat /\ me.mergedId \in Nat
  /\ me.prev \in {"active", "suspended"}
  /\ me.moved \subseteq Registrations /\ me.left \subseteq Registrations
UnmergeShaped(me, mrgs) ==
  /\ me = [op |-> "unmerge", tins |-> {mrgs[me.m].surv, me.merged}, merged |-> me.merged, m |-> me.m,
           left |-> me.left, pc |-> me.pc]
  /\ me.m \in DOMAIN mrgs /\ me.merged = mrgs[me.m].merged /\ me.left \subseteq Registrations
  /\ me.pc \in {"survivor", "merged", "back", "receipt"}
ScanShaped(me) == me = [op |-> "scan", tins |-> {}, pc |-> "queue", left |-> me.left]

ReqShaped(me, ents, mrgs) ==
  \/ me \in {Idle, Served}
  \/ me.op \in {"provision", "kyb"} /\ WriteShaped(me, ents)
  \/ me.op = "status" /\ StatusShaped(me)
  \/ me.op = "merge" /\ MergeShaped(me, ents)
  \/ me.op = "unmerge" /\ UnmergeShaped(me, mrgs)
  \/ me.op = "scan" /\ ScanShaped(me)

TinTypes ==
  /\ entities \in Seq(EntityRecords)
  /\ index \in [loaded : BOOLEAN, list : Seq(EntityRecords)]
  /\ lifecycle \in [TINs -> [status : LifecycleStatus, into : TINs \cup {NoTIN}]]
  /\ regs \in [Registrations -> TINs]
  /\ merges \in Seq(MergeRecords) /\ \A n \in DOMAIN merges : CopiesFit(merges[n], entities)
  /\ req = [r \in Requests |-> req[r]] /\ \A r \in Requests : ReqShaped(req[r], entities, merges)

\* Two requests that work on a TIN at the same time have been noted.
Exclusive ==
  \A q, r \in Requests :
    q # r /\ Busy(q) /\ Busy(r) => req[q].tins \cap req[r].tins \subseteq contended

Present(tin) == \E n \in DOMAIN entities : entities[n].tin = tin
Provisions(r, tin, pc) == req[r].op = "provision" /\ req[r].pc = pc /\ req[r].doc.tin = tin

\* A loaded index lacks a TIN that is in the store only while the provision
\* of it has still to invalidate it; and who is about to write an entity has
\* found none.
IndexInv ==
  /\ DOMAIN index.list \subseteq DOMAIN entities
  /\ \A n \in DOMAIN index.list : index.list[n].tin = entities[n].tin
  /\ index.loaded => \A n \in DOMAIN entities :
       \/ \E k \in DOMAIN index.list : index.list[k].tin = entities[n].tin
       \/ entities[n].tin \in contended \/ misread
       \/ \E r \in Requests : Provisions(r, entities[n].tin, "invalidate")
  /\ \A r \in Requests, tin \in TINs :
       Provisions(r, tin, "put") => ~ Present(tin) \/ tin \in contended \/ misread
  /\ OneEntityPerTIN

\* A merge has an able survivor, has moved what is not left, and has its
\* receipt before the status; an unmerge resets the status before it.
MergeUnderWay(r) ==
  LET me == req[r]
      none(tin) == \A x \in Registrations : regs[x] # tin
  IN  /\ me.op = "merge" =>
           /\ me.pc # "lifecycles" =>
                lifecycle[me.surv].status # "merged_into" \/ me.surv \in contended
           /\ me.pc = "move" => \/ me.merged \in contended \cup cut
                               \/ \A x \in Registrations : regs[x] = me.merged => x \in me.left
           /\ me.pc \in {"record", "status", "into"} => none(me.merged) \/ me.merged \in contended \cup cut
           /\ me.pc \in {"status", "into"} => OpenMerges(me.merged) # {} \/ me.merged \in contended
      /\ me.op = "unmerge" /\ me.pc = "receipt" =>
           lifecycle[me.merged].status # "merged_into" \/ me.merged \in contended

ComingBack(r, tin) == req[r].op = "unmerge" /\ req[r].pc = "back" /\ req[r].merged = tin

MergedIsEmpty(tin) ==
  lifecycle[tin].status = "merged_into" =>
    \/ tin \in contended \cup cut \cup byHand
    \/ \E r \in Requests : ComingBack(r, tin)
    \/ \A x \in Registrations : regs[x] # tin

MergeInv ==
  /\ \A r \in Requests : MergeUnderWay(r)
  /\ MergedIsReversible
  /\ \A tin \in TINs : MergedIsEmpty(tin)
  /\ NoMergeCycle

TinInv == TinTypes /\ Exclusive /\ IndexInv /\ MergeInv
=============================================================================
