--------------------------- MODULE EventDelivery ---------------------------
(***************************************************************************)
(* From the outbox to the effect of an event: the transactional outbox,    *)
(* one partition of a Kafka topic, and a consumer group whose handler is   *)
(* wrapped by the dedup middleware (packages/events/bus: kafka.go          *)
(* Subscribe, dedup.go HandleKey).                                         *)
(*                                                                         *)
(* The group hands the partition from one member to another at any moment, *)
(* also while the old one is still handling what it fetched.  The members  *)
(* of one process share a ProcessedStore, which is in its memory.          *)
(***************************************************************************)
EXTENDS PgOutbox, FiniteSetsExt

CONSTANTS
  Consumers,   \* members of the consumer group
  Processes,   \* the processes they run in
  Home         \* consumer -> its process

ASSUME GroupAssumption == IsFiniteSet(Consumers) /\ Home \in [Consumers -> Processes]

VARIABLES
  processed,   \* process -> its InprocProcessedStore: event -> none, claimed, completed
  owner,       \* the member the partition is assigned to
  committed,   \* the group's committed offset: records up to it are not redelivered
  member,      \* consumer -> its poll loop
  effects,     \* event -> times the wrapped handler took effect
  done,        \* process -> event -> those of them in the life of its store
  reclaimed,   \* process -> event -> claims ReclaimStale has dropped in that life
  passedBy     \* events a member gave up or acknowledged before they had an effect

storeVars == <<processed, done, reclaimed>>
consumerVars == <<storeVars, owner, committed, member, effects, passedBy>>
vars == <<outboxVars, consumerVars>>

\* A poll loop: its position, the offsets fetched and not handled yet, the
\* offsets to commit, and where HandleKey stands with the smallest of them.
Polling(position) == [pc |-> "poll", position |-> position, todo |-> {}, commit |-> {}]

Current(c) == log[Min(member[c].todo)]

\* HandleKey returned nil for the current record, which is acknowledged.
Acked(c) ==
  LET offset == Min(member[c].todo)
  IN  [member EXCEPT ![c].pc = "record", ![c].todo = @ \ {offset},
                     ![c].commit = @ \cup {offset}]

Store(c) == processed[Home[c]][Current(c)]

\* HandleKey returned nil for a duplicate, or for a record it finished.
Duplicate(c) ==
  /\ member' = Acked(c)
  /\ passedBy' = IF Store(c) = "claimed" THEN passedBy \cup {Current(c)} ELSE passedBy

\* Slip: an error is acknowledged like a finished record.
RefusedAsDuplicate(c) == member' = Acked(c) /\ UNCHANGED passedBy

\* HandleKey returned an error: logged, and on to the next record.
Refused(c) ==
  /\ member' = [member EXCEPT ![c].pc = "record", ![c].todo = @ \ {Min(@)}]
  /\ passedBy' = passedBy \cup {Current(c)}

Goto(c, pc) == [member EXCEPT ![c].pc = pc]

-----------------------------------------------------------------------------
(* KafkaBus.Subscribe.                                                     *)

\* PollFetches moves the position past what it returns, handled or not.
PollFetches(c) ==
  /\ member[c].pc = "poll"
  /\ owner = c
  /\ \E last \in (member[c].position + 1)..Len(log) :
       member' = [member EXCEPT ![c].pc = "record", ![c].position = last,
                                ![c].todo = (member[c].position + 1)..last]
  /\ UNCHANGED <<outboxVars, storeVars, owner, committed, effects, passedBy>>

\* A fetch with an error, say of another partition: logged, its records dropped.
PollFails(c) ==
  /\ member[c].pc = "poll"
  /\ owner = c
  /\ Fault("fetch")
  /\ \E last \in (member[c].position + 1)..Len(log) :
       /\ member' = [member EXCEPT ![c].position = last]
       /\ passedBy' = passedBy \cup {log[i] : i \in (member[c].position + 1)..last}
  /\ UNCHANGED <<row, changed, seqno, lastSeq, relay, log, failures,
                 storeVars, owner, committed, effects>>

\* CommitRecords: the offset after the last record acknowledged.  The broker
\* may or may not take it from a member that has lost the partition.
CommitRecords(c) ==
  /\ member[c].pc = "record" /\ member[c].todo = {}
  /\ \/ /\ member[c].commit # {}
        /\ committed' = Max(member[c].commit)
     \/ /\ member[c].commit = {} \/ owner # c
        /\ UNCHANGED committed
  /\ member' = [member EXCEPT ![c].pc = "poll", ![c].commit = {}]
  /\ UNCHANGED <<outboxVars, storeVars, owner, effects, passedBy>>

CommitFails(c) ==
  /\ member[c].pc = "record" /\ member[c].todo = {} /\ member[c].commit # {}
  /\ Fault("commit")
  /\ member' = [member EXCEPT ![c].pc = "poll", ![c].commit = {}]
  /\ UNCHANGED <<row, changed, seqno, lastSeq, relay, log, failures,
                 storeVars, owner, committed, effects, passedBy>>

-----------------------------------------------------------------------------
(* DedupConsumer.HandleKey.                                                *)

HandleSeen(c) ==
  /\ member[c].pc = "record" /\ member[c].todo # {}
  /\ \/ Store(c) # "none" /\ Duplicate(c)
     \/ Store(c) = "none" /\ member' = Goto(c, "claim") /\ UNCHANGED passedBy
  /\ UNCHANGED <<outboxVars, storeVars, owner, committed, effects>>

\* Slip: Claim writes the key without looking.
ClaimAlways(p, e) == TRUE

\* Claim inserts the key if it is absent.
Claimable(p, e) == processed[p][e] = "none"

HandleClaim(c) ==
  /\ member[c].pc = "claim"
  /\ \/ /\ Claimable(Home[c], Current(c))
        /\ processed' = [processed EXCEPT ![Home[c]][Current(c)] = "claimed"]
        /\ member' = Goto(c, "handler")
        /\ UNCHANGED passedBy
     \/ /\ ~ Claimable(Home[c], Current(c))
        /\ Duplicate(c)
        /\ UNCHANGED processed
  /\ UNCHANGED <<outboxVars, done, reclaimed, owner, committed, effects>>

\* A store that is down at Seen or at Claim: not acknowledged.
StoreDown(c) ==
  /\ \/ member[c].pc = "record" /\ member[c].todo # {}
     \/ member[c].pc = "claim"
  /\ Fault("store")
  /\ Refused(c)
  /\ UNCHANGED <<row, changed, seqno, lastSeq, relay, log, failures,
                 storeVars, owner, committed, effects>>

HandlerOK(c) ==
  /\ member[c].pc = "handler"
  /\ effects' = [effects EXCEPT ![Current(c)] = @ + 1]
  /\ done' = [done EXCEPT ![Home[c]][Current(c)] = @ + 1]
  /\ member' = Goto(c, "complete")
  /\ UNCHANGED <<outboxVars, processed, reclaimed, owner, committed, passedBy>>

HandlerFails(c) ==
  /\ member[c].pc = "handler"
  /\ Fault("handler")
  /\ member' = Goto(c, "release")
  /\ UNCHANGED <<row, changed, seqno, lastSeq, relay, log, failures,
                 storeVars, owner, committed, effects, passedBy>>

\* Complete; a key that is not there is let be.  When it fails the record is
\* not acknowledged and the claim stays.
HandleComplete(c) ==
  /\ member[c].pc = "complete"
  /\ \/ /\ processed' = IF Store(c) = "none" THEN processed
                        ELSE [processed EXCEPT ![Home[c]][Current(c)] = "completed"]
        /\ member' = Acked(c)
        /\ UNCHANGED <<faults, passedBy>>
     \/ /\ Fault("store")
        /\ Refused(c)
        /\ UNCHANGED processed
  /\ UNCHANGED <<row, changed, seqno, lastSeq, relay, log, failures,
                 done, reclaimed, owner, committed, effects>>

\* Release, whoever holds the key now; its error is ignored: then it stays.
HandleRelease(c) ==
  /\ member[c].pc = "release"
  /\ \/ /\ processed' = [processed EXCEPT ![Home[c]][Current(c)] = "none"]
        /\ UNCHANGED faults
     \/ Fault("store") /\ UNCHANGED processed
  /\ Refused(c)
  /\ UNCHANGED <<row, changed, seqno, lastSeq, relay, log, failures,
                 done, reclaimed, owner, committed, effects>>

\* ReclaimStale drops claims that never completed; whether they are older
\* than the slowest handler is its caller's concern.
ReclaimStale(p) ==
  /\ Fault("reclaim")
  /\ \E stale \in (SUBSET {e \in Events : processed[p][e] = "claimed"}) \ {{}} :
       /\ processed' = [processed EXCEPT
            ![p] = [e \in Events |-> IF e \in stale THEN "none" ELSE @[e]]]
       /\ reclaimed' = [reclaimed EXCEPT
            ![p] = [e \in Events |-> IF e \in stale THEN @[e] + 1 ELSE @[e]]]
  /\ UNCHANGED <<row, changed, seqno, lastSeq, relay, log, failures,
                 done, owner, committed, member, effects, passedBy>>

-----------------------------------------------------------------------------
(* The group.                                                              *)

\* The partition moves to d, which polls from the committed offset next; the
\* others have no position in it.
Rebalance(d) ==
  /\ owner # d
  /\ Fault("rebalance")
  /\ owner' = d
  /\ member' = [c \in Consumers |->
                  [member[c] EXCEPT !.position = IF c = d THEN committed ELSE 0]]
  /\ UNCHANGED <<row, changed, seqno, lastSeq, relay, log, failures,
                 storeVars, committed, effects, passedBy>>

NothingYet == [e \in Events |-> 0]

\* A process stops anywhere; its members come back to the committed offset,
\* with an empty store.
ProcessCrash(p) ==
  /\ Fault("crash")
  /\ member' = [c \in Consumers |-> IF Home[c] # p THEN member[c]
                                 ELSE Polling(IF c = owner THEN committed ELSE 0)]
  /\ processed' = [processed EXCEPT ![p] = [e \in Events |-> "none"]]
  /\ done' = [done EXCEPT ![p] = NothingYet]
  /\ reclaimed' = [reclaimed EXCEPT ![p] = NothingYet]
  /\ UNCHANGED <<row, changed, seqno, lastSeq, relay, log, failures,
                 owner, committed, effects, passedBy>>

Init ==
  /\ OutboxInit
  /\ processed = [p \in Processes |-> [e \in Events |-> "none"]]
  /\ owner \in Consumers
  /\ committed = 0
  /\ member = [c \in Consumers |-> Polling(0)]
  /\ effects = NothingYet
  /\ done = [p \in Processes |-> NothingYet]
  /\ reclaimed = [p \in Processes |-> NothingYet]
  /\ passedBy = {}

ConsumerStep(c) ==
  \/ PollFetches(c) \/ PollFails(c) \/ CommitRecords(c) \/ CommitFails(c)
  \/ HandleSeen(c) \/ HandleClaim(c) \/ StoreDown(c)
  \/ HandlerOK(c) \/ HandlerFails(c) \/ HandleComplete(c) \/ HandleRelease(c)

Next ==
  \/ OutboxNext /\ UNCHANGED consumerVars
  \/ \E c \in Consumers : ConsumerStep(c) \/ Rebalance(c)
  \/ \E p \in Processes : ReclaimStale(p) \/ ProcessCrash(p)

Spec == Init /\ [][Next]_vars

\* The relays' tickers and the consumers' poll loops keep running.
FairSpec ==
  /\ Spec
  /\ \A r \in Relays : WF_vars(RelayStep(r) /\ UNCHANGED consumerVars)
  /\ \A c \in Consumers : WF_vars(ConsumerStep(c))

-----------------------------------------------------------------------------
(* Properties.                                                             *)

TypeOK ==
  /\ OutboxTypeOK
  /\ processed \in [Processes -> [Events -> {"none", "claimed", "completed"}]]
  /\ done \in [Processes -> [Events -> Nat]]
  /\ reclaimed \in [Processes -> [Events -> Nat]]
  /\ owner \in Consumers
  /\ committed \in Nat
  /\ member \in [Consumers -> [pc : {"poll", "record", "claim", "handler", "complete", "release"},
                               position : Nat, todo : SUBSET Nat, commit : SUBSET Nat]]
  /\ effects \in [Events -> Nat]
  /\ passedBy \subseteq Events

\* "Exactly-once handler invocation under at-least-once delivery", as far as
\* it goes with a store in memory: while a process lives, an event takes
\* effect in it once, and once more for each claim ReclaimStale has dropped,
\* however often relays publish it, the group redelivers it and members of
\* the process handle it at once.
OncePerStore ==
  \A p \in Processes, e \in Events : done[p][e] <= 1 + reclaimed[p][e]

\* Known not to hold: the effect of an event is repeated after a crash before
\* the commit of offsets, in another process, or under a reclaimed claim.
\* dedup.go:18-19: "crash after the effect but before the ack: the claim
\* survives, so the replay is deduped".
EffectAtMostOnce == \A e \in Events : effects[e] <= 1

\* An event recorded as done in a process really had its effect there, and an
\* effect is always of a committed transaction.
CompletedTookEffect ==
  /\ \A p \in Processes, e \in Events : processed[p][e] = "completed" => done[p][e] > 0
  /\ \A e \in Events : effects[e] > 0 => Committed(e)

\* What makes OncePerStore inductive: the effects an event had, those its
\* handlers at work may still have, and the one a free key stands for.
AtWork(p, e) ==
  {c \in Consumers : /\ Home[c] = p
                     /\ member[c].pc \in {"handler", "release"}
                     /\ Current(c) = e}

Unclaimed(p, e) == IF processed[p][e] = "none" THEN 1 ELSE 0

ClaimsAreAccounted ==
  \A p \in Processes, e \in Events :
    done[p][e] + Cardinality(AtWork(p, e)) + Unclaimed(p, e) <= 1 + reclaimed[p][e]

DeliveryInv == OncePerStore /\ CompletedTookEffect /\ ClaimsAreAccounted

\* A published event takes effect in the end, unless a member passed it by:
\* handling it failed once, the fetch it came with had an error, or it was
\* acknowledged as the duplicate of a claim that had not come to its effect.
EffectOrPassedBy ==
  \A e \in Events : Published(e) ~> effects[e] > 0 \/ e \in passedBy

\* From the commit to the effect: both stretches of the way come to an end.
EventuallyDelivered == PublishedOrForgotten /\ EffectOrPassedBy
=============================================================================
