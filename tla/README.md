# Meridian core platform: TLA+ specifications

This directory holds a formal model of the Meridian core platform (`src/`): the
parts that move money, those that carry events between services, and the
services around them (identity, consent, evidence, rule packs, notification,
administration, migration), with the TLC runs that check it and TLAPS proofs of
its central invariants. Every definition is
a translation of source code; `PROJECT.json` maps each one to its lines.

## 1. The system

Meridian is a set of small services over shared packages. Each service keeps
its state in an embedded store (a JSON file, SQLite, or Postgres), answers HTTP
requests from many goroutines or threads, and announces what it did through an
outbox that a relay publishes to a bus.

| Component | State | Operations | Interacts with | What is hard | What makes it correct |
|---|---|---|---|---|---|
| ledger core, `tb.DevClient` | account balances, transfer map, serial counters | create accounts, transfer, hold, post (whole or in part, under its own or a caller's id), void, expire | called by the ledger service and the money workflows | posts, voids and the expiry sweep race for one hold; uint64 arithmetic; flags checked against moving balances | balances replay the transfers; a hold is resolved once; no resolved record changes |
| ledger service | the client, a dirty flag, a debounced snapshot, the outbox | HTTP routes, hooks, sweeper, flusher, restart | writes outbox and snapshot; called by settlement over HTTP | hooks run outside the mutex and take each other's events; flusher clears a flag and then reads | no change is lost while the process runs; one event per change |
| money workflows | steps done, deterministic transfer ids | capture, refund, remittance sagas with compensation | ledger through an adapter | answers lost after the effect, retries on top of half-done attempts | success means settled; reversals only of what landed |
| refund execution | one execution record per refund | execute, finish, sweep | ledger over HTTP | timeouts, late calls, two threads on one record, crash between ledger and store | never two live payments; the record never claims more than the ledger did |
| refund desk | decision documents | decide, replay, approve, reject, purge | refund execution | read, work and write back whole documents | the same, through every endpoint |
| file outbox | JSONL file, sequence, checkpoint | append, relay pass, recover | bus | torn lines, lines without their newline, lost checkpoints, crashes, a relay thread that dies | nothing skipped, in order, everything published in the end |
| Postgres outbox | rows with a stamp | insert in a transaction, claim, publish, unclaim | bus, several relays | crash after the claim, failing unclaim | only committed events, one copy per claim |
| Kafka consumer with dedup | committed offset; a processed-message store in the memory of each process | poll, claim, handle, complete, release, reclaim, commit | bus, handlers | rebalances, redelivery, fetches with an error, crashes | an event takes effect once in the life of a store; what passes without effect is known |
| ledger RealClient | ids in flight; the TigerBeetle cluster behind them | hold, post, void, transfer in round trips | cluster, ledger service (events) | lost answers and retries; post and void share a derived id; lookup errors read as "not found" | one outcome of a hold, told once |
| AML thresholds | window of observations by account, time of the last alert | observe a transfer | outbox | clock read before the lock, inclusive and exclusive window edges, lost alerts | a split amount is flagged |
| step-up tickets | enrolments, recovery codes, tickets, used tickets of each service | enrol, confirm, verify, challenge, disable, consume | admin API, ledger | read and write back, restarts, expiry in whole seconds | codes and tickets are good once |
| TIN graph | entities with an in-memory index, lifecycle, registrations, merges, review queue | provision, ownership, status, merge, unmerge, dedup scan, resolve | consent | check and write in separate accesses, merges of many writes, an index behind the store | one entity per TIN, no merge cycle, merges whole and reversible |
| consent, DSR, breach | consent records; breach register with a deadline | grant, renew, revoke, check, erase; report, transition | TIN graph | whole records written back from old copies | withdrawal holds, an erasure reaches every consent and is accounted for, the notification record is never changed |
| audit evidence | hash chain over an append log, write-once objects | append, reopen, put, verify | all services | append without a lock, torn lines, blob before record | the chain and the objects verify |
| rule-pack registry and schema | pack versions, consumer pins | register, publish, pin, list stale | rules engine, bus | check then put, signatures over re-encoded bytes, versions as text | a published version never changes, the newest one is found |
| notification | messages, receipts, idempotency keys | send, notify along a chain | providers | key stored last | sent once per key, receipts tell how |
| document stores | collections in memory and on disk, or Postgres rows | put, put if absent, update, delete | every service | memory ahead of a failed write, a row that cannot be locked yet | an answered write is durable, no update loses another |
| admin API | users, sessions, the console's own resources, audit queue | log in, change users; commands, fallback, audit flush | every service | same-second epochs, copies of users, restarts, emulated answers | sessions end with their epoch, no audit event is lost |
| key caches | Keycloak keys and when they were fetched | look up, refresh | Keycloak | concurrent refreshes, late answers | keys are trusted as the realm publishes them |
| migration | imported rows, signed batch manifests | import (dry run, commit), roll back, verify | TIN graph, JSON store | two commits of one batch, failing writes and rollbacks, crash before the manifest | a committed batch is whole, a failed one leaves nothing, proofs are just |
| regulation watch, search indexer, rules engine, feature store, geo, ML, SDKs | see `PROJECT.json` | | | | |

`PROJECT.json` lists every component with its status, and under `hazards` each
place in the code where an order of events or a failure could do harm, with the
properties that watch it.

## 2. Modules

| Module | Source | State and actions |
|---|---|---|
| `TwoPhase` | `tb.LedgerClient` | abstract: each movement goes none, open, then posted or voided, or none, posted |
| `Ledger` | `internal/tb/tb.go` | `accounts`, `transfers`, `nextSer`; one action per method, guards and result codes as operators; refines `TwoPhase` |
| `LedgerService` | `services/ledger/main.go`, hooks of `tb.go` | a `TwoPhase` ledger in memory, the hooks' buffers, dirty flag, flusher, snapshot on disk, outbox, kill, shutdown, restart |
| `MoneyWorkflows` | `money.go`, `sdkx.go`, `money_workflows.go` | the steps of each saga as a sequence, attempts with a program counter, the ledger's legs |
| `RefundExecutor` | `refund_execution.py` | the record, the holds by attempt, calls in flight, a program counter for each thread |
| `RefundDesk` | refund endpoints of `settlement/app/main.py` | extends `RefundExecutor` with the decision document and each handler's copy |
| `FileOutbox` | `outbox.go`, `outbox.py` | readable lines, torn tail and whether it lacks the newline only, sequence, checkpoint, relay pass; which of the two programs it is |
| `PgOutbox` | `pgoutbox.go` | rows, sequence numbers, relays with their claims, topic |
| `EventDelivery` | `kafka.go`, `dedup.go` | extends `PgOutbox` with a consumer group, whose members run in processes, and the store of each process |
| `RealClient` | `internal/tb/real.go`, `emitProd` | an external cluster of transfers by id, calls with their round trips, events emitted |
| `Thresholds` | `thresholds.go`, `checkThresholds` | windows and last alerts by account, observers between clock, lock and outbox |
| `StepUp` | `packages/stepup`, `admin-api/stepup.go`, `ledger/stepup.go` | enrolment records, tickets, used tickets of each service, half-second time |
| `TinGraph` | `tin-graph/main.go`, `entity_index.go`, `graph/lifecycle.go`, `kyb.go` | the collections, the index, a program counter for each request with one step per access |
| `Matching` | `graph/graph.go` | the rolling table of the edit distance, scores and verdict, against the cheapest pairing of letters; candidates of equal score in any order |
| `Consent`, `Breach` | `services/consent` | records, and slots or requests with the copies they hold; whom receipts, access log, erasure audit and breaches name; the TIN graph's consent gate is in `Consent` |
| `Evidence` | `audit-evidence`, `AppendLog` of `events/store` | lines of the log, counters in memory, blobs and objects |
| `RulePacks` | `rp-registry`, `rulepack-schema` | stored versions, pins, what was announced, profile and keys of the process |
| `Notification` | `services/notification` | messages and receipts by request, keys, what providers took |
| `DocStore` | `events/store/store.go`, `pg.go` | one collection in memory and on disk, or as rows with locks |
| `AdminSessions` | `admin-api` users, login, tokens | users in memory, rows in Postgres, tokens issued, logins between copy and issue |
| `AdminConsole` | `admin-api` commands and audit trail | the console's store, the owners' state, the queue and the flusher |
| `KeyCache` | `events/auth/keycloak.go`, `admin-api/keycloak.go` | cached keys, verifications between lookup, fetch and install, the realm (external) |
| `Migration` | `mig.go`, `services/migration/main.go` | documents by batch and position, manifests, a program counter for each import and each verification, TINs known to the graph |
| `Registers`, `Platform` | | the services around the ledger, `RealClient` to `Migration`, as one specification |
| `LedgerProofs`, `LedgerServiceProofs`, `MoneyProofs`, `RefundProofs`, `FileOutboxProofs`, `DeliveryProofs`, `RegistersProofs`, `PlatformProofs` | | theorems |
| `MC*` | | instances for TLC |

`Registers` and `Platform`, which extends it, instantiate the fifteen modules
from `RealClient` to `Migration`.
These services share no memory, and what one needs of another (a consent check,
a live TIN, a provider) is in its own module, so their product has nothing to
show: a behaviour of `Platform` is a behaviour of one service, chosen by
`Init`. Each module's variables are laid over the same registers (`store`,
`local`, `sent` ...) by `INSTANCE ... WITH`, and its constants are the fields of
one record, to which `MCPlatform` gives values. The constant `Components` says
which services are checked; with one name in it TLC takes seconds, which is how
to work on that service.

One step of a model is what the code does without giving another actor the
chance to run: a method under its mutex, one store access, one call to another
service. A call over the network is a step that is answered, or given up with
the call still on its way, to arrive later or never. Definitions whose comment
starts with "Slip" are plausible mistakes in the code next to them; no
specification uses them. The mutation runs put each in the place of the
definition it imitates, and the property it is meant for then fails.

## 3. Runs

| Run | Instance | Shows |
|---|---|---|
| `ledger` | 2 accounts, 3 transfer ids, amounts 0 to 2, clock of 1, words of 16 | `BooksBalance` (balances replay the transfers, debits equal credits), single capture, finality, refinement of `TwoPhase` |
| `ledger_service` | one handler, one movement, the sweeper and the flusher, two lives of the process, one fault | no lost change, one event per change, `EventuallyOut` (persisted and emitted in the end) |
| `money_workflows` | three attempts, two credits, answers ok, refused, lost | clean completion, `LegsDependOnLegs` (order, and reversals of what landed only), attempts end |
| `refund_desk` | two threads, one amount, two attempts, one given-up call | one live attempt, the record is true, implements the executor |
| `file_outbox` | the Go and the Python program, four events, one of them poison, batches of two, three faults | nothing skipped and first publication in order, unless a record that was relayed without its newline is swallowed by the next append and numbers are given out again; published in the end, unless the thread of a Python relay dies for good |
| `event_delivery` | two events, two relays, one process with two consumers, two faults of eleven kinds | `PublishedAsCommitted` (committed events only, one copy per claim), `DeliveryInv` (one effect in the life of a store, and one more for each claim `ReclaimStale` dropped), `EventuallyDelivered` (and what may be lost) |
| `platform` | fifteen services, two or three concurrent requests each, one to three faults, a restart and a clock of a few ticks where the code has them; about two million states | the table below |

What `platform` checks. An exception in the right column is a race or a fault
that the code does not handle; each is a ghost variable of the module, so the
property says exactly when the promise is off, and everything else is covered.

| Property | Statement | Except |
|---|---|---|
| `OneEntityPerTIN` | provisioning makes no second entity for a TIN | two provisions of it overlap; the index was built from a failed read |
| `NoMergeCycle` | merges form no cycle | rival merges of one TIN overlap |
| `MergesAreWhole` | a merged TIN can be unmerged at every moment, and owns nothing when the merge is over | requests overlap on the TIN; the status was set by hand; a write was cut off (second half) |
| `DecidesByReference` | the decision is the one the true edit distance gives | a score exactly at a threshold may be computed short of it |
| `WithdrawalHolds` | a withdrawn consent stays so and verifications obey it | a renewal or a lazy expiry wrote an old copy back |
| `ErasureIsAccounted` | an erasure that has answered leaves no consent under the name, and the mapping in the audit | an old copy was written back over the consent |
| `NotificationIsKept` | the recorded notification of a breach never changes | two transitions of it overlap |
| `SingleUse` | recovery codes and tickets are good once | requests of one actor overlap on the record; a restart, or the last second of a ticket |
| `EvidenceStands` | chain and objects verify, through crashes and restarts | appends overlap or one fails; two requests for one object id, or one whose lookup fails though there is an object |
| `PublishedIsFrozen` | a published version never changes | a request writes from a read that another has overtaken, or that failed |
| `NewestIsFound` | the newest version is the newest as a number, older pins are reported | |
| `SendingIsAccounted` | once per idempotency key; receipts tell the walk | overlapping requests, a lost answer, an outcome that could not be stored |
| `WritesAreKept` | an answered write survives a restart, an update is based on what it replaces | an update of a row that does not exist yet (Postgres) |
| `SessionsFollowUsers` | revoked tokens are not accepted, current ones are | a change Postgres has not got |
| `NoAuditLost` | every event is with audit-evidence or in memory | the process ended |
| `OneOutcomeToldOnce` | no hold is posted and voided, no transfer announced twice | |
| `SplitIsFlagged` | three payments below the threshold that reach it within a window are flagged | a lost event; an observer overtaken between clock and lock |
| `KeysFollowRealm` | the services trust a key for the TTL after its withdrawal at most and refuse no published key | a fetch failed, or another one replaced the set meanwhile |
| `AllOrNothing` | committed batches are whole, failed ones leave nothing | a request took rows of a batch back that another had committed; a request ended before it was done: in a rollback, or between the rows and the manifest, because the manifest could not be stored or the process died |
| `ReferencesResolve` | filings and payments have their taxpayer | |
| `VerdictIsJust` | a proof fails only a batch that lost rows | |

Bounds. Two actors are needed for every race in the tables, and every hazard
listed needs at most three actors and two faults. Three transfer ids are a hold
and two rival posts; two attempts of a refund are what it takes for a
late call of the first to meet a live second (`OneLiveAttempt` is also proved
for any number). Two lives of the process are one restart. The TIN graph has
three TINs and two requests at a time out of three, so that a merge, a second
merge and a status change meet; consent serves four requests in two slots;
matching compares all names of up to three letters over two, with a review
threshold that some of their scores meet exactly. Versions 1.9.0 and
1.10.0 order differently as text. Symmetry is used for interchangeable threads,
requests and ids, in runs without liveness properties; a service of `platform`
that uses two of the three symmetric requests has states that a permutation
takes outside of it, which are never reached. Deadlock checking is off where a
system may legitimately come to rest with nothing left to do (all ids used, all
events delivered, all requests served).

Five runs document disagreements between the code and what its comments say;
`findings` quotes both sides.

| Run | Property | What happens |
|---|---|---|
| `ledger_overdraft` | `DebitsNeverExceedCredits` | reserved credit is spent, then voided |
| `money_compensation` | `FailureLeavesNothingPosted` | the adapter ignores the post id, so the reversal finds nothing to reverse |
| `refund_voided` | `VoidedIsUnpaid` | lookups that fail look like transfers that do not exist |
| `refund_rejected` | `RejectedNeverExecutes` | a replayed request executes a rejected decision |
| `outbox_loss` | `CommittedIsNeverLost` | a relay dies between stamping a row and publishing it |

More claims of comments are stated in the modules, under "Known not to hold" or
next to a hazard, without a run of their own; TLC refutes each within seconds
when it is added to the run of its module:

| Module | Definition | What happens |
|---|---|---|
| `LedgerService` | `ShutdownFlushes` | an orderly stop writes no last snapshot |
| `MoneyWorkflows` | `SuccessMeansSettled` | a retry takes a voided hold for its own posting |
| `RefundExecutor` | `PostedIsAnnounced` | a worker dies between the record and the event |
| `FileOutbox` | `AckedIsReadable` | a record is glued to a torn line |
| `FileOutbox` | `NeverSkips` | a line that lacks its newline is read, published and passed by the checkpoint; the next append makes it unreadable, and after a restart its number, now behind the checkpoint, is given to a new record |
| `EventDelivery` | `EffectAtMostOnce` | the store is in memory: a crash between the effect and the commit of offsets repeats the effect, though `dedup.go:18-19` says the claim survives |
| `Evidence` | `NeverOverwritten` | the slower of two requests, or a single one whose lookup fails, replaces the blob before it is refused (`evidence.go:223`) |
| `RulePacks` | `SignedCanBePublished` | the store's JSON rewrites numbers under the signature |
| `RulePacks` | `NeverReplaced` | a registration whose lookup fails upserts over a published record (`main.go:231`) |
| `Consent` | `ErasureLeavesNoName` | receipts, the access log and breaches keep the erased subject's name beside the ids of its records and are read by it (`dsr.go:13-14`) |
| `AdminSessions` | `RevokedStaysDead`, `RoleIsCurrent` | a token stamped ahead of the clock, a change Postgres has not got; a role read before it was taken away |
| `AdminConsole` | `EmulatedOnlyWhenUnreachable`, `EveryMutationAudited` | a refused publish is emulated; settlements and WAF modes leave no event |
| `RealClient` | `AllAnnounced` | a lost answer and its retry, answered "exists", announce nothing |
| `KeyCache` | `ConsoleForgets` | the console refreshes for unknown keys only |
| `Matching` | `RelationIsMutual` | a telephone number without digits equals a missing one |
| `Matching` | `ThresholdIsReached` | floats are summed in the order of a map: 0.85 may come out as 0.8499999999999999 and an automatic match becomes a review (`graph.go:329`) |

Hazards no property covers, for want of a model: a line above the scanner limit
of 4 MB ends every scan of the file outbox (`outbox.go:99`); the search indexer
claims rows of the outbox it reads and publishes none of them
(`search-indexer/main.go:202`); a refund recorded as voided or failed keeps its
dead ids and opens no new attempt (`refund_execution.py:331`); a store error
reads as "no legal hold" (`consent/dsr.go:110`).

## 4. Fairness

Liveness runs use weak fairness of what the code's own loops drive: the
handler's goroutine once it has entered the hooks and the flusher's ticker
(`LedgerService`), a started workflow attempt whose client calls return
(`MoneyWorkflows`), the relay's ticker (`FileOutbox`, `PgOutbox`) and the
consumers' poll loop (`EventDelivery`). The Python relay of the file outbox has
no `try` around its pass: an error in reading the file or in saving the
checkpoint ends its thread, no step of a dead relay is enabled, and fairness asks
nothing of it until the process is started again. Requests, sweeps, faults, crashes and
restarts are never forced. Faults are bounded by a constant, so that a retry is
not defeated for ever; where a fault may cause a permanent loss the property
names it (`persistErr`, `dropped`, `Forgotten`, `LeftBehind`, `passedBy`, poison
records, records that were swallowed, a relay that stays dead).
The modules of `platform` state safety only.

## 5. Proofs

TLAPS proves for every value of the constants:

- `LedgerProofs`: `LedgerInvariant`, and from it `TypeCorrect`,
  `PartiesAlwaysExist`, `NoDoubleCapture` and `ResolutionIsFinal`.
  `CapturedAtMostOnce` is not inductive: a capture might name a hold that is
  not stored, and a sweep under way might hold a pending that was resolved
  after it was picked. `CapturesResolve` and `SweepsOpenPendings` exclude that.
  The proof first shows that every action has one of a few shapes (`StepShape`:
  a new record, a resolution, nothing) and then that each shape preserves the
  parts.
  `LedgerImplementsTwoPhase`: the stage of every id follows `TwoPhase`; a step
  changes the stages of the ids it writes only, and each along an edge of the
  protocol.
  `BooksAlwaysBalance`: the columns of the accounts are the sums over the stored
  transfers, and debits equal credits. `BooksInv` adds that the maps are finite.
  The proof shows that each step moves the same amounts on the accounts and in
  the sums. Words wrap, so this needs more than addition: the code's overflow
  test keeps an addition from wrapping (`NoOverflow`), and an open reservation
  is contained in the columns it was added to, so its release does not wrap
  either (`ReservationHeld`, `ReleaseExact`). What a sum over a finite set does
  when one member comes, goes or changes is proved from the definition of the
  fold by taking a least counterexample among the subsets, as the library's
  induction rules are not available.
- `LedgerServiceProofs`: `ServiceInvariant`, and from it `NoChangeIsLost` and
  `EveryChangeHasOneEvent`. A change of memory leaves a mark that is handed from
  the client's buffer to a handler to the flag (`MarkInv`); an event is in one
  place at a time, the buffer, one handler, the outbox or among the dropped
  (`PlaceInv`, `LeftInv`), and no change of one life is made twice, since stages
  only advance (`AppliedInv`).
- `MoneyProofs`: `MoneyInvariant`, and from it `NoLegOutOfTurn` and
  `SuccessIsSettled`. An attempt that has passed a step stands behind its effect
  (`Taken`, `Grounded`), for all attempts of one workflow at once; before the
  first compensation nothing is voided or reversed (`NothingUndone`).
- `RefundProofs`: `RefundInvariant` and `PaidAtMostOnce`. `OneLiveAttempt` needs
  that whoever holds an attempt number (a thread, the record, a call still on
  its way) holds one below which every attempt is voided (`AttemptsInTurn`).
  `RecordTells`: what the record says of its hold is so. `AgreedInv` extends that
  from the record to every thread, by the line it is about to execute: one
  that is about to write a result holds the outcome of that attempt.
  For the endpoints, `DeskImplementsExecutor` (the refinement is the identity on
  the executor's variables; what needs an invariant is that the amount handed
  to the executor was read from a decision), hence `DeskPaysAtMostOnce` and
  `DeskRecordTells`.
- `FileOutboxProofs`: `OutboxInvariant`, `CheckpointSkipsNothing` and
  `FirstPublishedInOrder`. The invariant adds what the pass under way has done
  and that the number the checkpoint or the pass has come to is in the file or
  was swallowed with a line that lacked its newline (`CountersAgree`), which is
  what recovery of the counter after a crash relies on.
- `DeliveryProofs`: `DeliveryInvariant`, and from it `TopicIsAsCommitted` and
  `EffectsAreSingle`, with any number of relays and consumers. A claimed row is
  stamped and has one claimer (`ClaimsAreOwn`); whoever may publish a row finds
  a copy of it on the topic only for each publish reported as failed
  (`RoomForCopy`). In each process the effects an event had, the members at work
  on it and the free key it may have are one in all, and one more for each claim
  that was reclaimed (`ClaimsAreAccounted`), whatever the rebalances,
  redeliveries and crashes, for any number of processes.
- `RegistersProofs`: the inductive invariants of the seven services that stand
  in `Registers`, below `Platform`, so that their obligations carry the
  definitions of these services only.
  Step-up: a secret has one owner, in the store and in every copy a request
  holds (`OneOwner`); an accepted code is in no record unless an outdated copy
  was written back (`BurntIsGone`); a service remembers a used ticket until the
  sweep may drop it or it restarts (`UsedIsRemembered`).
  Consent (`ConsentInv`): a renewal or revocation holds a copy that was not
  revoked, a walk over a listing expires only records that were active in it,
  and what an erasure has found is still to be written or no longer names the
  subject (`ChangeShaped`, `WalkShaped`, `EraseShaped`); an erasure has answered
  only after its audit entry. Writes made from an
  outdated copy are the only ones that break this and mark the record.
  TIN graph (`TinInv`): two requests at work on one TIN are noted (`Exclusive`);
  the index lacks a stored TIN only while its provision has still to invalidate
  it, and a provision about to write has found none (`IndexInv`); a merge under
  way has a survivor that is not merged away itself, has moved every
  registration not left in its listing and stores its receipt before the
  status, while an unmerge resets the status before the receipt (`MergeInv`).
  What "first found" and "latest merge" return comes from the well-foundedness
  of < on the naturals.
  Migration: what a request has put so far is there unless somebody takes rows
  of that batch back, and a document without a manifest is held by a request at
  work (`MigrationInv`); the taxpayers of the rows checked so far are admitted
  or known, so that a row admitted for a taxpayer of its upload finds it when
  the check ends (`ReferenceInv`); a verification has seen every row of the
  collections it has read (`VerdictInv`), and all rows in order of their index
  reconcile with the manifest made of them (`WholeBatchPasses`). The staging of
  an upload is a recursive function, whose existence and range are proved by
  taking a least counterexample.
  Rule packs (`ListingInv`): a record carries the version it is stored under.
  `latestPublished` is a fold, a recursive function over the sets of positions
  of the listing; that it exists and keeps the newest record is shown of every
  set of positions from the sets with one element less (`KeepsExists`,
  `KeepsNewest`). Versions are compared as numbers in a base above all their
  components (`RankTells`).
  AML thresholds (`ThresholdsInv`, of accounts that are not excused): what was
  observed entered in the order of its times, the window of an account holds
  each entry until something later has pushed it out, the last alert has the
  time of an entry and is in the outbox or with an observer about to emit it,
  and every split in the past has an alert at the time of one of its window.
  So the window of the code is the window of the property (`ObservationEnters`).
  Matching (`MatchingInv`): the edit distance is defined by pairings of letters
  in order, with no table. A cheapest pairing either leaves one of the last two
  letters alone or joins them (`PairingEnds`), which gives the recurrence of
  `levenshtein` (`DistanceGrows`); a row is what fills the recurrence, and only
  one thing does (`NextRowRight`). Any order that puts no candidate behind a
  lesser one has a best one first (`FirstIsBest`), and the verdict on it is that
  on all (`VerdictOfBest`), where a sum that is exact may have been computed
  short of itself and then counts as just below it (`OnlyShortDiffers`).
- `PlatformProofs`, service by service: a behaviour of `Platform` is one of a
  single service, so each theorem is about that service's own steps.
  `StepUpSingleUse`, `WithdrawalAlwaysHolds`, `ErasureAlwaysAccounted`,
  `OneEntityStands`, `MergesEnd`, `MergesStayWhole`, `UploadsStayWhole`,
  `ReferencesAlwaysResolve` and `VerdictsAreJust` follow from `RegistersProofs`. `NotificationStays`: a
  breach that records a notification is never behind it in status, and neither
  is a copy a transition holds unless another overtook it (`RegisterInv`).
  `KeysAreFollowed`: a cached key was published when the cache was last filled,
  and a verification that looks again after its own fetch finds what the realm
  publishes (`CacheInv`), which bounds how long a withdrawn key is trusted.
  `EvidenceAlwaysStands`: while nothing has disturbed the log, its lines carry
  the numbers of the file and memory lags by the append under way only, and one
  request at a time for an id goes past the check and has found no object, or
  the id is marked (`EvidenceInv`).
  `OneOutcomeIsTold`: the cluster takes an id and resolves a hold once, and who
  is told `ok` or `exists` has its own transfer in it (`ClientInv`).
  `SessionsEndWithTheirEpoch`: neither memory nor Postgres holds an epoch before
  a token that was ended, unless the change was not saved (`SessionInv`).
  `AnsweredWritesAreKept`: who holds the lock of a row has read what is in it
  (`StoreInv`). `PublishedStays`: a registration writes where there was no record
  and a publication over an unpublished one, or the version is marked
  (`RegistryInv`). `NoAuditIsLost`: an event
  that leaves the queue is with the flusher or taken (`ConsoleInv`).
  `SendingIsAlwaysAccounted`: one request at a time sends under a key and leaves
  it known when it has, and where a walk stands in its chain is where its log
  ends (`NotificationInv`). `NewestIsAlwaysFound`, `SplitIsAlwaysFlagged` and
  `AlwaysDecidesByReference` follow from `RegistersProofs`: for any set of
  versions, for any traffic, and for names of any length.

Assumptions are the named `ASSUME`s of the modules (bounds are naturals,
amounts are words, sets of flags are subsets), evaluated by TLC on each run; the
services state theirs as `Parameters`, which `Registers` and `Platform` assume.

Only model-checked: the liveness properties (`AttemptsEnd`, `EventuallyOut`,
`EventuallyPublished`, `EventuallyDelivered`), which are outside the prover's
reach. Every safety invariant and action property of a passing run is stated by
a theorem. The library's induction theorems cannot be instantiated
here; what recursive definitions compute (the fold over a listing, a row of the
distance table, the staging of an upload) is proved by taking a least
counterexample instead.

## 6. What is left out

Abstractions: identities of callers, roles, step-up and maker-checker tests
(they refuse before anything changes); payloads, hashes and message texts;
real time (a clock of a few ticks, an age flag). The store is atomic per
access. The file system keeps what was synced and what a rename replaced.
Signatures, hashes and one-time passwords are their verdicts. Of the records that
are appended to and read back by subject (consent receipts, the access log, the
audit of erasures, breaches) `Consent` keeps whom they name; the audit of the TIN
graph, which nothing reads back, is left out.
The realm of Keycloak, the TigerBeetle cluster and the notification providers
are external and modelled by what the code relies on.

`Migration` is the configuration with a live TIN index (production requires it);
parsing and validation are a verdict per row, hashes are collision-free. Its
`AllOrNothing` and `VerdictIsJust` except batches in `undone`: ids are
content-addressed, so the rollback of one request deletes rows that another
request for the same upload has committed. That is in `hazards`; it takes a
failing write during a concurrent repetition of an upload, or one repetition
afterwards whose lookup of the batch fails and then a write. The manifest's
signature is checked with the key it was made with, which no request changes.

Some modules are one configuration of their service. `AdminSessions` has a
database: without `DATABASE_URL` the write-through does nothing
(`store_pg.go:150`) and a restart brings the seeded users back. In `KeyCache`
every token names its key; a token without a name, which Keycloak does not issue,
is tried with the only key there is. ULIDs are ordered by their millisecond only
(`envelope.go:53`): the receipts of one walk in `Notification`, and the consents
in `Consent`, are taken to be made in different ones.

Not modelled: see `components`. Geometry, ML and analytics are numeric data
processing outside TLC; SDKs, user interface, telemetry and schemas keep no
protocol state.

## 7. Plan

1. Done: ledger (both clients), ledger service, thresholds, money workflows,
   refunds, outboxes, delivery, migration, step-up, TIN graph, consent and
   breach, evidence, rule packs, notification, document stores, admin API, key
   caches.
2. Left: gate flips (`reg-watch`, `workflows-go`), the in-process bus with dead
   letters, the search indexer as a third claimer of outbox rows; the rules
   evaluator, the permission checker and the reconciliation as operators against
   reference definitions.
3. Proofs to add: those of the modules of item 2.
