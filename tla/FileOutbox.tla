----------------------------- MODULE FileOutbox -----------------------------
(***************************************************************************)
(* The JSONL outbox and its relay: packages/events/outbox (FileStore and   *)
(* Relay) and its Python twin meridian_events/outbox.py (FileOutbox and    *)
(* OutboxRelay).  Appends and the relay share a process; appends may fail  *)
(* half-way, publishing may fail, and the process may crash anywhere.      *)
(*                                                                         *)
(* The file is modelled by its readable lines: sequence number -> event.   *)
(* A line that does not parse is skipped by every reader, so of garbage    *)
(* only one thing matters: whether the file ends without a newline, which  *)
(* glues the next record to the last line and makes one garbage of both.   *)
(* A last line that lacks nothing but the newline is readable until then.  *)
(***************************************************************************)
EXTENDS Integers, FiniteSets, FiniteSetsExt, Functions

CONSTANTS
  Events,      \* events services append, each once
  Poison,      \* events the bus never accepts (schema validation)
  BatchLimit,  \* records Pending returns at most
  Twins,       \* which of the two, "go" and "python", to look at
  MaxFaults    \* bound on failing reads, writes and publishes, and crashes

ASSUME OutboxAssumption ==
  /\ Poison \subseteq Events
  /\ BatchLimit \in Nat \ {0}
  /\ Twins \subseteq {"go", "python"}
  /\ MaxFaults \in Nat

VARIABLES
  twin,         \* the implementation this process runs
  file,         \* readable records: seq -> event
  torn,         \* the file does not end in a newline
  bare,         \* the record whose line lacks the newline only, 0 if there is none
  seq,          \* fs.seq
  checkpoint,   \* outbox.relay.seq
  relay,        \* flushOnce: [pc, batch still to publish, from, last seq published]
  published,    \* events the bus has accepted
  tried,        \* events some service has tried to append
  acked,        \* events whose Append returned nil
  swallowed,    \* history: records the relay had read when a later line was glued to them
  faults

fileVars == <<file, torn, bare, swallowed>>
vars == <<twin, fileVars, seq, checkpoint, relay, published, tried, acked, faults>>

Put(f, k, v) == [x \in DOMAIN f \cup {k} |-> IF x = k THEN v ELSE f[x]]
Resting == [pc |-> "idle", batch |-> <<>>, from |-> 0, last |-> 0]
Fault == faults < MaxFaults /\ faults' = faults + 1

\* An exception leaves the Python relay's loop, and with it the thread.
Broken == IF twin = "python" THEN [Resting EXCEPT !.pc = "dead"] ELSE Resting

-----------------------------------------------------------------------------
(* FileStore.                                                              *)

\* The relay has the record in its checkpoint or in hand.
Reached(n) ==
  n <= checkpoint \/ n <= relay.last \/ n \in DOMAIN relay.batch

\* Bytes after a missing newline: the line before them can be read no more.
Glue ==
  /\ file' = Restrict(file, DOMAIN file \ {bare})
  /\ bare' = 0
  /\ swallowed' = swallowed \cup {n \in {bare} : n # 0 /\ Reached(n)}

\* A whole line is written; after a torn line it becomes part of it.
WriteLine(e) ==
  /\ torn' = FALSE
  /\ IF torn
       THEN Glue
       ELSE file' = Put(file, seq + 1, e) /\ UNCHANGED <<bare, swallowed>>

\* A line is written in part: some of the record, or all but its newline.
WritePart(e) ==
  /\ torn' = TRUE
  /\ \/ Glue
     \/ /\ ~torn
        /\ file' = Put(file, seq + 1, e)
        /\ bare' = seq + 1
        /\ UNCHANGED swallowed

\* Every append takes a number first.
Number(e) ==
  /\ e \notin tried
  /\ tried' = tried \cup {e}
  /\ seq' = seq + 1

\* Write and Sync succeed.
Append(e) ==
  /\ Number(e)
  /\ WriteLine(e)
  /\ acked' = acked \cup {e}
  /\ UNCHANGED <<twin, checkpoint, relay, published, faults>>

\* Marshal or Write fails: nothing is written, or part of the line.
AppendFails(e) ==
  /\ Number(e)
  /\ UNCHANGED fileVars \/ WritePart(e)
  /\ Fault
  /\ UNCHANGED <<twin, checkpoint, relay, published, acked>>

\* Write succeeds and Sync fails: the record is there, the caller has an error.
AppendUnsynced(e) ==
  /\ Number(e)
  /\ WriteLine(e)
  /\ Fault
  /\ UNCHANGED <<twin, checkpoint, relay, published, acked>>

\* Slip: the file is read from its start on every pass.
PendingFromStart(after) ==
  {n \in DOMAIN file : Cardinality({m \in DOMAIN file : m <= n}) <= BatchLimit}

\* The records after the checkpoint, in file order, at most BatchLimit.
Pending(after) ==
  LET unread == {n \in DOMAIN file : n > after}
  IN  {n \in unread : Cardinality({m \in unread : m <= n}) <= BatchLimit}

\* Slip: numbering starts over in every process.
SeqFromZero == 0

\* NewFileStore: the greatest number among the lines that parse.
RecoveredSeq == IF DOMAIN file = {} THEN 0 ELSE Max(DOMAIN file)

-----------------------------------------------------------------------------
(* Relay.flushOnce.                                                        *)

\* A checkpoint that cannot be read counts as 0.
ReadPending ==
  /\ relay.pc = "idle"
  /\ \E from \in {0, checkpoint} :
       /\ \/ from = checkpoint /\ UNCHANGED faults
          \/ Fault
       /\ Pending(from) # {}
       /\ relay' = [pc |-> "publish", batch |-> Restrict(file, Pending(from)),
                    from |-> from, last |-> from]
  /\ UNCHANGED <<twin, fileVars, seq, checkpoint, published, tried, acked>>

\* The outbox file cannot be read.
ReadFails ==
  /\ relay.pc = "idle"
  /\ Fault
  /\ relay' = Broken
  /\ UNCHANGED <<twin, fileVars, seq, checkpoint, published, tried, acked>>

NextRecord == Min(DOMAIN relay.batch)
NextEvent == relay.batch[NextRecord]

PublishOK ==
  /\ relay.pc = "publish" /\ DOMAIN relay.batch # {}
  /\ NextEvent \notin Poison
  /\ published' = published \cup {NextEvent}
  /\ relay' = [relay EXCEPT !.batch = Restrict(@, DOMAIN @ \ {NextRecord}),
                            !.last = NextRecord]
  /\ UNCHANGED <<twin, fileVars, seq, checkpoint, tried, acked, faults>>

\* Slip: the relay counts the record it could not publish as done.
GiveUpBatchPast ==
  relay' = [relay EXCEPT !.pc = "save", !.batch = <<>>, !.last = NextRecord]

\* The pass ends at the record that could not be published: the Go relay
\* returns, the Python relay first checkpoints what it has published.
GiveUpBatch ==
  relay' = IF twin = "python" /\ relay.last # relay.from
             THEN [relay EXCEPT !.pc = "save", !.batch = <<>>]
             ELSE Resting

\* Publish fails; the broker may have taken the record all the same.
PublishFails ==
  /\ relay.pc = "publish" /\ DOMAIN relay.batch # {}
  /\ \/ /\ NextEvent \in Poison
        /\ UNCHANGED <<published, faults>>
     \/ /\ Fault
        /\ published' \in {published, published \cup ({NextEvent} \ Poison)}
  /\ GiveUpBatch
  /\ UNCHANGED <<twin, fileVars, seq, checkpoint, tried, acked>>

BatchDone ==
  /\ relay.pc = "publish" /\ DOMAIN relay.batch = {}
  /\ relay' = [relay EXCEPT !.pc = "save"]
  /\ UNCHANGED <<twin, fileVars, seq, checkpoint, published, tried, acked, faults>>

\* WriteFile and Rename.  The Go relay ignores an error of either; in the
\* Python relay it is an exception that nobody catches.
SaveCheckpoint ==
  /\ relay.pc = "save"
  /\ \/ checkpoint' = relay.last /\ relay' = Resting /\ UNCHANGED faults
     \/ Fault /\ relay' = Broken /\ UNCHANGED checkpoint
  /\ UNCHANGED <<twin, fileVars, seq, published, tried, acked>>

\* The process ends and is started again; the file and the checkpoint stay.
Crash ==
  /\ Fault
  /\ seq' = RecoveredSeq
  /\ relay' = Resting
  /\ UNCHANGED <<twin, fileVars, checkpoint, published, tried, acked>>

Init ==
  /\ twin \in Twins
  /\ file = <<>>
  /\ torn = FALSE /\ bare = 0 /\ swallowed = {}
  /\ seq = 0
  /\ checkpoint = 0
  /\ relay = Resting
  /\ published = {} /\ tried = {} /\ acked = {}
  /\ faults = 0

RelayStep ==
  ReadPending \/ ReadFails \/ PublishOK \/ PublishFails \/ BatchDone \/ SaveCheckpoint

Next ==
  \/ \E e \in Events : Append(e) \/ AppendFails(e) \/ AppendUnsynced(e)
  \/ RelayStep
  \/ Crash

Spec == Init /\ [][Next]_vars

\* The relay's loop keeps calling flushOnce; no step of a dead relay is enabled.
FairSpec == Spec /\ WF_vars(RelayStep)

-----------------------------------------------------------------------------
(* Properties.                                                             *)

TypeOK ==
  /\ DOMAIN file \subseteq Nat \ {0}
  /\ file \in [DOMAIN file -> Events]
  /\ torn \in BOOLEAN
  /\ bare \in DOMAIN file \cup {0}
  /\ swallowed \subseteq Nat
  /\ seq \in Nat /\ checkpoint \in Nat
  /\ relay.pc \in {"idle", "publish", "save", "dead"}
  /\ DOMAIN relay.batch \subseteq Nat \ {0} /\ relay.batch \in [DOMAIN relay.batch -> Events]
  /\ relay = [pc |-> relay.pc, batch |-> relay.batch, from |-> relay.from, last |-> relay.last]
  /\ relay.last \in Nat
  /\ published \subseteq Events /\ tried \subseteq Events /\ acked \subseteq Events
  /\ faults \in Nat

\* Known not to hold without it: a process that starts after a record was
\* swallowed may give its number, and those below it, to new records.
Reissued(n) == \E k \in swallowed : n <= k

\* The relay never skips a record: what its checkpoint has passed was
\* published.  The checkpoint is a number in a file of its own and the
\* numbers are recovered from the lines that parse, so a crash must not let
\* a number be given out again at or below the checkpoint.  It does so in one
\* case only: a line that lacked its newline was relayed and then glued to.
NothingSkipped ==
  \A n \in DOMAIN file : n <= checkpoint => file[n] \in published \/ Reissued(n)

\* What makes it inductive: the same for the pass under way, and where the
\* counters and the batch stand to the numbers in the file.
PassSkipsNothing ==
  relay.pc \in {"publish", "save"} =>
    /\ \A n \in DOMAIN file : n <= relay.last => file[n] \in published \/ Reissued(n)
    /\ relay.pc = "publish" =>
         \A n \in DOMAIN file : \A m \in DOMAIN relay.batch :
           relay.last < n /\ n <= m => n \in DOMAIN relay.batch /\ relay.batch[n] = file[n]

Numbered(n) == n = 0 \/ n \in DOMAIN file \/ n \in swallowed

CountersAgree ==
  /\ \A n \in DOMAIN file : n <= seq
  /\ \A n \in DOMAIN relay.batch : relay.last < n /\ n <= seq /\ Numbered(n)
  /\ Numbered(checkpoint)
  /\ relay.pc = "idle" \/ Numbered(relay.last)

OutboxInv == TypeOK /\ NothingSkipped /\ PassSkipsNothing /\ CountersAgree

\* Records first reach the bus in file order: no record is published while
\* an earlier one never was, through failures, retries and crashes (but for
\* numbers that stand for a second record).
PublishedInOrder ==
  [][\A n \in DOMAIN file : \A m \in DOMAIN file :
       n < m /\ file[m] \in published' \ published =>
         file[n] \in published \/ Reissued(n)]_vars

Readable(e) == \E n \in DOMAIN file : file[n] = e

\* Every readable record is published in the end, however appends, failed
\* publishes, lost checkpoints and crashes interleave, unless a record the
\* bus never accepts stands before it, the next line is glued to it, its
\* number was in use before, or the relay's thread has died for good.
EventuallyPublished ==
  \/ <>[](relay.pc = "dead")
  \/ \A e \in Events :
       Readable(e) ~>
         \/ e \in published \/ ~Readable(e)
         \/ \E n, m \in DOMAIN file : file[m] = e /\ n <= m /\ file[n] \in Poison
         \/ \E m \in DOMAIN file : file[m] = e /\ Reissued(m)

\* What the comment on Append says, "durable": an append that returned no
\* error left a record the relay can read.
AckedIsReadable == \A e \in acked : Readable(e)

\* And what the relay needs: the checkpoint passes published records only.
NeverSkips == \A n \in DOMAIN file : n <= checkpoint => file[n] \in published
=============================================================================
