--------------------------- MODULE LedgerService ---------------------------
(***************************************************************************)
(* The ledger service around tb.DevClient (services/ledger/main.go): HTTP  *)
(* handler goroutines and the expiry sweeper call the client, the hooks    *)
(* the client buffered under its mutex run after the unlock, a debounced   *)
(* flusher writes the snapshot, and the process may be killed or shut down *)
(* and restarted from disk.                                                *)
(*                                                                         *)
(* The client's maps are abstracted to the stage of each movement: module  *)
(* Ledger shows that tb.DevClient implements TwoPhase.  One critical       *)
(* section of the client's mutex is one step; between two of them, and     *)
(* between the hooks, any other goroutine may run.                         *)
(***************************************************************************)
EXTENDS Integers, Sequences, FiniteSets, Functions

CONSTANTS
  Movements,    \* the movements of money clients ask for
  Handlers,     \* HTTP handler goroutines
  Sweeper,      \* the goroutine of runPendingSweeper
  MaxLives,     \* bound on the number of process lives
  MaxFaults     \* bound on failing writes to the snapshot or the outbox

ASSUME ServiceAssumption ==
  /\ Sweeper \notin Handlers
  /\ MaxLives \in Nat \ {0} /\ MaxFaults \in Nat
  /\ IsFiniteSet(Movements)

VARIABLES
  mem,            \* c.transfers: the stage of each movement
  pendingChange,  \* c.pendingChange
  pendingEvents,  \* c.pendingEvents
  thread,         \* goroutine -> where it is and what it took in runHooks
  dirty,          \* srv.persistDirty
  flusher,        \* runPersistFlusher: where it is and the snapshot it took
  disk,           \* ledger.snapshot.json
  outbox,         \* the outbox file: event -> how often it was appended
  dropped,        \* events whose outbox append failed and was only logged
  persistErr,     \* the last persist failed and was only logged
  process,        \* "up", "killed" or "shutdown"
  life,           \* how many times the process was started
  faults,         \* failing writes so far
  applied         \* history: every stage change the client made

clientVars == <<mem, pendingChange, pendingEvents, applied>>
storeVars == <<disk, outbox, dropped, persistErr, faults>>
vars == <<mem, pendingChange, pendingEvents, thread, dirty, flusher, disk, outbox,
          dropped, persistErr, process, life, faults, applied>>

Protocol == INSTANCE TwoPhase WITH status <- mem

Threads == Handlers \cup {Sweeper}

\* A transfer event, tagged with the life of the process that made the change.
\* "expired" is the nrs.ledger.pending_expired.v1 event of the sweeper.
Event == [movement : Movements, stage : {"open", "posted", "voided", "expired"},
          life : 1 .. MaxLives]

MkEvent(m, stage) == [movement |-> m, stage |-> stage, life |-> life]

Idle == [pc |-> "idle", change |-> FALSE, events |-> <<>>, notices |-> <<>>]
Resting == [pc |-> "idle", snap |-> <<>>]
Running(t, pc) == process = "up" /\ thread[t].pc = pc

-----------------------------------------------------------------------------
(* The four mutating routes: the stage the movement must be in, and the    *)
(* stage an accepted call leaves it in.                                    *)
Routes == {"transfer", "pending", "post", "void"}
Accepts(route) == IF route \in {"transfer", "pending"} THEN "none" ELSE "open"
Outcome(route) ==
  CASE route = "pending" -> "open" [] route = "void" -> "voided" [] OTHER -> "posted"

\* The critical section of an accepted call: the change, then changedLocked
\* and eventLocked.
Change(ms, stage, order) ==
  /\ mem' = [m \in Movements |-> IF m \in ms THEN stage ELSE mem[m]]
  /\ pendingChange' = TRUE
  /\ pendingEvents' = pendingEvents \o [i \in 1 .. Len(order) |-> MkEvent(order[i], stage)]
  /\ applied' = applied \cup {MkEvent(m, stage) : m \in ms}

\* A request reaches the client.  A call the client rejects, or answers with
\* Exists, changes nothing, but runHooks is deferred all the same.
Call(t, route, m) ==
  /\ t \in Handlers /\ Running(t, "idle")
  /\ IF mem[m] = Accepts(route)
       THEN Change({m}, Outcome(route), <<m>>)
       ELSE UNCHANGED clientVars
  /\ thread' = [thread EXCEPT ![t].pc = "hooks"]
  /\ UNCHANGED <<dirty, flusher, storeVars, process, life>>

\* The expired pendings sorted by their ids, that is in some fixed order.
ByID(ms) == CHOOSE order \in [1 .. Cardinality(ms) -> ms] : IsInjective(order)

\* ExpirePendings voids the expired pendings, any of the open ones, in one
\* critical section; sweepExpiredPendings owes a notice for each.
Sweep(ms) ==
  /\ Running(Sweeper, "idle")
  /\ ms \subseteq {m \in Movements : mem[m] = "open"}
  /\ LET order == ByID(ms)
     IN  /\ IF ms # {} THEN Change(ms, "voided", order) ELSE UNCHANGED clientVars
         /\ thread' = [thread EXCEPT ![Sweeper] =
              [@ EXCEPT !.pc = "hooks",
                        !.notices = [i \in 1 .. Len(order) |-> MkEvent(order[i], "expired")]]]
  /\ UNCHANGED <<dirty, flusher, storeVars, process, life>>

-----------------------------------------------------------------------------
\* Slip: the events a goroutine takes stay in the buffer.
TakeHooksKeepsEvents(t) ==
  /\ Running(t, "hooks")
  /\ thread' = [thread EXCEPT ![t] =
       [@ EXCEPT !.pc = "mark", !.change = pendingChange, !.events = pendingEvents]]
  /\ pendingChange' = FALSE
  /\ UNCHANGED <<mem, pendingEvents, applied, dirty, flusher, storeVars, process, life>>

\* runHooks, under the mutex: take whatever is buffered, one's own or not.
TakeHooks(t) ==
  /\ Running(t, "hooks")
  /\ thread' = [thread EXCEPT ![t] =
       [@ EXCEPT !.pc = "mark", !.change = pendingChange, !.events = pendingEvents]]
  /\ pendingChange' = FALSE
  /\ pendingEvents' = <<>>
  /\ UNCHANGED <<mem, applied, dirty, flusher, storeVars, process, life>>

\* markDirty, outside the mutex.
MarkDirty(t) ==
  /\ Running(t, "mark")
  /\ dirty' = (dirty \/ thread[t].change)
  /\ thread' = [thread EXCEPT ![t] = [@ EXCEPT !.pc = "emit", !.change = FALSE]]
  /\ UNCHANGED <<clientVars, flusher, storeVars, process, life>>

\* What thread t still has to append: the events it took, then the sweeper's
\* notices.
Owed(t) == thread[t].events \o thread[t].notices

AfterAppend(r) ==
  IF r.events # <<>> THEN [r EXCEPT !.events = Tail(r.events)]
                     ELSE [r EXCEPT !.notices = Tail(r.notices)]

AppendNext(t) == thread' = [thread EXCEPT ![t] = AfterAppend(@)]

\* emitTransferEvent and sweepExpiredPendings: one durable append per event.
Emit(t) ==
  /\ Running(t, "emit") /\ Owed(t) # <<>>
  /\ outbox' = [outbox EXCEPT ![Head(Owed(t))] = @ + 1]
  /\ AppendNext(t)
  /\ UNCHANGED <<clientVars, dirty, flusher, disk, dropped, persistErr, process,
                 life, faults>>

\* An append that fails is logged; the event is not kept for another try.
EmitFails(t) ==
  /\ Running(t, "emit") /\ Owed(t) # <<>>
  /\ faults < MaxFaults
  /\ faults' = faults + 1
  /\ dropped' = dropped \cup {Head(Owed(t))}
  /\ AppendNext(t)
  /\ UNCHANGED <<clientVars, dirty, flusher, disk, outbox, persistErr, process, life>>

\* Slip: the goroutine answers after its first event.
RespondEarly(t) ==
  /\ Running(t, "emit")
  /\ thread' = [thread EXCEPT ![t] = Idle]
  /\ UNCHANGED <<clientVars, dirty, flusher, storeVars, process, life>>

\* The method returns and the response is written.
Respond(t) ==
  /\ Running(t, "emit") /\ Owed(t) = <<>>
  /\ thread' = [thread EXCEPT ![t] = Idle]
  /\ UNCHANGED <<clientVars, dirty, flusher, storeVars, process, life>>

-----------------------------------------------------------------------------
(* runPersistFlusher: Swap(false), then Snapshot under the mutex, then     *)
(* WriteFile and Rename.                                                   *)
SwapDirty ==
  /\ process = "up" /\ flusher.pc = "idle" /\ dirty
  /\ dirty' = FALSE
  /\ flusher' = [flusher EXCEPT !.pc = "swapped"]
  /\ UNCHANGED <<clientVars, thread, storeVars, process, life>>

Snapshot ==
  /\ process = "up" /\ flusher.pc = "swapped"
  /\ flusher' = [pc |-> "snapped", snap |-> mem]
  /\ UNCHANGED <<clientVars, thread, dirty, storeVars, process, life>>

\* Slip: the flag is cleared once the file is written, not before.
PersistThenClear ==
  /\ process = "up" /\ flusher.pc = "snapped"
  /\ disk' = flusher.snap
  /\ persistErr' = FALSE
  /\ dirty' = FALSE
  /\ flusher' = Resting
  /\ UNCHANGED <<clientVars, thread, outbox, dropped, process, life, faults>>

Persist ==
  /\ process = "up" /\ flusher.pc = "snapped"
  /\ disk' = flusher.snap
  /\ persistErr' = FALSE
  /\ flusher' = Resting
  /\ UNCHANGED <<clientVars, thread, dirty, outbox, dropped, process, life, faults>>

PersistFails ==
  /\ process = "up" /\ flusher.pc = "snapped"
  /\ faults < MaxFaults
  /\ faults' = faults + 1
  /\ persistErr' = TRUE
  /\ flusher' = Resting
  /\ UNCHANGED <<clientVars, thread, dirty, disk, outbox, dropped, process, life>>

-----------------------------------------------------------------------------
\* What ends with the process besides the client's maps.
ProcessMemoryLost ==
  /\ pendingChange' = FALSE /\ pendingEvents' = <<>>
  /\ thread' = [t \in Threads |-> Idle]
  /\ dirty' = FALSE
  /\ flusher' = Resting
  /\ persistErr' = FALSE

\* The process is killed at any point.  Memory is read next in Restart, so
\* that it then holds the snapshot is written here already.
Kill ==
  /\ process = "up" /\ life < MaxLives
  /\ process' = "killed"
  /\ ProcessMemoryLost
  /\ mem' = disk
  /\ UNCHANGED <<applied, disk, outbox, dropped, life, faults>>

\* SIGTERM: the HTTP server drains its requests, ListenAndServe returns and
\* main calls log.Fatal, which exits without running the deferred cancel().
Shutdown ==
  /\ process = "up" /\ life < MaxLives
  /\ \A t \in Handlers : thread[t].pc = "idle"
  /\ process' = "shutdown"
  /\ ProcessMemoryLost
  /\ UNCHANGED <<mem, applied, disk, outbox, dropped, life, faults>>

\* main: Restore the snapshot into a new client.
Restart ==
  /\ process # "up"
  /\ process' = "up"
  /\ life' = life + 1
  /\ mem' = disk
  /\ UNCHANGED <<applied, pendingChange, pendingEvents, thread, dirty, flusher, storeVars>>

Init ==
  /\ mem = [m \in Movements |-> "none"]
  /\ pendingChange = FALSE /\ pendingEvents = <<>>
  /\ applied = {}
  /\ thread = [t \in Threads |-> Idle]
  /\ dirty = FALSE
  /\ flusher = Resting
  /\ disk = mem
  /\ outbox = [e \in Event |-> 0]
  /\ dropped = {}
  /\ persistErr = FALSE
  /\ process = "up"
  /\ life = 1
  /\ faults = 0

ThreadStep(t) ==
  TakeHooks(t) \/ MarkDirty(t) \/ Emit(t) \/ EmitFails(t) \/ Respond(t)

FlusherStep == SwapDirty \/ Snapshot \/ Persist \/ PersistFails

Next ==
  \/ \E t \in Handlers, route \in Routes, m \in Movements : Call(t, route, m)
  \/ \E ms \in SUBSET Movements : Sweep(ms)
  \/ \E t \in Threads : ThreadStep(t)
  \/ FlusherStep
  \/ Kill \/ Shutdown \/ Restart

Spec == Init /\ [][Next]_vars

\* Goroutines that can run do run: the flusher has its ticker, a handler
\* that entered runHooks is scheduled to its end.  Requests, sweeps, faults
\* and the end of the process are never forced.
FairSpec ==
  /\ Spec
  /\ \A t \in Threads : WF_vars(ThreadStep(t))
  /\ WF_vars(FlusherStep)

-----------------------------------------------------------------------------
(* Properties.                                                             *)

TypeOK ==
  /\ mem \in [Movements -> Protocol!Stages]
  /\ disk \in [Movements -> Protocol!Stages]
  /\ pendingChange \in BOOLEAN /\ dirty \in BOOLEAN /\ persistErr \in BOOLEAN
  /\ pendingEvents \in Seq(Event)
  /\ thread \in [Threads -> [pc : {"idle", "hooks", "mark", "emit"},
                             change : BOOLEAN, events : Seq(Event), notices : Seq(Event)]]
  /\ flusher.pc \in {"idle", "swapped", "snapped"}
  /\ process \in {"up", "killed", "shutdown"}
  /\ outbox \in [Event -> Nat] /\ dropped \subseteq Event
  /\ life \in 1 .. MaxLives /\ faults \in 0 .. MaxFaults

\* Someone still has to note a change: the client's buffer, a goroutine that
\* took it, or the flag itself.
Marked == dirty \/ pendingChange \/ \E t \in Threads : thread[t].change

\* No change falls between the flusher's Swap(false) and the hooks that run
\* outside the mutex: memory differs from the snapshot on disk only while a
\* mark, or a flush that will read memory or already has, is under way.  The
\* exception the code allows is a persist that failed: its mark is gone.
NoLostChange ==
  process = "up" =>
    /\ flusher.pc = "idle" /\ mem # disk => Marked \/ persistErr
    /\ flusher.pc = "snapped" /\ mem # flusher.snap => Marked

\* Where the copies of an event are: the client's buffer, the goroutine that
\* took it, the outbox file, or the log line of a failed append.
InSeq(e, s) == {i \in DOMAIN s : s[i] = e}
InThreads(e) == UNION {{t} \X InSeq(e, thread[t].events) : t \in Threads}
Copies(e) ==
  Cardinality(InSeq(e, pendingEvents)) + Cardinality(InThreads(e))
    + outbox[e] + (IF e \in dropped THEN 1 ELSE 0)

\* runHooks lets a goroutine take, and emit, the events of others.  All the
\* same every change of this life has exactly one event, no change of an
\* earlier life has two, and no event tells of a change that was not made.
OneEventPerChange ==
  \A e \in Event :
    /\ process = "up" /\ e \in applied /\ e.life = life => Copies(e) = 1
    /\ e.stage # "expired" => Copies(e) <= (IF e \in applied THEN 1 ELSE 0)

\* A process that stays up brings the snapshot on disk up to date with
\* memory, however the flusher, the hooks and the requests interleave,
\* unless writing it failed.
EventuallyPersisted ==
  <>[](process = "up") => <>[](disk = mem \/ persistErr)

\* A change reaches the outbox file, unless the append fails or the process
\* ends first.
EventuallyEmitted ==
  \A e \in {x \in Event : x.stage # "expired"} :
    e \in applied ~> outbox[e] > 0 \/ e \in dropped \/ e.life # life \/ process # "up"

\* A change leaves the process both ways, to the snapshot and to the outbox.
EventuallyOut == EventuallyPersisted /\ EventuallyEmitted

\* What the comment on runPersistFlusher says of an orderly shutdown: it
\* flushes a final snapshot, so nothing in memory is missing on disk.
ShutdownFlushes ==
  process = "shutdown" => disk = mem
=============================================================================
