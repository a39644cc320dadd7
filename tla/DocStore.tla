------------------------------ MODULE DocStore ------------------------------
(***************************************************************************)
(* packages/events/store: one collection of the document store every       *)
(* service uses, embedded (store.go) or in Postgres (pg.go).               *)
(*                                                                         *)
(* The embedded store changes its memory under a lock and then writes the  *)
(* collection to a file; when that fails the caller gets an error and the  *)
(* memory keeps the change.  A document is the set of the requests that    *)
(* shaped it: Put starts it afresh, Update adds to it.                     *)
(***************************************************************************)
EXTENDS Integers, FiniteSets

CONSTANTS
  Ids,        \* documents
  Requests,   \* writes, each made once
  MaxFaults   \* bound of the instance

VARIABLES
  backend,    \* "embedded" or "postgres"
  memory,     \* id -> document, as reads see it
  disk,       \* id -> document, as a restart finds it
  request,    \* request -> its local state
  answered,   \* request -> "none", "ok", "error"
  allowed,    \* id -> documents a reader may find after what was answered
  births,     \* ids that two transactions created at once
  faults

vars == <<backend, memory, disk, request, answered, allowed, births, faults>>

None == {}
New == [pc |-> "new"]
Done == [pc |-> "done"]

-----------------------------------------------------------------------------
(* Answers.                                                                *)

Answer(persisted) == IF persisted THEN "ok" ELSE "error"

\* What may be found after the answer: the new document, or also the old ones
\* if the write was refused.
Allow(id, doc, answer) ==
  allowed' = [allowed EXCEPT ![id] = IF answer = "ok" THEN {doc} ELSE @ \cup {doc}]

-----------------------------------------------------------------------------
(* store.go.                                                               *)

\* persistLocked writes the whole collection, what earlier failures left in
\* memory included, and renames it into place; or it fails and leaves the file.
Write(r, id, doc) ==
  /\ memory' = [memory EXCEPT ![id] = doc]
  /\ \E persisted \in BOOLEAN :
       /\ \/ persisted /\ disk' = memory' /\ faults' = faults
          \/ ~persisted /\ faults < MaxFaults /\ faults' = faults + 1 /\ disk' = disk
       /\ answered' = [answered EXCEPT ![r] = Answer(persisted)]
       /\ Allow(id, doc, Answer(persisted))
  /\ request' = [request EXCEPT ![r] = Done]
  /\ UNCHANGED <<backend, births>>

\* Put, PutIfAbsent, Update and Delete hold the lock throughout.
Change(r, id, doc) == backend = "embedded" /\ request[r] = New /\ Write(r, id, doc)
Put(r, id) == Change(r, id, {r})
PutIfAbsent(r, id) == memory[id] = None /\ Change(r, id, {r})
Update(r, id) == Change(r, id, memory[id] \cup {r})
Delete(r, id) == memory[id] # None /\ Change(r, id, None)

\* Open loads the files; memory is gone.
Restart ==
  /\ faults < MaxFaults /\ faults' = faults + 1
  /\ memory' = disk
  /\ request' = [r \in Requests |-> IF request[r] = New THEN New ELSE Done]
  /\ UNCHANGED <<backend, disk, answered, allowed, births>>

-----------------------------------------------------------------------------
(* pg.go.  The table is both memory and disk.                              *)

Locked(id) == \E q \in Requests : request[q].pc = "update" /\ request[q].id = id /\ request[q].locks

PgWrite(r, id, doc) ==
  /\ memory' = [memory EXCEPT ![id] = doc]
  /\ disk' = memory'
  /\ answered' = [answered EXCEPT ![r] = "ok"]
  /\ Allow(id, doc, "ok")
  /\ request' = [request EXCEPT ![r] = Done]
  /\ UNCHANGED <<backend, faults>>

\* Single statements; they wait for a locked row.
PgChange(r, id, doc) ==
  /\ backend = "postgres" /\ request[r] = New /\ ~Locked(id)
  /\ PgWrite(r, id, doc)
  /\ UNCHANGED births
PgPut(r, id) == PgChange(r, id, {r})
PgPutIfAbsent(r, id) == memory[id] = None /\ PgChange(r, id, {r})
PgDelete(r, id) == memory[id] # None /\ PgChange(r, id, None)

\* Slip: the row is read without FOR UPDATE.
ReadsFreely(id) == FALSE

\* SELECT ... FOR UPDATE locks the row, if there is one to lock.
TakesLock(id) == memory[id] # None

PgUpdateRead(r, id) ==
  /\ backend = "postgres" /\ request[r] = New /\ ~Locked(id)
  /\ request' = [request EXCEPT ![r] = [pc |-> "update", id |-> id, read |-> memory[id],
                                        locks |-> TakesLock(id)]]
  /\ UNCHANGED <<backend, memory, disk, answered, allowed, births, faults>>

\* The upsert waits for a row that another transaction has locked meanwhile.
PgUpdateCommit(r) ==
  /\ request[r].pc = "update"
  /\ request[r].locks \/ ~Locked(request[r].id)
  /\ LET id == request[r].id IN
       /\ PgWrite(r, id, request[r].read \cup {r})
       /\ births' = IF request[r].read = None /\ memory[id] # None
                    THEN births \cup {id} ELSE births

PgUpdateRollback(r) ==
  /\ request[r].pc = "update"
  /\ faults < MaxFaults /\ faults' = faults + 1
  /\ request' = [request EXCEPT ![r] = Done]
  /\ answered' = [answered EXCEPT ![r] = "error"]
  /\ UNCHANGED <<backend, memory, disk, allowed, births>>

-----------------------------------------------------------------------------
Init ==
  /\ backend \in {"embedded", "postgres"}
  /\ memory = [id \in Ids |-> None] /\ disk = memory
  /\ request = [r \in Requests |-> New]
  /\ answered = [r \in Requests |-> "none"]
  /\ allowed = [id \in Ids |-> {None}]
  /\ births = {}
  /\ faults = 0

Next ==
  \/ \E r \in Requests, id \in Ids :
       \/ Put(r, id) \/ PutIfAbsent(r, id) \/ Update(r, id) \/ Delete(r, id)
       \/ PgPut(r, id) \/ PgPutIfAbsent(r, id) \/ PgDelete(r, id) \/ PgUpdateRead(r, id)
  \/ \E r \in Requests : PgUpdateCommit(r) \/ PgUpdateRollback(r)
  \/ Restart

Spec == Init /\ [][Next]_vars

-----------------------------------------------------------------------------
(* Properties.                                                             *)

\* What a caller was told is what a restart finds: each document on disk is
\* the last acknowledged one, or one whose write was refused after it (which
\* readers see until a restart, and which a later write may make durable).
AckedIsDurable == \A id \in Ids : disk[id] \in allowed[id] /\ memory[id] \in allowed[id]

\* "compare-and-swap semantics": an update is based on the document it
\* replaces, so none of the updates before it is lost, in either backend;
\* except that Postgres cannot lock a row that does not exist yet.
NoUpdateLost ==
  \A id \in Ids \ births', r \in Requests :
    request[r].pc = "update" /\ request'[r].pc = "done" /\ answered'[r] = "ok" /\ request[r].id = id
      => memory[id] \subseteq memory'[id]

\* Every step of a store keeps both promises.
WritesAreKept == [][NoUpdateLost /\ AckedIsDurable']_vars

-----------------------------------------------------------------------------
(* The inductive invariant.                                                *)

StoreTypes ==
  /\ memory = [id \in Ids |-> memory[id]] /\ disk = [id \in Ids |-> disk[id]]
  /\ allowed = [id \in Ids |-> allowed[id]]
  /\ request = [r \in Requests |-> request[r]] /\ answered = [r \in Requests |-> answered[r]]

\* Who holds the lock of a row has read what is in it, and who has locked
\* nothing has found nothing.
UpdateIsBased(r) ==
  request[r].pc = "update" =>
    /\ backend = "postgres" /\ request[r].id \in Ids /\ answered[r] = "none"
    /\ request[r].read = IF request[r].locks THEN memory[request[r].id] ELSE None

OneLockPerRow ==
  \A q, r \in Requests :
    /\ request[q].pc = "update" /\ request[q].locks /\ request[r].pc = "update" /\ request[r].locks
    /\ request[q].id = request[r].id
    => q = r

StoreInv ==
  /\ StoreTypes
  /\ \A r \in Requests : request[r] = New => answered[r] = "none"
  /\ \A r \in Requests : UpdateIsBased(r)
  /\ OneLockPerRow
  /\ AckedIsDurable
=============================================================================
