------------------------------ MODULE Evidence ------------------------------
(***************************************************************************)
(* services/audit-evidence: the hash-chained audit log over AppendLog      *)
(* (evidence.go, events/store/store.go) and the write-once evidence        *)
(* objects (evidence.go, minio.go).                                        *)
(*                                                                         *)
(* AppendLog locks its own append; AuditLog.Append does not lock around    *)
(* it, so an append has three steps: hash, write, remember.  A hash is     *)
(* named by the event it belongs to; 0 is the hash before the first.       *)
(***************************************************************************)
EXTENDS Integers, Sequences, FiniteSets

CONSTANTS
  Writers,     \* concurrent requests
  Ids,         \* ids of evidence objects asked for
  Contents,    \* contents of evidence objects
  MaxEvents, MaxFaults \* bounds of the instance

Nothing == "nothing"

VARIABLES
  file,      \* readable lines of audit.jsonl: a number and what was hashed
  flaws,     \* how the file ends: torn, without a newline; garbled, its last
             \* line with a newline cannot be read
  logSeq,    \* AppendLog.seq
  nextSeq,   \* AuditLog.nextSeq
  tail,      \* AuditLog.tail
  events,    \* events given out so far
  writer,    \* writer -> local state
  blob,      \* id -> content stored under it, or Nothing
  object,    \* id -> content whose hash the metadata carries, or Nothing
  mishaps,
  disturbed, \* an append overlapped another or failed half-way
  exposed    \* ids a request went on to write although another one was
             \* writing them or had done so

auditVars == <<file, flaws, logSeq, nextSeq, tail, events, disturbed>>
wormVars == <<blob, object, exposed>>
vars == <<auditVars, wormVars, writer, mishaps>>

Resting == [pc |-> "rest"]
Mishap == mishaps < MaxFaults /\ mishaps' = mishaps + 1

-----------------------------------------------------------------------------
(* Audit log.                                                              *)

\* computeHash covers the event, its number and the hash before it.
Hashed(event) == [event |-> event, hashedSeq |-> nextSeq, prev |-> tail]

\* Append, first part: number and hash from the fields as they are.
Hash(w) ==
  /\ writer[w] = Resting
  /\ events < MaxEvents
  /\ events' = events + 1
  /\ writer' = [writer EXCEPT ![w] = [pc |-> "write", hashed |-> Hashed(events + 1)]]
  /\ disturbed' = (disturbed \/ \E v \in Writers : writer[v].pc \in {"write", "remember"})
  /\ UNCHANGED <<file, flaws, logSeq, nextSeq, tail, wormVars, mishaps>>

Line(w) == [seq |-> logSeq + 1, hashed |-> writer[w].hashed]

\* The record and its newline.  Behind a line that was cut off, the record is
\* part of that line.
Written(w) ==
  /\ file' = IF "torn" \in flaws THEN file ELSE Append(file, Line(w))
  /\ flaws' = IF "torn" \in flaws THEN {"garbled"} ELSE {}

\* AppendLog.Append: its own counter goes into the record that was hashed.
WriteLine(w) ==
  /\ writer[w].pc = "write"
  /\ logSeq' = logSeq + 1
  /\ Written(w)
  /\ writer' = [writer EXCEPT ![w] = [pc |-> "remember", hashed |-> writer[w].hashed]]
  /\ UNCHANGED <<nextSeq, tail, events, disturbed, wormVars, mishaps>>

\* The write fails, whole or half-way, or only its sync does: the counter has
\* moved, the fields of AuditLog have not.
WriteFails(w) ==
  /\ writer[w].pc = "write"
  /\ Mishap
  /\ logSeq' = logSeq + 1
  /\ \/ UNCHANGED <<file, flaws>>
     \/ flaws' = flaws \cup {"torn"} /\ UNCHANGED file
     \/ Written(w)
  /\ disturbed' = TRUE
  /\ writer' = [writer EXCEPT ![w] = Resting]
  /\ UNCHANGED <<nextSeq, tail, events, wormVars>>

Remember(w) ==
  /\ writer[w].pc = "remember"
  /\ nextSeq' = logSeq + 1
  /\ tail' = writer[w].hashed.event
  /\ writer' = [writer EXCEPT ![w] = Resting]
  /\ UNCHANGED <<file, flaws, logSeq, events, disturbed, wormVars, mishaps>>

\* Slip: the numbering starts over.
NumberAfterOne(seq) == 1

\* OpenAuditLog: the number after the last one.
NumberAfter(seq) == seq + 1

\* The process ends and starts again; a line under way may be cut off.  A last
\* line that cannot be read leaves the numbering and the hash as at the start.
Reopen ==
  LET seqs == {file[i].seq : i \in DOMAIN file}
      fresh == file = <<>> \/ "garbled" \in flaws
  IN  /\ Mishap
      /\ logSeq' = IF seqs = {} THEN 0 ELSE CHOOSE m \in seqs : \A k \in seqs : k <= m
      /\ nextSeq' = IF fresh THEN 1 ELSE NumberAfter(file[Len(file)].seq)
      /\ tail' = IF fresh THEN 0 ELSE file[Len(file)].hashed.event
      /\ \/ UNCHANGED <<flaws, disturbed>>
         \/ /\ \E w \in Writers : writer[w].pc = "write"
            /\ flaws' = flaws \cup {"torn"} /\ disturbed' = TRUE
      /\ writer' = [w \in Writers |-> Resting]
      /\ UNCHANGED <<file, events, wormVars>>

\* VerifyChain, over the readable lines in the order of their numbers.
ChainValid ==
  \A i \in DOMAIN file :
    /\ file[i].hashed.hashedSeq = file[i].seq
    /\ file[i].hashed.prev = IF i = 1 THEN 0 ELSE file[i - 1].hashed.event

-----------------------------------------------------------------------------
(* Evidence objects.                                                       *)

Putting(id) == {w \in Writers : writer[w].pc \in {"blob", "object"} /\ writer[w].id = id}

\* WormStore.Put, the fast-path check: a lookup that fails is taken for an
\* object that is not there.
Free(id) == object[id] = Nothing

PutCheck(w, id, content) ==
  /\ writer[w] = Resting
  /\ (Free(id) /\ UNCHANGED mishaps) \/ Mishap
  /\ writer' = [writer EXCEPT ![w] = [pc |-> "blob", id |-> id, content |-> content]]
  /\ exposed' = IF Putting(id) # {} \/ object[id] # Nothing THEN exposed \cup {id} ELSE exposed
  /\ UNCHANGED <<auditVars, blob, object>>

\* backend.Put: a rename over the file, or PutObject.
PutBlob(w) ==
  /\ writer[w].pc = "blob"
  /\ blob' = [blob EXCEPT ![writer[w].id] = writer[w].content]
  /\ writer' = [writer EXCEPT ![w].pc = "object"]
  /\ UNCHANGED <<auditVars, object, exposed, mishaps>>

\* PutIfAbsent: the loser is told that the object is immutable.
PutObject(w) ==
  /\ writer[w].pc = "object"
  /\ object' = IF object[writer[w].id] = Nothing
                 THEN [object EXCEPT ![writer[w].id] = writer[w].content] ELSE object
  /\ writer' = [writer EXCEPT ![w] = Resting]
  /\ UNCHANGED <<auditVars, blob, exposed, mishaps>>

\* An access fails: a blob without metadata may stay.
PutFails(w) ==
  /\ writer[w].pc \in {"blob", "object"}
  /\ Mishap
  /\ writer' = [writer EXCEPT ![w] = Resting]
  /\ UNCHANGED <<auditVars, wormVars>>

\* WormStore.Verify: the content against the hash in the metadata.
Verifies(id) == blob[id] = object[id]

-----------------------------------------------------------------------------
Init ==
  /\ file = <<>> /\ flaws = {} /\ logSeq = 0 /\ nextSeq = 1 /\ tail = 0 /\ events = 0
  /\ writer = [w \in Writers |-> Resting]
  /\ blob = [id \in Ids |-> Nothing] /\ object = [id \in Ids |-> Nothing]
  /\ mishaps = 0 /\ disturbed = FALSE /\ exposed = {}

Next ==
  \/ \E w \in Writers :
       \/ Hash(w) \/ WriteLine(w) \/ WriteFails(w) \/ Remember(w)
       \/ \E id \in Ids, content \in Contents : PutCheck(w, id, content)
       \/ PutBlob(w) \/ PutObject(w) \/ PutFails(w)
  \/ Reopen

Spec == Init /\ [][Next]_vars

-----------------------------------------------------------------------------
\* "The hash chain makes tampering evident": a log nobody has touched verifies,
\* through restarts, as long as appends come one at a time and none fails.
UntouchedChainVerifies == disturbed \/ ChainValid

\* An evidence object verifies against its recorded hash, through crashes and
\* repeated requests, unless a request for its id went on while another was
\* under way, or because its lookup failed where there is an object.
EvidenceVerifies ==
  \A id \in Ids : object[id] # Nothing => Verifies(id) \/ id \in exposed

\* What audit-evidence holds stands up to its own verification: the chain of
\* events and the objects, through crashes and repeated requests.
EvidenceStands == UntouchedChainVerifies /\ EvidenceVerifies

\* Known not to hold: an object always verifies (evidence.go:223, "existing
\* ids are never overwritten"; 229, "a concurrent Put of the same id can never
\* overwrite").  The loser of two concurrent puts, and a single put whose
\* lookup fails, has replaced the blob before PutIfAbsent refuses it.
NeverOverwritten == \A id \in Ids : object[id] # Nothing => Verifies(id)

-----------------------------------------------------------------------------
(* The inductive invariant.  Hashes and numbers have their types as long   *)
(* as the log is undisturbed.                                              *)

Hashes == [event : Nat, hashedSeq : Nat, prev : Nat]

WriterShaped(me) ==
  \/ me = Resting
  \/ me.pc \in {"write", "remember"}
  \/ me \in [pc : {"blob", "object"}, id : Ids, content : Contents]

EvidenceTypes ==
  /\ writer = [w \in Writers |-> writer[w]]
  /\ \A w \in Writers : WriterShaped(writer[w])
  /\ events \in Nat
  /\ disturbed \in BOOLEAN
  /\ blob \in [Ids -> Contents \cup {Nothing}]
  /\ object \in [Ids -> Contents \cup {Nothing}]

Appending == {w \in Writers : writer[w].pc \in {"write", "remember"}}

\* The hash at the end of the file.
EndOfFile == IF file = <<>> THEN 0 ELSE file[Len(file)].hashed.event

\* One append at a time numbers the lines as the file does, and what the
\* process remembers lags behind the file by the append under way.
LogInOrder ==
  /\ file \in Seq([seq : Nat, hashed : Hashes])
  /\ flaws = {}
  /\ logSeq = Len(file)
  /\ \A i \in DOMAIN file : file[i].seq = i
  /\ \A v, w \in Appending : v = w
  /\ \A w \in Writers : writer[w].pc = "write" =>
       writer[w].hashed \in Hashes /\ writer[w].hashed.hashedSeq = nextSeq /\ writer[w].hashed.prev = tail
  /\ \A w \in Writers : writer[w].pc = "remember" =>
       file # <<>> /\ writer[w].hashed = file[Len(file)].hashed
  /\ (\A w \in Writers : writer[w].pc # "remember") => nextSeq = Len(file) + 1 /\ tail = EndOfFile

\* One request at a time for an id puts its blob while there is no object.
PutsInTurn ==
  \A id \in Ids \ exposed :
    /\ \A v, w \in Putting(id) : v = w
    /\ \A w \in Putting(id) :
         object[id] = Nothing /\ (writer[w].pc = "object" => blob[id] = writer[w].content)

EvidenceInv ==
  /\ EvidenceTypes
  /\ ~disturbed => LogInOrder
  /\ PutsInTurn
  /\ UntouchedChainVerifies
  /\ EvidenceVerifies
=============================================================================
