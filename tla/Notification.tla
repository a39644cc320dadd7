---------------------------- MODULE Notification ----------------------------
(***************************************************************************)
(* services/notification: POST /v1/send tries one channel once, POST       *)
(* /v1/notify walks a chain of channels with retries (fallback.go).  An    *)
(* idempotency key returns the first answer again.                         *)
(*                                                                         *)
(* The key is looked up first and stored last, without a lock: whatever    *)
(* comes between the two may be repeated under the same key.  exposed      *)
(* names the keys for which that has happened.                             *)
(***************************************************************************)
EXTENDS Integers, Sequences, FiniteSets

CONSTANTS
  Requests,   \* requests, each served once; its message has its name
  Keys,       \* idempotency keys
  Chains,     \* chains that notify is called with
  maxPerCh,   \* attempts per channel
  MaxFaults   \* bound of the instance

Parameters == Chains \subseteq Seq(STRING) /\ maxPerCh \in Nat \ {0}

VARIABLES
  byKey,      \* [kind, key] -> the message stored under the key, or None
  messages,   \* request -> stored message, or None
  receipts,   \* request -> stored delivery receipts
  request,    \* request -> its local state
  accepted,   \* [kind, key] -> requests whose message a provider took, in order
  exposed,    \* keys whose lookup and storing did not enclose the sending
  faults

vars == <<byKey, messages, receipts, request, accepted, exposed, faults>>

None == [of |-> "none"]
New == [pc |-> "new"]
Done == [pc |-> "done"]
Absent == ""   \* for a key that was not given, a channel nothing went out by
Slots == {"send", "notify"} \X (Keys \cup {Absent})
Busy(r) == request[r].pc \notin {"new", "done"}

-----------------------------------------------------------------------------
(* The lookup of the key.                                                  *)

\* Slip: a failed lookup is taken for an unknown key.
GoesOnUnlessFound(answer) == answer # "found"

\* Only a key that is certainly unknown is sent under.
GoesOn(answer) == answer = "unknown"

Begin(kind, key, chain, known) ==
  [pc |-> "walk", slot |-> <<kind, key>>, chain |-> chain, attempt |-> 1, known |-> known,
   log |-> <<>>, outcome |-> "queued"]

\* send has a body of its own; notify needs a template, known or not.
Lookup(r, kind, key, chain, known) ==
  /\ request[r] = New
  /\ kind = "send" => known /\ Len(chain) = 1 /\ chain # <<"agent">>
  /\ \E answer \in {"found", "unknown", "error"} :
       /\ answer = "found" <=> key # Absent /\ byKey[<<kind, key>>] # None /\ answer # "error"
       /\ answer = "error" => key # Absent /\ faults < MaxFaults
       /\ faults' = IF answer = "error" THEN faults + 1 ELSE faults
       /\ request' = [request EXCEPT ![r] = IF GoesOn(answer) THEN Begin(kind, key, chain, known)
                                            ELSE Done]
  /\ exposed' = IF \E q \in Requests : Busy(q) /\ request[q].slot = <<kind, key>>
                THEN exposed \cup {<<kind, key>>} ELSE exposed
  /\ UNCHANGED <<byKey, messages, receipts, accepted>>

-----------------------------------------------------------------------------
(* orchestrator.run: channel after channel, attempt after attempt.         *)

Walking(r) == request[r].pc = "walk" /\ request[r].chain # <<>>
Channel(r) == Head(request[r].chain)
Limit(r) == IF request[r].slot[1] = "send" THEN 1 ELSE maxPerCh
Receipt(r, n, outcome) == [channel |-> Channel(r), attempt |-> n, outcome |-> outcome]

Ends(r, n, outcome, final) ==
  request' = [request EXCEPT ![r].log = Append(@, Receipt(r, n, outcome)),
                             ![r].outcome = final, ![r].pc = "put"]

\* The last resort is a queue of human agents.
QueueForAgent(r) ==
  /\ Walking(r) /\ Channel(r) = "agent"
  /\ Ends(r, 1, "sent", "queued_for_agent")
  /\ UNCHANGED <<byKey, messages, receipts, accepted, exposed, faults>>

\* Without a template for it, or a provider, a channel is passed over.
SkipChannel(r) ==
  /\ Walking(r) /\ Channel(r) # "agent"
  /\ ~request[r].known
  /\ request' = [request EXCEPT ![r].log = Append(@, Receipt(r, 0, "failed")),
                                ![r].chain = Tail(@)]
  /\ UNCHANGED <<byKey, messages, receipts, accepted, exposed, faults>>

Sent(r) ==
  /\ Walking(r) /\ Channel(r) # "agent" /\ request[r].known
  /\ accepted' = [accepted EXCEPT ![request[r].slot] = Append(@, r)]
  /\ Ends(r, request[r].attempt, "sent", "sent")
  /\ UNCHANGED <<byKey, messages, receipts, exposed, faults>>

\* After a failure: the same channel again, or the next one.
AfterFailure(r) ==
  LET logged == [request[r] EXCEPT !.log = Append(@, Receipt(r, request[r].attempt, "failed"))] IN
  IF request[r].attempt < Limit(r) THEN [logged EXCEPT !.attempt = @ + 1]
  ELSE [logged EXCEPT !.attempt = 1, !.chain = Tail(@)]

\* The provider refuses, or takes the message and its answer is lost.
SendFails(r) ==
  /\ Walking(r) /\ Channel(r) # "agent" /\ request[r].known
  /\ request' = [request EXCEPT ![r] = AfterFailure(r)]
  /\ \/ UNCHANGED <<accepted, exposed, faults>>
     \/ /\ faults < MaxFaults
        /\ faults' = faults + 1
        /\ accepted' = [accepted EXCEPT ![request[r].slot] = Append(@, r)]
        /\ exposed' = exposed \cup {request[r].slot}
  /\ UNCHANGED <<byKey, messages, receipts>>

ChainExhausted(r) ==
  /\ request[r].pc = "walk" /\ request[r].chain = <<>>
  /\ request' = [request EXCEPT ![r].outcome = "failed", ![r].pc = "put"]
  /\ UNCHANGED <<byKey, messages, receipts, accepted, exposed, faults>>

-----------------------------------------------------------------------------
(* Storing the outcome: message, receipts, key.                            *)

Message(r) ==
  [of |-> r, status |-> request[r].outcome,
   channel |-> IF request[r].slot[1] = "notify" /\ request[r].outcome = "failed" THEN Absent
               ELSE request[r].log[Len(request[r].log)].channel]

PutMessage(r) ==
  /\ request[r].pc = "put"
  /\ messages' = [messages EXCEPT ![r] = Message(r)]
  /\ request' = [request EXCEPT ![r].pc = IF request[r].slot[1] = "send" THEN "key" ELSE "receipts"]
  /\ UNCHANGED <<byKey, receipts, accepted, exposed, faults>>

\* Their ids are ULIDs, so the log lists them in the order of their milliseconds;
\* the attempts of one walk are taken to fall into different ones.
PutReceipts(r) ==
  /\ request[r].pc = "receipts"
  /\ receipts' = [receipts EXCEPT ![r] = request[r].log]
  /\ request' = [request EXCEPT ![r].pc = "key"]
  /\ UNCHANGED <<byKey, messages, accepted, exposed, faults>>

PutKey(r) ==
  /\ request[r].pc = "key"
  /\ byKey' = IF request[r].slot[2] = Absent THEN byKey
              ELSE [byKey EXCEPT ![request[r].slot] = Message(r)]
  /\ request' = [request EXCEPT ![r] = Done]
  /\ UNCHANGED <<messages, receipts, accepted, exposed, faults>>

\* A write fails, some of the receipts stored, or the service dies: the key
\* stays unknown.  notify reports success when only the key fails.
StoreFails(r) ==
  /\ Busy(r) /\ faults < MaxFaults
  /\ faults' = faults + 1
  /\ \E n \in 0..Len(request[r].log) :
       /\ n = 0 \/ request[r].pc = "receipts"
       /\ receipts' = [receipts EXCEPT ![r] = IF n = 0 THEN @ ELSE SubSeq(request[r].log, 1, n)]
  /\ request' = [request EXCEPT ![r] = Done]
  /\ exposed' = exposed \cup {request[r].slot}
  /\ UNCHANGED <<byKey, messages, accepted>>

-----------------------------------------------------------------------------
Init ==
  /\ byKey = [s \in Slots |-> None]
  /\ messages = [r \in Requests |-> None]
  /\ receipts = [r \in Requests |-> <<>>]
  /\ request = [r \in Requests |-> New]
  /\ accepted = [s \in Slots |-> <<>>]
  /\ exposed = {}
  /\ faults = 0

Next ==
  \E r \in Requests :
    \/ \E kind \in {"send", "notify"}, key \in Keys \cup {Absent}, chain \in Chains, known \in BOOLEAN :
         Lookup(r, kind, key, chain, known)
    \/ QueueForAgent(r) \/ SkipChannel(r) \/ Sent(r) \/ SendFails(r) \/ ChainExhausted(r)
    \/ PutMessage(r) \/ PutReceipts(r) \/ PutKey(r) \/ StoreFails(r)

Spec == Init /\ [][Next]_vars

-----------------------------------------------------------------------------
(* Properties.                                                             *)

\* "refuse with 503 rather than risk a double-send": all requests that share
\* an idempotency key reach the recipient once at most, unless they overlap,
\* a provider's answer is lost, or the outcome could not be stored.
DeliveredOncePerKey ==
  \A s \in Slots : s[2] # Absent /\ s \notin exposed => Len(accepted[s]) <= 1

\* A channel is left only untried or after maxPerCh numbered failures, and
\* nothing is tried after a success.
Follows(one, next) ==
  /\ one.outcome = "failed"
  /\ IF next.attempt > 1 THEN next.channel = one.channel /\ next.attempt = one.attempt + 1
     ELSE one.attempt \in {0, maxPerCh}

IsWalk(log) ==
  /\ log # <<>> => log[1].attempt <= 1
  /\ \A i \in 1..(Len(log) - 1) : Follows(log[i], log[i + 1])

Last(log) == log[Len(log)]
Tells(log, message) ==
  IsWalk(log) /\ (log # <<>> /\ message.status # "failed" /\ Last(log).outcome = "sent"
                    => message.channel = Last(log).channel)

\* The stored receipts account for the whole walk, whatever chain the caller
\* asked for, and the stored message names the channel that succeeded.
ReceiptsTellTheWalk == \A r \in Requests : Tells(receipts[r], messages[r])

\* What the recipient got and what the records say of it (both parts above).
SendingIsAccounted == DeliveredOncePerKey /\ ReceiptsTellTheWalk
-----------------------------------------------------------------------------
(* The inductive invariant.                                                *)

Notifies(me) == me.slot[1] = "notify"

\* Where a walk stands in its chain is where its log ends.
WalkFits(me) ==
  /\ me.attempt \in 1..maxPerCh
  /\ \A i \in DOMAIN me.log : me.log[i].outcome = "failed"
  /\ IF me.attempt > 1
       THEN /\ me.known /\ me.chain # <<>> /\ Head(me.chain) # "agent" /\ me.log # <<>>
            /\ Last(me.log).channel = Head(me.chain) /\ Last(me.log).attempt = me.attempt - 1
       ELSE me.log # <<>> => Last(me.log).attempt \in {0, maxPerCh}

RequestFits(me) ==
  /\ me.pc \in {"new", "walk", "put", "receipts", "key", "done"}
  /\ me.pc \notin {"new", "done"} =>
       /\ {"pc", "slot", "chain", "attempt", "known", "log", "outcome"} \subseteq DOMAIN me
       /\ me.slot \in Slots
       /\ me.log \in Seq([channel : STRING, attempt : Nat, outcome : {"sent", "failed"}])
       /\ Notifies(me) => IsWalk(me.log)
  /\ me.pc = "walk" =>
       me.chain \in Seq(STRING) /\ me.attempt \in Nat /\ (Notifies(me) => WalkFits(me))
  /\ me.pc = "receipts" => Notifies(me)

\* Receipts are stored after the message they belong to.
RecordsFit(r) ==
  /\ request[r].pc \in {"new", "walk", "put", "receipts"} => receipts[r] = <<>>
  /\ request[r].pc = "receipts" => messages[r] = Message(r)
  /\ Tells(receipts[r], messages[r])

\* One request at a time sends under a key, and leaves it known when it has.
Serves(r, s) == Busy(r) /\ request[r].slot = s
SentOnce(s) ==
  /\ Len(accepted[s]) <= 1
  /\ accepted[s] # <<>> => byKey[s] # None \/ \E r \in Requests : Serves(r, s)
  /\ \A r \in Requests : Serves(r, s) =>
       /\ request[r].pc = "walk" => accepted[s] = <<>>
       /\ \A q \in Requests : Serves(q, s) => q = r

NotificationInv ==
  /\ request = [r \in Requests |-> request[r]]
  /\ messages = [r \in Requests |-> messages[r]] /\ receipts = [r \in Requests |-> receipts[r]]
  /\ byKey = [s \in Slots |-> byKey[s]]
  /\ accepted = [s \in Slots |-> accepted[s]] /\ \A s \in Slots : accepted[s] \in Seq(Requests)
  /\ \A r \in Requests : RequestFits(request[r]) /\ RecordsFit(r)
  /\ \A s \in Slots : s[2] # Absent /\ s \notin exposed => SentOnce(s)
=============================================================================
