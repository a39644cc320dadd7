----------------------------- MODULE RealClient -----------------------------
(***************************************************************************)
(* The ledger's client for a TigerBeetle cluster                           *)
(* (services/ledger/internal/tb/real.go), with the events the service      *)
(* emits for it (main.go, emitProd).                                       *)
(*                                                                         *)
(* The cluster is external: it takes a batch of one transfer at a time and *)
(* decides by id.  The client looks a hold up, then posts or voids it in a *)
(* second round trip; each trip may fail, and a create may be taken while  *)
(* its reply is lost.  Accounts and balances are the cluster's own matter: *)
(* it may turn any new transfer down.                                      *)
(***************************************************************************)
EXTENDS Integers, FiniteSets

CONSTANTS
  Calls,    \* calls to the client, each made once
  Holds,    \* ids of pending transfers the callers use
  PostIds,  \* ids callers choose for posts
  Codes, Amounts,
  MaxFaults \* bound of the instance

Kinds == {"plain", "pending", "post", "void"}

VARIABLES
  cluster,  \* set of the transfers the cluster has taken
  call,     \* call -> its local state
  events,   \* call -> whether it emitted an event
  faults

vars == <<cluster, call, events, faults>>

New == [pc |-> "new"]

\* An id is a serial and what a resolution has added to it.
Id(serial) == <<serial, 0>>
NoId == Id("none")
Fault == faults < MaxFaults /\ faults' = faults + 1

Transfer(id, kind, pendingId, amount, code) ==
  [id |-> id, kind |-> kind, pendingId |-> pendingId, amount |-> amount, code |-> code]

NothingToSend == [kind |-> "none"]

Found(id) == {t \in cluster : t.id = id}
Resolution(id) == {t \in cluster : t.kind \in {"post", "void"} /\ t.pendingId = id}

-----------------------------------------------------------------------------
(* The cluster (external).                                                 *)

\* The results the cluster may give for a transfer.  A post of no amount is
\* the cluster's to interpret; here it is recorded as it came.
Results(t) ==
  IF \E u \in cluster : u.id = t.id
    THEN {IF t \in cluster THEN "exists" ELSE "exists_with_different_attributes"}
  ELSE IF t.kind \in {"plain", "pending"}
    THEN {"ok", "exceeds_credits"}
  ELSE IF ~\E p \in Found(t.pendingId) : p.kind = "pending"
    THEN {"pending_transfer_not_found"}
  ELSE IF Resolution(t.pendingId) # {}
    THEN {"pending_transfer_already_resolved"}
  ELSE IF \E p \in Found(t.pendingId) : t.amount > p.amount
    THEN {"exceeds_pending_amount"}
  ELSE {"ok"}

\* already posted and already voided are one code.
TransferResultCode(result) ==
  IF result = "pending_transfer_already_resolved" THEN "transfer_not_pending" ELSE result

-----------------------------------------------------------------------------
(* The client.                                                             *)

Answer(me, code) == [me EXCEPT !.pc = "done", !.answer = code]

Started(op, id, postId, amount, code) ==
  [pc |-> "lookup", op |-> op, id |-> id, postId |-> postId, amount |-> amount, code |-> code,
   answer |-> "none", send |-> NothingToSend]

Sending(me, transfer) == [me EXCEPT !.pc = "create", !.send = transfer]

\* Transfer and PendingTransfer go straight to createOne.
CallCreate(c, op, id, amount, code) ==
  /\ call[c] = New
  /\ call' = [call EXCEPT ![c] = Sending(Started(op, id, id, amount, code),
                                          Transfer(id, op, NoId, amount, code))]
  /\ UNCHANGED <<cluster, events, faults>>

\* PostPending, PostPendingAs and VoidPending begin with a lookup.
CallResolve(c, op, id, postId, amount, code) ==
  /\ call[c] = New
  /\ call' = [call EXCEPT ![c] = Started(op, id, postId, amount, code)]
  /\ UNCHANGED <<cluster, events, faults>>

\* One id for the post and for the void of a hold.
PendingResolutionID(id, code) == <<id[1], id[2] + code>>

\* The transfer that resolves hold p for a call.
Resolving(me, p) ==
  IF me.op = "void"
    THEN Transfer(PendingResolutionID(me.id, p.code), "void", me.id, 0, p.code)
  ELSE IF me.op = "post"
    THEN Transfer(PendingResolutionID(me.id, p.code), "post", me.id, me.amount, p.code)
  ELSE Transfer(me.postId, "post", me.id, IF me.amount = 0 THEN p.amount ELSE me.amount, p.code)

\* lookupTransfer: an error of the trip is taken for a transfer not found.
Lookup(c) ==
  LET me == call[c]
  IN  /\ me.pc = "lookup"
      /\ \/ /\ Fault \/ (Found(me.id) = {} /\ UNCHANGED faults)
            /\ call' = [call EXCEPT ![c] = Answer(me, "pending_transfer_not_found")]
         \/ /\ \E p \in Found(me.id) :
                 call' = [call EXCEPT ![c] =
                            IF me.code # 0 /\ me.code # p.code
                              THEN Answer(me, "pending_transfer_has_different_attr")
                              ELSE Sending(me, Resolving(me, p))]
            /\ UNCHANGED faults
  /\ UNCHANGED <<cluster, events>>

\* PostPendingAs takes an exists for the replay of its own post, after
\* another look at it.
AfterCreate(c, code) ==
  IF call[c].op = "postAs" /\ code = "exists" THEN [call[c] EXCEPT !.pc = "check"] ELSE Answer(call[c], code)

\* Slip: a transfer that exists is announced again.
EmitsOnExists(code) == code \in {"ok", "exists"}

EmitsOn(code) == code = "ok"

\* createOne: the cluster answers, or the trip fails before or after it has
\* taken the transfer.  The service announces a plain or a pending transfer
\* that came back ok (emitProd), never a post or a void.
Create(c) ==
  LET t == call[c].send
  IN  /\ call[c].pc = "create"
      /\ \E result \in Results(t) :
           LET code == TransferResultCode(result)
           IN  /\ cluster' = IF result = "ok" THEN cluster \cup {t} ELSE cluster
               /\ \/ /\ call' = [call EXCEPT ![c] = AfterCreate(c, code)]
                     /\ events' = [events EXCEPT ![c] = call[c].op \in {"plain", "pending"} /\ EmitsOn(code)]
                     /\ UNCHANGED faults
                  \/ /\ Fault
                     /\ call' = [call EXCEPT ![c] = Answer(call[c], "error")]
                     /\ UNCHANGED events

CreateUnsent(c) ==
  /\ call[c].pc = "create"
  /\ Fault
  /\ call' = [call EXCEPT ![c] = Answer(call[c], "error")]
  /\ UNCHANGED <<cluster, events>>

\* The second look of PostPendingAs.
Check(c) ==
  /\ call[c].pc = "check"
  /\ \/ /\ call' = [call EXCEPT ![c] = Answer(call[c], IF call[c].send \in cluster THEN "ok"
                                                 ELSE "exists_with_different_attributes")]
        /\ UNCHANGED faults
     \/ /\ Fault
        /\ call' = [call EXCEPT ![c] = Answer(call[c], "exists_with_different_attributes")]
  /\ UNCHANGED <<cluster, events>>

-----------------------------------------------------------------------------
Init ==
  /\ cluster = {}
  /\ call = [c \in Calls |-> New]
  /\ events = [c \in Calls |-> FALSE]
  /\ faults = 0

Next ==
  \E c \in Calls :
    \/ \E op \in {"plain", "pending"}, id \in Holds, a \in Amounts \ {0}, k \in Codes \ {0} :
         CallCreate(c, op, Id(id), a, k)
    \/ \E op \in {"post", "void"}, id \in Holds, a \in Amounts, k \in Codes :
         CallResolve(c, op, Id(id), Id(id), a, k)
    \/ \E id \in Holds, p \in PostIds, a \in Amounts, k \in Codes :
         CallResolve(c, "postAs", Id(id), Id(p), a, k)
    \/ Lookup(c)
    \/ Create(c)
    \/ CreateUnsent(c)
    \/ Check(c)

Spec == Init /\ [][Next]_vars

-----------------------------------------------------------------------------
Succeeded(c, ops) == call[c].pc = "done" /\ call[c].op \in ops /\ call[c].answer \in {"ok", "exists"}

\* No hold is both posted and voided in the eyes of callers, however calls,
\* retries and lost replies overlap, although post and void share one id.
NeverPostedAndVoided ==
  \A c, d \in Calls :
    Succeeded(c, {"post", "postAs"}) /\ Succeeded(d, {"void"}) => call[c].id # call[d].id

\* A transfer is announced once, by the call that made it (main.go:507).
AnnouncedOnce ==
  \A c, d \in Calls : events[c] /\ events[d] /\ c # d => call[c].id # call[d].id

\* A transfer has one outcome, and one event tells of it.
OneOutcomeToldOnce == NeverPostedAndVoided /\ AnnouncedOnce

\* Known not to hold: every transfer is announced once its calls are over.
\* A lost reply and its retry, answered exists, announce nothing.
AllAnnounced ==
  \A c \in Calls :
    Succeeded(c, {"plain", "pending"}) =>
      \E d \in Calls : call[d].pc = "done" /\ call[d].id = call[c].id /\ call[d].answer = "ok"

-----------------------------------------------------------------------------
(* The inductive invariant.                                                *)

\* The cluster takes an id once and resolves a hold once.
ClusterDecidesOnce ==
  /\ \A s, t \in cluster : s.id = t.id => s = t
  /\ \A s, t \in cluster :
       s.kind \in {"post", "void"} /\ t.kind \in {"post", "void"} /\ s.pendingId = t.pendingId => s = t

CallShaped(me) ==
  \/ me = New
  \/ /\ me.pc \in {"lookup", "create", "check", "done"}
     /\ me.op \in {"post", "postAs", "void"} \cup (IF me.pc = "lookup" THEN {} ELSE {"plain", "pending"})
     /\ me = [pc |-> me.pc, op |-> me.op, id |-> me.id, postId |-> me.postId, amount |-> me.amount,
              code |-> me.code, answer |-> me.answer, send |-> me.send]

\* The transfer a call sends is the one it was asked for.
SendsItsOwn(me) ==
  /\ me.op \in {"plain", "pending"} => me.send.id = me.id
  /\ me.op \in {"post", "postAs"} => me.send.kind = "post" /\ me.send.pendingId = me.id
  /\ me.op = "void" => me.send.kind = "void" /\ me.send.pendingId = me.id

\* Who is told ok or exists finds its own transfer in the cluster.
TellsTheTruth(me) ==
  /\ me.pc \in {"create", "check"} => SendsItsOwn(me)
  /\ me.pc = "done" /\ me.answer \in {"ok", "exists"} => SendsItsOwn(me) /\ me.send \in cluster

ClientInv ==
  /\ call = [c \in Calls |-> call[c]]
  /\ events \in [Calls -> BOOLEAN]
  /\ ClusterDecidesOnce
  /\ \A c \in Calls : CallShaped(call[c]) /\ TellsTheTruth(call[c])
  /\ \A c \in Calls : events[c] => Succeeded(c, {"plain", "pending"})
  /\ AnnouncedOnce
=============================================================================
