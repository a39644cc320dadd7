------------------------------- MODULE Ledger -------------------------------
(***************************************************************************)
(* The in-process ledger of services/ledger/internal/tb: tb.DevClient, the *)
(* dev implementation of the TigerBeetle semantics behind LedgerClient.    *)
(*                                                                         *)
(* Every method runs under c.mu, so each one is a single atomic step here. *)
(* The hooks a method schedules run after the unlock and are the business  *)
(* of module LedgerService.  A method is two definitions: <Method>Code,    *)
(* the result code its checks select, in the order the code makes them,    *)
(* and the action of that name, what the call does to the maps when the    *)
(* code is OK.  A call with any other code leaves both maps as they are.   *)
(***************************************************************************)
EXTENDS Integers, FiniteSetsExt

CONSTANTS
  AccountIDs,   \* account ids: records [high, low] (namespace, serial)
  TransferIDs,  \* transfer ids callers may supply
  NoID,         \* the zero ID a transfer's PendingID holds when unset
  Ledgers,      \* ledger numbers
  Codes,        \* account and transfer codes callers may supply
  FlagSets,     \* the account flag combinations requested
  Amounts,      \* amounts callers may ask for
  Timeouts,     \* timeout_seconds callers may ask for (0 = no expiry)
  U64Mod,       \* the width of the balance fields: 2^64 in the code
  MaxSerial,    \* bound on the serials NextSerial hands out
  MaxClock      \* bound on the clock

VARIABLES
  accounts,     \* c.accounts : id -> Account
  transfers,    \* c.transfers : id -> Transfer
  nextSer,      \* c.nextSer : namespace -> last serial allocated
  sweep,        \* the pendings a running ExpirePendings has still to void
  clock         \* time.Now()

vars == <<accounts, transfers, nextSer, sweep, clock>>

Namespaces == {id.high : id \in AccountIDs}
U64 == 0 .. (U64Mod - 1)

\* Account flags.
DebitsMustNotExceedCredits == "debits_must_not_exceed_credits"
CreditsMustNotExceedDebits == "credits_must_not_exceed_debits"
Flags == {DebitsMustNotExceedCredits, CreditsMustNotExceedDebits}

ASSUME LedgerAssumption ==
  /\ AccountIDs \subseteq [high : Nat, low : Nat]
  /\ U64Mod \in Nat \ {0}
  /\ NoID \notin TransferIDs
  /\ Amounts \subseteq U64
  /\ Timeouts \subseteq Nat
  /\ Ledgers \subseteq Nat
  /\ Codes \subseteq Nat
  /\ FlagSets \subseteq SUBSET Flags
  /\ MaxSerial \in Nat
  /\ MaxClock \in Nat

ZeroID == [high |-> 0, low |-> 0]

\* Transfer codes the client itself assigns a meaning to.
CodeAuthorise == 1
CodeVoid == 3

Account ==
  [ledger : Ledgers, code : Codes, flags : SUBSET Flags, debitsPending : U64,
   debitsPosted : U64, creditsPending : U64, creditsPosted : U64]

Transfer ==
  [debit : AccountIDs, credit : AccountIDs, amount : U64, ledger : Ledgers,
   code : Nat, pending : BOOLEAN, pendingID : TransferIDs \cup {NoID},
   resolved : BOOLEAN, expiresAt : Nat]

\* What a caller of Transfer or PendingTransfer fills in.
Request ==
  [debit : AccountIDs, credit : AccountIDs, amount : Amounts,
   ledger : Ledgers, code : Codes]

\* Go map update: m[k] = v, for a key that may be new.
Put(m, k, v) == [x \in DOMAIN m \cup {k} |-> IF x = k THEN v ELSE m[x]]

\* uint64 addition and subtraction wrap around.
Plus(x, y) == IF x + y < U64Mod THEN x + y ELSE x + y - U64Mod
Minus(x, y) == IF x >= y THEN x - y ELSE x - y + U64Mod

-----------------------------------------------------------------------------
(* The four stages of a stored record.  PostPending overwrites the pending *)
(* record, PostPendingAs keeps it and marks it resolved, a void clears     *)
(* Pending and leaves Resolved set.                                        *)

Open(t)     == t.pending /\ ~t.resolved
Captured(t) == t.pending /\ t.resolved
Voided(t)   == ~t.pending /\ t.resolved
Posted(t)   == ~t.pending /\ ~t.resolved

\* c.mu is held across steps only by ExpirePendings.
MutexFree == sweep = {}

-----------------------------------------------------------------------------
checkConstraints(a, addDP, addD, addCP, addC) ==
  LET dp == Plus(a.debitsPending, addDP)
      d  == Plus(a.debitsPosted, addD)
      cp == Plus(a.creditsPending, addCP)
      c  == Plus(a.creditsPosted, addC)
  IN  IF \/ dp < a.debitsPending \/ d < a.debitsPosted
         \/ cp < a.creditsPending \/ c < a.creditsPosted
        THEN "overflows"
      ELSE IF DebitsMustNotExceedCredits \in a.flags /\ Plus(dp, d) > Plus(cp, c)
        THEN "exceeds_credits"
      ELSE IF CreditsMustNotExceedDebits \in a.flags /\ Plus(cp, c) > Plus(dp, d)
        THEN "exceeds_debits"
      ELSE "ok"

validateParties(r) ==
  IF r.amount = 0 THEN "amount_must_be_positive"
  ELSE IF r.debit = r.credit THEN "accounts_must_be_different"
  ELSE IF ~({r.debit, r.credit} \subseteq DOMAIN accounts) THEN "account_not_found"
  ELSE IF accounts[r.debit].ledger # accounts[r.credit].ledger
    THEN "accounts_must_have_the_same_ledger"
  ELSE "ok"

\* The writes to the balance fields of one account.
ReserveDebit(a, n)  == [a EXCEPT !.debitsPending = Plus(@, n)]
ReserveCredit(a, n) == [a EXCEPT !.creditsPending = Plus(@, n)]
ReleaseDebit(a, n)  == [a EXCEPT !.debitsPending = Minus(@, n)]
ReleaseCredit(a, n) == [a EXCEPT !.creditsPending = Minus(@, n)]
PostDebit(a, n)     == [a EXCEPT !.debitsPosted = Plus(@, n)]
PostCredit(a, n)    == [a EXCEPT !.creditsPosted = Plus(@, n)]

\* The debit account is checked before the credit account.
FirstFailure(c1, c2) == IF c1 # "ok" THEN c1 ELSE c2

sameAttrs(t, r) ==
  /\ t.debit = r.debit /\ t.credit = r.credit
  /\ t.amount = r.amount /\ t.ledger = r.ledger /\ t.code = r.code

Record(r, pending, expiresAt) ==
  [debit |-> r.debit, credit |-> r.credit, amount |-> r.amount,
   ledger |-> r.ledger, code |-> r.code, pending |-> pending,
   pendingID |-> NoID, resolved |-> FALSE, expiresAt |-> expiresAt]

-----------------------------------------------------------------------------
NewAccount(ledger, code, flags) ==
  [ledger |-> ledger, code |-> code, flags |-> flags, debitsPending |-> 0,
   debitsPosted |-> 0, creditsPending |-> 0, creditsPosted |-> 0]

CreateAccountsCode(id, ledger, code, flags) ==
  IF id = ZeroID THEN "account_not_found"
  ELSE IF id \notin DOMAIN accounts THEN "ok"
  ELSE IF /\ accounts[id].ledger = ledger
          /\ accounts[id].code = code
          /\ accounts[id].flags = flags
    THEN "exists"
  ELSE "exists_with_different_attributes"

\* The serial allocator keeps up with explicitly chosen serials.
SerialAfter(id) ==
  IF id.low > nextSer[id.high] THEN [nextSer EXCEPT ![id.high] = id.low] ELSE nextSer

CreateAccounts(id, ledger, code, flags) ==
  /\ MutexFree
  /\ CreateAccountsCode(id, ledger, code, flags) = "ok"
  /\ accounts' = Put(accounts, id, NewAccount(ledger, code, flags))
  /\ nextSer' = SerialAfter(id)
  /\ UNCHANGED <<transfers, sweep, clock>>

NextSerial(ns) ==
  /\ MutexFree
  /\ nextSer[ns] < MaxSerial
  /\ nextSer' = [nextSer EXCEPT ![ns] = @ + 1]
  /\ UNCHANGED <<accounts, transfers, sweep, clock>>

-----------------------------------------------------------------------------
TransferCode(id, r) ==
  IF id \in DOMAIN transfers
    THEN IF sameAttrs(transfers[id], r)
           THEN "exists" ELSE "exists_with_different_attributes"
  ELSE IF validateParties(r) # "ok" THEN validateParties(r)
  ELSE FirstFailure(checkConstraints(accounts[r.debit], 0, r.amount, 0, 0),
                    checkConstraints(accounts[r.credit], 0, 0, 0, r.amount))

DoTransfer(id, r) ==
  /\ MutexFree
  /\ TransferCode(id, r) = "ok"
  /\ accounts' = [accounts EXCEPT
       ![r.debit] = PostDebit(@, r.amount),
       ![r.credit] = PostCredit(@, r.amount)]
  /\ transfers' = Put(transfers, id, Record(r, FALSE, 0))
  /\ UNCHANGED <<nextSer, sweep, clock>>

PendingTransferCode(id, r) ==
  IF id \in DOMAIN transfers
    THEN IF sameAttrs(transfers[id], r) /\ Open(transfers[id])
           THEN "exists" ELSE "exists_with_different_attributes"
  ELSE IF validateParties(r) # "ok" THEN validateParties(r)
  ELSE FirstFailure(checkConstraints(accounts[r.debit], r.amount, 0, 0, 0),
                    checkConstraints(accounts[r.credit], 0, 0, r.amount, 0))

PendingTransfer(id, r, timeout) ==
  /\ MutexFree
  /\ PendingTransferCode(id, r) = "ok"
  /\ accounts' = [accounts EXCEPT
       ![r.debit] = ReserveDebit(@, r.amount),
       ![r.credit] = ReserveCredit(@, r.amount)]
  /\ transfers' = Put(transfers, id,
       Record(r, TRUE, IF timeout > 0 THEN clock + timeout ELSE 0))
  /\ UNCHANGED <<nextSer, sweep, clock>>

-----------------------------------------------------------------------------
\* amount = 0 captures the whole pending amount.
CaptureAmount(p, amount) == IF amount = 0 THEN transfers[p].amount ELSE amount

\* The checks after the id lookups, shared by both posting methods: the
\* reservation is released before the balances are checked.
CaptureCode(p, amount) ==
  LET pt == transfers[p]
      amt == CaptureAmount(p, amount)
  IN  IF amt > pt.amount THEN "exceeds_pending_amount"
      ELSE FirstFailure(
        checkConstraints(ReleaseDebit(accounts[pt.debit], pt.amount), 0, amt, 0, 0),
        checkConstraints(ReleaseCredit(accounts[pt.credit], pt.amount), 0, 0, 0, amt))

CaptureBalances(p, amt) ==
  accounts' = [accounts EXCEPT
    ![transfers[p].debit] = PostDebit(ReleaseDebit(@, transfers[p].amount), amt),
    ![transfers[p].credit] = PostCredit(ReleaseCredit(@, transfers[p].amount), amt)]

\* Slip: a partial capture is recorded with the amount that was reserved.
PostRecordWhole(p, amt) ==
  [transfers[p] EXCEPT !.pending = FALSE, !.pendingID = p, !.expiresAt = 0]

PostRecord(p, amt) ==
  [transfers[p] EXCEPT !.amount = amt, !.pending = FALSE, !.pendingID = p,
                       !.resolved = FALSE, !.expiresAt = 0]

PostPendingCode(p, amount, code) ==
  IF p \notin DOMAIN transfers THEN "pending_transfer_not_found"
  ELSE IF ~Open(transfers[p]) THEN "pending_transfer_not_pending"
  ELSE IF code # 0 /\ code # transfers[p].code
    THEN "pending_transfer_has_different_attributes"
  ELSE CaptureCode(p, amount)

PostPending(p, amount, code) ==
  /\ MutexFree
  /\ PostPendingCode(p, amount, code) = "ok"
  /\ CaptureBalances(p, CaptureAmount(p, amount))
  /\ transfers' = [transfers EXCEPT ![p] = PostRecord(p, CaptureAmount(p, amount))]
  /\ UNCHANGED <<nextSer, sweep, clock>>

\* The post of pending p is already recorded under q.
PostedAs(p, q) ==
  q \in DOMAIN transfers /\ transfers[q].pendingID = p /\ ~transfers[q].pending

\* Slip: a pending that is already resolved is captured again.
PostPendingAsAnyStage(p, q, amount, code) ==
  IF p \notin DOMAIN transfers THEN "pending_transfer_not_found"
  ELSE IF q \in DOMAIN transfers THEN "exists"
  ELSE CaptureCode(p, amount)

\* "replayed" stands for the two early returns of OK that change nothing.
PostPendingAsCode(p, q, amount, code) ==
  IF p \notin DOMAIN transfers THEN "pending_transfer_not_found"
  ELSE IF ~Open(transfers[p])
    THEN IF PostedAs(p, q) THEN "replayed" ELSE "pending_transfer_not_pending"
  ELSE IF code # 0 /\ code # transfers[p].code
    THEN "pending_transfer_has_different_attributes"
  ELSE IF q \in DOMAIN transfers
    THEN IF PostedAs(p, q) THEN "replayed" ELSE "exists"
  ELSE CaptureCode(p, amount)

PostPendingAs(p, q, amount, code) ==
  /\ MutexFree
  /\ PostPendingAsCode(p, q, amount, code) = "ok"
  /\ CaptureBalances(p, CaptureAmount(p, amount))
  /\ transfers' = Put([transfers EXCEPT ![p] = [@ EXCEPT !.resolved = TRUE]], q,
                      PostRecord(p, CaptureAmount(p, amount)))
  /\ UNCHANGED <<nextSer, sweep, clock>>

-----------------------------------------------------------------------------
\* Slip: the void checks only that the transfer exists.
VoidPendingAnyStage(p, code) ==
  IF p \notin DOMAIN transfers THEN "pending_transfer_not_found" ELSE "ok"

VoidPendingCode(p, code) ==
  IF p \notin DOMAIN transfers THEN "pending_transfer_not_found"
  ELSE IF ~Open(transfers[p]) THEN "pending_transfer_not_pending"
  ELSE IF code # 0 /\ code # transfers[p].code
    THEN "pending_transfer_has_different_attributes"
  ELSE "ok"

ReleaseReservation(p) ==
  accounts' = [accounts EXCEPT
    ![transfers[p].debit] = ReleaseDebit(@, transfers[p].amount),
    ![transfers[p].credit] = ReleaseCredit(@, transfers[p].amount)]

VoidPending(p, code) ==
  /\ MutexFree
  /\ VoidPendingCode(p, code) = "ok"
  /\ ReleaseReservation(p)
  /\ transfers' = [transfers EXCEPT ![p] = [@ EXCEPT !.resolved = TRUE, !.pending = FALSE]]
  /\ UNCHANGED <<nextSer, sweep, clock>>

\* Slip: the sweep tests Pending and not Resolved, and so meets the pendings
\* PostPendingAs has captured.
ExpiredUnresolvedIgnored(t) ==
  {p \in DOMAIN transfers : /\ transfers[p].pending
                            /\ transfers[p].expiresAt # 0
                            /\ transfers[p].expiresAt <= t}

\* The open pendings whose timeout has passed at time t.
Expired(t) ==
  {p \in DOMAIN transfers : /\ Open(transfers[p])
                            /\ transfers[p].expiresAt # 0
                            /\ transfers[p].expiresAt <= t}

\* One pass of the sweeper holds c.mu while it walks the map, in an order Go
\* leaves open: the pass is a step that collects the expired pendings and one
\* step per pending, and no other method runs in between.
BeginSweep ==
  /\ MutexFree
  /\ Expired(clock) # {}
  /\ sweep' = Expired(clock)
  /\ UNCHANGED <<accounts, transfers, nextSer, clock>>

ExpireOne(p) ==
  /\ p \in sweep
  /\ ReleaseReservation(p)
  /\ transfers' = [transfers EXCEPT
       ![p] = [@ EXCEPT !.resolved = TRUE, !.pending = FALSE, !.code = CodeVoid]]
  /\ sweep' = sweep \ {p}
  /\ UNCHANGED <<nextSer, clock>>

Tick ==
  /\ clock < MaxClock
  /\ clock' = clock + 1
  /\ UNCHANGED <<accounts, transfers, nextSer, sweep>>

-----------------------------------------------------------------------------
Init ==
  /\ accounts = <<>>
  /\ transfers = <<>>
  /\ nextSer = [ns \in Namespaces |-> 0]
  /\ sweep = {}
  /\ clock = 0

Next ==
  \/ \E id \in AccountIDs, l \in Ledgers, c \in Codes, f \in FlagSets :
       CreateAccounts(id, l, c, f)
  \/ \E ns \in Namespaces : NextSerial(ns)
  \/ \E id \in TransferIDs, r \in Request :
       \/ DoTransfer(id, r)
       \/ \E timeout \in Timeouts : PendingTransfer(id, r, timeout)
  \/ \E p \in TransferIDs, code \in Codes \cup {0} :
       \/ \E amount \in Amounts :
            \/ PostPending(p, amount, code)
            \/ \E q \in TransferIDs : PostPendingAs(p, q, amount, code)
       \/ VoidPending(p, code)
  \/ BeginSweep
  \/ \E p \in TransferIDs : ExpireOne(p)
  \/ Tick

Spec == Init /\ [][Next]_vars

-----------------------------------------------------------------------------
(* Properties.                                                             *)

TypeOK ==
  /\ DOMAIN accounts \subseteq AccountIDs
  /\ accounts \in [DOMAIN accounts -> Account]
  /\ DOMAIN transfers \subseteq TransferIDs
  /\ transfers \in [DOMAIN transfers -> Transfer]
  /\ nextSer \in [Namespaces -> Nat]
  /\ sweep \in SUBSET TransferIDs
  /\ clock \in Nat

Total(S, f) == MapThenSumSet(LAMBDA x : f[x], S)
Amount(S) == Total(S, [t \in DOMAIN transfers |-> transfers[t].amount])
In(Stage(_)) == {t \in DOMAIN transfers : Stage(transfers[t])}

\* The balances are the replay of the transfer map: on every account the
\* pending columns are the open reservations and the posted columns the
\* transfers and captures that took effect.  A release that misses a column,
\* a partial capture that keeps the rest reserved, or a void that also posts
\* breaks it; so does a uint64 subtraction that wraps.
BalancesReplayTransfers ==
  \A a \in DOMAIN accounts :
    /\ accounts[a].debitsPending  = Amount({t \in In(Open) : transfers[t].debit = a})
    /\ accounts[a].creditsPending = Amount({t \in In(Open) : transfers[t].credit = a})
    /\ accounts[a].debitsPosted   = Amount({t \in In(Posted) : transfers[t].debit = a})
    /\ accounts[a].creditsPosted  = Amount({t \in In(Posted) : transfers[t].credit = a})

\* Double entry: over the whole ledger debits equal credits, in the pending
\* and in the posted columns, after every operation and partial capture.
DoubleEntry ==
  LET total(f) == Total(DOMAIN accounts, f)
  IN  /\ total([a \in DOMAIN accounts |-> accounts[a].debitsPending])
           = total([a \in DOMAIN accounts |-> accounts[a].creditsPending])
      /\ total([a \in DOMAIN accounts |-> accounts[a].debitsPosted])
           = total([a \in DOMAIN accounts |-> accounts[a].creditsPosted])

\* The books balance: account by account and over the whole ledger.
BooksBalance == BalancesReplayTransfers /\ DoubleEntry

\* Every stored transfer names two different accounts that exist and share a
\* ledger, so the unchecked lookups c.accounts[pt.DebitAccountID] of the
\* posting and voiding methods never return nil.
PartiesExist ==
  \A t \in DOMAIN transfers :
    /\ {transfers[t].debit, transfers[t].credit} \subseteq DOMAIN accounts
    /\ transfers[t].debit # transfers[t].credit
    /\ accounts[transfers[t].debit].ledger = accounts[transfers[t].credit].ledger

\* The records that are the capture of pending p, under p's own id
\* (PostPending) or under a caller's (PostPendingAs).
CapturesOf(p) == {q \in DOMAIN transfers : transfers[q].pendingID = p}

\* A reservation is captured at most once, for no more than was reserved,
\* and never both captured and voided, whichever of the two posting methods,
\* the void and the expiry sweep reach it and in whatever order.
CapturedAtMostOnce ==
  \A p \in DOMAIN transfers :
    /\ \A q1, q2 \in CapturesOf(p) : q1 = q2
    /\ \A q \in CapturesOf(p) : Posted(transfers[q])
    /\ Open(transfers[p]) \/ Voided(transfers[p]) => CapturesOf(p) = {}
    /\ Captured(transfers[p]) =>
         \E q \in CapturesOf(p) : q # p /\ transfers[q].amount <= transfers[p].amount

\* What makes the two invariants above inductive: a capture names a pending
\* that is stored, and a running sweep holds only open pendings.
CapturesResolve ==
  \A q \in DOMAIN transfers :
    transfers[q].pendingID # NoID => transfers[q].pendingID \in DOMAIN transfers

SweepsOpenPendings ==
  \A p \in sweep : p \in DOMAIN transfers /\ Open(transfers[p])

LedgerInv ==
  /\ TypeOK
  /\ PartiesExist
  /\ CapturedAtMostOnce
  /\ CapturesResolve
  /\ SweepsOpenPendings

\* A transfer record leaves the map never, and once it is not open it is
\* final: nothing rewrites a posted, captured or voided record.  Accounts are
\* never removed, nor their ledger and flags changed.
Finality ==
  [][/\ \A t \in DOMAIN transfers :
          /\ t \in DOMAIN transfers'
          /\ ~Open(transfers[t]) => transfers'[t] = transfers[t]
     /\ \A a \in DOMAIN accounts :
          /\ a \in DOMAIN accounts'
          /\ accounts'[a].ledger = accounts[a].ledger
          /\ accounts'[a].flags = accounts[a].flags]_vars

Debits(a) == a.debitsPending + a.debitsPosted
Credits(a) == a.creditsPending + a.creditsPosted

\* What the flag is documented to guarantee at every moment: the debits of a
\* flagged account never exceed its credits.  Voiding a pending credit that
\* was already spent breaks it.
DebitsNeverExceedCredits ==
  \A a \in DOMAIN accounts :
    DebitsMustNotExceedCredits \in accounts[a].flags =>
      Debits(accounts[a]) <= Credits(accounts[a])

\* The movement an id stands for, as TwoPhase sees it: the post PostPendingAs
\* stores under a caller's id is not a movement of its own but the posting of
\* the pending it names.
StatusOf(id) ==
  IF id \notin DOMAIN transfers THEN "none"
  ELSE IF transfers[id].pendingID \notin {NoID, id} THEN "none"
  ELSE IF Open(transfers[id]) THEN "open"
  ELSE IF Voided(transfers[id]) THEN "voided"
  ELSE "posted"

Status == [id \in TransferIDs |-> StatusOf(id)]

\* tb.DevClient implements the two-phase protocol of module TwoPhase: through
\* posting under the pending's own id or a caller's, voiding and expiring, a
\* movement is resolved once and no step moves two of them.
Abstract == INSTANCE TwoPhase WITH Movements <- TransferIDs, status <- Status

ImplementsTwoPhase == Abstract!Spec
=============================================================================
