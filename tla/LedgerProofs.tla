---------------------------- MODULE LedgerProofs ----------------------------
(***************************************************************************)
(* Proofs about tb.DevClient for every set of ids, every amount and every  *)
(* word width: type correctness, the invariant that a reservation is       *)
(* captured at most once, the finality of resolved transfers, that the     *)
(* client implements the two-phase protocol of TwoPhase, and that the      *)
(* books balance.                                                          *)
(***************************************************************************)
EXTENDS Ledger, FiniteSetTheorems, TLAPS

\* The wrapping arithmetic of the balance fields stays within uint64.
LEMMA U64Closed ==
  ASSUME NEW x \in U64, NEW y \in U64
  PROVE  Plus(x, y) \in U64 /\ Minus(x, y) \in U64
BY LedgerAssumption DEF Plus, Minus, U64

\* A call that is admitted names accounts that exist.
LEMMA AdmittedParties ==
  ASSUME NEW r \in Request, validateParties(r) = "ok"
  PROVE  /\ r.debit \in DOMAIN accounts /\ r.credit \in DOMAIN accounts
         /\ r.debit # r.credit
         /\ accounts[r.debit].ledger = accounts[r.credit].ledger
BY DEF validateParties

\* b is account a with other balances.
Rebalanced(a, b) == b \in Account /\ b.ledger = a.ledger /\ b.flags = a.flags

\* The writes to one account change its balances only, within their type.
LEMMA AccountWrites ==
  ASSUME NEW a \in Account, NEW n \in U64
  PROVE  /\ Rebalanced(a, ReserveDebit(a, n)) /\ Rebalanced(a, ReserveCredit(a, n))
         /\ Rebalanced(a, ReleaseDebit(a, n)) /\ Rebalanced(a, ReleaseCredit(a, n))
         /\ Rebalanced(a, PostDebit(a, n)) /\ Rebalanced(a, PostCredit(a, n))
<1>1. \A x \in U64 : Plus(x, n) \in U64 /\ Minus(x, n) \in U64
  BY U64Closed
<1> QED
  BY <1>1 DEF Account, Rebalanced, ReserveDebit, ReserveCredit, ReleaseDebit,
              ReleaseCredit, PostDebit, PostCredit

\* A capture releases, then posts.
LEMMA CaptureWrites ==
  ASSUME NEW a \in Account, NEW n \in U64, NEW m \in U64
  PROVE  /\ Rebalanced(a, PostDebit(ReleaseDebit(a, n), m))
         /\ Rebalanced(a, PostCredit(ReleaseCredit(a, n), m))
<1>1. Rebalanced(a, ReleaseDebit(a, n)) /\ Rebalanced(a, ReleaseCredit(a, n))
  BY AccountWrites
<1>2. Rebalanced(ReleaseDebit(a, n), PostDebit(ReleaseDebit(a, n), m))
  BY <1>1, AccountWrites DEF Rebalanced
<1>3. Rebalanced(ReleaseCredit(a, n), PostCredit(ReleaseCredit(a, n), m))
  BY <1>1, AccountWrites DEF Rebalanced
<1> QED BY <1>1, <1>2, <1>3 DEF Rebalanced

-----------------------------------------------------------------------------
\* An empty ledger is well typed.
LEMMA InitType == Init => TypeOK
BY LedgerAssumption DEF Init, TypeOK

\* What every step does to the account map: it grows, its entries stay
\* accounts, and no account changes its ledger or flags.
AccountsKept ==
  /\ DOMAIN accounts \subseteq DOMAIN accounts'
  /\ DOMAIN accounts' \subseteq AccountIDs
  /\ accounts' \in [DOMAIN accounts' -> Account]
  /\ \A a \in DOMAIN accounts : /\ accounts'[a].ledger = accounts[a].ledger
                                /\ accounts'[a].flags = accounts[a].flags

\* Rewriting two entries by account writes keeps the account map.
LEMMA TwoWrites ==
  ASSUME TypeOK, NEW x, NEW y, NEW u, NEW v,
         x \in DOMAIN accounts => Rebalanced(accounts[x], u),
         y \in DOMAIN accounts => Rebalanced(accounts[y], v),
         accounts' = [accounts EXCEPT ![x] = u, ![y] = v]
  PROVE  AccountsKept
BY DEF TypeOK, AccountsKept, Rebalanced

\* Voiding or expiring a pending releases two reservations and no more.
LEMMA ReleaseKeepsAccounts ==
  ASSUME TypeOK, NEW p \in DOMAIN transfers, ReleaseReservation(p)
  PROVE  AccountsKept
<1> DEFINE dr == transfers[p].debit
           cr == transfers[p].credit
           n  == transfers[p].amount
           u  == ReleaseDebit(accounts[dr], n)
           v  == ReleaseCredit(accounts[cr], n)
<1>1. n \in U64 /\ \A a \in DOMAIN accounts : accounts[a] \in Account
  BY DEF TypeOK, Transfer
<1>2. /\ dr \in DOMAIN accounts => Rebalanced(accounts[dr], u)
      /\ cr \in DOMAIN accounts => Rebalanced(accounts[cr], v)
  BY <1>1, AccountWrites
<1>3. accounts' = [accounts EXCEPT ![dr] = u, ![cr] = v]
  BY DEF ReleaseReservation
<1> HIDE DEF dr, cr, u, v
<1> QED BY <1>2, <1>3, TwoWrites

\* A capture rewrites the balances of the pending's two accounts only.
LEMMA CaptureKeepsAccounts ==
  ASSUME TypeOK, NEW p \in DOMAIN transfers, NEW amt \in U64,
         CaptureBalances(p, amt)
  PROVE  AccountsKept
<1> DEFINE dr == transfers[p].debit
           cr == transfers[p].credit
           n  == transfers[p].amount
           u  == PostDebit(ReleaseDebit(accounts[dr], n), amt)
           v  == PostCredit(ReleaseCredit(accounts[cr], n), amt)
<1>1. n \in U64 /\ \A a \in DOMAIN accounts : accounts[a] \in Account
  BY DEF TypeOK, Transfer
<1>2. /\ dr \in DOMAIN accounts => Rebalanced(accounts[dr], u)
      /\ cr \in DOMAIN accounts => Rebalanced(accounts[cr], v)
  BY <1>1, CaptureWrites
<1>3. accounts' = [accounts EXCEPT ![dr] = u, ![cr] = v]
  BY DEF CaptureBalances
<1> HIDE DEF dr, cr, u, v
<1> QED BY <1>2, <1>3, TwoWrites

\* A request that is admitted moves its amount between two accounts.
LEMMA RequestKeepsAccounts ==
  ASSUME TypeOK, NEW r \in Request,
         \/ accounts' = [accounts EXCEPT ![r.debit] = PostDebit(@, r.amount),
                                         ![r.credit] = PostCredit(@, r.amount)]
         \/ accounts' = [accounts EXCEPT ![r.debit] = ReserveDebit(@, r.amount),
                                         ![r.credit] = ReserveCredit(@, r.amount)]
  PROVE  AccountsKept
<1> DEFINE dr == r.debit
           cr == r.credit
           n  == r.amount
           Moves(u, v) == /\ accounts' = [accounts EXCEPT ![dr] = u, ![cr] = v]
                          /\ dr \in DOMAIN accounts => Rebalanced(accounts[dr], u)
                          /\ cr \in DOMAIN accounts => Rebalanced(accounts[cr], v)
<1>1. n \in U64 /\ \A a \in DOMAIN accounts : accounts[a] \in Account
  BY LedgerAssumption DEF TypeOK, Request
<1>2. \/ Moves(PostDebit(accounts[dr], n), PostCredit(accounts[cr], n))
      \/ Moves(ReserveDebit(accounts[dr], n), ReserveCredit(accounts[cr], n))
  BY <1>1, AccountWrites
<1>3. ASSUME NEW u, NEW v, Moves(u, v) PROVE AccountsKept
  BY <1>3, TwoWrites
<1> HIDE DEF Moves
<1> QED BY <1>2, <1>3

-----------------------------------------------------------------------------
(* Every action writes the transfer map in one of four ways.               *)

\* A new immediate or pending transfer under an id not in use.
Adds(id, r) ==
  /\ id \in TransferIDs \ DOMAIN transfers
  /\ r \in Transfer
  /\ r.pendingID = NoID /\ ~r.resolved
  /\ {r.debit, r.credit} \subseteq DOMAIN accounts /\ r.debit # r.credit
  /\ accounts[r.debit].ledger = accounts[r.credit].ledger
  /\ transfers' = Put(transfers, id, r)

\* PostPending: the open pending p becomes its own post.
PostsInPlace(p, amt) ==
  /\ p \in DOMAIN transfers /\ Open(transfers[p])
  /\ amt \in U64
  /\ transfers' = [transfers EXCEPT ![p] = PostRecord(p, amt)]

\* PostPendingAs: the open pending p is marked, its post stored under q.
PostsBeside(p, q, amt) ==
  /\ p \in DOMAIN transfers /\ Open(transfers[p])
  /\ q \in TransferIDs \ DOMAIN transfers
  /\ amt \in U64 /\ amt <= transfers[p].amount
  /\ transfers' = Put([transfers EXCEPT ![p] = [@ EXCEPT !.resolved = TRUE]], q,
                      PostRecord(p, amt))

\* A void, by a caller (code kept) or by the sweep (code CodeVoid).
Voids(p, code) ==
  /\ p \in DOMAIN transfers /\ Open(transfers[p])
  /\ code \in Nat
  /\ transfers' = [transfers EXCEPT ![p] =
       [@ EXCEPT !.resolved = TRUE, !.pending = FALSE, !.code = code]]

\* An admitted capture is for an amount within the reservation.
LEMMA CaptureAmountType ==
  ASSUME TypeOK, NEW p \in DOMAIN transfers, NEW amount \in Amounts,
         CaptureCode(p, amount) = "ok"
  PROVE  /\ CaptureAmount(p, amount) \in U64
         /\ CaptureAmount(p, amount) <= transfers[p].amount
<1>1. transfers[p].amount \in U64 /\ amount \in U64
  BY LedgerAssumption DEF TypeOK, Transfer
<1> QED BY <1>1, LedgerAssumption DEF CaptureAmount, CaptureCode, U64

\* The shape of one step: the accounts are kept and the transfers written in
\* one of the four ways, with no sweep running, or by the sweep itself.
StepShape ==
  /\ AccountsKept
  /\ nextSer' \in [Namespaces -> Nat]
  /\ clock' \in Nat
  /\ \/ /\ transfers' = transfers
        /\ sweep' = sweep \/ sweep' = Expired(clock)
     \/ /\ sweep = {} /\ sweep' = {}
        /\ \/ \E id, r : Adds(id, r)
           \/ \E p, amt : PostsInPlace(p, amt)
           \/ \E p, q, amt : PostsBeside(p, q, amt)
           \/ \E p, code : Voids(p, code)
     \/ \E p \in sweep : sweep' = sweep \ {p} /\ Voids(p, CodeVoid)

\* Every step from a state of the invariant has that shape.
LEMMA StepHasShape ==
  ASSUME LedgerInv, [Next]_vars
  PROVE  StepShape
<1> USE DEF LedgerInv
<1>0. AccountsKept \/ accounts' # accounts
  BY DEF TypeOK, AccountsKept
<1>1. ASSUME NEW id \in AccountIDs, NEW l \in Ledgers, NEW c \in Codes,
             NEW f \in FlagSets, CreateAccounts(id, l, c, f)
      PROVE  StepShape
  <2>1. NewAccount(l, c, f) \in Account
    BY LedgerAssumption DEF NewAccount, Account, U64
  <2>2. id \notin DOMAIN accounts
    BY <1>1 DEF CreateAccounts, CreateAccountsCode
  <2>3. AccountsKept
    BY <1>1, <2>1, <2>2 DEF CreateAccounts, TypeOK, AccountsKept, Put
  <2>4. nextSer' \in [Namespaces -> Nat]
    BY <1>1, LedgerAssumption DEF CreateAccounts, SerialAfter, TypeOK
  <2> QED BY <1>1, <2>3, <2>4 DEF CreateAccounts, StepShape, TypeOK
<1>2. ASSUME NEW ns \in Namespaces, NextSerial(ns) PROVE StepShape
  BY <1>0, <1>2 DEF NextSerial, StepShape, TypeOK
<1>3. ASSUME NEW id \in TransferIDs, NEW r \in Request, DoTransfer(id, r)
      PROVE  StepShape
  <2>1. id \notin DOMAIN transfers /\ validateParties(r) = "ok"
    BY <1>3 DEF DoTransfer, TransferCode
  <2>2. Adds(id, Record(r, FALSE, 0))
    BY <1>3, <2>1, AdmittedParties, LedgerAssumption
       DEF DoTransfer, Adds, Record, Transfer, Request
  <2>3. AccountsKept
    BY <1>3, RequestKeepsAccounts DEF DoTransfer
  <2> QED BY <1>3, <2>2, <2>3 DEF DoTransfer, StepShape, TypeOK, MutexFree
<1>4. ASSUME NEW id \in TransferIDs, NEW r \in Request, NEW timeout \in Timeouts,
             PendingTransfer(id, r, timeout)
      PROVE  StepShape
  <2> DEFINE exp == IF timeout > 0 THEN clock + timeout ELSE 0
  <2>1. id \notin DOMAIN transfers /\ validateParties(r) = "ok"
    BY <1>4 DEF PendingTransfer, PendingTransferCode
  <2>2. exp \in Nat
    BY LedgerAssumption DEF TypeOK
  <2>3. Adds(id, Record(r, TRUE, exp))
    BY <1>4, <2>1, <2>2, AdmittedParties, LedgerAssumption
       DEF PendingTransfer, Adds, Record, Transfer, Request
  <2>4. AccountsKept
    BY <1>4, RequestKeepsAccounts DEF PendingTransfer
  <2> QED BY <1>4, <2>3, <2>4 DEF PendingTransfer, StepShape, TypeOK, MutexFree
<1>5. ASSUME NEW p \in TransferIDs, NEW code \in Codes \cup {0},
             NEW amount \in Amounts, PostPending(p, amount, code)
      PROVE  StepShape
  <2>1. /\ p \in DOMAIN transfers /\ Open(transfers[p])
        /\ CaptureCode(p, amount) = "ok"
    BY <1>5 DEF PostPending, PostPendingCode
  <2>2. PostsInPlace(p, CaptureAmount(p, amount))
    BY <1>5, <2>1, CaptureAmountType DEF PostPending, PostsInPlace
  <2>3. AccountsKept
    BY <1>5, <2>1, CaptureAmountType, CaptureKeepsAccounts DEF PostPending
  <2> QED BY <1>5, <2>2, <2>3 DEF PostPending, StepShape, TypeOK, MutexFree
<1>6. ASSUME NEW p \in TransferIDs, NEW code \in Codes \cup {0}, NEW amount \in Amounts,
             NEW q \in TransferIDs, PostPendingAs(p, q, amount, code)
      PROVE  StepShape
  <2>1. /\ p \in DOMAIN transfers /\ Open(transfers[p])
        /\ q \notin DOMAIN transfers
        /\ CaptureCode(p, amount) = "ok"
    BY <1>6 DEF PostPendingAs, PostPendingAsCode
  <2>2. PostsBeside(p, q, CaptureAmount(p, amount))
    BY <1>6, <2>1, CaptureAmountType DEF PostPendingAs, PostsBeside
  <2>3. AccountsKept
    BY <1>6, <2>1, CaptureAmountType, CaptureKeepsAccounts DEF PostPendingAs
  <2> QED BY <1>6, <2>2, <2>3 DEF PostPendingAs, StepShape, TypeOK, MutexFree
<1>7. ASSUME NEW p \in TransferIDs, NEW code \in Codes \cup {0}, VoidPending(p, code)
      PROVE  StepShape
  <2>1. p \in DOMAIN transfers /\ Open(transfers[p])
    BY <1>7 DEF VoidPending, VoidPendingCode
  <2>2. Voids(p, transfers[p].code)
    BY <1>7, <2>1 DEF VoidPending, Voids, TypeOK, Transfer
  <2>3. AccountsKept
    BY <1>7, <2>1, ReleaseKeepsAccounts DEF VoidPending
  <2> QED BY <1>7, <2>2, <2>3 DEF VoidPending, StepShape, TypeOK, MutexFree
<1>8. CASE BeginSweep
  BY <1>0, <1>8 DEF BeginSweep, StepShape, TypeOK
<1>9. ASSUME NEW p \in TransferIDs, ExpireOne(p) PROVE StepShape
  <2>1. p \in sweep /\ p \in DOMAIN transfers /\ Open(transfers[p])
    BY <1>9 DEF ExpireOne, SweepsOpenPendings
  <2>2. Voids(p, CodeVoid)
    BY <1>9, <2>1 DEF ExpireOne, Voids, CodeVoid
  <2>3. AccountsKept
    BY <1>9, <2>1, ReleaseKeepsAccounts DEF ExpireOne
  <2> QED BY <1>9, <2>1, <2>2, <2>3 DEF ExpireOne, StepShape, TypeOK
<1>10. CASE Tick
  BY <1>0, <1>10 DEF Tick, StepShape, TypeOK
<1>11. CASE UNCHANGED vars
  BY <1>0, <1>11 DEF vars, StepShape, TypeOK
<1> QED
  BY <1>1, <1>2, <1>3, <1>4, <1>5, <1>6, <1>7, <1>8, <1>9, <1>10, <1>11 DEF Next

-----------------------------------------------------------------------------
(* The four ways of writing the transfer map keep the invariant.           *)

\* Posts and voids write well-typed records.
LEMMA WritesKeepType ==
  ASSUME TypeOK, StepShape
  PROVE  TypeOK'
<1>1. /\ DOMAIN transfers' \subseteq TransferIDs
      /\ transfers' \in [DOMAIN transfers' -> Transfer]
  <2>1. ASSUME NEW id, NEW r, Adds(id, r)
        PROVE  /\ DOMAIN transfers' \subseteq TransferIDs
               /\ transfers' \in [DOMAIN transfers' -> Transfer]
    BY <2>1 DEF Adds, TypeOK, Put
  <2>2. ASSUME NEW p, NEW amt, PostsInPlace(p, amt)
        PROVE  /\ DOMAIN transfers' \subseteq TransferIDs
               /\ transfers' \in [DOMAIN transfers' -> Transfer]
    <3>1. PostRecord(p, amt) \in Transfer
      BY <2>2 DEF PostsInPlace, PostRecord, TypeOK, Transfer
    <3> QED BY <2>2, <3>1 DEF PostsInPlace, TypeOK
  <2>3. ASSUME NEW p, NEW q, NEW amt, PostsBeside(p, q, amt)
        PROVE  /\ DOMAIN transfers' \subseteq TransferIDs
               /\ transfers' \in [DOMAIN transfers' -> Transfer]
    <3>1. PostRecord(p, amt) \in Transfer
      BY <2>3 DEF PostsBeside, PostRecord, TypeOK, Transfer
    <3>2. [transfers[p] EXCEPT !.resolved = TRUE] \in Transfer
      BY <2>3 DEF PostsBeside, TypeOK, Transfer
    <3> QED BY <2>3, <3>1, <3>2 DEF PostsBeside, TypeOK, Put
  <2>4. ASSUME NEW p, NEW code, Voids(p, code)
        PROVE  /\ DOMAIN transfers' \subseteq TransferIDs
               /\ transfers' \in [DOMAIN transfers' -> Transfer]
    <3>1. [transfers[p] EXCEPT !.resolved = TRUE, !.pending = FALSE, !.code = code]
            \in Transfer
      BY <2>4 DEF Voids, TypeOK, Transfer
    <3> QED BY <2>4, <3>1 DEF Voids, TypeOK
  <2> QED BY <2>1, <2>2, <2>3, <2>4 DEF StepShape, TypeOK
<1>2. sweep' \in SUBSET TransferIDs
  BY DEF StepShape, TypeOK, Expired
<1> QED BY <1>1, <1>2 DEF StepShape, AccountsKept, TypeOK

\* What each write leaves in the map: the new record, and every other record
\* unchanged.
OthersKept(p) ==
  \A t \in DOMAIN transfers : t # p => transfers'[t] = transfers[t]

SameParties(t, s) ==
  /\ transfers'[t].debit = transfers[s].debit
  /\ transfers'[t].credit = transfers[s].credit

\* Transfer and PendingTransfer add one record and touch no other.
LEMMA AddsFacts ==
  ASSUME TypeOK, NEW id, NEW r, Adds(id, r)
  PROVE  /\ DOMAIN transfers' = DOMAIN transfers \cup {id}
         /\ id \notin DOMAIN transfers /\ id # NoID
         /\ transfers'[id] = r
         /\ OthersKept(id)
BY LedgerAssumption DEF TypeOK, Adds, Put, OthersKept

\* PostPending turns the pending's own record into its post.
LEMMA PostsInPlaceFacts ==
  ASSUME TypeOK, NEW p, NEW amt, PostsInPlace(p, amt)
  PROVE  /\ p \in DOMAIN transfers /\ Open(transfers[p])
         /\ DOMAIN transfers' = DOMAIN transfers
         /\ transfers'[p].pendingID = p /\ Posted(transfers'[p])
         /\ transfers'[p].amount = amt
         /\ SameParties(p, p) /\ OthersKept(p)
<1>1. p \in DOMAIN transfers /\ transfers[p] \in Transfer
  BY DEF TypeOK, PostsInPlace
<1>2. transfers'[p] = PostRecord(p, amt)
  BY <1>1 DEF PostsInPlace
<1>3. /\ transfers'[p].pendingID = p /\ Posted(transfers'[p])
      /\ transfers'[p].amount = amt /\ SameParties(p, p)
  BY <1>1, <1>2 DEF PostRecord, Transfer, Posted, SameParties
<1> QED BY <1>1, <1>3 DEF PostsInPlace, OthersKept

\* PostPendingAs resolves the pending and stores its post under a new id.
LEMMA PostsBesideFacts ==
  ASSUME TypeOK, NEW p, NEW q, NEW amt, PostsBeside(p, q, amt)
  PROVE  /\ p \in DOMAIN transfers /\ Open(transfers[p])
         /\ q \notin DOMAIN transfers /\ q # NoID /\ p # q
         /\ DOMAIN transfers' = DOMAIN transfers \cup {q}
         /\ transfers'[q].pendingID = p /\ Posted(transfers'[q])
         /\ transfers'[q].amount = amt /\ amt <= transfers'[p].amount
         /\ Captured(transfers'[p])
         /\ transfers'[p].pendingID = transfers[p].pendingID
         /\ SameParties(p, p) /\ SameParties(q, p) /\ OthersKept(p)
<1>1. /\ p \in DOMAIN transfers /\ transfers[p] \in Transfer
      /\ q \notin DOMAIN transfers /\ q # NoID /\ p # q
  BY LedgerAssumption DEF TypeOK, PostsBeside
<1>2. /\ transfers'[q] = PostRecord(p, amt)
      /\ transfers'[p] = [transfers[p] EXCEPT !.resolved = TRUE]
      /\ DOMAIN transfers' = DOMAIN transfers \cup {q}
      /\ OthersKept(p)
  BY <1>1 DEF PostsBeside, Put, OthersKept
<1>3. /\ transfers'[q].pendingID = p /\ Posted(transfers'[q])
      /\ transfers'[q].amount = amt /\ SameParties(q, p)
  BY <1>1, <1>2 DEF PostRecord, Transfer, Posted, SameParties
<1>4. /\ transfers'[p].amount = transfers[p].amount
      /\ Captured(transfers'[p]) /\ SameParties(p, p)
      /\ transfers'[p].pendingID = transfers[p].pendingID
  BY <1>1, <1>2 DEF PostsBeside, Open, Transfer, Captured, SameParties
<1> QED BY <1>1, <1>2, <1>3, <1>4 DEF PostsBeside

\* A void resolves one open pending and touches no other record.
LEMMA VoidsFacts ==
  ASSUME TypeOK, NEW p, NEW code, Voids(p, code)
  PROVE  /\ p \in DOMAIN transfers /\ Open(transfers[p])
         /\ DOMAIN transfers' = DOMAIN transfers
         /\ Voided(transfers'[p])
         /\ transfers'[p].pendingID = transfers[p].pendingID
         /\ SameParties(p, p) /\ OthersKept(p)
<1>1. p \in DOMAIN transfers /\ transfers[p] \in Transfer
  BY DEF TypeOK, Voids
<1>2. transfers'[p] = [transfers[p] EXCEPT !.resolved = TRUE, !.pending = FALSE,
                                           !.code = code]
  BY <1>1 DEF Voids
<1>3. /\ Voided(transfers'[p]) /\ SameParties(p, p)
      /\ transfers'[p].pendingID = transfers[p].pendingID
  BY <1>1, <1>2 DEF Transfer, Voided, SameParties
<1> QED BY <1>1, <1>3 DEF Voids, OthersKept

\* The parties of every stored transfer stay in the account map.
LEMMA PartiesKept ==
  ASSUME TypeOK, PartiesExist, StepShape
  PROVE  PartiesExist'
<1> DEFINE Good(dr, cr) == /\ {dr, cr} \subseteq DOMAIN accounts /\ dr # cr
                           /\ accounts[dr].ledger = accounts[cr].ledger
<1>1. \A s \in DOMAIN transfers : Good(transfers[s].debit, transfers[s].credit)
  BY DEF PartiesExist
<1>2. \A t \in DOMAIN transfers' : Good(transfers'[t].debit, transfers'[t].credit)
  <2> HIDE DEF Good
  <2>1. CASE transfers' = transfers
    BY <1>1, <2>1
  <2>2. ASSUME NEW id, NEW r, Adds(id, r)
        PROVE  \A t \in DOMAIN transfers' : Good(transfers'[t].debit, transfers'[t].credit)
    <3>1. Good(r.debit, r.credit)
      BY <2>2 DEF Adds, Good
    <3> QED BY <1>1, <2>2, <3>1, AddsFacts DEF OthersKept
  <2>3. ASSUME NEW p, NEW amt, PostsInPlace(p, amt)
        PROVE  \A t \in DOMAIN transfers' : Good(transfers'[t].debit, transfers'[t].credit)
    BY <1>1, <2>3, PostsInPlaceFacts DEF OthersKept, SameParties
  <2>4. ASSUME NEW p, NEW q, NEW amt, PostsBeside(p, q, amt)
        PROVE  \A t \in DOMAIN transfers' : Good(transfers'[t].debit, transfers'[t].credit)
    <3>1. /\ DOMAIN transfers' = DOMAIN transfers \cup {q}
          /\ p \in DOMAIN transfers
          /\ SameParties(p, p) /\ SameParties(q, p) /\ OthersKept(p)
      BY <2>4, PostsBesideFacts
    <3>2. /\ Good(transfers'[p].debit, transfers'[p].credit)
          /\ Good(transfers'[q].debit, transfers'[q].credit)
      BY <1>1, <3>1 DEF SameParties
    <3> QED BY <1>1, <3>1, <3>2 DEF OthersKept
  <2>5. ASSUME NEW p, NEW code, Voids(p, code)
        PROVE  \A t \in DOMAIN transfers' : Good(transfers'[t].debit, transfers'[t].credit)
    BY <1>1, <2>5, VoidsFacts DEF OthersKept, SameParties
  <2> QED BY <2>1, <2>2, <2>3, <2>4, <2>5 DEF StepShape
<1> QED BY <1>2 DEF PartiesExist, StepShape, AccountsKept

\* The captures of a pending, and the sweep, through each way of writing.
CaptureInv ==
  CapturedAtMostOnce /\ CapturesResolve /\ SweepsOpenPendings

\* Each way of writing the transfer map keeps a pending captured at most once.
LEMMA CapturesKept ==
  ASSUME TypeOK, CaptureInv, StepShape
  PROVE  CaptureInv'
<1> USE DEF CaptureInv
<1>2. NoID \notin DOMAIN transfers
  BY LedgerAssumption DEF TypeOK
<1>3. CASE transfers' = transfers /\ (sweep' = sweep \/ sweep' = Expired(clock))
  BY <1>3 DEF CapturedAtMostOnce, CapturesOf, CapturesResolve, SweepsOpenPendings,
              Expired, Open, Captured, Voided, Posted
<1>4. ASSUME NEW id, NEW r, Adds(id, r), sweep' = {}
      PROVE  CaptureInv'
  <2>1. /\ DOMAIN transfers' = DOMAIN transfers \cup {id}
        /\ transfers'[id] = r
        /\ \A t \in DOMAIN transfers : transfers'[t] = transfers[t]
        /\ id \notin DOMAIN transfers /\ id # NoID
        /\ r.pendingID = NoID /\ ~r.resolved
    BY <1>4, AddsFacts DEF Adds, OthersKept
  <2>2. \A p \in DOMAIN transfers : CapturesOf(p)' = CapturesOf(p)
    BY <1>2, <2>1 DEF CapturesOf
  <2>3. CapturesOf(id)' = {}
    BY <2>1 DEF CapturesOf, CapturesResolve
  <2> QED
    BY <1>4, <2>1, <2>2, <2>3 DEF CapturedAtMostOnce, CapturesResolve,
       SweepsOpenPendings, Open, Captured, Voided, Posted, CapturesOf
<1>5. ASSUME NEW p, NEW amt, PostsInPlace(p, amt), sweep' = {}
      PROVE  CaptureInv'
  <2>1. /\ DOMAIN transfers' = DOMAIN transfers
        /\ transfers'[p].pendingID = p /\ Posted(transfers'[p])
        /\ p \in DOMAIN transfers
        /\ \A t \in DOMAIN transfers : t # p => transfers'[t] = transfers[t]
    BY <1>5, PostsInPlaceFacts DEF OthersKept
  <2>2. CapturesOf(p) = {} /\ \A x \in DOMAIN transfers : p \notin CapturesOf(x)
    BY <1>5 DEF PostsInPlace, CapturedAtMostOnce, Open, Posted
  <2>3. CapturesOf(p)' = {p}
    BY <2>1, <2>2 DEF CapturesOf
  <2>4. \A x \in DOMAIN transfers : x # p => CapturesOf(x)' = CapturesOf(x)
    BY <2>1, <2>2 DEF CapturesOf
  <2> QED
    BY <1>5, <2>1, <2>2, <2>3, <2>4 DEF CapturedAtMostOnce, CapturesResolve,
       SweepsOpenPendings, Open, Captured, Voided, Posted, CapturesOf
<1>6. ASSUME NEW p, NEW q, NEW amt, PostsBeside(p, q, amt), sweep' = {}
      PROVE  CaptureInv'
  <2>1. /\ DOMAIN transfers' = DOMAIN transfers \cup {q}
        /\ p # q /\ p \in DOMAIN transfers /\ q \notin DOMAIN transfers
        /\ transfers'[q].pendingID = p /\ Posted(transfers'[q])
        /\ transfers'[q].amount = amt /\ amt <= transfers'[p].amount
        /\ Captured(transfers'[p]) /\ transfers'[p].pendingID = transfers[p].pendingID
        /\ \A t \in DOMAIN transfers : t # p => transfers'[t] = transfers[t]
        /\ q # NoID
    BY <1>6, PostsBesideFacts DEF OthersKept
  <2>2. CapturesOf(p) = {} /\ \A x \in DOMAIN transfers : p \notin CapturesOf(x)
    BY <1>6 DEF PostsBeside, CapturedAtMostOnce, Open, Posted
  <2>3. CapturesOf(p)' = {q}
    BY <2>1, <2>2 DEF CapturesOf
  <2>4. \A x \in DOMAIN transfers : x # p => CapturesOf(x)' = CapturesOf(x)
    BY <2>1, <2>2 DEF CapturesOf
  <2>5. CapturesOf(q)' = {}
    BY <2>1, <2>2 DEF CapturesOf, CapturesResolve
  <2> QED
    BY <1>6, <2>1, <2>2, <2>3, <2>4, <2>5 DEF CapturedAtMostOnce, CapturesResolve,
       SweepsOpenPendings, Open, Captured, Voided, Posted, CapturesOf
<1>7. ASSUME NEW p, NEW code, Voids(p, code), sweep' = sweep \ {p}
      PROVE  CaptureInv'
  <2>1. /\ DOMAIN transfers' = DOMAIN transfers
        /\ p \in DOMAIN transfers
        /\ Voided(transfers'[p]) /\ transfers'[p].pendingID = transfers[p].pendingID
        /\ \A t \in DOMAIN transfers : t # p => transfers'[t] = transfers[t]
    BY <1>7, VoidsFacts DEF OthersKept
  <2>2. CapturesOf(p) = {} /\ \A x \in DOMAIN transfers : p \notin CapturesOf(x)
    BY <1>7 DEF Voids, CapturedAtMostOnce, Open, Posted
  <2>3. \A x \in DOMAIN transfers : CapturesOf(x)' = CapturesOf(x)
    BY <2>1, <2>2 DEF CapturesOf
  <2> QED
    BY <1>7, <2>1, <2>2, <2>3 DEF CapturedAtMostOnce, CapturesResolve,
       SweepsOpenPendings, Open, Captured, Voided, Posted, CapturesOf
<1> QED
  <2>1. sweep = {} /\ sweep' = {} => \A p : sweep' = sweep \ {p}
    OBVIOUS
  <2> QED BY <2>1, <1>3, <1>4, <1>5, <1>6, <1>7 DEF StepShape

-----------------------------------------------------------------------------
\* The ledger invariant is inductive: LedgerInv holds in every reachable
\* state of every instance.
THEOREM LedgerInvariant == Spec => []LedgerInv
<1>1. Init => LedgerInv
  BY InitType DEF Init, LedgerInv, PartiesExist, CapturedAtMostOnce,
                  CapturesResolve, SweepsOpenPendings
<1>2. LedgerInv /\ [Next]_vars => LedgerInv'
  <2> SUFFICES ASSUME LedgerInv, [Next]_vars PROVE LedgerInv'
    OBVIOUS
  <2>1. StepShape
    BY StepHasShape
  <2>2. TypeOK' /\ PartiesExist' /\ CaptureInv'
    BY <2>1, WritesKeepType, PartiesKept, CapturesKept DEF LedgerInv, CaptureInv
  <2> QED BY <2>2 DEF LedgerInv, CaptureInv
<1> QED BY <1>1, <1>2, PTL DEF Spec

\* Balances stay uint64 and the maps well formed.
THEOREM TypeCorrect == Spec => []TypeOK
<1>1. LedgerInv => TypeOK
  BY DEF LedgerInv
<1> QED BY <1>1, LedgerInvariant, PTL

\* No method of DevClient dereferences a missing account.
THEOREM PartiesAlwaysExist == Spec => []PartiesExist
<1>1. LedgerInv => PartiesExist
  BY DEF LedgerInv
<1> QED BY <1>1, LedgerInvariant, PTL

\* A reservation is captured at most once and never also voided.
THEOREM NoDoubleCapture == Spec => []CapturedAtMostOnce
<1>1. LedgerInv => CapturedAtMostOnce
  BY DEF LedgerInv
<1> QED BY <1>1, LedgerInvariant, PTL

\* Resolved transfers, and the identity of accounts, never change.
THEOREM ResolutionIsFinal == Spec => Finality
<1> DEFINE Step ==
      /\ \A t \in DOMAIN transfers :
           /\ t \in DOMAIN transfers'
           /\ ~Open(transfers[t]) => transfers'[t] = transfers[t]
      /\ \A a \in DOMAIN accounts :
           /\ a \in DOMAIN accounts'
           /\ accounts'[a].ledger = accounts[a].ledger
           /\ accounts'[a].flags = accounts[a].flags
<1>1. LedgerInv /\ [Next]_vars => [Step]_vars
  <2> SUFFICES ASSUME LedgerInv, [Next]_vars PROVE Step
    OBVIOUS
  <2>1. StepShape
    BY StepHasShape
  <2>2. \A a \in DOMAIN accounts :
          /\ a \in DOMAIN accounts'
          /\ accounts'[a].ledger = accounts[a].ledger
          /\ accounts'[a].flags = accounts[a].flags
    BY <2>1 DEF StepShape, AccountsKept
  <2>3. \A t \in DOMAIN transfers :
          /\ t \in DOMAIN transfers'
          /\ ~Open(transfers[t]) => transfers'[t] = transfers[t]
    BY <2>1, AddsFacts, PostsInPlaceFacts, PostsBesideFacts, VoidsFacts
       DEF StepShape, LedgerInv, OthersKept
  <2> QED BY <2>2, <2>3
<1> QED BY <1>1, LedgerInvariant, PTL DEF Spec, Finality

-----------------------------------------------------------------------------
(* The refinement: each way of writing the transfer map moves one movement *)
(* of TwoPhase, every other step none.                                     *)

\* A step that moves the status of one movement, and of no other.
Moves(m, s) ==
  /\ m \in TransferIDs
  /\ s \in Abstract!Successors(StatusOf(m))
  /\ StatusOf(m)' = s
  /\ \A id \in TransferIDs \ {m} : StatusOf(id)' = StatusOf(id)

\* Such a step is a step of the protocol.
LEMMA MovesAdvance ==
  ASSUME NEW m, NEW s \in Abstract!Stages, Moves(m, s)
  PROVE  Abstract!Next
<1>1. m \in TransferIDs /\ s \in Abstract!Successors(Status[m])
  BY DEF Moves, Status
<1>2. Status' = [Status EXCEPT ![m] = s]
  BY DEF Moves, Status
<1> QED BY <1>1, <1>2 DEF Abstract!Next, Abstract!Advance

\* What a record not written stands for is unchanged.
LEMMA StatusKept ==
  ASSUME NEW id, id \in DOMAIN transfers <=> id \in DOMAIN transfers',
         id \in DOMAIN transfers => transfers'[id] = transfers[id]
  PROVE  StatusOf(id)' = StatusOf(id)
BY DEF StatusOf, Open, Voided

\* An open reservation is a movement of its own and stands open.
LEMMA OpenStatus ==
  ASSUME LedgerInv, NEW p \in DOMAIN transfers, Open(transfers[p])
  PROVE  transfers[p].pendingID = NoID /\ StatusOf(p) = "open"
<1>1. transfers[p].pendingID = NoID
  BY DEF LedgerInv, CapturesResolve, CapturedAtMostOnce, CapturesOf, Open, Posted
<1> QED BY <1>1 DEF StatusOf

\* Every way of writing the transfer map is a step of the protocol.
LEMMA WritesAdvance ==
  ASSUME LedgerInv, StepShape, transfers' # transfers
  PROVE  Abstract!Next
<1>0. TypeOK
  BY DEF LedgerInv
<1>1. ASSUME NEW id, NEW r, Adds(id, r) PROVE Abstract!Next
  <2>1. /\ DOMAIN transfers' = DOMAIN transfers \cup {id}
        /\ id \notin DOMAIN transfers /\ id \in TransferIDs
        /\ transfers'[id] = r /\ OthersKept(id)
        /\ r \in Transfer /\ r.pendingID = NoID /\ ~r.resolved
    BY <1>0, <1>1, AddsFacts DEF Adds
  <2>2. StatusOf(id) = "none" /\ StatusOf(id)' \in {"open", "posted"}
    BY <2>1 DEF StatusOf, Open, Voided
  <2>3. \A k \in TransferIDs \ {id} : StatusOf(k)' = StatusOf(k)
    BY <2>1, StatusKept DEF OthersKept
  <2>4. PICK s : s = StatusOf(id)'
    OBVIOUS
  <2>5. Moves(id, s) /\ s \in Abstract!Stages
    BY <2>1, <2>2, <2>3, <2>4 DEF Moves, Abstract!Successors, Abstract!Stages
  <2> QED BY <2>5, MovesAdvance
<1>2. ASSUME NEW p, NEW amt, PostsInPlace(p, amt) PROVE Abstract!Next
  <2>1. /\ p \in DOMAIN transfers /\ Open(transfers[p]) /\ p \in TransferIDs
        /\ DOMAIN transfers' = DOMAIN transfers
        /\ transfers'[p].pendingID = p /\ Posted(transfers'[p]) /\ OthersKept(p)
    BY <1>0, <1>2, PostsInPlaceFacts DEF TypeOK
  <2>2. StatusOf(p) = "open" /\ StatusOf(p)' = "posted"
    BY <2>1, OpenStatus DEF StatusOf, Open, Voided, Posted
  <2>3. \A k \in TransferIDs \ {p} : StatusOf(k)' = StatusOf(k)
    BY <2>1, StatusKept DEF OthersKept
  <2>4. Moves(p, "posted") /\ "posted" \in Abstract!Stages
    BY <2>1, <2>2, <2>3 DEF Moves, Abstract!Successors, Abstract!Stages
  <2> QED BY <2>4, MovesAdvance
<1>3. ASSUME NEW p, NEW q, NEW amt, PostsBeside(p, q, amt) PROVE Abstract!Next
  <2>1. /\ p \in DOMAIN transfers /\ Open(transfers[p]) /\ p \in TransferIDs
        /\ q \notin DOMAIN transfers /\ q # NoID /\ p # q /\ p # NoID
        /\ DOMAIN transfers' = DOMAIN transfers \cup {q}
        /\ transfers'[q].pendingID = p
        /\ Captured(transfers'[p]) /\ transfers'[p].pendingID = transfers[p].pendingID
        /\ OthersKept(p)
    BY <1>0, <1>3, PostsBesideFacts, LedgerAssumption DEF TypeOK
  <2>2. StatusOf(p) = "open" /\ StatusOf(p)' = "posted"
    BY <2>1, OpenStatus DEF StatusOf, Open, Voided, Captured
  <2>3. StatusOf(q)' = StatusOf(q)
    BY <2>1 DEF StatusOf
  <2>4. \A k \in TransferIDs \ {p} : StatusOf(k)' = StatusOf(k)
    BY <2>1, <2>3, StatusKept DEF OthersKept
  <2>5. Moves(p, "posted") /\ "posted" \in Abstract!Stages
    BY <2>1, <2>2, <2>4 DEF Moves, Abstract!Successors, Abstract!Stages
  <2> QED BY <2>5, MovesAdvance
<1>4. ASSUME NEW p, NEW code, Voids(p, code) PROVE Abstract!Next
  <2>1. /\ p \in DOMAIN transfers /\ Open(transfers[p]) /\ p \in TransferIDs
        /\ DOMAIN transfers' = DOMAIN transfers
        /\ Voided(transfers'[p]) /\ transfers'[p].pendingID = transfers[p].pendingID
        /\ OthersKept(p)
    BY <1>0, <1>4, VoidsFacts DEF TypeOK
  <2>2. StatusOf(p) = "open" /\ StatusOf(p)' = "voided"
    BY <2>1, OpenStatus DEF StatusOf, Open, Voided
  <2>3. \A k \in TransferIDs \ {p} : StatusOf(k)' = StatusOf(k)
    BY <2>1, StatusKept DEF OthersKept
  <2>4. Moves(p, "voided") /\ "voided" \in Abstract!Stages
    BY <2>1, <2>2, <2>3 DEF Moves, Abstract!Successors, Abstract!Stages
  <2> QED BY <2>4, MovesAdvance
<1> QED BY <1>1, <1>2, <1>3, <1>4 DEF StepShape

\* tb.DevClient implements the two-phase protocol: posting under the pending's
\* own id or a caller's, voiding and expiring, in whatever order they come,
\* move one movement at a time and resolve each at most once.
THEOREM LedgerImplementsTwoPhase == Spec => ImplementsTwoPhase
<1>1. Init => Abstract!Init
  BY DEF Init, Abstract!Init, Status, StatusOf
<1>2. LedgerInv /\ [Next]_vars => [Abstract!Next]_Status
  <2>1. SUFFICES ASSUME LedgerInv, [Next]_vars, transfers' # transfers
                 PROVE  Abstract!Next
    <3>1. transfers' = transfers => Status' = Status
      BY DEF Status, StatusOf, Open, Voided
    <3> QED BY <3>1
  <2> QED BY <2>1, StepHasShape, WritesAdvance
<1> QED BY <1>1, <1>2, LedgerInvariant, PTL DEF Spec, ImplementsTwoPhase, Abstract!Spec

-----------------------------------------------------------------------------
(* Sums over finite sets.  MapThenSumSet is a recursive function over the  *)
(* subsets of its set, which takes out one chosen element at a time: that  *)
(* it exists and does not depend on the order is shown by induction on the *)
(* number of elements.                                                     *)

\* Every nonempty set of naturals has a least element.
LEMMA LeastNatural ==
  ASSUME NEW S, S \subseteq Nat, S # {}
  PROVE  \E x \in S : \A y \in S : x <= y
<1>1. PICK x \in S : \A y \in S : ~ (<<y, x>> \in OpToRel(<, Nat))
  BY NatLessThanWellFounded, WFMin, Zenon
<1>2. \A y \in S : ~ (y < x)
  BY <1>1, Zenon DEF OpToRel
<1> QED BY <1>2

Pick(s) == CHOOSE x \in s : TRUE

\* g is the recursive sum of f over the sets in D.
IsSum(g, f, D) ==
  g = [s \in D |-> IF s = {} THEN 0 ELSE f[Pick(s)] + g[s \ {Pick(s)}]]

\* Taking out an element of a finite set leaves a smaller finite set.
LEMMA TakeOut ==
  ASSUME NEW S, IsFiniteSet(S), NEW s \in SUBSET S, NEW x \in s
  PROVE  /\ IsFiniteSet(s) /\ Cardinality(s) \in Nat
         /\ Cardinality(s \ {x}) = Cardinality(s) - 1 /\ Cardinality(s \ {x}) \in Nat
<1>1. IsFiniteSet(s)
  BY FS_Subset
<1>2. Cardinality(s) \in Nat
  BY <1>1, FS_CardinalityType
<1>3. IsFiniteSet(s \ {x}) /\ Cardinality(s \ {x}) = Cardinality(s) - 1
  BY <1>1, FS_RemoveElement
<1> QED BY <1>1, <1>2, <1>3, FS_CardinalityType

\* The recursion has a solution over the subsets of a finite set.
LEMMA SumExists ==
  ASSUME NEW S, IsFiniteSet(S), NEW f
  PROVE  \E g : IsSum(g, f, SUBSET S)
<1> DEFINE Small(n) == {s \in SUBSET S : Cardinality(s) <= n}
           Bad == {n \in Nat : ~\E g : IsSum(g, f, Small(n))}
<1>1. Bad = {}
  <2>1. SUFFICES ASSUME Bad # {} PROVE FALSE
    OBVIOUS
  <2>2. PICK n \in Bad : \A m \in Bad : n <= m
    <3>1. Bad \subseteq Nat
      OBVIOUS
    <3> HIDE DEF Bad
    <3> QED BY <2>1, <3>1, LeastNatural
  <2>3. n \in Nat /\ ~\E g : IsSum(g, f, Small(n))
    OBVIOUS
  <2>4. CASE n = 0
    <3>1. \A s \in Small(n) : s = {}
      <4>1. ASSUME NEW s \in SUBSET S, NEW x \in s PROVE ~(Cardinality(s) <= 0)
        <5>1. Cardinality(s) \in Nat /\ Cardinality(s) - 1 \in Nat
          BY <4>1, TakeOut
        <5> QED BY <5>1
      <4> QED BY <2>4, <4>1
    <3> HIDE DEF Small
    <3>2. PICK g : g = [s \in Small(n) |-> 0]
      OBVIOUS
    <3>3. IsSum(g, f, Small(n))
      BY <3>1, <3>2 DEF IsSum
    <3> QED BY <2>3, <3>3
  <2>5. CASE n # 0
    <3>1. n - 1 \in Nat /\ n - 1 \notin Bad
      <4> HIDE DEF Bad
      <4> QED BY <2>2, <2>3, <2>5
    <3>2. PICK g : IsSum(g, f, Small(n - 1))
      BY <3>1
    <3>3. PICK h : h = [s \in Small(n) |->
                          IF s = {} THEN 0 ELSE f[Pick(s)] + g[s \ {Pick(s)}]]
      OBVIOUS
    <3>4. ASSUME NEW s \in Small(n), s # {} PROVE s \ {Pick(s)} \in Small(n - 1)
      <4>1. Pick(s) \in s /\ s \in SUBSET S /\ Cardinality(s) <= n
        BY <3>4 DEF Pick
      <4>2. /\ Cardinality(s) \in Nat
            /\ Cardinality(s \ {Pick(s)}) = Cardinality(s) - 1
        BY <4>1, TakeOut
      <4>3. Cardinality(s \ {Pick(s)}) <= n - 1
        BY <2>3, <4>1, <4>2
      <4> QED BY <4>1, <4>3
    <3>5. \A s \in Small(n - 1) : s \in Small(n)
      <4>1. ASSUME NEW s \in SUBSET S, Cardinality(s) <= n - 1 PROVE Cardinality(s) <= n
        <5>1. Cardinality(s) \in Nat
          BY FS_Subset, FS_CardinalityType
        <5> QED BY <2>3, <4>1, <5>1
      <4> QED BY <4>1
    <3> HIDE DEF Small
    <3>6. \A s \in Small(n - 1) : h[s] = g[s]
      BY <3>2, <3>3, <3>5 DEF IsSum
    <3>7. IsSum(h, f, Small(n))
      BY <3>3, <3>4, <3>6 DEF IsSum
    <3> QED BY <2>3, <3>7
  <2> QED BY <2>4, <2>5
<1>2. Cardinality(S) \in Nat
  BY FS_CardinalityType
<1>3. \A s \in SUBSET S : Cardinality(s) <= Cardinality(S)
  BY FS_Subset
<1>4. Small(Cardinality(S)) = SUBSET S
  BY <1>3
<1>5. \E g : IsSum(g, f, Small(Cardinality(S)))
  BY <1>1, <1>2
<1> QED BY <1>4, <1>5

\* Total is a solution of the recursion at the whole set.
LEMMA TotalIsSum ==
  ASSUME NEW S, IsFiniteSet(S), NEW f
  PROVE  \E g : IsSum(g, f, SUBSET S) /\ Total(S, f) = g[S]
<1>1. \E g : g = [s \in SUBSET S |->
                     IF s = {} THEN 0
                     ELSE f[CHOOSE x \in s : TRUE] + g[s \ {CHOOSE x \in s : TRUE}]]
  <2>1. PICK g : IsSum(g, f, SUBSET S)
    BY SumExists
  <2> QED BY <2>1, Zenon DEF IsSum, Pick
<1> QED BY <1>1 DEF Total, MapThenSumSet, MapThenFoldSet, IsSum, Pick

\* Induction over the subsets of a finite set: a set of counterexamples in
\* which every member has a smaller one is empty.
LEMMA NoLeastSubset ==
  ASSUME NEW S, IsFiniteSet(S), NEW B \in SUBSET SUBSET S,
         \A s \in B : \E x \in s : s \ {x} \in B
  PROVE  B = {}
<1>1. SUFFICES ASSUME B # {} PROVE FALSE
  OBVIOUS
<1> DEFINE Sizes == {n \in Nat : \E s \in B : Cardinality(s) = n}
<1>2. \A s \in B : Cardinality(s) \in Sizes
  BY FS_Subset, FS_CardinalityType
<1>3. Sizes \subseteq Nat /\ Sizes # {}
  BY <1>1, <1>2
<1>4. PICK n \in Sizes : \A m \in Sizes : n <= m
  <2> HIDE DEF Sizes
  <2> QED BY <1>3, LeastNatural
<1>5. PICK s \in B : Cardinality(s) = n
  OBVIOUS
<1>6. PICK x \in s : s \ {x} \in B
  OBVIOUS
<1>7. Cardinality(s \ {x}) = n - 1 /\ n - 1 \in Nat
  BY <1>5, TakeOut
<1>8. n <= n - 1
  BY <1>2, <1>4, <1>6, <1>7
<1> QED BY <1>7, <1>8

\* A sum of integers is an integer, of naturals a natural.
LEMMA SumType ==
  ASSUME NEW S, IsFiniteSet(S), NEW f, NEW g, IsSum(g, f, SUBSET S),
         NEW N, N = Nat \/ N = Int, \A x \in S : f[x] \in N
  PROVE  \A s \in SUBSET S : g[s] \in N
<1> DEFINE Bad == {s \in SUBSET S : g[s] \notin N}
<1>1. ASSUME NEW s \in Bad PROVE \E x \in s : s \ {x} \in Bad
  <2>1. s # {}
    BY <1>1 DEF IsSum
  <2>2. Pick(s) \in s /\ f[Pick(s)] \in N
    BY <2>1 DEF Pick
  <2>3. g[s] = f[Pick(s)] + g[s \ {Pick(s)}]
    BY <2>1 DEF IsSum
  <2>4. g[s \ {Pick(s)}] \notin N
    BY <1>1, <2>2, <2>3
  <2> QED BY <2>2, <2>4
<1>2. Bad \in SUBSET SUBSET S
  OBVIOUS
<1> HIDE DEF Bad
<1>3. Bad = {}
  BY <1>1, <1>2, NoLeastSubset
<1> QED BY <1>3 DEF Bad

\* The order in which the elements are taken out does not matter.
LEMMA SumTakesAny ==
  ASSUME NEW S, IsFiniteSet(S), NEW f, NEW g, IsSum(g, f, SUBSET S),
         \A x \in S : f[x] \in Int
  PROVE  \A s \in SUBSET S : \A x \in s : g[s] = f[x] + g[s \ {x}]
<1> DEFINE Bad == {s \in SUBSET S : \E x \in s : g[s] # f[x] + g[s \ {x}]}
<1>1. \A s \in SUBSET S : g[s] \in Int
  BY SumType
<1>2. ASSUME NEW s \in Bad PROVE \E z \in s : s \ {z} \in Bad
  <2>1. PICK x \in s : g[s] # f[x] + g[s \ {x}]
    OBVIOUS
  <2>2. PICK y : y = Pick(s)
    OBVIOUS
  <2>3. y \in s /\ g[s] = f[y] + g[s \ {y}] /\ y # x
    BY <2>1, <2>2 DEF IsSum, Pick
  <2>4. SUFFICES ASSUME s \ {y} \notin Bad, s \ {x} \notin Bad PROVE FALSE
    BY <2>3
  <2>5. x \in s \ {y} /\ y \in s \ {x}
    BY <2>3
  <2>6. /\ g[s \ {y}] = f[x] + g[(s \ {y}) \ {x}]
        /\ g[s \ {x}] = f[y] + g[(s \ {x}) \ {y}]
    BY <2>4, <2>5
  <2>7. (s \ {y}) \ {x} = (s \ {x}) \ {y} /\ (s \ {y}) \ {x} \in SUBSET S
    OBVIOUS
  <2>8. PICK n : n = g[(s \ {y}) \ {x}]
    OBVIOUS
  <2>9. n \in Int /\ f[x] \in Int /\ f[y] \in Int
    BY <1>1, <2>3, <2>7, <2>8
  <2>10. g[s] = f[y] + (f[x] + n) /\ g[s \ {x}] = f[y] + n
    BY <2>3, <2>6, <2>7, <2>8
  <2> QED BY <2>1, <2>9, <2>10
<1>3. Bad \in SUBSET SUBSET S
  OBVIOUS
<1> HIDE DEF Bad
<1>4. Bad = {}
  BY <1>2, <1>3, NoLeastSubset
<1> QED BY <1>4 DEF Bad

Below(S, T) == S \subseteq T
Agree(f, e, S) == \A x \in S : f[x] = e[x]

\* Two solutions agree on a set on which their functions do.
LEMMA SumUnique ==
  ASSUME NEW S, IsFiniteSet(S), NEW T, NEW f, NEW e, NEW g, NEW h,
         IsSum(g, f, SUBSET S), IsSum(h, e, SUBSET T), Below(S, T), Agree(f, e, S)
  PROVE  g[S] = h[S]
<1> USE DEF Below, Agree
<1> DEFINE Bad == {s \in SUBSET S : g[s] # h[s]}
<1>1. ASSUME NEW s \in Bad PROVE \E x \in s : s \ {x} \in Bad
  <2>1. s # {} /\ s \in SUBSET T
    BY <1>1 DEF IsSum
  <2>2. Pick(s) \in s /\ f[Pick(s)] = e[Pick(s)]
    BY <2>1 DEF Pick
  <2>3. g[s] = f[Pick(s)] + g[s \ {Pick(s)}] /\ h[s] = e[Pick(s)] + h[s \ {Pick(s)}]
    BY <2>1 DEF IsSum
  <2>4. g[s \ {Pick(s)}] # h[s \ {Pick(s)}]
    BY <1>1, <2>2, <2>3
  <2> QED BY <2>2, <2>4
<1>2. Bad \in SUBSET SUBSET S
  OBVIOUS
<1> HIDE DEF Bad
<1>3. Bad = {}
  BY <1>1, <1>2, NoLeastSubset
<1> QED BY <1>3 DEF Bad

\* What the ledger needs of sums: nothing adds up to 0, ...
LEMMA TotalEmpty == ASSUME NEW f PROVE Total({}, f) = 0
<1>1. PICK g : IsSum(g, f, SUBSET {}) /\ Total({}, f) = g[{}]
  BY FS_EmptySet, TotalIsSum
<1> QED BY <1>1 DEF IsSum

\* ... naturals add up to a natural, ...
LEMMA TotalNat ==
  ASSUME NEW S, IsFiniteSet(S), NEW f, \A x \in S : f[x] \in Nat
  PROVE  Total(S, f) \in Nat
<1>1. PICK g : IsSum(g, f, SUBSET S) /\ Total(S, f) = g[S]
  BY TotalIsSum
<1>2. \A s \in SUBSET S : g[s] \in Nat
  BY <1>1, SumType
<1> QED BY <1>1, <1>2

\* ... equal summands give equal sums, ...
LEMMA TotalSame ==
  ASSUME NEW S, IsFiniteSet(S), NEW f, NEW e, \A x \in S : f[x] = e[x]
  PROVE  Total(S, f) = Total(S, e)
<1>1. PICK g : IsSum(g, f, SUBSET S) /\ Total(S, f) = g[S]
  BY TotalIsSum
<1>2. PICK h : IsSum(h, e, SUBSET S) /\ Total(S, e) = h[S]
  BY TotalIsSum
<1>3. g[S] = h[S]
  BY <1>1, <1>2, SumUnique DEF Below, Agree
<1> QED BY <1>1, <1>2, <1>3

\* ... and any one summand can be taken out.
LEMMA TotalSplit ==
  ASSUME NEW S, IsFiniteSet(S), NEW f, \A x \in S : f[x] \in Nat, NEW x \in S
  PROVE  Total(S, f) = f[x] + Total(S \ {x}, f)
<1>1. PICK g : IsSum(g, f, SUBSET S) /\ Total(S, f) = g[S]
  BY TotalIsSum
<1>2. PICK T : T = S \ {x}
  OBVIOUS
<1>3. IsFiniteSet(T) /\ T \subseteq S
  BY <1>2, FS_Subset
<1>4. PICK h : IsSum(h, f, SUBSET T) /\ Total(T, f) = h[T]
  BY <1>3, TotalIsSum
<1>5. h[T] = g[T]
  <2>1. IsSum(g, f, SUBSET S)
    BY <1>1
  <2>2. IsSum(h, f, SUBSET T)
    BY <1>4
  <2>3. Below(T, S) /\ Agree(f, f, T) /\ IsFiniteSet(T)
    BY <1>3 DEF Below, Agree
  <2> QED BY <2>1, <2>2, <2>3, SumUnique
<1>6. g[S] = f[x] + g[T]
  BY <1>1, <1>2, SumTakesAny
<1> QED BY <1>1, <1>2, <1>4, <1>5, <1>6

-----------------------------------------------------------------------------
(* The columns of the books.  The maps are parameters here, so that the    *)
(* facts serve for the state before and after a step.                      *)

AmountOf(m) == [t \in DOMAIN m |-> m[t].amount]
DebitSum(m, S, a) == Total({t \in S : m[t].debit = a}, AmountOf(m))
CreditSum(m, S, a) == Total({t \in S : m[t].credit = a}, AmountOf(m))
OpenIn(m) == {t \in DOMAIN m : Open(m[t])}
PostedIn(m) == {t \in DOMAIN m : Posted(m[t])}

\* A column whose records are unchanged adds up to the same.
LEMMA ColumnSame ==
  ASSUME NEW X, IsFiniteSet(X), NEW m, NEW n, X \subseteq DOMAIN m, X \subseteq DOMAIN n,
         \A t \in X : n[t].amount = m[t].amount
  PROVE  Total(X, AmountOf(n)) = Total(X, AmountOf(m))
<1>1. \A t \in X : AmountOf(n)[t] = AmountOf(m)[t]
  BY DEF AmountOf
<1> QED BY <1>1, TotalSame

\* A column grows by the amount of the record it gains.
LEMMA ColumnGains ==
  ASSUME NEW X, IsFiniteSet(X), NEW x, x \notin X, NEW Y, Y = X \cup {x},
         NEW m, NEW n, X \subseteq DOMAIN m, Y \subseteq DOMAIN n,
         \A t \in X : n[t].amount = m[t].amount, \A t \in Y : n[t].amount \in Nat
  PROVE  Total(Y, AmountOf(n)) = Total(X, AmountOf(m)) + n[x].amount
<1>1. IsFiniteSet(Y) /\ x \in Y /\ Y \ {x} = X
  BY FS_AddElement
<1>2. \A t \in Y : AmountOf(n)[t] = n[t].amount /\ AmountOf(n)[t] \in Nat
  BY DEF AmountOf
<1>3. Total(Y, AmountOf(n)) = AmountOf(n)[x] + Total(X, AmountOf(n))
  BY <1>1, <1>2, TotalSplit
<1>4. Total(X, AmountOf(n)) = Total(X, AmountOf(m))
  BY ColumnSame
<1>5. Total(X, AmountOf(n)) \in Nat
  BY <1>1, <1>2, TotalNat
<1> QED BY <1>1, <1>2, <1>3, <1>4, <1>5

\* A column shrinks by the amount of the record it loses, which it held.
LEMMA ColumnLoses ==
  ASSUME NEW X, IsFiniteSet(X), NEW x \in X, NEW Y, Y = X \ {x},
         NEW m, NEW n, X \subseteq DOMAIN m, Y \subseteq DOMAIN n,
         \A t \in Y : n[t].amount = m[t].amount, \A t \in X : m[t].amount \in Nat
  PROVE  /\ Total(Y, AmountOf(n)) = Total(X, AmountOf(m)) - m[x].amount
         /\ m[x].amount <= Total(X, AmountOf(m))
<1>1. IsFiniteSet(Y)
  BY FS_Subset
<1>2. \A t \in X : AmountOf(m)[t] = m[t].amount /\ AmountOf(m)[t] \in Nat
  BY DEF AmountOf
<1>3. Total(X, AmountOf(m)) = AmountOf(m)[x] + Total(Y, AmountOf(m))
  BY <1>2, TotalSplit
<1>4. Total(Y, AmountOf(n)) = Total(Y, AmountOf(m))
  <2>1. Y \subseteq DOMAIN m
    OBVIOUS
  <2> QED BY <1>1, <2>1, ColumnSame
<1>5. Total(Y, AmountOf(m)) \in Nat
  BY <1>1, <1>2, TotalNat
<1> QED BY <1>2, <1>3, <1>4, <1>5

At(c, n) == IF c THEN n ELSE 0

\* S is a finite set of records of m, with natural amounts.
Holds(m, S) == IsFiniteSet(S) /\ S \subseteq DOMAIN m /\ \A t \in S : m[t].amount \in Nat

\* The records in S are the same in both maps.
Unaltered(m, n, S) == \A t \in S : n[t] = m[t]

\* The sums of a stage whose records are unchanged.
LEMMA StageSame ==
  ASSUME NEW S, NEW m, NEW n, Holds(m, S), Holds(n, S), Unaltered(m, n, S), NEW a
  PROVE  /\ DebitSum(n, S, a) = DebitSum(m, S, a) /\ DebitSum(m, S, a) \in Nat
         /\ CreditSum(n, S, a) = CreditSum(m, S, a) /\ CreditSum(m, S, a) \in Nat
<1> USE DEF Holds, Unaltered
<1>1. ASSUME NEW X \in SUBSET S
      PROVE  Total(X, AmountOf(n)) = Total(X, AmountOf(m)) /\ Total(X, AmountOf(m)) \in Nat
  <2>1. IsFiniteSet(X) /\ X \subseteq DOMAIN m /\ X \subseteq DOMAIN n
    BY FS_Subset
  <2>2. \A t \in X : AmountOf(m)[t] \in Nat
    BY DEF AmountOf
  <2>3. \A t \in X : n[t].amount = m[t].amount
    OBVIOUS
  <2> QED BY <2>1, <2>2, <2>3, ColumnSame, TotalNat
<1>2. /\ {t \in S : n[t].debit = a} = {t \in S : m[t].debit = a}
      /\ {t \in S : n[t].credit = a} = {t \in S : m[t].credit = a}
  OBVIOUS
<1>3. {t \in S : m[t].debit = a} \in SUBSET S /\ {t \in S : m[t].credit = a} \in SUBSET S
  OBVIOUS
<1> QED BY <1>1, <1>2, <1>3 DEF DebitSum, CreditSum

\* The sums of a stage that gains record x.
LEMMA StageGains ==
  ASSUME NEW S, NEW x, x \notin S, NEW T, T = S \cup {x},
         NEW m, NEW n, Holds(m, S), Holds(n, T), Unaltered(m, n, S), NEW a
  PROVE  /\ DebitSum(n, T, a) = DebitSum(m, S, a) + At(n[x].debit = a, n[x].amount)
         /\ CreditSum(n, T, a) = CreditSum(m, S, a) + At(n[x].credit = a, n[x].amount)
<1> USE DEF Holds, Unaltered
<1>1. ASSUME NEW X \in SUBSET S, NEW Y, Y = X \cup {x}
      PROVE  Total(Y, AmountOf(n)) = Total(X, AmountOf(m)) + n[x].amount
  <2>1. IsFiniteSet(X) /\ x \notin X /\ X \subseteq DOMAIN m /\ Y \subseteq DOMAIN n
    BY <1>1, FS_Subset
  <2>2. (\A t \in X : n[t].amount = m[t].amount) /\ (\A t \in Y : n[t].amount \in Nat)
    BY <1>1
  <2> QED BY <1>1, <2>1, <2>2, ColumnGains
<1>2. ASSUME NEW X \in SUBSET S
      PROVE  Total(X, AmountOf(n)) = Total(X, AmountOf(m)) /\ Total(X, AmountOf(m)) \in Nat
  <2>1. IsFiniteSet(X) /\ X \subseteq DOMAIN m /\ X \subseteq DOMAIN n
    BY FS_Subset
  <2>2. \A t \in X : AmountOf(m)[t] \in Nat
    BY DEF AmountOf
  <2>3. \A t \in X : n[t].amount = m[t].amount
    OBVIOUS
  <2> QED BY <2>1, <2>2, <2>3, ColumnSame, TotalNat
<1>3. DebitSum(n, T, a) = DebitSum(m, S, a) + At(n[x].debit = a, n[x].amount)
  <2>1. PICK X \in SUBSET S : X = {t \in S : m[t].debit = a}
    OBVIOUS
  <2>2. PICK Y : Y = {t \in T : n[t].debit = a}
    OBVIOUS
  <2>3. Y = IF n[x].debit = a THEN X \cup {x} ELSE X
    BY <2>1, <2>2
  <2>4. Total(Y, AmountOf(n)) = Total(X, AmountOf(m)) + At(n[x].debit = a, n[x].amount)
    BY <1>1, <1>2, <2>3 DEF At
  <2> QED BY <2>1, <2>2, <2>4 DEF DebitSum
<1>4. CreditSum(n, T, a) = CreditSum(m, S, a) + At(n[x].credit = a, n[x].amount)
  <2>1. PICK X \in SUBSET S : X = {t \in S : m[t].credit = a}
    OBVIOUS
  <2>2. PICK Y : Y = {t \in T : n[t].credit = a}
    OBVIOUS
  <2>3. Y = IF n[x].credit = a THEN X \cup {x} ELSE X
    BY <2>1, <2>2
  <2>4. Total(Y, AmountOf(n)) = Total(X, AmountOf(m)) + At(n[x].credit = a, n[x].amount)
    BY <1>1, <1>2, <2>3 DEF At
  <2> QED BY <2>1, <2>2, <2>4 DEF CreditSum
<1> QED BY <1>3, <1>4

\* The sums of a stage that loses record x.
LEMMA StageLoses ==
  ASSUME NEW S, NEW x \in S, NEW T, T = S \ {x},
         NEW m, NEW n, Holds(m, S), Holds(n, T), Unaltered(m, n, T), NEW a
  PROVE  /\ DebitSum(n, T, a) = DebitSum(m, S, a) + At(m[x].debit = a, 0 - m[x].amount)
         /\ CreditSum(n, T, a) = CreditSum(m, S, a) + At(m[x].credit = a, 0 - m[x].amount)
         /\ m[x].debit = a => m[x].amount <= DebitSum(m, S, a)
         /\ m[x].credit = a => m[x].amount <= CreditSum(m, S, a)
<1> USE DEF Holds, Unaltered
<1>1. ASSUME NEW X \in SUBSET S, NEW Y, Y = X \ {x}
      PROVE  /\ Total(Y, AmountOf(n)) =
                  Total(X, AmountOf(m)) + At(x \in X, 0 - m[x].amount)
             /\ x \in X => m[x].amount <= Total(X, AmountOf(m))
  <2>1. IsFiniteSet(X) /\ X \subseteq DOMAIN m /\ Y \subseteq DOMAIN n
    BY <1>1, FS_Subset
  <2>2. (\A t \in Y : n[t].amount = m[t].amount) /\ (\A t \in X : m[t].amount \in Nat)
    BY <1>1
  <2>3. Total(X, AmountOf(m)) \in Nat /\ m[x].amount \in Nat
    <3>1. \A t \in X : AmountOf(m)[t] \in Nat
      BY DEF AmountOf
    <3> QED BY <2>1, <3>1, TotalNat
  <2>4. CASE x \in X
    <3>1. /\ Total(Y, AmountOf(n)) = Total(X, AmountOf(m)) - m[x].amount
          /\ m[x].amount <= Total(X, AmountOf(m))
      BY <1>1, <2>1, <2>2, <2>4, ColumnLoses
    <3> QED BY <2>3, <2>4, <3>1 DEF At
  <2>5. CASE x \notin X
    <3>1. Y = X
      BY <1>1, <2>5
    <3> QED BY <2>1, <2>2, <2>3, <2>5, <3>1, ColumnSame DEF At
  <2> QED BY <2>4, <2>5
<1>2. /\ DebitSum(n, T, a) = DebitSum(m, S, a) + At(m[x].debit = a, 0 - m[x].amount)
      /\ m[x].debit = a => m[x].amount <= DebitSum(m, S, a)
  <2>1. PICK X \in SUBSET S : X = {t \in S : m[t].debit = a}
    OBVIOUS
  <2>2. PICK Y : Y = {t \in T : n[t].debit = a}
    OBVIOUS
  <2>3. Y = X \ {x} /\ (x \in X <=> m[x].debit = a)
    BY <2>1, <2>2
  <2> QED BY <1>1, <2>1, <2>2, <2>3 DEF DebitSum, At
<1>3. /\ CreditSum(n, T, a) = CreditSum(m, S, a) + At(m[x].credit = a, 0 - m[x].amount)
      /\ m[x].credit = a => m[x].amount <= CreditSum(m, S, a)
  <2>1. PICK X \in SUBSET S : X = {t \in S : m[t].credit = a}
    OBVIOUS
  <2>2. PICK Y : Y = {t \in T : n[t].credit = a}
    OBVIOUS
  <2>3. Y = X \ {x} /\ (x \in X <=> m[x].credit = a)
    BY <2>1, <2>2
  <2> QED BY <1>1, <2>1, <2>2, <2>3 DEF CreditSum, At
<1> QED BY <1>2, <1>3

-----------------------------------------------------------------------------
(* One step moves the same amounts on the accounts and in the sums: p in   *)
(* the pending columns and q in the posted ones, of the debit account dr   *)
(* and the credit account cr.                                              *)

BooksMove(dr, cr, p, q) ==
  /\ DOMAIN accounts' = DOMAIN accounts
  /\ dr \in DOMAIN accounts /\ cr \in DOMAIN accounts
  /\ p \in Int /\ q \in Int
  /\ \A a \in DOMAIN accounts :
       /\ accounts'[a].debitsPending = accounts[a].debitsPending + At(dr = a, p)
       /\ accounts'[a].debitsPosted = accounts[a].debitsPosted + At(dr = a, q)
       /\ accounts'[a].creditsPending = accounts[a].creditsPending + At(cr = a, p)
       /\ accounts'[a].creditsPosted = accounts[a].creditsPosted + At(cr = a, q)

SumsMove(dr, cr, p, q) ==
  \A a \in AccountIDs :
    /\ DebitSum(transfers', OpenIn(transfers'), a) =
         DebitSum(transfers, OpenIn(transfers), a) + At(dr = a, p)
    /\ DebitSum(transfers', PostedIn(transfers'), a) =
         DebitSum(transfers, PostedIn(transfers), a) + At(dr = a, q)
    /\ CreditSum(transfers', OpenIn(transfers'), a) =
         CreditSum(transfers, OpenIn(transfers), a) + At(cr = a, p)
    /\ CreditSum(transfers', PostedIn(transfers'), a) =
         CreditSum(transfers, PostedIn(transfers), a) + At(cr = a, q)

BothMove == \E dr, cr, p, q : BooksMove(dr, cr, p, q) /\ SumsMove(dr, cr, p, q)

Replays(acc, m) ==
  \A a \in DOMAIN acc :
    /\ acc[a].debitsPending = DebitSum(m, OpenIn(m), a)
    /\ acc[a].creditsPending = CreditSum(m, OpenIn(m), a)
    /\ acc[a].debitsPosted = DebitSum(m, PostedIn(m), a)
    /\ acc[a].creditsPosted = CreditSum(m, PostedIn(m), a)

\* The maps are finite: they start empty and grow by one entry at a time.
MapsFinite == IsFiniteSet(DOMAIN accounts) /\ IsFiniteSet(DOMAIN transfers)

\* What makes BooksBalance inductive, beside LedgerInv.
BooksInv == MapsFinite /\ BooksBalance

\* The replay, in terms of the sums above.
LEMMA ReplayForm ==
  /\ BalancesReplayTransfers <=> Replays(accounts, transfers)
  /\ BalancesReplayTransfers' <=> Replays(accounts', transfers')
BY DEF BalancesReplayTransfers, Replays, DebitSum, CreditSum, OpenIn, PostedIn, Amount,
       AmountOf, In

\* The stages are finite sets of records with natural amounts.
LEMMA StagesFinite ==
  ASSUME TypeOK, MapsFinite
  PROVE  /\ Holds(transfers, OpenIn(transfers)) /\ Holds(transfers, PostedIn(transfers))
         /\ Holds(transfers, DOMAIN transfers)
<1>1. OpenIn(transfers) \subseteq DOMAIN transfers /\ PostedIn(transfers) \subseteq DOMAIN transfers
  BY DEF OpenIn, PostedIn
<1>2. \A t \in DOMAIN transfers : transfers[t].amount \in Nat
  BY LedgerAssumption DEF TypeOK, Transfer, U64
<1> QED BY <1>1, <1>2, FS_Subset DEF MapsFinite, Holds

\* Transfer and PendingTransfer add their amount to one stage.
LEMMA AddsSums ==
  ASSUME TypeOK, MapsFinite, NEW id, NEW r, Adds(id, r)
  PROVE  SumsMove(r.debit, r.credit, At(r.pending, r.amount), At(~r.pending, r.amount))
<1>1. PICK m, n : m = transfers /\ n = transfers'
  OBVIOUS
<1>2. /\ DOMAIN n = DOMAIN m \cup {id} /\ id \notin DOMAIN m /\ n[id] = r
      /\ \A t \in DOMAIN m : n[t] = m[t]
      /\ r \in Transfer /\ ~r.resolved
  BY <1>1, AddsFacts DEF Adds, OthersKept
<1>3. /\ Holds(m, OpenIn(m)) /\ Holds(m, PostedIn(m))
      /\ Unaltered(m, n, OpenIn(m)) /\ Unaltered(m, n, PostedIn(m))
  BY <1>1, <1>2, StagesFinite DEF Holds, Unaltered
<1>4. r.amount \in Nat /\ r.pending \in BOOLEAN
  BY <1>2, LedgerAssumption DEF Transfer, U64
<1>5. /\ OpenIn(n) = IF r.pending THEN OpenIn(m) \cup {id} ELSE OpenIn(m)
      /\ PostedIn(n) = IF r.pending THEN PostedIn(m) ELSE PostedIn(m) \cup {id}
  BY <1>2, <1>4 DEF OpenIn, PostedIn, Open, Posted
<1>6. ASSUME NEW S, Holds(m, S), Unaltered(m, n, S), NEW a, NEW T, T = S \cup {id}
      PROVE  /\ DebitSum(n, S, a) = DebitSum(m, S, a) /\ DebitSum(m, S, a) \in Nat
             /\ CreditSum(n, S, a) = CreditSum(m, S, a) /\ CreditSum(m, S, a) \in Nat
             /\ DebitSum(n, T, a) = DebitSum(m, S, a) + At(r.debit = a, r.amount)
             /\ CreditSum(n, T, a) = CreditSum(m, S, a) + At(r.credit = a, r.amount)
  <2>1. Holds(n, S) /\ Holds(n, T) /\ id \notin S
    BY <1>2, <1>4, <1>6, FS_AddElement DEF Holds, Unaltered
  <2>2. /\ DebitSum(n, S, a) = DebitSum(m, S, a) /\ DebitSum(m, S, a) \in Nat
        /\ CreditSum(n, S, a) = CreditSum(m, S, a) /\ CreditSum(m, S, a) \in Nat
    BY <1>6, <2>1, StageSame
  <2>3. /\ DebitSum(n, T, a) = DebitSum(m, S, a) + At(n[id].debit = a, n[id].amount)
        /\ CreditSum(n, T, a) = CreditSum(m, S, a) + At(n[id].credit = a, n[id].amount)
    BY <1>6, <2>1, StageGains
  <2> QED BY <1>2, <2>2, <2>3
<1>7. ASSUME NEW a \in AccountIDs
      PROVE  /\ DebitSum(n, OpenIn(n), a) =
                  DebitSum(m, OpenIn(m), a) + At(r.debit = a, At(r.pending, r.amount))
             /\ DebitSum(n, PostedIn(n), a) =
                  DebitSum(m, PostedIn(m), a) + At(r.debit = a, At(~r.pending, r.amount))
             /\ CreditSum(n, OpenIn(n), a) =
                  CreditSum(m, OpenIn(m), a) + At(r.credit = a, At(r.pending, r.amount))
             /\ CreditSum(n, PostedIn(n), a) =
                  CreditSum(m, PostedIn(m), a) + At(r.credit = a, At(~r.pending, r.amount))
  <2>1. CASE r.pending
    <3>1. OpenIn(n) = OpenIn(m) \cup {id} /\ PostedIn(n) = PostedIn(m)
      BY <1>5, <2>1
    <3>2. /\ DebitSum(n, OpenIn(n), a) = DebitSum(m, OpenIn(m), a) + At(r.debit = a, r.amount)
          /\ CreditSum(n, OpenIn(n), a) = CreditSum(m, OpenIn(m), a) + At(r.credit = a, r.amount)
      BY <1>3, <1>6, <3>1
    <3>3. /\ DebitSum(n, PostedIn(n), a) = DebitSum(m, PostedIn(m), a) + 0
          /\ CreditSum(n, PostedIn(n), a) = CreditSum(m, PostedIn(m), a) + 0
      <4>1. PICK T : T = PostedIn(m) \cup {id}
        OBVIOUS
      <4> QED BY <1>3, <1>6, <3>1, <4>1
    <3>4. At(r.pending, r.amount) = r.amount /\ At(~r.pending, r.amount) = 0
      BY <2>1 DEF At
    <3>5. \A c : At(c, 0) = 0
      BY DEF At
    <3> QED BY <3>2, <3>3, <3>4, <3>5
  <2>2. CASE ~r.pending
    <3>1. OpenIn(n) = OpenIn(m) /\ PostedIn(n) = PostedIn(m) \cup {id}
      BY <1>5, <2>2
    <3>2. /\ DebitSum(n, PostedIn(n), a) = DebitSum(m, PostedIn(m), a) + At(r.debit = a, r.amount)
          /\ CreditSum(n, PostedIn(n), a) =
               CreditSum(m, PostedIn(m), a) + At(r.credit = a, r.amount)
      BY <1>3, <1>6, <3>1
    <3>3. /\ DebitSum(n, OpenIn(n), a) = DebitSum(m, OpenIn(m), a) + 0
          /\ CreditSum(n, OpenIn(n), a) = CreditSum(m, OpenIn(m), a) + 0
      <4>1. PICK T : T = OpenIn(m) \cup {id}
        OBVIOUS
      <4> QED BY <1>3, <1>6, <3>1, <4>1
    <3>4. At(r.pending, r.amount) = 0 /\ At(~r.pending, r.amount) = r.amount
      BY <2>2 DEF At
    <3>5. \A c : At(c, 0) = 0
      BY DEF At
    <3> QED BY <3>2, <3>3, <3>4, <3>5
  <2> QED BY <2>1, <2>2
<1> QED BY <1>1, <1>7 DEF SumsMove

\* A void takes the amount of the pending out of the open stage.
LEMMA VoidsSums ==
  ASSUME TypeOK, MapsFinite, NEW p, NEW code, Voids(p, code)
  PROVE  SumsMove(transfers[p].debit, transfers[p].credit, 0 - transfers[p].amount, 0)
<1>1. PICK m, n : m = transfers /\ n = transfers'
  OBVIOUS
<1>2. /\ DOMAIN n = DOMAIN m /\ p \in DOMAIN m
      /\ \A t \in DOMAIN m : t # p => n[t] = m[t]
      /\ Open(m[p]) /\ Voided(n[p])
  BY <1>1, VoidsFacts DEF OthersKept
<1>3. /\ OpenIn(n) = OpenIn(m) \ {p} /\ PostedIn(n) = PostedIn(m)
      /\ p \in OpenIn(m) /\ p \notin PostedIn(m)
  BY <1>2 DEF OpenIn, PostedIn, Open, Posted, Voided
<1>4. Holds(m, OpenIn(m)) /\ Holds(m, PostedIn(m))
  BY <1>1, StagesFinite
<1>5. /\ Holds(n, OpenIn(n)) /\ Unaltered(m, n, OpenIn(n))
      /\ Holds(n, PostedIn(m)) /\ Unaltered(m, n, PostedIn(m))
  BY <1>2, <1>3, <1>4, FS_Subset DEF Holds, Unaltered
<1>6. ASSUME NEW a \in AccountIDs
      PROVE  /\ DebitSum(n, OpenIn(n), a) =
                  DebitSum(m, OpenIn(m), a) + At(m[p].debit = a, 0 - m[p].amount)
             /\ CreditSum(n, OpenIn(n), a) =
                  CreditSum(m, OpenIn(m), a) + At(m[p].credit = a, 0 - m[p].amount)
  BY <1>3, <1>4, <1>5, StageLoses
<1>7. ASSUME NEW a \in AccountIDs
      PROVE  /\ DebitSum(n, PostedIn(n), a) = DebitSum(m, PostedIn(m), a) + At(m[p].debit = a, 0)
             /\ CreditSum(n, PostedIn(n), a) = CreditSum(m, PostedIn(m), a) + At(m[p].credit = a, 0)
  <2>1. /\ DebitSum(n, PostedIn(m), a) = DebitSum(m, PostedIn(m), a)
        /\ DebitSum(m, PostedIn(m), a) \in Nat
        /\ CreditSum(n, PostedIn(m), a) = CreditSum(m, PostedIn(m), a)
        /\ CreditSum(m, PostedIn(m), a) \in Nat
    BY <1>4, <1>5, StageSame
  <2> QED BY <1>3, <2>1 DEF At
<1> QED BY <1>1, <1>6, <1>7 DEF SumsMove

\* A capture, under either id, takes the reservation out of the open stage
\* and adds what was captured to the posted one.
LEMMA CaptureSums ==
  ASSUME TypeOK, MapsFinite, NEW p, NEW q, NEW amt,
         (PostsInPlace(p, amt) /\ q = p) \/ PostsBeside(p, q, amt)
  PROVE  SumsMove(transfers[p].debit, transfers[p].credit, 0 - transfers[p].amount, amt)
<1>1. PICK m, n : m = transfers /\ n = transfers'
  OBVIOUS
<1>2. /\ DOMAIN n = DOMAIN m \cup {q} /\ p \in DOMAIN m
      /\ \A t \in DOMAIN m : t # p => n[t] = m[t]
      /\ Open(m[p]) /\ (q # p => Captured(n[p]) /\ q \notin DOMAIN m)
      /\ Posted(n[q]) /\ n[q].amount = amt /\ amt \in U64
      /\ n[q].debit = m[p].debit /\ n[q].credit = m[p].credit
  <2>1. CASE PostsInPlace(p, amt) /\ q = p
    <3>1. /\ p \in DOMAIN transfers /\ Open(transfers[p]) /\ DOMAIN transfers' = DOMAIN transfers
          /\ Posted(transfers'[p]) /\ transfers'[p].amount = amt
          /\ SameParties(p, p) /\ OthersKept(p)
      BY <2>1, PostsInPlaceFacts
    <3>2. amt \in U64 /\ q = p
      BY <2>1 DEF PostsInPlace
    <3>3. DOMAIN n = DOMAIN m \cup {q} /\ n[q] = transfers'[p]
      BY <1>1, <3>1, <3>2
    <3>4. \A t \in DOMAIN m : t # p => n[t] = m[t]
      BY <1>1, <3>1 DEF OthersKept
    <3>5. /\ Posted(n[q]) /\ n[q].amount = amt
          /\ n[q].debit = m[p].debit /\ n[q].credit = m[p].credit
      BY <1>1, <3>1, <3>3 DEF SameParties
    <3> QED BY <1>1, <3>1, <3>2, <3>3, <3>4, <3>5
  <2>2. CASE PostsBeside(p, q, amt)
    <3>1. /\ p \in DOMAIN transfers /\ Open(transfers[p]) /\ q \notin DOMAIN transfers
          /\ DOMAIN transfers' = DOMAIN transfers \cup {q} /\ Captured(transfers'[p])
          /\ Posted(transfers'[q]) /\ transfers'[q].amount = amt
          /\ SameParties(q, p) /\ OthersKept(p)
      BY <2>2, PostsBesideFacts
    <3>2. amt \in U64
      BY <2>2 DEF PostsBeside
    <3> QED BY <1>1, <3>1, <3>2 DEF OthersKept, SameParties
  <2> QED BY <2>1, <2>2
<1>3. amt \in Nat
  BY <1>2, LedgerAssumption DEF U64
<1>4. /\ OpenIn(n) = OpenIn(m) \ {p} /\ PostedIn(n) = PostedIn(m) \cup {q}
      /\ p \in OpenIn(m) /\ p \notin PostedIn(m) /\ q \notin PostedIn(m)
  BY <1>2 DEF OpenIn, PostedIn, Open, Posted, Captured
<1>5. Holds(m, OpenIn(m)) /\ Holds(m, PostedIn(m))
  BY <1>1, StagesFinite
<1>6. Holds(n, OpenIn(n)) /\ Unaltered(m, n, OpenIn(n))
  BY <1>2, <1>4, <1>5, FS_Subset DEF Holds, Unaltered
<1>7. Holds(n, PostedIn(n)) /\ Unaltered(m, n, PostedIn(m))
  BY <1>2, <1>3, <1>4, <1>5, FS_AddElement DEF Holds, Unaltered
<1>8. ASSUME NEW a \in AccountIDs
      PROVE  /\ DebitSum(n, OpenIn(n), a) =
                  DebitSum(m, OpenIn(m), a) + At(m[p].debit = a, 0 - m[p].amount)
             /\ CreditSum(n, OpenIn(n), a) =
                  CreditSum(m, OpenIn(m), a) + At(m[p].credit = a, 0 - m[p].amount)
  BY <1>4, <1>5, <1>6, StageLoses
<1>9. ASSUME NEW a \in AccountIDs
      PROVE  /\ DebitSum(n, PostedIn(n), a) = DebitSum(m, PostedIn(m), a) + At(m[p].debit = a, amt)
             /\ CreditSum(n, PostedIn(n), a) =
                  CreditSum(m, PostedIn(m), a) + At(m[p].credit = a, amt)
  <2>1. /\ DebitSum(n, PostedIn(n), a) =
             DebitSum(m, PostedIn(m), a) + At(n[q].debit = a, n[q].amount)
        /\ CreditSum(n, PostedIn(n), a) =
             CreditSum(m, PostedIn(m), a) + At(n[q].credit = a, n[q].amount)
    BY <1>4, <1>5, <1>7, StageGains
  <2> QED BY <1>2, <2>1
<1> QED BY <1>1, <1>8, <1>9 DEF SumsMove

-----------------------------------------------------------------------------
(* The accounts' side of each step.                                        *)

\* checkConstraints refuses what would wrap a balance.
LEMMA NoOverflow ==
  ASSUME NEW a \in Account, NEW dp \in U64, NEW d \in U64, NEW cp \in U64, NEW c \in U64,
         checkConstraints(a, dp, d, cp, c) = "ok"
  PROVE  /\ Plus(a.debitsPending, dp) = a.debitsPending + dp
         /\ Plus(a.debitsPosted, d) = a.debitsPosted + d
         /\ Plus(a.creditsPending, cp) = a.creditsPending + cp
         /\ Plus(a.creditsPosted, c) = a.creditsPosted + c
<1>1. ASSUME NEW x \in U64, NEW y \in U64, ~(Plus(x, y) < x) PROVE Plus(x, y) = x + y
  BY <1>1, LedgerAssumption DEF Plus, U64
<1>2. /\ a.debitsPending \in U64 /\ a.debitsPosted \in U64
      /\ a.creditsPending \in U64 /\ a.creditsPosted \in U64
  BY DEF Account
<1>3. /\ ~(Plus(a.debitsPending, dp) < a.debitsPending)
      /\ ~(Plus(a.debitsPosted, d) < a.debitsPosted)
      /\ ~(Plus(a.creditsPending, cp) < a.creditsPending)
      /\ ~(Plus(a.creditsPosted, c) < a.creditsPosted)
  BY DEF checkConstraints
<1> QED BY <1>1, <1>2, <1>3

\* The debit side of an account moves by p and q, the credit side not at all.
DebitSide(a, u, p, q) ==
  /\ u.debitsPending = a.debitsPending + p /\ u.debitsPosted = a.debitsPosted + q
  /\ u.creditsPending = a.creditsPending /\ u.creditsPosted = a.creditsPosted

CreditSide(a, v, p, q) ==
  /\ v.creditsPending = a.creditsPending + p /\ v.creditsPosted = a.creditsPosted + q
  /\ v.debitsPending = a.debitsPending /\ v.debitsPosted = a.debitsPosted

\* Two such writes move the books.
LEMMA TwoWritesMove ==
  ASSUME TypeOK, NEW dr \in DOMAIN accounts, NEW cr \in DOMAIN accounts, dr # cr,
         NEW p \in Int, NEW q \in Int, NEW u, NEW v,
         DebitSide(accounts[dr], u, p, q), CreditSide(accounts[cr], v, p, q),
         accounts' = [accounts EXCEPT ![dr] = u, ![cr] = v]
  PROVE  BooksMove(dr, cr, p, q)
<1>1. \A a \in DOMAIN accounts :
        /\ accounts[a].debitsPending \in Int /\ accounts[a].debitsPosted \in Int
        /\ accounts[a].creditsPending \in Int /\ accounts[a].creditsPosted \in Int
  BY LedgerAssumption DEF TypeOK, Account, U64
<1>2. DOMAIN accounts' = DOMAIN accounts
  OBVIOUS
<1>3. ASSUME NEW a \in DOMAIN accounts
      PROVE  /\ accounts'[a].debitsPending = accounts[a].debitsPending + At(dr = a, p)
             /\ accounts'[a].debitsPosted = accounts[a].debitsPosted + At(dr = a, q)
             /\ accounts'[a].creditsPending = accounts[a].creditsPending + At(cr = a, p)
             /\ accounts'[a].creditsPosted = accounts[a].creditsPosted + At(cr = a, q)
  <2>1. CASE a = dr
    <3>1. accounts'[a] = u
      BY <2>1
    <3> QED BY <1>1, <2>1, <3>1 DEF DebitSide, At
  <2>2. CASE a = cr
    <3>1. accounts'[a] = v
      BY <2>2
    <3> QED BY <1>1, <2>2, <3>1 DEF CreditSide, At
  <2>3. CASE a # dr /\ a # cr
    <3>1. accounts'[a] = accounts[a]
      BY <2>3
    <3> QED BY <1>1, <2>3, <3>1 DEF At
  <2> QED BY <2>1, <2>2, <2>3
<1> QED BY <1>2, <1>3 DEF BooksMove

\* An open reservation is held in the pending columns of its two accounts, so
\* that releasing it does not wrap.
LEMMA ReservationHeld ==
  ASSUME LedgerInv, BooksInv, NEW p \in DOMAIN transfers, Open(transfers[p])
  PROVE  /\ transfers[p].amount <= accounts[transfers[p].debit].debitsPending
         /\ transfers[p].amount <= accounts[transfers[p].credit].creditsPending
<1>1. TypeOK /\ MapsFinite /\ Replays(accounts, transfers)
  BY ReplayForm DEF LedgerInv, BooksInv, BooksBalance
<1>2. p \in OpenIn(transfers) /\ Holds(transfers, OpenIn(transfers))
  BY <1>1, StagesFinite DEF OpenIn
<1>3. PICK T : T = OpenIn(transfers) \ {p}
  OBVIOUS
<1>4. Holds(transfers, T) /\ Unaltered(transfers, transfers, T)
  BY <1>2, <1>3, FS_Subset DEF Holds, Unaltered
<1>5. PICK m, dr, cr : m = transfers /\ dr = m[p].debit /\ cr = m[p].credit
  OBVIOUS
<1>6. /\ m[p].debit = dr => m[p].amount <= DebitSum(m, OpenIn(m), dr)
      /\ m[p].credit = cr => m[p].amount <= CreditSum(m, OpenIn(m), cr)
  BY <1>2, <1>3, <1>4, <1>5, StageLoses
<1>7. dr \in DOMAIN accounts /\ cr \in DOMAIN accounts
  BY <1>5 DEF LedgerInv, PartiesExist
<1> QED BY <1>1, <1>5, <1>6, <1>7 DEF Replays

\* Transfer posts its amount.
LEMMA TransferMoves ==
  ASSUME LedgerInv, BooksInv, NEW id \in TransferIDs, NEW r \in Request, DoTransfer(id, r)
  PROVE  BothMove
<1>1. TypeOK /\ MapsFinite
  BY DEF LedgerInv, BooksInv
<1>2. /\ id \notin DOMAIN transfers /\ validateParties(r) = "ok"
      /\ checkConstraints(accounts[r.debit], 0, r.amount, 0, 0) = "ok"
      /\ checkConstraints(accounts[r.credit], 0, 0, 0, r.amount) = "ok"
  BY DEF DoTransfer, TransferCode, FirstFailure
<1>3. /\ r.debit \in DOMAIN accounts /\ r.credit \in DOMAIN accounts /\ r.debit # r.credit
      /\ accounts[r.debit] \in Account /\ accounts[r.credit] \in Account
  BY <1>1, <1>2, AdmittedParties DEF TypeOK
<1>4. r.amount \in U64 /\ 0 \in U64 /\ r.amount \in Nat
  <2>1. r.amount \in U64
    BY LedgerAssumption DEF Request
  <2> QED BY <2>1, LedgerAssumption DEF U64
<1>5. Adds(id, Record(r, FALSE, 0))
  BY <1>2, AdmittedParties, LedgerAssumption
     DEF DoTransfer, Adds, Record, Transfer, Request
<1>6. SumsMove(r.debit, r.credit, 0, r.amount)
  <2>1. PICK rec : rec = Record(r, FALSE, 0)
    OBVIOUS
  <2>2. /\ rec.debit = r.debit /\ rec.credit = r.credit
        /\ At(rec.pending, rec.amount) = 0 /\ At(~rec.pending, rec.amount) = r.amount
    BY <2>1 DEF Record, At
  <2> QED BY <1>1, <1>5, <2>1, <2>2, AddsSums
<1>7. PICK u, v : u = PostDebit(accounts[r.debit], r.amount)
                  /\ v = PostCredit(accounts[r.credit], r.amount)
  OBVIOUS
<1>8. accounts' = [accounts EXCEPT ![r.debit] = u, ![r.credit] = v]
  BY <1>3, <1>7 DEF DoTransfer
<1>9. DebitSide(accounts[r.debit], u, 0, r.amount)
  <2>1. Plus(accounts[r.debit].debitsPosted, r.amount) = accounts[r.debit].debitsPosted + r.amount
    BY <1>2, <1>3, <1>4, NoOverflow
  <2> QED BY <1>3, <1>7, <2>1, LedgerAssumption DEF DebitSide, PostDebit, Account, U64
<1>10. CreditSide(accounts[r.credit], v, 0, r.amount)
  <2>1. Plus(accounts[r.credit].creditsPosted, r.amount)
          = accounts[r.credit].creditsPosted + r.amount
    BY <1>2, <1>3, <1>4, NoOverflow
  <2> QED BY <1>3, <1>7, <2>1, LedgerAssumption DEF CreditSide, PostCredit, Account, U64
<1>11. BooksMove(r.debit, r.credit, 0, r.amount)
  <2>1. PICK dr, cr, n, z : dr = r.debit /\ cr = r.credit /\ n = r.amount /\ z = 0
    OBVIOUS
  <2>2. /\ dr \in DOMAIN accounts /\ cr \in DOMAIN accounts /\ dr # cr
        /\ z \in Int /\ n \in Int
        /\ accounts' = [accounts EXCEPT ![dr] = u, ![cr] = v]
        /\ DebitSide(accounts[dr], u, z, n) /\ CreditSide(accounts[cr], v, z, n)
    BY <1>3, <1>4, <1>8, <1>9, <1>10, <2>1
  <2>3. BooksMove(dr, cr, z, n)
    BY <1>1, <2>2, TwoWritesMove
  <2> QED BY <2>1, <2>3
<1> QED BY <1>6, <1>11 DEF BothMove

\* PendingTransfer reserves its amount.
LEMMA PendingMoves ==
  ASSUME LedgerInv, BooksInv, NEW id \in TransferIDs, NEW r \in Request,
         NEW timeout \in Timeouts, PendingTransfer(id, r, timeout)
  PROVE  BothMove
<1>1. TypeOK /\ MapsFinite
  BY DEF LedgerInv, BooksInv
<1>2. /\ id \notin DOMAIN transfers /\ validateParties(r) = "ok"
      /\ checkConstraints(accounts[r.debit], r.amount, 0, 0, 0) = "ok"
      /\ checkConstraints(accounts[r.credit], 0, 0, r.amount, 0) = "ok"
  BY DEF PendingTransfer, PendingTransferCode, FirstFailure
<1>3. /\ r.debit \in DOMAIN accounts /\ r.credit \in DOMAIN accounts /\ r.debit # r.credit
      /\ accounts[r.debit] \in Account /\ accounts[r.credit] \in Account
  BY <1>1, <1>2, AdmittedParties DEF TypeOK
<1>4. r.amount \in U64 /\ 0 \in U64 /\ r.amount \in Nat
  <2>1. r.amount \in U64
    BY LedgerAssumption DEF Request
  <2> QED BY <2>1, LedgerAssumption DEF U64
<1>5. PICK exp : exp = IF timeout > 0 THEN clock + timeout ELSE 0
  OBVIOUS
<1>6. exp \in Nat
  BY <1>1, <1>5, LedgerAssumption DEF TypeOK
<1>7. Adds(id, Record(r, TRUE, exp))
  BY <1>2, <1>5, <1>6, AdmittedParties, LedgerAssumption
     DEF PendingTransfer, Adds, Record, Transfer, Request
<1>8. SumsMove(r.debit, r.credit, r.amount, 0)
  <2>1. PICK rec : rec = Record(r, TRUE, exp)
    OBVIOUS
  <2>2. /\ rec.debit = r.debit /\ rec.credit = r.credit
        /\ At(rec.pending, rec.amount) = r.amount /\ At(~rec.pending, rec.amount) = 0
    BY <2>1 DEF Record, At
  <2> QED BY <1>1, <1>7, <2>1, <2>2, AddsSums
<1>9. PICK u, v : u = ReserveDebit(accounts[r.debit], r.amount)
                  /\ v = ReserveCredit(accounts[r.credit], r.amount)
  OBVIOUS
<1>10. accounts' = [accounts EXCEPT ![r.debit] = u, ![r.credit] = v]
  BY <1>3, <1>9 DEF PendingTransfer
<1>11. DebitSide(accounts[r.debit], u, r.amount, 0)
  <2>1. Plus(accounts[r.debit].debitsPending, r.amount)
          = accounts[r.debit].debitsPending + r.amount
    BY <1>2, <1>3, <1>4, NoOverflow
  <2> QED BY <1>3, <1>9, <2>1, LedgerAssumption DEF DebitSide, ReserveDebit, Account, U64
<1>12. CreditSide(accounts[r.credit], v, r.amount, 0)
  <2>1. Plus(accounts[r.credit].creditsPending, r.amount)
          = accounts[r.credit].creditsPending + r.amount
    BY <1>2, <1>3, <1>4, NoOverflow
  <2> QED BY <1>3, <1>9, <2>1, LedgerAssumption DEF CreditSide, ReserveCredit, Account, U64
<1>13. BooksMove(r.debit, r.credit, r.amount, 0)
  <2>1. PICK dr, cr, n, z : dr = r.debit /\ cr = r.credit /\ n = r.amount /\ z = 0
    OBVIOUS
  <2>2. /\ dr \in DOMAIN accounts /\ cr \in DOMAIN accounts /\ dr # cr
        /\ z \in Int /\ n \in Int
        /\ accounts' = [accounts EXCEPT ![dr] = u, ![cr] = v]
        /\ DebitSide(accounts[dr], u, n, z) /\ CreditSide(accounts[cr], v, n, z)
    BY <1>3, <1>4, <1>10, <1>11, <1>12, <2>1
  <2>3. BooksMove(dr, cr, n, z)
    BY <1>1, <2>2, TwoWritesMove
  <2> QED BY <2>1, <2>3
<1> QED BY <1>8, <1>13 DEF BothMove

\* What an open reservation names, and what releasing it does.
LEMMA ReleaseExact ==
  ASSUME LedgerInv, BooksInv, NEW p \in DOMAIN transfers, Open(transfers[p]),
         NEW dr, NEW cr, NEW n,
         dr = transfers[p].debit, cr = transfers[p].credit, n = transfers[p].amount
  PROVE  /\ dr \in DOMAIN accounts /\ cr \in DOMAIN accounts /\ dr # cr
         /\ accounts[dr] \in Account /\ accounts[cr] \in Account
         /\ n \in U64 /\ n \in Nat
         /\ ReleaseDebit(accounts[dr], n) \in Account
         /\ ReleaseCredit(accounts[cr], n) \in Account
         /\ DebitSide(accounts[dr], ReleaseDebit(accounts[dr], n), 0 - n, 0)
         /\ CreditSide(accounts[cr], ReleaseCredit(accounts[cr], n), 0 - n, 0)
<1>1. TypeOK
  BY DEF LedgerInv
<1>2. /\ dr \in DOMAIN accounts /\ cr \in DOMAIN accounts /\ dr # cr
      /\ accounts[dr] \in Account /\ accounts[cr] \in Account
  BY <1>1 DEF LedgerInv, PartiesExist, TypeOK
<1>3. n \in U64 /\ n \in Nat
  BY <1>1, LedgerAssumption DEF TypeOK, Transfer, U64
<1>4. n <= accounts[dr].debitsPending /\ n <= accounts[cr].creditsPending
  BY ReservationHeld
<1>5. /\ ReleaseDebit(accounts[dr], n) \in Account
      /\ ReleaseCredit(accounts[cr], n) \in Account
  BY <1>2, <1>3, AccountWrites DEF Rebalanced
<1>6. DebitSide(accounts[dr], ReleaseDebit(accounts[dr], n), 0 - n, 0)
  BY <1>2, <1>3, <1>4, LedgerAssumption DEF DebitSide, ReleaseDebit, Minus, Account, U64
<1>7. CreditSide(accounts[cr], ReleaseCredit(accounts[cr], n), 0 - n, 0)
  BY <1>2, <1>3, <1>4, LedgerAssumption DEF CreditSide, ReleaseCredit, Minus, Account, U64
<1> QED BY <1>2, <1>3, <1>5, <1>6, <1>7

\* A void, and the sweep's, releases the reservation.
LEMMA VoidMoves ==
  ASSUME LedgerInv, BooksInv, NEW p, NEW code, Voids(p, code), ReleaseReservation(p)
  PROVE  BothMove
<1>1. TypeOK /\ MapsFinite /\ p \in DOMAIN transfers /\ Open(transfers[p])
  BY DEF LedgerInv, BooksInv, Voids
<1>2. PICK dr, cr, n : /\ dr = transfers[p].debit /\ cr = transfers[p].credit
                       /\ n = transfers[p].amount
  OBVIOUS
<1>3. /\ dr \in DOMAIN accounts /\ cr \in DOMAIN accounts /\ dr # cr /\ n \in Nat
      /\ DebitSide(accounts[dr], ReleaseDebit(accounts[dr], n), 0 - n, 0)
      /\ CreditSide(accounts[cr], ReleaseCredit(accounts[cr], n), 0 - n, 0)
  BY <1>1, <1>2, ReleaseExact
<1>4. SumsMove(dr, cr, 0 - n, 0)
  BY <1>1, <1>2, VoidsSums
<1>5. PICK u, v, k : /\ u = ReleaseDebit(accounts[dr], n) /\ v = ReleaseCredit(accounts[cr], n)
                     /\ k = 0 - n
  OBVIOUS
<1>6. accounts' = [accounts EXCEPT ![dr] = u, ![cr] = v]
  BY <1>2, <1>3, <1>5 DEF ReleaseReservation
<1>7. k \in Int /\ 0 \in Int
  BY <1>3, <1>5
<1>8. BooksMove(dr, cr, k, 0)
  BY <1>1, <1>3, <1>5, <1>6, <1>7, TwoWritesMove
<1> QED BY <1>4, <1>5, <1>8 DEF BothMove

\* A capture releases the reservation and posts what was captured.
LEMMA CaptureMoves ==
  ASSUME LedgerInv, BooksInv, NEW p, NEW q, NEW amt,
         (PostsInPlace(p, amt) /\ q = p) \/ PostsBeside(p, q, amt),
         CaptureBalances(p, amt),
         checkConstraints(ReleaseDebit(accounts[transfers[p].debit], transfers[p].amount),
                          0, amt, 0, 0) = "ok",
         checkConstraints(ReleaseCredit(accounts[transfers[p].credit], transfers[p].amount),
                          0, 0, 0, amt) = "ok"
  PROVE  BothMove
<1>1. /\ TypeOK /\ MapsFinite /\ p \in DOMAIN transfers /\ Open(transfers[p])
      /\ amt \in U64 /\ amt \in Nat /\ 0 \in U64
  BY LedgerAssumption DEF LedgerInv, BooksInv, PostsInPlace, PostsBeside, U64
<1>2. PICK dr, cr, n : /\ dr = transfers[p].debit /\ cr = transfers[p].credit
                       /\ n = transfers[p].amount
  OBVIOUS
<1>3. PICK x, y : x = ReleaseDebit(accounts[dr], n) /\ y = ReleaseCredit(accounts[cr], n)
  OBVIOUS
<1>4. /\ dr \in DOMAIN accounts /\ cr \in DOMAIN accounts /\ dr # cr /\ n \in Nat
      /\ x \in Account /\ y \in Account
      /\ DebitSide(accounts[dr], x, 0 - n, 0) /\ CreditSide(accounts[cr], y, 0 - n, 0)
      /\ accounts[dr] \in Account /\ accounts[cr] \in Account
  BY <1>1, <1>2, <1>3, ReleaseExact
<1>5. SumsMove(dr, cr, 0 - n, amt)
  BY <1>1, <1>2, CaptureSums
<1>6. PICK u, v, k : u = PostDebit(x, amt) /\ v = PostCredit(y, amt) /\ k = 0 - n
  OBVIOUS
<1>7. accounts' = [accounts EXCEPT ![dr] = u, ![cr] = v]
  BY <1>2, <1>3, <1>4, <1>6 DEF CaptureBalances
<1>8. /\ Plus(x.debitsPosted, amt) = x.debitsPosted + amt
      /\ Plus(y.creditsPosted, amt) = y.creditsPosted + amt
  <2>1. /\ checkConstraints(x, 0, amt, 0, 0) = "ok"
        /\ checkConstraints(y, 0, 0, 0, amt) = "ok"
    BY <1>2, <1>3
  <2> QED BY <1>1, <1>4, <2>1, NoOverflow
<1>9. DebitSide(accounts[dr], u, k, amt)
  BY <1>1, <1>4, <1>6, <1>8, LedgerAssumption DEF DebitSide, PostDebit, Account, U64
<1>10. CreditSide(accounts[cr], v, k, amt)
  BY <1>1, <1>4, <1>6, <1>8, LedgerAssumption DEF CreditSide, PostCredit, Account, U64
<1>11. k \in Int /\ amt \in Int
  BY <1>1, <1>4, <1>6
<1>12. BooksMove(dr, cr, k, amt)
  BY <1>1, <1>4, <1>7, <1>9, <1>10, <1>11, TwoWritesMove
<1> QED BY <1>5, <1>6, <1>12 DEF BothMove

-----------------------------------------------------------------------------
\* The total of a column over the accounts moves with the one account it
\* moves on.
LEMMA ColumnTotal ==
  ASSUME NEW D, IsFiniteSet(D), NEW x \in D, NEW k \in Int, NEW f, NEW g,
         \A a \in D : f[a] \in Nat, \A a \in D : g[a] \in Nat,
         \A a \in D : g[a] = f[a] + At(x = a, k)
  PROVE  Total(D, g) = Total(D, f) + k
<1>1. PICK E : E = D \ {x}
  OBVIOUS
<1>2. IsFiniteSet(E) /\ E \subseteq D
  BY <1>1, FS_Subset
<1>3. Total(D, f) = f[x] + Total(E, f) /\ Total(D, g) = g[x] + Total(E, g)
  BY <1>1, TotalSplit
<1>4. \A a \in E : g[a] = f[a]
  BY <1>1 DEF At
<1>5. Total(E, g) = Total(E, f)
  BY <1>2, <1>4, TotalSame
<1>6. Total(E, f) \in Nat
  BY <1>2, TotalNat
<1>7. g[x] = f[x] + k
  BY DEF At
<1> QED BY <1>3, <1>5, <1>6, <1>7

\* A step that moves accounts and sums alike keeps the books balanced.
LEMMA MovesBalance ==
  ASSUME LedgerInv, TypeOK', BooksInv, BothMove
  PROVE  BooksBalance'
<1>1. PICK dr, cr, p, q : BooksMove(dr, cr, p, q) /\ SumsMove(dr, cr, p, q)
  BY DEF BothMove
<1>2. Replays(accounts, transfers) /\ DOMAIN accounts \subseteq AccountIDs
  BY ReplayForm DEF BooksInv, BooksBalance, LedgerInv, TypeOK
<1>3. Replays(accounts', transfers')
  BY <1>1, <1>2 DEF Replays, BooksMove, SumsMove
<1>4. PICK D : D = DOMAIN accounts
  OBVIOUS
<1>5. D = DOMAIN accounts' /\ IsFiniteSet(D) /\ dr \in D /\ cr \in D /\ p \in Int /\ q \in Int
  BY <1>1, <1>4 DEF BooksMove, BooksInv, MapsFinite
<1>6. \A a \in D : /\ accounts[a].debitsPending \in Nat /\ accounts[a].debitsPosted \in Nat
                   /\ accounts[a].creditsPending \in Nat /\ accounts[a].creditsPosted \in Nat
  BY <1>4, LedgerAssumption DEF LedgerInv, TypeOK, Account, U64
<1>7. \A a \in D : /\ accounts'[a].debitsPending \in Nat /\ accounts'[a].debitsPosted \in Nat
                   /\ accounts'[a].creditsPending \in Nat /\ accounts'[a].creditsPosted \in Nat
  BY <1>5, LedgerAssumption DEF TypeOK, Account, U64
<1>8. PICK f1, f2, f3, f4 :
        /\ f1 = [a \in D |-> accounts[a].debitsPending]
        /\ f2 = [a \in D |-> accounts[a].creditsPending]
        /\ f3 = [a \in D |-> accounts[a].debitsPosted]
        /\ f4 = [a \in D |-> accounts[a].creditsPosted]
  OBVIOUS
<1>9. PICK g1, g2, g3, g4 :
        /\ g1 = [a \in D |-> accounts'[a].debitsPending]
        /\ g2 = [a \in D |-> accounts'[a].creditsPending]
        /\ g3 = [a \in D |-> accounts'[a].debitsPosted]
        /\ g4 = [a \in D |-> accounts'[a].creditsPosted]
  OBVIOUS
<1>10. Total(D, f1) = Total(D, f2) /\ Total(D, f3) = Total(D, f4)
  BY <1>4, <1>8 DEF BooksInv, BooksBalance, DoubleEntry
<1>11. /\ \A a \in D : f1[a] \in Nat /\ f2[a] \in Nat /\ f3[a] \in Nat /\ f4[a] \in Nat
       /\ \A a \in D : g1[a] \in Nat /\ g2[a] \in Nat /\ g3[a] \in Nat /\ g4[a] \in Nat
  BY <1>6, <1>7, <1>8, <1>9
<1>12. /\ \A a \in D : g1[a] = f1[a] + At(dr = a, p)
       /\ \A a \in D : g2[a] = f2[a] + At(cr = a, p)
       /\ \A a \in D : g3[a] = f3[a] + At(dr = a, q)
       /\ \A a \in D : g4[a] = f4[a] + At(cr = a, q)
  BY <1>1, <1>4, <1>8, <1>9 DEF BooksMove
<1>13. Total(D, g1) = Total(D, f1) + p
  BY <1>5, <1>11, <1>12, ColumnTotal
<1>14. Total(D, g2) = Total(D, f2) + p
  BY <1>5, <1>11, <1>12, ColumnTotal
<1>15. Total(D, g3) = Total(D, f3) + q
  BY <1>5, <1>11, <1>12, ColumnTotal
<1>16. Total(D, g4) = Total(D, f4) + q
  BY <1>5, <1>11, <1>12, ColumnTotal
<1>17. Total(D, g1) = Total(D, g2) /\ Total(D, g3) = Total(D, g4)
  BY <1>10, <1>13, <1>14, <1>15, <1>16
<1>18. DoubleEntry'
  BY <1>5, <1>9, <1>17 DEF DoubleEntry
<1> QED BY <1>3, <1>18, ReplayForm DEF BooksBalance

\* A new account starts with empty columns, and no transfer names it yet.
LEMMA CreationBalances ==
  ASSUME LedgerInv, TypeOK', BooksInv, transfers' = transfers,
         NEW id, id \notin DOMAIN accounts, NEW acc,
         acc.debitsPending = 0, acc.debitsPosted = 0,
         acc.creditsPending = 0, acc.creditsPosted = 0,
         accounts' = Put(accounts, id, acc)
  PROVE  BooksBalance' /\ IsFiniteSet(DOMAIN accounts')
<1>1. PICK D, E : D = DOMAIN accounts /\ E = DOMAIN accounts'
  OBVIOUS
<1>2. /\ E = D \cup {id} /\ id \notin D /\ E \ {id} = D
      /\ accounts'[id] = acc /\ \A a \in D : accounts'[a] = accounts[a]
  BY <1>1 DEF Put
<1>3. IsFiniteSet(D) /\ IsFiniteSet(E)
  BY <1>1, <1>2, FS_AddElement DEF BooksInv, MapsFinite
<1>4. Replays(accounts', transfers')
  <2>1. Replays(accounts, transfers)
    BY ReplayForm DEF BooksInv, BooksBalance
  <2>2. ASSUME NEW S, S \subseteq DOMAIN transfers
        PROVE  DebitSum(transfers, S, id) = 0 /\ CreditSum(transfers, S, id) = 0
    <3>1. {t \in S : transfers[t].debit = id} = {} /\ {t \in S : transfers[t].credit = id} = {}
      BY <2>2 DEF LedgerInv, PartiesExist
    <3> QED BY <3>1, TotalEmpty DEF DebitSum, CreditSum
  <2>3. OpenIn(transfers) \subseteq DOMAIN transfers /\ PostedIn(transfers) \subseteq DOMAIN transfers
    BY DEF OpenIn, PostedIn
  <2> QED BY <1>1, <1>2, <2>1, <2>2, <2>3 DEF Replays
<1>5. \A a \in D : /\ accounts[a].debitsPending \in Nat /\ accounts[a].debitsPosted \in Nat
                   /\ accounts[a].creditsPending \in Nat /\ accounts[a].creditsPosted \in Nat
  BY <1>1, LedgerAssumption DEF LedgerInv, TypeOK, Account, U64
<1>6. ASSUME NEW f, NEW g, \A a \in D : f[a] \in Nat /\ g[a] = f[a], g[id] = 0
      PROVE  Total(E, g) = Total(D, f)
  <2>1. \A a \in E : g[a] \in Nat
    BY <1>2, <1>6
  <2>2. Total(E, g) = g[id] + Total(D, g)
    BY <1>2, <1>3, <2>1, TotalSplit
  <2>3. Total(D, g) = Total(D, f) /\ Total(D, f) \in Nat
    BY <1>3, <1>6, TotalSame, TotalNat
  <2> QED BY <1>6, <2>2, <2>3
<1>7. PICK f1, f2, f3, f4 :
        /\ f1 = [a \in D |-> accounts[a].debitsPending]
        /\ f2 = [a \in D |-> accounts[a].creditsPending]
        /\ f3 = [a \in D |-> accounts[a].debitsPosted]
        /\ f4 = [a \in D |-> accounts[a].creditsPosted]
  OBVIOUS
<1>8. PICK g1, g2, g3, g4 :
        /\ g1 = [a \in E |-> accounts'[a].debitsPending]
        /\ g2 = [a \in E |-> accounts'[a].creditsPending]
        /\ g3 = [a \in E |-> accounts'[a].debitsPosted]
        /\ g4 = [a \in E |-> accounts'[a].creditsPosted]
  OBVIOUS
<1>9. Total(D, f1) = Total(D, f2) /\ Total(D, f3) = Total(D, f4)
  BY <1>1, <1>7 DEF BooksInv, BooksBalance, DoubleEntry
<1>10. /\ \A a \in D : f1[a] \in Nat /\ g1[a] = f1[a]
       /\ \A a \in D : f2[a] \in Nat /\ g2[a] = f2[a]
       /\ \A a \in D : f3[a] \in Nat /\ g3[a] = f3[a]
       /\ \A a \in D : f4[a] \in Nat /\ g4[a] = f4[a]
       /\ g1[id] = 0 /\ g2[id] = 0 /\ g3[id] = 0 /\ g4[id] = 0
  BY <1>2, <1>5, <1>7, <1>8
<1>11. /\ Total(E, g1) = Total(D, f1) /\ Total(E, g2) = Total(D, f2)
       /\ Total(E, g3) = Total(D, f3) /\ Total(E, g4) = Total(D, f4)
  BY <1>6, <1>10
<1>12. DoubleEntry'
  BY <1>1, <1>8, <1>9, <1>11 DEF DoubleEntry
<1> QED BY <1>1, <1>3, <1>4, <1>12, ReplayForm DEF BooksBalance

\* Every step keeps the books.
LEMMA BooksStep ==
  ASSUME LedgerInv, LedgerInv', BooksInv, [Next]_vars
  PROVE  BooksInv'
<1>1. TypeOK /\ TypeOK' /\ MapsFinite
  BY DEF LedgerInv, BooksInv
<1>2. IsFiniteSet(DOMAIN transfers')
  <2>1. PICK D, E : D = DOMAIN transfers /\ E = DOMAIN transfers'
    OBVIOUS
  <2>2. IsFiniteSet(D)
    BY <1>1, <2>1 DEF MapsFinite
  <2>3. E = D \/ \E x : E = D \cup {x}
    <3>1. StepShape
      BY StepHasShape
    <3> QED BY <1>1, <2>1, <3>1, AddsFacts, PostsInPlaceFacts, PostsBesideFacts, VoidsFacts
         DEF StepShape
  <2>4. \A x : IsFiniteSet(D \cup {x})
    BY <2>2, FS_AddElement
  <2>5. IsFiniteSet(E)
    BY <2>2, <2>3, <2>4
  <2> QED BY <2>1, <2>5
<1>3. ASSUME BothMove PROVE BooksInv'
  <2>1. BooksBalance'
    BY <1>1, <1>3, MovesBalance
  <2>2. DOMAIN accounts' = DOMAIN accounts
    BY <1>3 DEF BothMove, BooksMove
  <2> QED BY <1>1, <1>2, <2>1, <2>2 DEF BooksInv, MapsFinite
<1>4. ASSUME UNCHANGED <<accounts, transfers>> PROVE BooksInv'
  <2>1. BalancesReplayTransfers'
    BY <1>4, ReplayForm DEF BooksInv, BooksBalance
  <2>2. DoubleEntry'
    BY <1>4 DEF BooksInv, BooksBalance, DoubleEntry
  <2>3. MapsFinite'
    BY <1>1, <1>4 DEF MapsFinite
  <2> QED BY <2>1, <2>2, <2>3 DEF BooksInv, BooksBalance
<1>5. ASSUME NEW id \in AccountIDs, NEW l \in Ledgers, NEW c \in Codes,
             NEW f \in FlagSets, CreateAccounts(id, l, c, f)
      PROVE  BooksInv'
  <2>1. PICK acc : acc = NewAccount(l, c, f)
    OBVIOUS
  <2>2. /\ acc.debitsPending = 0 /\ acc.debitsPosted = 0
        /\ acc.creditsPending = 0 /\ acc.creditsPosted = 0
    BY <2>1 DEF NewAccount
  <2>3. /\ transfers' = transfers /\ accounts' = Put(accounts, id, acc)
        /\ id \notin DOMAIN accounts
    BY <1>5, <2>1 DEF CreateAccounts, CreateAccountsCode
  <2>4. BooksBalance' /\ IsFiniteSet(DOMAIN accounts')
    BY <1>1, <2>2, <2>3, CreationBalances
  <2> QED BY <1>2, <2>4 DEF BooksInv, MapsFinite
<1>6. ASSUME NEW id \in TransferIDs, NEW r \in Request, DoTransfer(id, r)
      PROVE  BooksInv'
  BY <1>3, <1>6, TransferMoves
<1>7. ASSUME NEW id \in TransferIDs, NEW r \in Request, NEW timeout \in Timeouts,
             PendingTransfer(id, r, timeout)
      PROVE  BooksInv'
  BY <1>3, <1>7, PendingMoves
<1>8. ASSUME NEW p \in TransferIDs, NEW amount \in Amounts, NEW code,
             PostPending(p, amount, code)
      PROVE  BooksInv'
  <2>1. /\ p \in DOMAIN transfers /\ Open(transfers[p])
        /\ CaptureCode(p, amount) = "ok"
    BY <1>8 DEF PostPending, PostPendingCode
  <2>2. PICK amt : amt = CaptureAmount(p, amount)
    OBVIOUS
  <2>3. PostsInPlace(p, amt) /\ CaptureBalances(p, amt)
    BY <1>1, <1>8, <2>1, <2>2, CaptureAmountType DEF PostPending, PostsInPlace
  <2>4. /\ checkConstraints(ReleaseDebit(accounts[transfers[p].debit], transfers[p].amount),
                            0, amt, 0, 0) = "ok"
        /\ checkConstraints(ReleaseCredit(accounts[transfers[p].credit], transfers[p].amount),
                            0, 0, 0, amt) = "ok"
    BY <2>1, <2>2 DEF CaptureCode, FirstFailure
  <2> QED BY <1>3, <2>3, <2>4, CaptureMoves
<1>9. ASSUME NEW p \in TransferIDs, NEW q \in TransferIDs, NEW amount \in Amounts, NEW code,
             PostPendingAs(p, q, amount, code)
      PROVE  BooksInv'
  <2>1. /\ p \in DOMAIN transfers /\ Open(transfers[p]) /\ q \notin DOMAIN transfers
        /\ CaptureCode(p, amount) = "ok"
    BY <1>9 DEF PostPendingAs, PostPendingAsCode
  <2>2. PICK amt : amt = CaptureAmount(p, amount)
    OBVIOUS
  <2>3. PostsBeside(p, q, amt) /\ CaptureBalances(p, amt)
    BY <1>1, <1>9, <2>1, <2>2, CaptureAmountType DEF PostPendingAs, PostsBeside
  <2>4. /\ checkConstraints(ReleaseDebit(accounts[transfers[p].debit], transfers[p].amount),
                            0, amt, 0, 0) = "ok"
        /\ checkConstraints(ReleaseCredit(accounts[transfers[p].credit], transfers[p].amount),
                            0, 0, 0, amt) = "ok"
    BY <2>1, <2>2 DEF CaptureCode, FirstFailure
  <2> QED BY <1>3, <2>3, <2>4, CaptureMoves
<1>10. ASSUME NEW p \in TransferIDs, NEW code, VoidPending(p, code) PROVE BooksInv'
  <2>1. p \in DOMAIN transfers /\ Open(transfers[p])
    BY <1>10 DEF VoidPending, VoidPendingCode
  <2>2. Voids(p, transfers[p].code) /\ ReleaseReservation(p)
    BY <1>1, <1>10, <2>1 DEF VoidPending, Voids, TypeOK, Transfer
  <2> QED BY <1>3, <2>2, VoidMoves
<1>11. ASSUME NEW p \in TransferIDs, ExpireOne(p) PROVE BooksInv'
  <2>1. p \in DOMAIN transfers /\ Open(transfers[p])
    BY <1>11 DEF ExpireOne, LedgerInv, SweepsOpenPendings
  <2>2. Voids(p, CodeVoid) /\ ReleaseReservation(p)
    BY <1>11, <2>1 DEF ExpireOne, Voids, CodeVoid
  <2> QED BY <1>3, <2>2, VoidMoves
<1>12. CASE (\E ns \in Namespaces : NextSerial(ns)) \/ BeginSweep \/ Tick \/ UNCHANGED vars
  BY <1>4, <1>12 DEF NextSerial, BeginSweep, Tick, vars
<1> QED BY <1>5, <1>6, <1>7, <1>8, <1>9, <1>10, <1>11, <1>12 DEF Next

\* The books balance in every reachable state: the balances of every account
\* are the replay of the transfers, no uint64 addition or subtraction of a
\* method ever wraps, and over the ledger debits equal credits.
THEOREM BooksAlwaysBalance == Spec => []BooksBalance
<1>1. Init => BooksInv
  <2>1. SUFFICES ASSUME Init PROVE BooksInv
    OBVIOUS
  <2>2. DOMAIN accounts = {} /\ DOMAIN transfers = {}
    BY <2>1 DEF Init
  <2>3. MapsFinite
    BY <2>2, FS_EmptySet DEF MapsFinite
  <2>4. BooksBalance
    BY <2>2, TotalEmpty DEF BooksBalance, BalancesReplayTransfers, DoubleEntry
  <2> QED BY <2>3, <2>4 DEF BooksInv
<1>2. LedgerInv /\ LedgerInv' /\ BooksInv /\ [Next]_vars => BooksInv'
  BY BooksStep
<1>3. BooksInv => BooksBalance
  BY DEF BooksInv
<1> QED BY <1>1, <1>2, <1>3, LedgerInvariant, PTL DEF Spec
=============================================================================
