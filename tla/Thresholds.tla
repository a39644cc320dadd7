------------------------------ MODULE Thresholds ------------------------------
(***************************************************************************)
(* The ledger's threshold reports (services/ledger/thresholds.go and       *)
(* checkThresholds of main.go): currency transaction reports, reviews near *)
(* the threshold, and the alert on payments split to stay below it.        *)
(*                                                                         *)
(* Observe reads the clock before it takes the lock, so observations enter *)
(* the window in another order than their times.  The windows are in       *)
(* memory; an event that the outbox does not take is only logged.          *)
(***************************************************************************)
EXTENDS Integers, Sequences, FiniteSets, FiniteSetsExt

CONSTANTS
  Accounts, Observers,
  Amounts,          \* amounts of transfers
  ctrThreshold, nearThreshold,
  structuringWindow, \* in ticks
  MaxObserved, MaxClock, MaxMishaps \* bounds of the instance

Parameters == structuringWindow \in Nat

Never == -1

VARIABLES
  windows,  \* account -> recent transfers below the threshold, [nr, at, amount]
  flagged,  \* account -> time of its last alert, or Never
  observer, \* thread -> its local state
  outbox,   \* set of the events taken, [type, account, at]
  clock, observed, mishaps,
  seen,     \* observations below the threshold since the start, in the order of the lock
  excused   \* accounts with an event lost or an overtaken observer

vars == <<windows, flagged, observer, outbox, clock, observed, mishaps, seen, excused>>

Idle == [pc |-> "idle"]
Event(type, o) == [type |-> type, account |-> observer[o].account, at |-> observer[o].now]

\* The order of a window is never looked at; numbers tell its entries apart.
Within(now, entries) == {e \in entries : now - e.at <= structuringWindow}

\* Slip: an entry as old as the window is dropped.
PrunedStrictly(now, entries) == {e \in entries : now - e.at < structuringWindow}

Pruned(now, entries) == Within(now, entries)
Total(entries) == MapThenSumSet(LAMBDA e : e.amount, entries)
Splits(entries) == Cardinality(entries) >= 3 /\ Total(entries) >= ctrThreshold

\* The single-transfer rules; a transfer at the threshold is reported and
\* takes no part in the statistics.
Begin(o, a, amount) ==
  /\ observer[o] = Idle
  /\ observed < MaxObserved
  /\ observed' = observed + 1
  /\ observer' = [observer EXCEPT ![o] =
       IF amount >= ctrThreshold
         THEN [pc |-> "emit", account |-> a, now |-> clock, types |-> {"ctr"}]
         ELSE [pc |-> "lock", account |-> a, now |-> clock, amount |-> amount,
               types |-> IF amount >= nearThreshold THEN {"threshold_review"} ELSE {}]]
  /\ UNCHANGED <<windows, flagged, outbox, clock, mishaps, seen, excused>>

\* An alert of the last window stands for later splits.
Deduplicated(a, now) == flagged[a] # Never /\ now - flagged[a] <= structuringWindow

\* The split rule, in one critical section.
Enter(o) ==
  LET me == observer[o]
      a == me.account
      new == [nr |-> Len(seen) + 1, at |-> me.now, amount |-> me.amount]
      kept == Pruned(me.now, windows[a]) \cup {new}
      split == Splits(kept) /\ ~Deduplicated(a, me.now)
  IN  /\ me.pc = "lock"
      /\ windows' = [windows EXCEPT ![a] = kept]
      /\ flagged' = IF split THEN [flagged EXCEPT ![a] = me.now] ELSE flagged
      /\ observer' = [observer EXCEPT ![o] =
           [pc |-> "emit", account |-> a, now |-> me.now,
            types |-> me.types \cup IF split THEN {"structuring"} ELSE {}]]
      /\ seen' = Append(seen, [account |-> a, at |-> me.now, amount |-> me.amount])
      /\ excused' = IF \E i \in DOMAIN seen : seen[i].account = a /\ seen[i].at > me.now
                      THEN excused \cup {a} ELSE excused
      /\ UNCHANGED <<outbox, clock, observed, mishaps>>

\* checkThresholds appends the events; a failure is logged and skipped.
Emit(o) ==
  /\ observer[o].pc = "emit"
  /\ observer' = [observer EXCEPT ![o] = Idle]
  /\ \/ /\ outbox' = outbox \cup {Event(type, o) : type \in observer[o].types}
        /\ UNCHANGED <<mishaps, excused>>
     \/ /\ observer[o].types # {}
        /\ mishaps < MaxMishaps /\ mishaps' = mishaps + 1
        /\ excused' = excused \cup {observer[o].account}
        /\ UNCHANGED outbox
  /\ UNCHANGED <<windows, flagged, clock, observed, seen>>

Tick ==
  /\ clock < MaxClock
  /\ clock' = clock + 1
  /\ UNCHANGED <<windows, flagged, observer, outbox, observed, mishaps, seen, excused>>

\* newThresholdTracker.
Restart ==
  /\ mishaps < MaxMishaps
  /\ mishaps' = mishaps + 1
  /\ windows' = [a \in Accounts |-> {}]
  /\ flagged' = [a \in Accounts |-> Never]
  /\ observer' = [o \in Observers |-> Idle]
  /\ seen' = <<>>
  /\ UNCHANGED <<outbox, clock, observed, excused>>

-----------------------------------------------------------------------------
Init ==
  /\ windows = [a \in Accounts |-> {}]
  /\ flagged = [a \in Accounts |-> Never]
  /\ observer = [o \in Observers |-> Idle]
  /\ outbox = {} /\ clock = 0 /\ observed = 0 /\ mishaps = 0
  /\ seen = <<>> /\ excused = {}

Next ==
  \/ \E o \in Observers :
       \/ \E a \in Accounts, amount \in Amounts : Begin(o, a, amount)
       \/ Enter(o)
       \/ Emit(o)
  \/ Tick
  \/ Restart

Spec == Init /\ [][Next]_vars

-----------------------------------------------------------------------------
\* Three payments or more of one account, each below the threshold and all
\* within one window of one process, that reach it together have an alert at
\* most one window old (thresholds.go, bank.structuring.sub-threshold-split).
\* Apart from accounts with a lost event, or an observer that was overtaken
\* between reading the clock and the lock.
Entries == [i \in DOMAIN seen |-> [nr |-> i, at |-> seen[i].at, amount |-> seen[i].amount]]
Recent ==
  [k \in DOMAIN seen |->
     Within(seen[k].at, {Entries[i] : i \in {j \in 1..k : seen[j].account = seen[k].account}})]

SplitIsFlagged ==
  \A k \in DOMAIN seen :
    Splits(Recent[k]) /\ seen[k].account \notin excused /\ (\A o \in Observers : observer[o].pc # "emit")
      => \E ev \in outbox : /\ ev.type = "structuring" /\ ev.account = seen[k].account
                            /\ seen[k].at - ev.at \in 0 .. structuringWindow

-----------------------------------------------------------------------------
(* The inductive invariant, of accounts that are not excused.              *)

\* An alert is in the outbox, or with an observer that has still to emit it.
Alerts ==
  {<<ev.account, ev.at>> : ev \in {e \in outbox : e.type = "structuring"}}
    \cup {<<observer[o].account, observer[o].now>> : o \in
            {p \in Observers : observer[p].pc = "emit" /\ "structuring" \in observer[p].types}}

\* What was observed entered in the order of its times, ...
InOrder(a) ==
  \A i, j \in DOMAIN seen : i < j /\ seen[i].account = a /\ seen[j].account = a
    => seen[i].at <= seen[j].at

\* ... a window has it until something later has pushed it out, ...
WindowFits(a) ==
  /\ \A e \in windows[a] : \E i \in DOMAIN seen : seen[i].account = a /\ e = Entries[i]
  /\ \A i \in DOMAIN seen : seen[i].account = a =>
       \/ Entries[i] \in windows[a]
       \/ \E j \in DOMAIN seen : seen[j].account = a /\ seen[j].at - seen[i].at > structuringWindow

\* ... and every split is alerted of at the time of one of them.
AlertsFit(a) ==
  /\ flagged[a] # Never => /\ \E i \in DOMAIN seen : seen[i].account = a /\ seen[i].at = flagged[a]
                           /\ <<a, flagged[a]>> \in Alerts
  /\ \A k \in DOMAIN seen : seen[k].account = a /\ Splits(Recent[k]) =>
       \E i \in DOMAIN seen : /\ seen[k].at - seen[i].at \in 0 .. structuringWindow
                              /\ <<a, seen[i].at>> \in Alerts

ObserverFits(me) ==
  /\ me.pc \in {"idle", "lock", "emit"}
  /\ me.pc = "lock" => me.amount \in Amounts
  /\ me.pc # "idle" => me.account \in Accounts /\ me.now \in Nat

ThresholdsInv ==
  /\ clock \in Nat
  /\ seen \in Seq([account : Accounts, at : Nat, amount : Amounts])
  /\ windows = [a \in Accounts |-> windows[a]] /\ flagged = [a \in Accounts |-> flagged[a]]
  /\ observer = [o \in Observers |-> observer[o]]
  /\ \A o \in Observers : ObserverFits(observer[o])
  /\ \A a \in Accounts : flagged[a] \in Nat \cup {Never}
  /\ \A a \in Accounts \ excused : InOrder(a) /\ WindowFits(a) /\ AlertsFit(a)
=============================================================================
