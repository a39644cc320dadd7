------------------------------- MODULE KeyCache -------------------------------
(***************************************************************************)
(* The caches of Keycloak's signing keys: the verifier of the services     *)
(* (packages/events/auth/keycloak.go) and that of the console              *)
(* (services/admin-api/keycloak.go).  Signature, issuer, audience and      *)
(* expiry of a token are checked after its key is found and are taken to   *)
(* be in order here; every token names its key, as Keycloak's do.          *)
(*                                                                         *)
(* A refresh fetches the key set without a lock, so an older set may       *)
(* arrive after a newer one.  The services' verifier looks a key up under  *)
(* a lock and then reads the time of the last fetch without it.            *)
(***************************************************************************)
EXTENDS Integers, FiniteSets

CONSTANTS
  Kids,      \* names of keys; Keycloak publishes them in turn
  Checks,    \* verifications, each made once
  TTL,       \* age at which the services refresh, the console may
  MaxClock, MaxFaults \* bounds of the instance

Parameters == TTL \in Nat

Verifiers == {"service", "console"}
Published == -1
Future == -2

VARIABLES
  verifier, \* which of the two this is
  realm,    \* kid -> Future, Published, or the time it was withdrawn
  keys,     \* cached kids
  fetchedAt,\* time of the last refresh
  check,    \* verification -> its local state
  clock, faults,
  disturbed \* verifications during which a fetch failed or another one refreshed

vars == <<verifier, realm, keys, fetchedAt, check, clock, faults, disturbed>>

New == [pc |-> "new"]
Verdict(c, accepted) == [pc |-> "done", kid |-> check[c].kid, accepted |-> accepted,
                        at |-> check[c].at]
Goto(c, pc) == check' = [check EXCEPT ![c].pc = pc]
UnderWay == {c \in Checks : check[c].pc \notin {"new", "done"}}
Valid == {k \in Kids : realm[k] = Published}

-----------------------------------------------------------------------------
(* Keycloak (external): a key is added, a key is withdrawn.                *)

Add(k) ==
  /\ realm[k] = Future
  /\ realm' = [realm EXCEPT ![k] = Published]
  /\ UNCHANGED <<verifier, keys, fetchedAt, check, clock, faults, disturbed>>

Withdraw(k) ==
  /\ k \in Valid /\ Cardinality(Valid) > 1
  /\ realm' = [realm EXCEPT ![k] = clock]
  /\ UNCHANGED <<verifier, keys, fetchedAt, check, clock, faults, disturbed>>

-----------------------------------------------------------------------------
(* A verification.                                                         *)

\* The lookup in keyFor, or in verifyJWT of the console, which reads the age
\* of the set with it and does not refresh for a key it knows.
Lookup(c, kid) ==
  LET found == kid \in keys
  IN  /\ check[c] = New
      /\ kid \in Valid \cup keys
      /\ check' = [check EXCEPT ![c] =
           IF verifier = "service" THEN [pc |-> "age", kid |-> kid, found |-> found, at |-> clock]
           ELSE IF found \/ clock - fetchedAt <= TTL
           THEN [pc |-> "done", kid |-> kid, accepted |-> found, at |-> clock]
           ELSE [pc |-> "fetch", kid |-> kid, found |-> found, at |-> clock]]
      /\ UNCHANGED <<verifier, realm, keys, fetchedAt, clock, faults, disturbed>>

\* keyFor: a known key of a fresh set will do.
Age(c) ==
  /\ check[c].pc = "age"
  /\ IF check[c].found /\ clock - fetchedAt < TTL
       THEN check' = [check EXCEPT ![c] = Verdict(c, TRUE)]
       ELSE Goto(c, "fetch")
  /\ UNCHANGED <<verifier, realm, keys, fetchedAt, clock, faults, disturbed>>

\* refresh, up to the lock.
Fetch(c) ==
  /\ check[c].pc = "fetch"
  /\ check' = [check EXCEPT ![c] = [pc |-> "install", kid |-> check[c].kid, doc |-> Valid,
                                    at |-> check[c].at]]
  /\ UNCHANGED <<verifier, realm, keys, fetchedAt, clock, faults, disturbed>>

\* Nothing usable came back: the services look into the old set once more,
\* the console refuses.
FetchFails(c) ==
  /\ check[c].pc = "fetch"
  /\ faults < MaxFaults
  /\ faults' = faults + 1
  /\ disturbed' = disturbed \cup {c}
  /\ IF verifier = "service" THEN Goto(c, "again")
                             ELSE check' = [check EXCEPT ![c] = Verdict(c, FALSE)]
  /\ UNCHANGED <<verifier, realm, keys, fetchedAt, clock>>

\* Slip: the keys that came are added to the ones that are there.
Merged(doc) == keys \cup doc

\* The set is replaced as a whole.
Replaced(doc) == doc

Install(c) ==
  /\ check[c].pc = "install"
  /\ keys' = Replaced(check[c].doc)
  /\ fetchedAt' = clock
  /\ disturbed' = disturbed \cup (UnderWay \ {c})
                    \cup IF check[c].doc = Valid THEN {} ELSE Checks
  /\ Goto(c, "again")
  /\ UNCHANGED <<verifier, realm, clock, faults>>

\* The second lookup.
Again(c) ==
  /\ check[c].pc = "again"
  /\ check' = [check EXCEPT ![c] = Verdict(c, check[c].kid \in keys)]
  /\ UNCHANGED <<verifier, realm, keys, fetchedAt, clock, faults, disturbed>>

Tick ==
  /\ clock < MaxClock
  /\ clock' = clock + 1
  /\ UNCHANGED <<verifier, realm, keys, fetchedAt, check, faults, disturbed>>

-----------------------------------------------------------------------------
\* The console fetches the set before it serves, the services at first use.
Init ==
  /\ verifier \in Verifiers
  /\ \E k \in Kids : realm = [j \in Kids |-> IF j = k THEN Published ELSE Future]
  /\ keys = IF verifier = "console" THEN Valid ELSE {}
  /\ fetchedAt = IF verifier = "console" THEN 0 ELSE -TTL - 1
  /\ check = [c \in Checks |-> New]
  /\ clock = 0 /\ faults = 0 /\ disturbed = {}

Next ==
  \/ \E k \in Kids : Add(k) \/ Withdraw(k)
  \/ \E c \in Checks : \/ \E k \in Kids : Lookup(c, k)
                       \/ Age(c) \/ Fetch(c) \/ FetchFails(c) \/ Install(c) \/ Again(c)
  \/ Tick

Spec == Init /\ [][Next]_vars

-----------------------------------------------------------------------------
Judged(c, accepted) == check[c].pc = "done" /\ check[c].accepted = accepted

\* The services trust a key for TTL after Keycloak has withdrawn it, and no
\* longer (keycloak.go:51, the mandated 5-minute JWKS cache), and they refuse
\* no key that is published; at is when a verification began.  Apart from
\* verifications during which a fetch failed, or whose key set another one
\* replaced or brought late.
KeysFollowRealm ==
  verifier = "service" =>
    \A c \in Checks \ disturbed :
      LET state == realm[check[c].kid]
      IN  /\ Judged(c, TRUE) => state \in {Published, Future} \/ check[c].at - state <= TTL
          /\ Judged(c, FALSE) => state # Published

\* Why that is so.  Unless a set came late, in which case every verification
\* is disturbed, a cached key was published at the last fetch.  And while
\* nobody else replaces the set, a verification finds in it what it found
\* before, or what it has fetched.
Shaped(me) ==
  /\ me.pc \in {"new", "age", "fetch", "install", "again", "done"}
  /\ me.pc # "new" =>
       me.kid \in Kids /\ realm[me.kid] # Future /\ me.at \in Nat /\ me.at <= clock
  /\ me.pc \in {"age", "fetch"} =>
       me = [pc |-> me.pc, kid |-> me.kid, found |-> me.found, at |-> me.at]
  /\ me.pc = "install" =>
       me = [pc |-> me.pc, kid |-> me.kid, doc |-> me.doc, at |-> me.at] /\ me.doc \subseteq Kids
  /\ me.pc = "install" => \A k \in me.doc : realm[k] # Future
CacheTypes ==
  /\ verifier \in Verifiers /\ clock \in Nat /\ fetchedAt \in Int /\ fetchedAt <= clock
  /\ realm \in [Kids -> Nat \cup {Published, Future}]
  /\ keys \subseteq Kids /\ \A k \in keys : realm[k] # Future
  /\ DOMAIN check = Checks /\ \A c \in Checks : Shaped(check[c])
CachedWasPublished ==
  ~ Checks \subseteq disturbed => \A k \in keys : realm[k] = Published \/ realm[k] >= fetchedAt
FindsItAgain ==
  verifier = "service" =>
    \A c \in Checks \ disturbed :
      /\ check[c].pc = "age" /\ check[c].found => check[c].kid \in keys
      /\ check[c].pc = "again" =>
           /\ fetchedAt >= check[c].at
           /\ realm[check[c].kid] = Published => check[c].kid \in keys
CacheInv == CacheTypes /\ CachedWasPublished /\ FindsItAgain /\ KeysFollowRealm

\* Known not to hold: the console, too, stops trusting a withdrawn key.  It
\* refreshes for keys it does not know only.
ConsoleForgets ==
  verifier = "console" =>
    \A c \in Checks \ disturbed :
      Judged(c, TRUE) => realm[check[c].kid] = Published \/ check[c].at - realm[check[c].kid] <= TTL
=============================================================================
