---------------------------- MODULE AdminSessions ----------------------------
(***************************************************************************)
(* Users and sessions of services/admin-api: handlers_admin.go, auth.go,   *)
(* store_pg.go.                                                            *)
(*                                                                         *)
(* Users live in a map behind a lock and are written through to Postgres,  *)
(* without their password (json:"-"), and read back when the process       *)
(* starts; a process without a database, which loses every user at a       *)
(* restart, is not modelled.  A session is a signed token; a change of     *)
(* password, role or status moves the user's epoch MinTokenIAT, and a      *)
(* token counts only if it was issued after the epoch.  Clocks count whole *)
(* seconds.  A login copies the user, releases the lock, and spends time   *)
(* on the password before it issues the token.                             *)
(***************************************************************************)
EXTENDS Integers, FiniteSets

CONSTANTS
  Emails,     \* e-mail addresses: keys of the user map
  Logins,     \* login requests
  Roles,      \* roles a user may be given
  TokenTTL,   \* life of a token in seconds
  MaxIds, MaxClock, MaxFaults, MaxRestarts \* bounds of the instance

\* An id is new whenever a user is: the user's e-mail and a serial.
Id(e, serial) == <<e, serial>>
NoUser == [id |-> Id("none", 0)]
NoHash == 0

Parameters == \E r \in Roles : r # "admin"

VARIABLES
  users,    \* email -> user in memory, or NoUser
  rows,     \* email -> row of admin_users, or NoUser
  tokens,   \* issued tokens
  logins,   \* login -> its local state
  clock, ids, secrets, faults, restarts,
  revoked,  \* tokens that a change of their user was to end
  unsaved   \* users whose last change did not reach Postgres

vars == <<users, rows, tokens, logins, clock, ids, secrets, faults, restarts, revoked, unsaved>>

\* json.Marshal of a User leaves the hash out.
Serialised(u) == [u EXCEPT !.hash = NoHash]

Idle == [pc |-> "idle"]
User(id, role, hash) == [id |-> id, status |-> "active", role |-> role, hash |-> hash, minIat |-> 0]

-----------------------------------------------------------------------------
(* Sessions: auth.go.                                                      *)

\* Slip: a token of the epoch's own second counts.
AtOrAfterEpoch(u, t) == u.id = t.sub /\ u.status = "active" /\ t.iat >= u.minIat

LocalSessionValid(u, t) == u.id = t.sub /\ u.status = "active" /\ t.iat > u.minIat

\* verifyJWT and localSessionValid: the user is looked up by its id, so a
\* user that is gone ends its tokens.
Accepted(t) ==
  /\ clock <= t.exp
  /\ \E e \in Emails : LocalSessionValid(users[e], t)

\* hasRole: an admin has every role.
HasRole(t, role) == t.role = role \/ t.role = "admin"

-----------------------------------------------------------------------------
(* handleLogin.                                                            *)

LoginRead(l, e, password) ==
  /\ logins[l].pc = "idle"
  /\ users[e] # NoUser /\ users[e].status = "active"
  /\ users[e].hash = password /\ users[e].hash # NoHash
  /\ logins' = [logins EXCEPT ![l] = [pc |-> "issue", user |-> users[e]]]
  /\ UNCHANGED <<users, rows, tokens, clock, ids, secrets, faults, restarts, revoked, unsaved>>

\* A token is always stamped after the epoch of the copy.
Stamp(u) == IF u.minIat >= clock THEN u.minIat + 1 ELSE clock

\* issueJWT; epoch is the epoch the login has seen.
Token(u) == [sub |-> u.id, role |-> u.role, iat |-> Stamp(u), exp |-> clock + TokenTTL,
             epoch |-> u.minIat]

LoginIssue(l) ==
  LET u == logins[l].user
  IN  /\ logins[l].pc = "issue"
      /\ tokens' = tokens \cup {Token(u)}
      /\ logins' = [logins EXCEPT ![l] = [pc |-> "done"]]
      /\ UNCHANGED <<users, rows, clock, ids, secrets, faults, restarts, revoked, unsaved>>

-----------------------------------------------------------------------------
(* Users: every change is written through, and a failed write only logged. *)

Upsert(e, u) ==
  \/ /\ rows' = [rows EXCEPT ![e] = Serialised(u)]
     /\ unsaved' = unsaved \ {u.id}
     /\ UNCHANGED faults
  \/ /\ faults < MaxFaults
     /\ faults' = faults + 1
     /\ unsaved' = unsaved \cup {u.id}
     /\ UNCHANGED rows

\* The password of a request never binds, so one is generated.
UserCreate(e, role) ==
  /\ users[e] = NoUser
  /\ ids < MaxIds
  /\ ids' = ids + 1
  /\ secrets' = secrets + 1
  /\ users' = [users EXCEPT ![e] = User(Id(e, ids + 1), role, secrets + 1)]
  /\ Upsert(e, users'[e])
  /\ UNCHANGED <<tokens, logins, clock, restarts, revoked>>

\* The tokens a change of user u in this second is to end: those that carry
\* an earlier epoch and are not stamped ahead of the clock.
Ended(u) == {t \in tokens : t.sub = u.id /\ t.iat <= clock}

\* Slip: the epoch stays.
KeepEpoch(u) == u

BumpEpoch(u) == [u EXCEPT !.minIat = clock]

\* A new role, a new status, or a new password that comes with the current one.
Changed(u) ==
  {[u EXCEPT !.role = r] : r \in Roles \ {u.role}}
    \cup {[u EXCEPT !.status = s] : s \in {"active", "disabled"} \ {u.status}}
    \cup {[u EXCEPT !.hash = h] : h \in IF u.hash = NoHash THEN {} ELSE {secrets + 1}}

UserUpdate(e) ==
  /\ users[e] # NoUser
  /\ \E u \in Changed(users[e]) :
       /\ users' = [users EXCEPT ![e] = BumpEpoch(u)]
       /\ secrets' = IF u.hash = users[e].hash THEN secrets ELSE u.hash
  /\ secrets' <= MaxIds
  /\ Upsert(e, users'[e])
  /\ revoked' = revoked \cup Ended(users[e])
  /\ UNCHANGED <<tokens, logins, clock, ids, restarts>>

\* The row stays where it is.
UserDelete(e) ==
  /\ users[e] # NoUser
  /\ users' = [users EXCEPT ![e] = NoUser]
  /\ unsaved' = unsaved \cup {users[e].id}
  /\ revoked' = revoked \cup Ended(users[e])
  /\ UNCHANGED <<rows, tokens, logins, clock, ids, secrets, faults, restarts>>

-----------------------------------------------------------------------------
Tick ==
  /\ clock < MaxClock
  /\ clock' = clock + 1
  /\ UNCHANGED <<users, rows, tokens, logins, ids, secrets, faults, restarts, revoked, unsaved>>

\* hydrate: the table is never empty again after the first start.
Restart ==
  /\ restarts < MaxRestarts
  /\ restarts' = restarts + 1
  /\ users' = rows
  /\ logins' = [l \in Logins |-> IF logins[l].pc = "issue" THEN Idle ELSE logins[l]]
  /\ UNCHANGED <<rows, tokens, clock, ids, secrets, faults, revoked, unsaved>>

\* The first start writes the seeds to the empty table.
Init ==
  /\ users = [e \in Emails |-> User(Id(e, 1), CHOOSE r \in Roles : r # "admin", 1)]
  /\ rows = [e \in Emails |-> Serialised(users[e])]
  /\ tokens = {}
  /\ logins = [l \in Logins |-> Idle]
  /\ clock = 1
  /\ ids = 1
  /\ secrets = 1
  /\ faults = 0
  /\ restarts = 0
  /\ revoked = {}
  /\ unsaved = {}

Next ==
  \/ \E l \in Logins, e \in Emails, p \in 1..MaxIds : LoginRead(l, e, p)
  \/ \E l \in Logins : LoginIssue(l)
  \/ \E e \in Emails, r \in Roles : UserCreate(e, r)
  \/ \E e \in Emails : UserUpdate(e) \/ UserDelete(e)
  \/ Tick
  \/ Restart

Spec == Init /\ [][Next]_vars

-----------------------------------------------------------------------------
\* A token that a change or a deletion of its user was to end is never
\* accepted again (handlers_admin.go:334, "previously issued JWTs die"),
\* however logins, changes and restarts follow each other.  Two cases apart:
\* a change that Postgres has not got, and tokens stamped ahead of the clock.
RevocationHolds == \A t \in revoked : Accepted(t) => t.sub \in unsaved

\* A token that carries the current epoch of an active user is accepted
\* until it expires: the strict comparison locks out nobody who has just
\* logged in (auth.go:149, "strictness is safe").
FreshTokenWorks ==
  \A t \in tokens, e \in Emails :
    /\ users[e].id = t.sub
    /\ users[e].status = "active"
    /\ users[e].minIat = t.epoch
    /\ clock <= t.exp
    => Accepted(t)

\* A session lives as long as its user's epoch, no longer and no shorter.
SessionsFollowUsers == RevocationHolds /\ FreshTokenWorks

\* Known not to hold: revoked tokens stay dead, whatever Postgres has
\* (models.go:33, "a deleted user's tokens die because the user no longer
\* resolves at verify time. Persisted (pg doc) so restarts do not resurrect
\* revoked sessions").
RevokedStaysDead == \A t \in revoked : ~Accepted(t)

\* Known not to hold: a session has the role its user has, as a change of
\* the role ends the sessions before it.  A login that copied the user
\* before the change issues its token after it.
RoleIsCurrent ==
  \A t \in tokens, e \in Emails :
    users[e].id = t.sub /\ Accepted(t) /\ unsaved = {} => HasRole(t, users[e].role)

-----------------------------------------------------------------------------
(* The inductive invariant.                                                *)

UserRecords(e, serials) ==
  [id : {e} \X (1..serials), status : {"active", "disabled"}, role : Roles, hash : Nat, minIat : Nat]

UserShaped(e, u) == u = NoUser \/ u \in UserRecords(e, ids)

SessionTypes ==
  /\ clock \in Nat /\ ids \in Nat \ {0} /\ secrets \in Nat
  /\ users = [e \in Emails |-> users[e]] /\ \A e \in Emails : UserShaped(e, users[e])
  /\ rows = [e \in Emails |-> rows[e]] /\ \A e \in Emails : UserShaped(e, rows[e])
  /\ logins = [l \in Logins |-> logins[l]]
  /\ \A l \in Logins : logins[l].pc = "issue" =>
       \E e \in Emails : logins[l].user # NoUser /\ UserShaped(e, logins[l].user)

\* A token is stamped after the epoch its login has seen.
StampedAfterEpoch ==
  \A t \in tokens : t.sub \in Emails \X (1..ids) /\ t.iat \in Nat /\ t.epoch \in Nat /\ t.epoch < t.iat

\* Neither memory nor Postgres holds an epoch before a token that was ended,
\* unless Postgres has missed a change of the user.
Outlived(u) == \A t \in revoked : u.id = t.sub /\ t.sub \notin unsaved => t.iat <= u.minIat

SessionInv ==
  /\ SessionTypes
  /\ StampedAfterEpoch
  /\ revoked \subseteq tokens /\ \A t \in revoked : t.iat <= clock
  /\ \A e \in Emails : Outlived(users[e]) /\ Outlived(rows[e])
=============================================================================
