------------------------------ MODULE Platform ------------------------------
(* The services around the ledger.  They share no memory: what one needs of *)
(* another is part of its own module.  So a behaviour of this module is a   *)
(* behaviour of one service, which Init chooses, and the variables of the   *)
(* modules are laid over the same registers.                                *)

EXTENDS Registers

-----------------------------------------------------------------------------
BR == INSTANCE Breach WITH
  Requests <- breach.Requests, NotifyWindow <- breach.NotifyWindow,
  MaxBreaches <- breach.MaxBreaches, MaxTime <- breach.MaxTime,
  breaches <- store, alerts <- sent, request <- local, overtaken <- excepted, time <- time

AE == INSTANCE Evidence WITH
  Writers <- evidence.Writers, Ids <- evidence.Ids, Contents <- evidence.Contents,
  MaxEvents <- evidence.MaxEvents, MaxFaults <- evidence.MaxFaults,
  file <- store, flaws <- mode, logSeq <- count, nextSeq <- u, tail <- v, events <- sent,
  writer <- local, blob <- mirror, object <- past, mishaps <- faults, disturbed <- excepted,
  exposed <- w

NO == INSTANCE Notification WITH
  Requests <- notification.Requests, Keys <- notification.Keys,
  Chains <- notification.Chains, maxPerCh <- notification.maxPerCh,
  MaxFaults <- notification.MaxFaults,
  byKey <- mirror, messages <- store, receipts <- past, request <- local, accepted <- sent,
  exposed <- excepted, faults <- faults

DS == INSTANCE DocStore WITH
  Ids <- documents.Ids, Requests <- documents.Requests, MaxFaults <- documents.MaxFaults,
  backend <- mode, memory <- store, disk <- mirror, request <- local, answered <- sent,
  allowed <- excepted, births <- count, faults <- faults

AS == INSTANCE AdminSessions WITH
  Emails <- sessions.Emails, Logins <- sessions.Logins, Roles <- sessions.Roles,
  TokenTTL <- sessions.TokenTTL, MaxIds <- sessions.MaxIds, MaxClock <- sessions.MaxClock,
  MaxFaults <- sessions.MaxFaults, MaxRestarts <- sessions.MaxRestarts,
  users <- store, rows <- mirror, tokens <- sent, logins <- local, clock <- time,
  ids <- count, secrets <- u, faults <- faults, restarts <- v, revoked <- past,
  unsaved <- excepted

AC == INSTANCE AdminConsole WITH
  Requests <- console.Requests, MaxFaults <- console.MaxFaults,
  MaxFlushes <- console.MaxFlushes, MaxRestarts <- console.MaxRestarts,
  prod <- mode, store <- store, owner <- mirror, request <- local, queue <- sent,
  worm <- past, flush <- u, faults <- faults, flushes <- count, restarts <- v,
  gone <- excepted

RC == INSTANCE RealClient WITH
  Calls <- realClient.Calls, Holds <- realClient.Holds, PostIds <- realClient.PostIds,
  Codes <- realClient.Codes, Amounts <- realClient.Amounts,
  MaxFaults <- realClient.MaxFaults,
  cluster <- store, call <- local, events <- sent, faults <- faults

KC == INSTANCE KeyCache WITH
  Kids <- keyCache.Kids, Checks <- keyCache.Checks, TTL <- keyCache.TTL,
  MaxClock <- keyCache.MaxClock, MaxFaults <- keyCache.MaxFaults,
  verifier <- mode, realm <- mirror, keys <- store, fetchedAt <- count, check <- local,
  clock <- time, faults <- faults, disturbed <- excepted

ASSUME PlatformAssumption == BR!Parameters /\ AS!Parameters /\ KC!Parameters /\ NO!Parameters

-----------------------------------------------------------------------------
(* Registers a service has no use for hold nothing.                        *)

Unused == "unused"

Init ==
  /\ service \in Components
  /\ \/ service = "tin_graph" /\ TG!Init
     \/ service = "consent" /\ CO!Init /\ mode = Unused /\ u = Unused
        /\ v = Unused /\ w = Unused
     \/ service = "breach" /\ BR!Init /\ mirror = Unused /\ past = Unused /\ faults = Unused
        /\ count = Unused /\ mode = Unused /\ u = Unused /\ v = Unused /\ w = Unused
     \/ service = "step_up" /\ SU!Init /\ faults = Unused /\ mode = Unused /\ w = Unused
     \/ service = "evidence" /\ AE!Init /\ time = Unused
     \/ service = "rule_packs" /\ RP!Init /\ past = Unused /\ time = Unused
        /\ faults = Unused /\ v = Unused /\ w = Unused
     \/ service = "notification" /\ NO!Init /\ time = Unused /\ count = Unused
        /\ mode = Unused /\ u = Unused /\ v = Unused /\ w = Unused
     \/ service = "documents" /\ DS!Init /\ past = Unused /\ time = Unused /\ u = Unused
        /\ v = Unused /\ w = Unused
     \/ service = "sessions" /\ AS!Init /\ mode = Unused /\ w = Unused
     \/ service = "console" /\ AC!Init /\ time = Unused /\ w = Unused
     \/ service = "real_client" /\ RC!Init /\ mirror = Unused /\ past = Unused
        /\ excepted = Unused /\ time = Unused /\ count = Unused /\ mode = Unused
        /\ u = Unused /\ v = Unused /\ w = Unused
     \/ service = "thresholds" /\ TH!Init /\ mode = Unused /\ u = Unused /\ v = Unused
        /\ w = Unused
     \/ service = "keys" /\ KC!Init /\ sent = Unused /\ past = Unused /\ u = Unused
        /\ v = Unused /\ w = Unused
     \/ service = "matching" /\ MA!Init /\ local = Unused /\ excepted = Unused
        /\ time = Unused /\ faults = Unused /\ mode = Unused /\ w = Unused
     \/ service = "migration" /\ MI!Init /\ sent = Unused /\ time = Unused /\ count = Unused
        /\ mode = Unused /\ w = Unused

Next ==
  \/ service = "tin_graph" /\ TG!Next /\ UNCHANGED <<service>>
  \/ service = "consent" /\ CO!Next /\ UNCHANGED <<service, mode, u, v, w>>
  \/ service = "breach" /\ BR!Next /\ UNCHANGED <<service, mirror, past, faults, count, mode, u, v, w>>
  \/ service = "step_up" /\ SU!Next /\ UNCHANGED <<service, faults, mode, w>>
  \/ service = "evidence" /\ AE!Next /\ UNCHANGED <<service, time>>
  \/ service = "rule_packs" /\ RP!Next /\ UNCHANGED <<service, past, time, faults, v, w>>
  \/ service = "notification" /\ NO!Next /\ UNCHANGED <<service, time, count, mode, u, v, w>>
  \/ service = "documents" /\ DS!Next /\ UNCHANGED <<service, past, time, u, v, w>>
  \/ service = "sessions" /\ AS!Next /\ UNCHANGED <<service, mode, w>>
  \/ service = "console" /\ AC!Next /\ UNCHANGED <<service, time, w>>
  \/ service = "real_client" /\ RC!Next /\ UNCHANGED <<service, mirror, past, excepted, time, count, mode, u, v, w>>
  \/ service = "thresholds" /\ TH!Next /\ UNCHANGED <<service, mode, u, v, w>>
  \/ service = "keys" /\ KC!Next /\ UNCHANGED <<service, sent, past, u, v, w>>
  \/ service = "matching" /\ MA!Next /\ UNCHANGED <<service, local, excepted, time, faults, mode, w>>
  \/ service = "migration" /\ MI!Next /\ UNCHANGED <<service, sent, time, count, mode, w>>

Spec == Init /\ [][Next]_vars

-----------------------------------------------------------------------------
(* The properties of the services, each of the service it is about.  What  *)
(* they mean is told in the module of the service.                         *)

\* TIN graph: an index behind the store never makes a second entity.
OneEntityPerTIN == service = "tin_graph" => TG!OneEntityPerTIN

\* TIN graph: merges form no cycle.
NoMergeCycle == service = "tin_graph" => TG!NoMergeCycle

\* TIN graph: a merge can be taken back, and has moved everything at its end.
MergesAreWhole == service = "tin_graph" => TG!MergesAreWhole

\* Consent: a withdrawal stays, and who asks is told of it.
WithdrawalHolds == service = "consent" => CO!WithdrawalHolds

\* Consent: an erasure leaves no consent that names the subject, and is audited.
ErasureIsAccounted == service = "consent" => CO!ErasureIsAccounted

\* Step-up: recovery codes and tickets are good once.
SingleUse == service = "step_up" => SU!SingleUse

\* Audit evidence: chain and objects verify.
EvidenceStands == service = "evidence" => AE!EvidenceStands

\* Rule packs: the newest published version is found, older pins are reported.
NewestIsFound == service = "rule_packs" => RP!NewestIsFound

\* Notification: once per key, and the receipts tell how.
SendingIsAccounted == service = "notification" => NO!SendingIsAccounted

\* Admin sessions: they live as long as the user's epoch.
SessionsFollowUsers == service = "sessions" => AS!SessionsFollowUsers

\* Admin console: no event is lost while the process runs.
NoAuditLost == service = "console" => AC!NoAuditLost

\* TigerBeetle client: one outcome of a hold, one event.
OneOutcomeToldOnce == service = "real_client" => RC!OneOutcomeToldOnce

\* AML thresholds: a split amount is flagged.
SplitIsFlagged == service = "thresholds" => TH!SplitIsFlagged

\* JWKS cache: keys are trusted and refused as Keycloak publishes them.
KeysFollowRealm == service = "keys" => KC!KeysFollowRealm

\* Matching: the decision is the one of the true edit distance.
DecidesByReference == service = "matching" => MA!DecidesByReference

\* Migration: an upload is stored as a whole or not at all.
AllOrNothing == service = "migration" => MI!AllOrNothing

\* Migration: filings and payments have their taxpayer.
ReferencesResolve == service = "migration" => MI!ReferencesResolve

\* Migration: a proof fails only batches that lost rows.
VerdictIsJust == service = "migration" => MI!VerdictIsJust

\* Breach register: the recorded notification is never changed.
NotificationIsKept == [][service = "breach" => BR!KeepsNotification]_vars

\* Rule packs: a published version never changes.
PublishedIsFrozen == [][service = "rule_packs" => RP!KeepsPublished]_vars

\* Document stores: what was answered is durable, no update loses another.
WritesAreKept == [][service = "documents" => DS!NoUpdateLost /\ DS!AckedIsDurable']_vars
=============================================================================
