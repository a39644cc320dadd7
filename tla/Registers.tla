------------------------------ MODULE Registers ------------------------------
(* The registers the services around the ledger are laid over in Platform,  *)
(* and seven of those services: the TIN graph, consent, step-up, migration, *)
(* rule packs, AML thresholds and matching.  They stand apart from the      *)
(* others because their proofs, in RegistersProofs, are long and need       *)
(* nothing of the rest.                                                     *)

CONSTANTS
  Components,       \* services to look at
  \* for each service, a record of the constants of its module
  tinGraph, consent, breach, stepUp, evidence, rulePacks, notification, documents, sessions,
  console, realClient, thresholds, keyCache, matching, migration

VARIABLES
  service,        \* the service whose behaviour this is
  store, mirror,  \* what it keeps, and copies or indices of it
  local,          \* local states of requests and threads
  sent,           \* what it has given out
  past, excepted, \* history, and what a property excepts
  time, faults, count, mode,
  u, v, w

vars == <<service, store, mirror, local, sent, past, excepted, time, faults, count, mode, u, v, w>>

-----------------------------------------------------------------------------
TG == INSTANCE TinGraph WITH
  TINs <- tinGraph.TINs, Known <- tinGraph.Known, Persons <- tinGraph.Persons,
  Profiles <- tinGraph.Profiles, Registrations <- tinGraph.Registrations,
  Home <- tinGraph.Home, Requests <- tinGraph.Requests, Statuses <- tinGraph.Statuses,
  MaxBusy <- tinGraph.MaxBusy, FieldScores <- tinGraph.FieldScores,
  MaxFaults <- tinGraph.MaxFaults,
  entities <- store, index <- mirror, lifecycle <- u, regs <- v, merges <- past,
  aged <- time, queue <- sent, req <- local, faults <- faults, contended <- excepted,
  cut <- w, misread <- count, byHand <- mode

CO == INSTANCE Consent WITH
  Slots <- consent.Slots, Subjects <- consent.Subjects,
  anonymisedSubject <- consent.anonymisedSubject, Callers <- consent.Callers,
  Purposes <- consent.Purposes, Bases <- consent.Bases, Lifetimes <- consent.Lifetimes,
  MaxConsents <- consent.MaxConsents, MaxClock <- consent.MaxClock,
  MaxFaults <- consent.MaxFaults, MaxServed <- consent.MaxServed,
  consents <- store, names <- mirror, clock <- time, slot <- local, faults <- faults, served <- count,
  withdrawn <- past, erased <- sent, stale <- excepted

SU == INSTANCE StepUp WITH
  Admins <- stepUp.Admins, Bindings <- stepUp.Bindings, Codes <- stepUp.Codes,
  Requests <- stepUp.Requests, TicketTTL <- stepUp.TicketTTL,
  MaxEnrolments <- stepUp.MaxEnrolments, MaxTickets <- stepUp.MaxTickets,
  MaxTime <- stepUp.MaxTime,
  records <- store, enrolments <- count, tickets <- sent, consumed <- mirror, time <- time,
  request <- local, burnt <- past, passed <- v, overlap <- excepted, forgotten <- u

MI == INSTANCE Migration WITH
  Inputs <- migration.Inputs, TINs <- migration.TINs, Importers <- migration.Importers,
  Auditors <- migration.Auditors, MaxFaults <- migration.MaxFaults,
  live <- mirror, docs <- store, manifests <- past, importer <- local, auditor <- u,
  undone <- excepted, abandoned <- v, faults <- faults

RP == INSTANCE RulePacks WITH
  Artifacts <- rulePacks.Artifacts, Requests <- rulePacks.Requests,
  Consumers <- rulePacks.Consumers, MaxRestarts <- rulePacks.MaxRestarts,
  prod <- mode, pinned <- u, packs <- store, pins <- mirror, announced <- sent,
  request <- local, lapsed <- excepted, restarts <- count

TH == INSTANCE Thresholds WITH
  Accounts <- thresholds.Accounts, Observers <- thresholds.Observers,
  Amounts <- thresholds.Amounts, ctrThreshold <- thresholds.ctrThreshold,
  nearThreshold <- thresholds.nearThreshold,
  structuringWindow <- thresholds.structuringWindow, MaxObserved <- thresholds.MaxObserved,
  MaxClock <- thresholds.MaxClock, MaxMishaps <- thresholds.MaxMishaps,
  windows <- store, flagged <- mirror, observer <- local, outbox <- sent, clock <- time,
  observed <- count, mishaps <- faults, seen <- past, excused <- excepted

MA == INSTANCE Matching WITH
  Requests <- matching.Requests, Stores <- matching.Stores, Scale <- matching.Scale,
  autoMatchThreshold <- matching.autoMatchThreshold,
  reviewThreshold <- matching.reviewThreshold,
  attrs <- u, entities <- store, at <- count, row <- v, prev <- mirror, cands <- sent,
  decision <- past

ASSUME RegistersAssumption == TG!Parameters /\ CO!Parameters /\ SU!Parameters /\ MI!Parameters
                              /\ RP!Parameters /\ TH!Parameters /\ MA!Parameters
==============================================================================
