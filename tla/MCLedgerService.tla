-------------------------- MODULE MCLedgerService --------------------------
(* TLC instance of LedgerService: a handler, the sweeper and the flusher    *)
(* race over one movement, through one crash or shutdown and one failing    *)
(* write.                                                                   *)
EXTENDS LedgerService

CONSTANTS m1, h1

MCMovements == {m1}
MCHandlers == {h1}
=============================================================================
