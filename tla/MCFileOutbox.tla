---------------------------- MODULE MCFileOutbox ----------------------------
(* TLC instance of FileOutbox: four events, one of which the bus rejects,   *)
(* batches of two, three faults.                                            *)
EXTENDS FileOutbox

CONSTANTS e1, e2, e3, e4

MCEvents == {e1, e2, e3, e4}
MCPoison == {e4}
=============================================================================
