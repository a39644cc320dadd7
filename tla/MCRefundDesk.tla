---------------------------- MODULE MCRefundDesk ----------------------------
(* TLC instance of RefundDesk: request threads as model values.             *)
EXTENDS RefundDesk, TLC

CONSTANTS w1, w2

OneWorker == {w1}
TwoWorkers == {w1, w2}
WorkerSymmetry == Permutations(TwoWorkers)
=============================================================================
