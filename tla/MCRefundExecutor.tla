-------------------------- MODULE MCRefundExecutor --------------------------
(* TLC instance of RefundExecutor: one request thread, two amounts for the  *)
(* same refund, three attempts, calls given up.                             *)
EXTENDS RefundExecutor

CONSTANT w1

OneWorker == {w1}
=============================================================================
