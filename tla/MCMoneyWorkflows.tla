-------------------------- MODULE MCMoneyWorkflows --------------------------
(* TLC instance of MoneyWorkflows: attempts as model values.                *)
EXTENDS MoneyWorkflows

CONSTANTS a1, a2, a3

OneAttempt == {a1}
TwoAttempts == {a1, a2}
ThreeAttempts == {a1, a2, a3}
=============================================================================
