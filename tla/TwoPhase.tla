------------------------------ MODULE TwoPhase ------------------------------
(***************************************************************************)
(* What a two-phase ledger promises about each movement of money, leaving  *)
(* accounts, amounts and time aside: a movement is made at once, or is     *)
(* reserved and then, once and for all, either posted or released.         *)
(* Module Ledger implements it; LedgerService and the payment workflows    *)
(* are written against it.                                                 *)
(***************************************************************************)
CONSTANT Movements

VARIABLE status

Stages == {"none", "open", "posted", "voided"}

\* The stages a movement may go to from each stage.
Successors(s) ==
  CASE s = "none" -> {"open", "posted"}
    [] s = "open" -> {"posted", "voided"}
    [] s = "posted" -> {}
    [] s = "voided" -> {}

Advance(m, s) ==
  /\ s \in Successors(status[m])
  /\ status' = [status EXCEPT ![m] = s]

Init == status = [m \in Movements |-> "none"]

Next == \E m \in Movements, s \in Stages : Advance(m, s)

Spec == Init /\ [][Next]_status
=============================================================================
