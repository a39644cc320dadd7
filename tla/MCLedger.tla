------------------------------ MODULE MCLedger ------------------------------
(* TLC instance of Ledger.  Bounds: two accounts in one namespace, three    *)
(* transfer ids, amounts up to 2, one code besides the automatic one.       *)
EXTENDS Ledger, TLC

CONSTANTS t1, t2, t3, none

Acct(n) == [high |-> 1, low |-> n]
MCAccounts2 == {Acct(1), Acct(2)}
MCTransferIDs == {t1, t2, t3}
MCFlagSets == {{}, {DebitsMustNotExceedCredits}, {CreditsMustNotExceedDebits}}
TransferSymmetry == Permutations(MCTransferIDs)
=============================================================================
