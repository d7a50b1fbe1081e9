--------------------- MODULE MCJettonDepositWithdrawals ---------------------
(* Small instances of JettonDepositWithdrawals for TLC. *)
EXTENDS JettonDepositWithdrawals, TLC

CONSTANTS d1, d2

MCDeposits == {d1, d2}
Symmetry == Permutations(MCDeposits)

\* Bound: somebody else's transfer with the memo of a withdrawal is sent to the Jetton
\* wallet the withdrawal is of.
OwnWallet ==
    \A i \in DOMAIN draft'.txs :
        LET x == draft'.txs[i]
        IN  x.kind = "foreign" /\ x.memo # Null => x.deposit = rows[x.memo].from

\* Bound: the run ends where a block is refused.  What may follow also follows when
\* the scanner is merely late.
ScannerGoesOn == unscanned # <<>> => ~BlockError(Head(unscanned))
=============================================================================
