----------------------- MODULE MCTonDepositWithdrawals -----------------------
(* Small instances of TonDepositWithdrawals for TLC. *)
EXTENDS TonDepositWithdrawals, TLC

CONSTANTS d1, d2

MCDeposits == {d1, d2}
Symmetry == Permutations(MCDeposits)
=============================================================================
