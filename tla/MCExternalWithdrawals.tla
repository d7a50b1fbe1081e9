------------------------ MODULE MCExternalWithdrawals ------------------------
(* Small instances of ExternalWithdrawals for TLC. *)
EXTENDS ExternalWithdrawals, TLC

CONSTANTS d1, d2

MCDests == {d1, d2}
Symmetry == Permutations(MCDests)
=============================================================================
