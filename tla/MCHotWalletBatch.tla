-------------------------- MODULE MCHotWalletBatch --------------------------
(* Small instances of HotWalletBatch for TLC. *)
EXTENDS HotWalletBatch, TLC

CONSTANTS o1, cold, p1, p2

MCOutside == {o1, cold}
MCInternal == {p1, p2}
MCSymmetry == Permutations(MCInternal)
MCMax == [c \in {"TON", "J"} |-> IF c = "TON" THEN 2 ELSE 1]
MCResidual == [c \in {"TON", "J"} |-> IF c = "TON" THEN 1 ELSE 0]
=============================================================================
