------------------------ MODULE MCServiceWithdrawals ------------------------
(* Small instances of ServiceWithdrawals for TLC. *)
EXTENDS ServiceWithdrawals, TLC

CONSTANTS p1, d1, d2, own, other, bad

MCProxies == {p1}
MCDeposits == {d1, d2}
MCTonPayees == {p1, d1}
MCJettons == {own, other, bad}
MCBadMasters == {bad}
MCAddressOrder == (d1 :> 1) @@ (p1 :> 2) @@ (d2 :> 3)
MCJettonWallets == {<<p1, own>>, <<p1, other>>, <<d1, other>>, <<d2, other>>,
                    <<p1, bad>>}
=============================================================================
