---------------------------- MODULE MCAddressBook ----------------------------
(* Small instances of AddressBook for TLC. *)
EXTENDS AddressBook, TLC

CONSTANTS h1, h2, u1, u2, usd, eur, master

MCHandlers == {h1, h2}
MCUsers == {u1, u2}
MCWithdrawals == {<<u1, 1>>}

\* The Jetton is configured, renamed, or left out.
MCConfigs == {usd :> master, eur :> master, << >>}

\* Of the numbers 2..4 the TON wallets 2 and 4, and the Jetton wallets 2 and 3.
MCInShard == {TonAddress(2), TonAddress(4), JettonAddress(2, master), JettonAddress(3, master)}
=============================================================================
