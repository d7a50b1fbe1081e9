---------------------- MODULE InternalWithdrawalLifecycle ----------------------
(***************************************************************************)
(* What the service promises about an internal withdrawal, of TON or of a  *)
(* Jetton, whatever happens to messages, blocks and processes: when money  *)
(* may leave a deposit, and what the table of internal withdrawals says of *)
(* it.                                                                     *)
(*                                                                         *)
(* A withdrawal is started for a deposit that has none under way.  What it *)
(* takes from the deposit is on its way until it is booked, and everything *)
(* that left is booked.  It is given up only while nothing of it is on its *)
(* way, and what was given up never takes anything afterwards.  The last   *)
(* two are not promised of a withdrawal that somebody else has claimed.    *)
(***************************************************************************)
EXTENDS Integers

CONSTANTS
    Deposits,
    Memos,      \* withdrawals
    Nobody,     \* the deposit of a withdrawal that is not started
    Replays     \* TRUE when the message of a withdrawal may be executed again

VARIABLES
    stage,      \* what the table says: none, open, finished or failed
    from,       \* the deposit of each withdrawal
    held,       \* what is on each deposit
    way,        \* what each withdrawal took and is not booked
    brought,    \* what is booked for each withdrawal
    claimed     \* withdrawals somebody else has named in a message of his own

vars == <<stage, from, held, way, brought, claimed>>

Init ==
    /\ stage = [m \in Memos |-> "none"]
    /\ from = [m \in Memos |-> Nobody]
    /\ held = [d \in Deposits |-> 0]
    /\ way = [m \in Memos |-> 0]
    /\ brought = [m \in Memos |-> 0]
    /\ claimed = {}

\* A withdrawal of d was failed by a claim although it is booked.
TakenBack(d) == \E n \in claimed : from[n] = d /\ stage[n] = "failed" /\ brought[n] > 0

Start(m, d) ==
    /\ stage[m] = "none"
    /\ TakenBack(d) \/ \A n \in Memos : from[n] = d => stage[n] # "open"
    /\ stage' = [stage EXCEPT ![m] = "open"]
    /\ from' = [from EXCEPT ![m] = d]
    /\ UNCHANGED <<held, way, brought, claimed>>

Pay(d) ==
    /\ held' = [held EXCEPT ![d] = @ + 1]
    /\ UNCHANGED <<stage, from, way, brought, claimed>>

Claim(m) ==
    /\ claimed' = claimed \cup {m}
    /\ UNCHANGED <<stage, from, held, way, brought>>

\* A withdrawal takes once; one that is replayed takes again, even when it is
\* finished.  One that a claim failed too early takes when it is failed.
MayTake(m) ==
    \/ stage[m] = "open" /\ way[m] = 0
    \/ Replays /\ stage[m] \in {"open", "finished"}
    \/ m \in claimed /\ stage[m] = "failed" /\ way[m] = 0 /\ brought[m] = 0

\* Withdrawal m takes a from its deposit, to which p is paid in the same block.
Take(m, d, p, a) ==
    /\ from[m] = d /\ MayTake(m)
    /\ held' = [held EXCEPT ![d] = @ + p - a]
    /\ way' = [way EXCEPT ![m] = @ + a]
    /\ UNCHANGED <<stage, from, brought, claimed>>

\* The withdrawals S are booked with the amounts got, those of G are given up.  Only
\* one that is claimed is ever given up while or after it is booked.
Report(S, got, G) ==
    /\ \A m \in S : stage[m] \in {"open", "finished"} /\ got[m] <= way[m]
    /\ \A m \in G : \/ stage[m] = "open" /\ way[m] = 0
                    \/ stage[m] \in {"open", "finished"} /\ m \in claimed
    /\ stage' = [m \in Memos |-> IF m \in G THEN "failed"
                                 ELSE IF m \in S THEN "finished" ELSE stage[m]]
    /\ way' = [m \in Memos |-> IF m \in S THEN way[m] - got[m] ELSE way[m]]
    /\ brought' = [m \in Memos |-> IF m \in S THEN brought[m] + got[m] ELSE brought[m]]
    /\ UNCHANGED <<from, held, claimed>>

Next ==
    \/ \E S, G \in SUBSET Memos : \E got \in [S -> UNION {1..way[m] : m \in S}] : Report(S, got, G)
    \/ \E m \in Memos, d \in Deposits : Start(m, d)
    \/ \E d \in Deposits : Pay(d)
    \/ \E m \in Memos : Claim(m)
    \/ \E m \in Memos, d \in Deposits, p \in {0, 1} :
          \E a \in 1..(held[d] + p) : Take(m, d, p, a)

Spec == Init /\ [][Next]_vars
=============================================================================
