------------------------- MODULE WithdrawalLifecycle -------------------------
(***************************************************************************)
(* What the service promises about a withdrawal request, whatever happens  *)
(* to messages, blocks and processes: the status the API reports, and when *)
(* a payment may leave the hot wallet.                                     *)
(*                                                                         *)
(* A request is taken into processing, and either the chain decides it     *)
(* (its payment leaves, or is skipped) and the decision is reported, or it *)
(* goes back to pending to be tried again.  It may go back only while it   *)
(* is undecided, and what is decided is never decided again.               *)
(***************************************************************************)
CONSTANT Requests

VARIABLES
    status,     \* what GET /v1/withdrawal/status answers
    decided,    \* requests carried by a message the chain has executed
    paid        \* decided requests whose payment left the hot wallet

vars == <<status, decided, paid>>

Init ==
    /\ status = [q \in Requests |-> "not found"]
    /\ decided = {}
    /\ paid = {}

Accept(q) ==
    /\ status[q] = "not found"
    /\ status' = [status EXCEPT ![q] = "pending"]
    /\ UNCHANGED <<decided, paid>>

\* One message takes a set of pending requests.
Take(S) ==
    /\ \A q \in S : status[q] = "pending"
    /\ status' = [q \in Requests |-> IF q \in S THEN "processing" ELSE status[q]]
    /\ UNCHANGED <<decided, paid>>

\* The chain executes messages with requests S and pays P of them.
Decide(S, P) ==
    /\ \A q \in S : status[q] = "processing" /\ q \notin decided
    /\ decided' = decided \cup S
    /\ paid' = paid \cup P
    /\ UNCHANGED status

\* The decision becomes known to the service.
Report(S) ==
    /\ \A q \in S : status[q] = "processing" /\ q \in decided
    /\ status' = [q \in Requests |-> IF q \notin S THEN status[q]
                                     ELSE IF q \in paid THEN "processed" ELSE "failed"]
    /\ UNCHANGED <<decided, paid>>

\* The message of S can no longer be executed: try again.
Retry(S) ==
    /\ \A q \in S : status[q] = "processing" /\ q \notin decided
    /\ status' = [q \in Requests |-> IF q \in S THEN "pending" ELSE status[q]]
    /\ UNCHANGED <<decided, paid>>

Next ==
    \/ \E q \in Requests : Accept(q)
    \/ \E S \in SUBSET Requests :
          \/ Take(S)
          \/ \E P \in SUBSET S : Decide(S, P)
          \/ Report(S)
          \/ Retry(S)

Spec == Init /\ [][Next]_vars
=============================================================================
