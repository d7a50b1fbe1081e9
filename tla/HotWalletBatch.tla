--------------------------- MODULE HotWalletBatch ---------------------------
(***************************************************************************)
(* One round of the withdrawals processor: withdrawals to the cold wallet  *)
(* are requested when the hot wallet holds too much, and a batch is built  *)
(* from service, internal Jetton and external withdrawals within the       *)
(* balances of the hot wallet.  ExternalWithdrawals has the life of the    *)
(* batch afterwards; here it is executed or lost as a whole, before the    *)
(* next batch is built (OneLiveMessage there).  Fees are left out.         *)
(***************************************************************************)
EXTENDS Integers, Sequences, SequencesExt, FiniteSets, FiniteSetsExt

CONSTANTS
    Ton, Jettons,       \* TonSymbol and the configured Jettons
    Outside,            \* addresses that are not of the service
    Internal,           \* deposits and proxies: addresses GetWalletType knows
    ColdWallet,         \* config.Config.ColdWallet
    JettonTon,          \* config.JettonTransferTonAmount
    HotWalletMax,       \* by currency: more than this goes to the cold wallet
    HotWalletResidual,  \* by currency: what is to remain then
    MsgLimit,           \* 250: LIMIT of the queries, and limit of the batch
    MaxRequests,        \* bound: withdrawal requests
    MaxAmount,          \* bound: amount of a request
    MaxBalance          \* bound: balances

Currencies == {Ton} \cup Jettons

ASSUME ConstantsAssumption ==
    /\ Ton \notin Jettons /\ IsFiniteSet(Jettons) /\ IsFiniteSet(Internal)
    /\ Outside \cap Internal = {} /\ ColdWallet \in Outside
    /\ JettonTon \in Nat \ {0} /\ MsgLimit \in Nat
    /\ MaxRequests \in Nat /\ MaxAmount \in Nat /\ MaxBalance \in Nat
    /\ \A c \in Currencies : /\ HotWalletMax[c] \in Nat /\ HotWalletResidual[c] \in Nat
                             /\ HotWalletResidual[c] < HotWalletMax[c]

VARIABLES
    balance,        \* of the hot wallet on the chain
    requests,       \* payments.withdrawal_requests by query_id
    phase,          \* of the round
    budget,         \* the map `balances`
    todo,           \* tasks of the phase that are left
    usedAddresses,  \* and
    messages        \* of buildWithdrawalMessages

roundVars == <<phase, budget, todo, usedAddresses, messages>>
vars == <<balance, requests, roundVars>>

-----------------------------------------------------------------------------
(* Helpers *)

\* Mutant: a request in processing is forgotten.
InProgressPending(c) ==
    \E q \in DOMAIN requests : requests[q].internal /\ requests[q].cur = c /\ ~requests[q].processing

\* IsInProgressInternalWithdrawalRequest for the cold wallet.
InProgress(c) ==
    \E q \in DOMAIN requests : requests[q].internal /\ requests[q].cur = c /\ ~requests[q].processed

\* Mutant: TON is not looked at for a Jetton.
ShortJettonOnly(c, amount) == budget[c] < amount

\* decreaseBalances: TRUE when the balances do not cover the amount.
Short(c, amount) ==
    \/ budget[c] < amount
    \/ c # Ton /\ budget[Ton] < JettonTon

\* Mutant: a TON amount is compared and not taken off.
DecreaseKeepsTon(c, amount) ==
    [d \in Currencies |-> IF d = Ton THEN budget[d] - (IF c = Ton THEN 0 ELSE JettonTon)
                          ELSE IF d = c THEN budget[d] - amount ELSE budget[d]]

Decrease(c, amount) ==
    [d \in Currencies |-> IF d = c THEN budget[d] - amount
                          ELSE IF d = Ton THEN budget[d] - JettonTon
                          ELSE budget[d]]

\* GetExternalWithdrawalTasks.
ExternalTasks ==
    {q \in DOMAIN requests :
        /\ ~requests[q].processing
        /\ \A p \in 1..(q - 1) : requests[p].dest = requests[q].dest => requests[p].processing}

\* Messages as the builders make them: what they take of the hot wallet.
TransferMsg(to) == [dest |-> to, cur |-> Ton, amount |-> 0, ton |-> JettonTon, query |-> 0]
WithdrawalMsg(q) ==
    LET r == requests[q]
    IN  [dest |-> r.dest, cur |-> r.cur, amount |-> r.amount, query |-> q,
         ton |-> IF r.cur = Ton THEN 0 ELSE JettonTon]

Nothing == [c \in Currencies |-> 0]

Init ==
    /\ balance \in [Currencies -> 0..MaxBalance]
    /\ requests = <<>>
    /\ phase = "sleep"
    /\ budget = Nothing
    /\ todo = {} /\ usedAddresses = {} /\ messages = <<>>

Request(d, c, a, i) ==
    [dest |-> d, cur |-> c, amount |-> a, internal |-> i, processing |-> FALSE, processed |-> FALSE]

-----------------------------------------------------------------------------
(* Requests and incomes, at any time *)

SaveWithdrawalRequest(d, c, a) ==
    /\ Len(requests) < MaxRequests
    /\ requests' = Append(requests, Request(d, c, a, FALSE))
    /\ UNCHANGED <<balance, roundVars>>

Income(c) ==
    /\ balance[c] < MaxBalance
    /\ balance' = [balance EXCEPT ![c] = @ + 1]
    /\ UNCHANGED <<requests, roundVars>>

-----------------------------------------------------------------------------
(* A round *)

\* makeColdWalletWithdrawals: the Jettons in any order, each transfer taken off
\* the TON balance, then TON.
ColdJettons == {j \in Jettons : ~InProgress(j) /\ balance[j] > HotWalletMax[j]}
TonLeft == balance[Ton] - Cardinality(ColdJettons) * JettonTon
ColdRequest(c, have) == Request(ColdWallet, c, have - HotWalletResidual[c], TRUE)

MakeColdWalletWithdrawals ==
    /\ phase = "sleep"
    /\ \E order \in SetToSeqs(ColdJettons) :
          requests' = requests
                      \o [i \in DOMAIN order |-> ColdRequest(order[i], balance[order[i]])]
                      \o IF ~InProgress(Ton) /\ TonLeft > HotWalletMax[Ton]
                         THEN <<ColdRequest(Ton, TonLeft)>> ELSE <<>>
    /\ Len(requests') <= MaxRequests
    /\ phase' = "build"
    /\ UNCHANGED <<balance, budget, todo, usedAddresses, messages>>

\* buildWithdrawalMessages reads the balances and the service tasks, at most one
\* of an address.
GetServiceTasks(S) ==
    /\ phase = "build"
    /\ Cardinality(S) <= MsgLimit
    /\ phase' = "service"
    /\ budget' = balance
    /\ todo' = S /\ usedAddresses' = {} /\ messages' = <<>>
    /\ UNCHANGED <<balance, requests>>

\* A service task: left for a later round, or turned into a message, or rejected
\* after its TON has been taken off (the Jetton or TON balance is zero).
ServiceTask(t) ==
    /\ phase = "service" /\ t \in todo
    /\ todo' = todo \ {t}
    /\ \/ /\ Short(Ton, JettonTon)
          /\ UNCHANGED <<budget, usedAddresses, messages>>
       \/ /\ ~Short(Ton, JettonTon)
          /\ budget' = Decrease(Ton, JettonTon)
          /\ \/ /\ usedAddresses' = usedAddresses \cup {t}
                /\ messages' = Append(messages, TransferMsg(t))
             \/ UNCHANGED <<usedAddresses, messages>>
    /\ UNCHANGED <<balance, requests, phase>>

\* Mutant: the used addresses are not excluded.
GetInternalTasksAll(S) ==
    /\ phase = "service" /\ todo = {}
    /\ Cardinality(S) <= MsgLimit
    /\ phase' = "internal" /\ todo' = S
    /\ UNCHANGED <<balance, requests, budget, usedAddresses, messages>>

\* GetJettonInternalWithdrawalTasks: proxies of deposits with new incomes,
\* without the used addresses.
GetInternalTasks(S) ==
    /\ phase = "service" /\ todo = {}
    /\ S \cap usedAddresses = {} /\ Cardinality(S) <= MsgLimit
    /\ phase' = "internal" /\ todo' = S
    /\ UNCHANGED <<balance, requests, budget, usedAddresses, messages>>

\* Mutant: the batch is cut by neither loop.
FullNever == FALSE

Full == Len(messages) > MsgLimit

\* An internal Jetton withdrawal; no message when the deposit holds too little.
InternalTask(t) ==
    /\ phase = "internal" /\ t \in todo /\ ~Full
    /\ todo' = todo \ {t}
    /\ \/ /\ Short(Ton, JettonTon)
          /\ UNCHANGED <<budget, messages>>
       \/ /\ ~Short(Ton, JettonTon)
          /\ budget' = Decrease(Ton, JettonTon)
          /\ messages' \in {messages, Append(messages, TransferMsg(t))}
    /\ UNCHANGED <<balance, requests, phase, usedAddresses>>

\* GetExternalWithdrawalTasks with its LIMIT.
GetExternalTasks(S) ==
    /\ phase = "internal" /\ (todo = {} \/ Full)
    /\ Cardinality(S) = Min({MsgLimit, Cardinality(ExternalTasks)})
    /\ phase' = "external" /\ todo' = S
    /\ UNCHANGED <<balance, requests, budget, usedAddresses, messages>>

\* An external withdrawal; one to an address of the service is passed over.
ExternalTask(q) ==
    /\ phase = "external" /\ q \in todo /\ ~Full
    /\ todo' = todo \ {q}
    /\ IF requests[q].dest \in Internal \/ Short(requests[q].cur, requests[q].amount)
       THEN UNCHANGED <<budget, messages>>
       ELSE /\ budget' = Decrease(requests[q].cur, requests[q].amount)
            /\ messages' = Append(messages, WithdrawalMsg(q))
    /\ UNCHANGED <<balance, requests, phase, usedAddresses>>

\* The requests of the batch, in processing from CreateExternalWithdrawals on.
Batch == {messages[i].query : i \in DOMAIN messages} \ {0}
MarkProcessing ==
    [q \in DOMAIN requests |-> IF q \in Batch THEN [requests[q] EXCEPT !.processing = TRUE]
                                              ELSE requests[q]]
MarkProcessed ==
    [q \in DOMAIN requests |-> IF q \in Batch THEN [requests[q] EXCEPT !.processed = TRUE]
                                              ELSE requests[q]]

\* The end of a round: what buildWithdrawalMessages kept is gone.
EndRound ==
    /\ phase' = "sleep" /\ budget' = Nothing
    /\ todo' = {} /\ usedAddresses' = {} /\ messages' = <<>>

NothingToSend ==
    /\ phase = "external" /\ todo = {} /\ messages = <<>>
    /\ EndRound
    /\ UNCHANGED <<balance, requests>>

SendBatch ==
    /\ phase = "external" /\ (todo = {} \/ Full) /\ messages # <<>>
    /\ requests' = MarkProcessing
    /\ phase' = "sent" /\ todo' = {} /\ usedAddresses' = {} /\ budget' = Nothing
    /\ UNCHANGED <<balance, messages>>

\* What the messages take of the hot wallet.
Take(m, c) == (IF m.cur = c THEN m.amount ELSE 0) + (IF c = Ton THEN m.ton ELSE 0)
Taken(c) == SumFunction([i \in DOMAIN messages |-> Take(messages[i], c)])

\* The hot wallet executes the batch and the scanner reports it, or the message
\* is lost; the next round may come before the expiration processor gives the
\* requests back.
Executed ==
    /\ phase = "sent"
    /\ balance' = [c \in Currencies |-> balance[c] - Taken(c)]
    /\ requests' = MarkProcessed
    /\ EndRound

Lost ==
    /\ phase = "sent"
    /\ EndRound
    /\ UNCHANGED <<balance, requests>>

LostRequests ==
    {q \in DOMAIN requests : /\ requests[q].processing /\ ~requests[q].processed
                             /\ ~(phase = "sent" /\ q \in Batch)}
SetExpired(S) ==
    /\ S # {}
    /\ requests' = [q \in DOMAIN requests |->
                      IF q \in S THEN [requests[q] EXCEPT !.processing = FALSE] ELSE requests[q]]
    /\ UNCHANGED <<balance, roundVars>>

\* The process ends before the batch is saved and starts again.
Restart ==
    /\ phase \in {"build", "service", "internal", "external"}
    /\ EndRound
    /\ UNCHANGED <<balance, requests>>

Next ==
    \/ \E d \in Outside \cup Internal, c \in Currencies, a \in 1..MaxAmount :
          SaveWithdrawalRequest(d, c, a)
    \/ \E c \in Currencies : Income(c)
    \/ MakeColdWalletWithdrawals
    \/ \E S \in SUBSET Internal : GetServiceTasks(S)
    \/ \E t \in todo : ServiceTask(t)
    \/ \E S \in SUBSET Internal : GetInternalTasks(S)
    \/ \E t \in todo : InternalTask(t)
    \/ \E S \in SUBSET ExternalTasks : GetExternalTasks(S)
    \/ \E q \in todo : ExternalTask(q)
    \/ NothingToSend
    \/ SendBatch
    \/ Executed
    \/ Lost
    \/ \E S \in SUBSET LostRequests : SetExpired(S)
    \/ Restart

Spec == Init /\ [][Next]_vars

-----------------------------------------------------------------------------
(* Properties *)

\* Requests ask for something (a cold wallet withdrawal too: the residual is
\* below the maximum), and the balances of a round never go below zero.
TypeOK ==
    /\ balance \in [Currencies -> Nat] /\ budget \in [Currencies -> Nat]
    /\ \A q \in DOMAIN requests :
          requests[q] \in [dest : Outside \cup Internal, cur : Currencies, amount : Nat \ {0},
                           internal : BOOLEAN, processing : BOOLEAN, processed : BOOLEAN]
    /\ phase \in {"sleep", "build", "service", "internal", "external", "sent"}
    /\ usedAddresses \subseteq Internal

\* The hot wallet can pay the whole batch, by what the messages really take of
\* it, until the batch is executed: no transfer fails for lack of balance.
Affordable ==
    \A c \in Currencies : Taken(c) <= balance[c]

\* parseExternalMessage tells the transfers of a batch apart by their address:
\* service, internal and external withdrawals never share one.
DistinctDests ==
    \A i, j \in DOMAIN messages : messages[i].dest = messages[j].dest => i = j

\* A batch has at most one message more than the limit (251 of the 254 that the
\* highload wallet takes).
BatchFits ==
    Len(messages) <= MsgLimit + 1

\* The cold wallet has at most one withdrawal of a currency under way, however
\* long it takes and however often it is tried again.
OneColdPerCurrency ==
    \A p, q \in {r \in DOMAIN requests : requests[r].internal /\ ~requests[r].processed} :
        requests[p].cur = requests[q].cur => p = q
=============================================================================
