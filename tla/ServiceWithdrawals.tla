-------------------------- MODULE ServiceWithdrawals --------------------------
(***************************************************************************)
(* Service withdrawals: an operator gets back what payers sent to the      *)
(* wrong place - TON or a foreign Jetton on the proxy that owns a Jetton   *)
(* deposit, or Jettons on a TON deposit.  The hot wallet's batch carries   *)
(* one message per request; a TON deposit is only filled with TON by it,   *)
(* and the internal TON processor sends the Jettons in a second message.   *)
(*                                                                         *)
(* Requests are never expired or tried again.  A unit of TON is            *)
(* config.JettonTransferTonAmount; payments are one unit.  The messages of *)
(* a chain of transfers are one step where nothing can come between them   *)
(* that a property tells apart.                                            *)
(***************************************************************************)
EXTENDS Naturals, FiniteSets, Sequences

CONSTANTS
    Proxies,        \* owners of Jetton deposits (type JettonOwner)
    Deposits,       \* TON deposit wallets
    Jettons,        \* Jetton masters an operator may name
    BadMasters,     \* those of them that are no Jetton master at all: the API takes
                    \* any address, and the questions to it end in an error
    JettonWallets,  \* bound: the pairs of owner and master that payers and operators use
    TonPayees,      \* bound: the addresses that payers send TON to
    DepositJetton,  \* the one whose wallets of the proxies are deposits
    NoJetton,       \* jetton_master is NULL: a withdrawal of TON
    AddressOrder,   \* the order of the addresses in the database
    HotLimit,       \* LIMIT of GetServiceHotWithdrawalTasks (250)
    DepositLimit,   \* LIMIT of GetServiceDepositWithdrawalTasks (5)
    HotTon,         \* units of TON on the hot wallet at first
    Lag,            \* config.AllowableBlockchainLagging, in unread transactions
    MaxRequests,    \* bound: service withdrawal requests
    MaxTonPayments, \* bound: TON payments
    MaxJettonPayments, \* bound: Jetton payments
    MaxExecutions,  \* bound: executions of a deposit's messages
    MaxFaults       \* bound: messages the node does not take, and faults

ASSUME ConstantsAssumption ==
    /\ IsFiniteSet(Proxies) /\ IsFiniteSet(Deposits) /\ IsFiniteSet(Jettons)
    /\ Proxies \cap Deposits = {}
    /\ JettonWallets \subseteq (Proxies \cup Deposits) \X Jettons
    /\ TonPayees \subseteq Proxies \cup Deposits
    /\ DepositJetton \in Jettons /\ NoJetton \notin Jettons
    /\ BadMasters \subseteq Jettons \ {DepositJetton}
    /\ AddressOrder \in [Proxies \cup Deposits -> Nat]
    /\ \A a, b \in Proxies \cup Deposits : AddressOrder[a] = AddressOrder[b] => a = b
    /\ {HotLimit, DepositLimit} \subseteq Nat \ {0}
    /\ {HotTon, Lag, MaxRequests, MaxTonPayments, MaxJettonPayments} \subseteq Nat
    /\ {MaxExecutions, MaxFaults} \subseteq Nat

Memos == 1..MaxRequests
Addresses == Proxies \cup Deposits

VARIABLES
    \* payments.service_withdrawal_requests by memo; external_incomes of TON
    \* deposits: total, and whether one is newer than the last internal withdrawal
    reqs, lastMemo, income, fresh,
    \* withdrawals processor: tasks still to build, balances[TON], messages
    \* built, those whose request is not updated yet
    hpc, todo, left, batch, unsaved,
    \* internal TON processor: tasks still to do, the task being sent
    ipc, tasks, held,
    \* the chain: TON and Jettons of the addresses, TON of the hot wallet,
    \* messages of the hot wallet under way, messages of deposits by memo that
    \* are still valid, transactions the scanner has not read
    ton, jettons, hotTon, mail, valid, unscanned,
    \* what happened: TON paid to a deposit, TON that bounced back to it,
    \* messages given to the node, bounded counters
    paid, bounced, hotMsgs, depositMsgs, tonPayments, jettonPayments,
    executions, faults

dbVars == <<reqs, lastMemo, income, fresh>>
hotVars == <<hpc, todo, left, batch, unsaved>>
depositVars == <<ipc, tasks, held>>
chainVars == <<ton, jettons, hotTon, mail, valid, unscanned>>
sentVars == <<hotMsgs, depositMsgs>>
payVars == <<paid, tonPayments, jettonPayments>>
execVars == <<bounced, executions>>
vars == <<dbVars, hotVars, depositVars, chainVars, sentVars, payVars, execVars, faults>>

Requested == 1..lastMemo
NoTask == [memo |-> 0, amount |-> 0]

\* waitSync of both processors: the scanner is not far behind.
Synced == Len(unscanned) <= Lag

Init ==
    /\ reqs = [m \in Memos |-> [from |-> NoJetton, jetton |-> NoJetton, filled |-> FALSE,
                                processed |-> FALSE, amount |-> 0]]
    /\ lastMemo = 0
    /\ income = [d \in Deposits |-> 0] /\ fresh = [d \in Deposits |-> FALSE]
    /\ hpc = "waitSync" /\ todo = {} /\ left = 0 /\ batch = {} /\ unsaved = {}
    /\ ipc = "waitSync" /\ tasks = {} /\ held = NoTask
    /\ ton = [a \in Addresses |-> 0]
    /\ jettons = [a \in Addresses |-> [j \in Jettons |-> 0]]
    /\ hotTon = HotTon /\ mail = {} /\ valid = {} /\ unscanned = << >>
    /\ paid = [d \in Deposits |-> 0] /\ bounced = [d \in Deposits |-> 0]
    /\ hotMsgs = [m \in Memos |-> 0] /\ depositMsgs = [m \in Memos |-> 0]
    /\ tonPayments = 0 /\ jettonPayments = 0
    /\ executions = 0 /\ faults = 0

-----------------------------------------------------------------------------
(* HTTP API *)

SaveServiceWithdrawalRequest(a, j) ==
    /\ lastMemo < MaxRequests
    /\ lastMemo' = lastMemo + 1
    /\ reqs' = [reqs EXCEPT ![lastMemo + 1].from = a, ![lastMemo + 1].jetton = j]
    /\ UNCHANGED <<income, fresh, hotVars, depositVars, chainVars, sentVars, payVars,
                   execVars, faults>>

\* Mutant: a TON deposit is accepted too.
ServiceTonWithdrawalAnyAddress(a) ==
    /\ a \in Addresses
    /\ SaveServiceWithdrawalRequest(a, NoJetton)

\* serviceTonWithdrawal: only for the owner of a Jetton deposit; other addresses
\* are refused and nothing is saved.
ServiceTonWithdrawal(a) ==
    /\ a \in Proxies
    /\ SaveServiceWithdrawalRequest(a, NoJetton)

\* serviceJettonWithdrawal: for any master, also the one of the deposits.
ServiceJettonWithdrawal(a, j) ==
    /\ a \in Addresses
    /\ SaveServiceWithdrawalRequest(a, j)

-----------------------------------------------------------------------------
(* Withdrawals processor *)

UpdateServiceWithdrawalRequest(m, amount, filled) ==
    reqs' = [reqs EXCEPT ![m].amount = amount, ![m].processed = ~filled, ![m].filled = filled]

\* ORDER BY from_address LIMIT limit
FirstAddresses(A, limit) ==
    {a \in A : Cardinality({b \in A : AddressOrder[b] < AddressOrder[a]}) < limit}

\* DISTINCT ON (from_address): any one request of each of the first addresses.
OnePerAddress(S, limit) ==
    {T \in SUBSET S : /\ \A m, n \in T : reqs[m].from = reqs[n].from => m = n
                      /\ {reqs[m].from : m \in T} = FirstAddresses({reqs[m].from : m \in S}, limit)}

\* The loops over the rows of a query go by their addresses.
IsFirst(m, S) == \A n \in S : AddressOrder[reqs[m].from] <= AddressOrder[reqs[n].from]

\* Mutant: a request already filled is a task again.
HotTasksAlsoFilled == {m \in Requested : ~reqs[m].processed}

\* GetServiceHotWithdrawalTasks
HotTasks == {m \in Requested : ~reqs[m].processed /\ ~reqs[m].filled}

\* buildWithdrawalMessages, its start: the balance of the hot wallet, the tasks.
StartBatch ==
    /\ hpc = "waitSync" /\ Synced
    /\ HotTasks # {}
    /\ left' = hotTon
    /\ todo' \in OnePerAddress(HotTasks, HotLimit)
    /\ hpc' = "build"
    /\ UNCHANGED <<dbVars, batch, unsaved, depositVars, chainVars, sentVars, payVars,
                   execVars, faults>>

Balance(m) == IF reqs[m].jetton = NoJetton THEN ton[reqs[m].from]
              ELSE jettons[reqs[m].from][reqs[m].jetton]

\* Mutant: the Jetton wallet that is a deposit is not refused.
RejectedOnlyEmpty(m) == Balance(m) = 0

\* buildServiceFilling, buildServiceTonWithdrawal, buildServiceJettonWithdrawal:
\* no message when there is nothing to withdraw, or from the Jetton wallet that
\* is itself a deposit.
Rejected(m) ==
    \/ reqs[m].from \in Proxies /\ reqs[m].jetton = DepositJetton
    \/ Balance(m) = 0

Message(m) ==
    [memo |-> m, filled |-> reqs[m].from \in Deposits,
     amount |-> IF reqs[m].jetton = NoJetton THEN 0 ELSE Balance(m)]

EndBuild ==
    hpc' = IF todo' # {} THEN "build" ELSE IF batch' # {} THEN "save" ELSE "waitSync"

\* No message can be built and none refused: GetJettonWalletAddress or
\* GetLastJettonBalance returns an error for what is no Jetton master, and the
\* filling of a request without a master is a nil pointer.
Unanswerable(m) ==
    \/ reqs[m].jetton \in BadMasters
    \/ reqs[m].from \in Deposits /\ reqs[m].jetton = NoJetton

\* The process ends, both processors with it, and starts again.
EndProcess ==
    /\ hpc' = "waitSync" /\ todo' = {} /\ left' = 0 /\ batch' = {} /\ unsaved' = {}
    /\ ipc' = "waitSync" /\ tasks' = {} /\ held' = NoTask

\* The error of buildServiceWithdrawalMessage is fatal.  What was built in this
\* round is lost; the request is as it was and is met again in the next round.
BuildFails(m) ==
    /\ hpc = "build" /\ m \in todo /\ IsFirst(m, todo)
    /\ left > 0 /\ Unanswerable(m)
    /\ EndProcess
    /\ UNCHANGED <<dbVars, chainVars, sentVars, payVars, execVars, faults>>

\* One round of the service loop of buildWithdrawalMessages.
BuildMessage(m) ==
    /\ hpc = "build" /\ m \in todo /\ IsFirst(m, todo)
    /\ left > 0 => ~Unanswerable(m)
    /\ todo' = todo \ {m}
    /\ \/ /\ left = 0       \* decreaseBalances
          /\ UNCHANGED <<reqs, left, batch, unsaved>>
       \/ /\ left > 0 /\ Rejected(m)
          /\ left' = left - 1
          /\ UpdateServiceWithdrawalRequest(m, 0, FALSE)
          /\ UNCHANGED <<batch, unsaved>>
       \/ /\ left > 0 /\ ~Rejected(m)
          /\ left' = left - 1
          /\ batch' = batch \cup {Message(m)}
          /\ unsaved' = unsaved \cup {Message(m)}
          /\ UNCHANGED reqs
    /\ EndBuild
    /\ UNCHANGED <<lastMemo, income, fresh, depositVars, chainVars, sentVars, payVars,
                   execVars, faults>>

\* The updates of a batch are statements of their own, before the message.
SaveMessage(w) ==
    /\ hpc = "save" /\ w \in unsaved
    /\ UpdateServiceWithdrawalRequest(w.memo, w.amount, w.filled)
    /\ unsaved' = unsaved \ {w}
    /\ hpc' = IF unsaved' = {} THEN "send" ELSE "save"
    /\ UNCHANGED <<lastMemo, income, fresh, todo, left, batch, depositVars, chainVars,
                   sentVars, payVars, execVars, faults>>

\* SendExternalMessage: an error is only logged.
SendBatch ==
    /\ hpc = "send"
    /\ \/ /\ mail' = mail \cup batch /\ UNCHANGED faults
          /\ hotMsgs' = [m \in Memos |-> hotMsgs[m] + Cardinality({w \in batch : w.memo = m})]
       \/ faults < MaxFaults /\ faults' = faults + 1 /\ UNCHANGED <<mail, hotMsgs>>
    /\ hpc' = "waitSync" /\ batch' = {} /\ left' = 0
    /\ UNCHANGED <<dbVars, todo, unsaved, depositVars, ton, jettons, hotTon, valid, unscanned,
                   depositMsgs, payVars, execVars>>

-----------------------------------------------------------------------------
(* Internal TON withdrawal processor: service tasks *)

\* Mutant: the join with ton_wallets asks for the other type.
DepositTasksOfProxies ==
    {m \in Requested : ~reqs[m].processed /\ reqs[m].filled /\ reqs[m].from \in Proxies}

\* GetServiceDepositWithdrawalTasks
DepositTasks ==
    {m \in Requested : ~reqs[m].processed /\ reqs[m].filled /\ reqs[m].from \in Deposits}

GetDepositTasks ==
    /\ ipc = "waitSync" /\ Synced
    /\ DepositTasks # {}
    /\ \E T \in OnePerAddress(DepositTasks, DepositLimit) :
          tasks' = {[memo |-> m, amount |-> reqs[m].amount] : m \in T}
    /\ ipc' = "loop"
    /\ UNCHANGED <<dbVars, hotVars, held, chainVars, sentVars, payVars, execVars, faults>>

\* serviceWithdrawJettons: an account that does not exist (yet) is left for the
\* next round.
SkipDeposit(t) ==
    /\ ipc = "loop" /\ t \in tasks /\ IsFirst(t.memo, {u.memo : u \in tasks})
    /\ ton[reqs[t.memo].from] = 0
    /\ tasks' = tasks \ {t}
    /\ ipc' = IF tasks' = {} THEN "waitSync" ELSE "loop"
    /\ UNCHANGED <<dbVars, hotVars, held, chainVars, sentVars, payVars, execVars, faults>>

\* Mutant: the request stays a task after its message.
UpdateDepositRequestKeepsFilled(t) ==
    /\ ipc = "loop" /\ t \in tasks /\ IsFirst(t.memo, {u.memo : u \in tasks})
    /\ ton[reqs[t.memo].from] > 0
    /\ UpdateServiceWithdrawalRequest(t.memo, t.amount, TRUE)
    /\ tasks' = tasks \ {t} /\ held' = t
    /\ ipc' = "send"
    /\ UNCHANGED <<lastMemo, income, fresh, hotVars, chainVars, sentVars, payVars, execVars,
                   faults>>

UpdateDepositRequest(t) ==
    /\ ipc = "loop" /\ t \in tasks /\ IsFirst(t.memo, {u.memo : u \in tasks})
    /\ ton[reqs[t.memo].from] > 0
    /\ UpdateServiceWithdrawalRequest(t.memo, t.amount, FALSE)
    /\ tasks' = tasks \ {t} /\ held' = t
    /\ ipc' = "send"
    /\ UNCHANGED <<lastMemo, income, fresh, hotVars, chainVars, sentVars, payVars, execVars,
                   faults>>

\* WithdrawJettons: an error is only logged.
WithdrawJettons ==
    /\ ipc = "send"
    /\ \/ /\ valid' = valid \cup {held} /\ UNCHANGED faults
          /\ depositMsgs' = [depositMsgs EXCEPT ![held.memo] = @ + 1]
       \/ faults < MaxFaults /\ faults' = faults + 1 /\ UNCHANGED <<valid, depositMsgs>>
    /\ held' = NoTask
    /\ ipc' = IF tasks = {} THEN "waitSync" ELSE "loop"
    /\ UNCHANGED <<dbVars, hotVars, tasks, ton, jettons, hotTon, mail, unscanned, hotMsgs,
                   payVars, execVars>>

\* withdrawTONsFromDeposit after the service tasks, and the execution of its
\* message (TonDepositWithdrawals has the detail): a deposit with an income
\* since the last time loses all its TON to the hot wallet.
WithdrawTONs(d) ==
    /\ fresh[d] /\ ton[d] > 0
    /\ fresh' = [fresh EXCEPT ![d] = FALSE]
    /\ ton' = [ton EXCEPT ![d] = 0]
    /\ hotTon' = hotTon + ton[d]
    /\ UNCHANGED <<reqs, lastMemo, income, hotVars, depositVars, jettons, mail, valid,
                   unscanned, sentVars, payVars, execVars, faults>>

\* The process ends for a reason of its own: a crash or a fault of the node.
Restart ==
    /\ faults < MaxFaults
    /\ hpc # "waitSync" \/ ipc # "waitSync"
    /\ faults' = faults + 1
    /\ EndProcess
    /\ UNCHANGED <<dbVars, chainVars, sentVars, payVars, execVars>>

-----------------------------------------------------------------------------
(* The chain *)

\* Transactions of known addresses: what the scanner will read of them.
HotOut(m) == [kind |-> "hotOut", memo |-> m]
DepositOut(m) == [kind |-> "depositOut", memo |-> m]
DepositIn(d, sender, amt) == [kind |-> "depositIn", to |-> d, from |-> sender, amount |-> amt]

\* A message of the hot wallet is executed; mode 3 skips one that the balance
\* does not cover.
SkipMessage(w) ==
    /\ w \in mail /\ hotTon = 0
    /\ mail' = mail \ {w}
    /\ UNCHANGED <<dbVars, hotVars, depositVars, ton, jettons, hotTon, valid, unscanned,
                   sentVars, payVars, execVars, faults>>

FillDeposit(w) ==
    /\ w \in mail /\ w.filled /\ hotTon > 0
    /\ LET d == reqs[w.memo].from
       IN  /\ ton' = [ton EXCEPT ![d] = @ + 1]
           /\ unscanned' = unscanned \o <<HotOut(w.memo), DepositIn(d, "hot", 1)>>
    /\ hotTon' = hotTon - 1
    /\ mail' = mail \ {w}
    /\ UNCHANGED <<dbVars, hotVars, depositVars, jettons, valid, sentVars, payVars, execVars,
                   faults>>

\* The proxy passes on the message with all its TON (mode 128 + 32): to the hot
\* wallet, or to the Jetton wallet, which transfers the amount and sends the
\* rest of the TON to the hot wallet, or sends all TON back to the proxy when it
\* has less than the amount.
ProxyTransfer(w) ==
    /\ w \in mail /\ ~w.filled /\ hotTon > 0
    /\ LET p == reqs[w.memo].from
           j == reqs[w.memo].jetton
       IN  IF j # NoJetton /\ jettons[p][j] < w.amount
           THEN /\ ton' = [ton EXCEPT ![p] = @ + 1]
                /\ hotTon' = hotTon - 1
                /\ UNCHANGED jettons
           ELSE /\ ton' = [ton EXCEPT ![p] = 0]
                /\ hotTon' = hotTon + ton[p]
                /\ jettons' = IF j = NoJetton THEN jettons
                              ELSE [jettons EXCEPT ![p][j] = @ - w.amount]
    /\ unscanned' = Append(unscanned, HotOut(w.memo))
    /\ mail' = mail \ {w}
    /\ UNCHANGED <<dbVars, hotVars, depositVars, valid, sentVars, payVars, execVars, faults>>

\* A deposit's message is executed, perhaps not for the first time (the account
\* is destroyed and its seqno starts again): all TON of the deposit goes to the
\* Jetton wallet, which bounces it when it has less than the amount.
DepositTransfer(t) ==
    LET d == reqs[t.memo].from
        j == reqs[t.memo].jetton
    IN  /\ t \in valid /\ ton[d] > 0
        /\ executions < MaxExecutions
        /\ executions' = executions + 1
        /\ IF jettons[d][j] < t.amount
           THEN /\ bounced' = [bounced EXCEPT ![d] = @ + ton[d]]
                /\ unscanned' = unscanned \o <<DepositOut(t.memo), DepositIn(d, "jettonWallet", ton[d])>>
                /\ UNCHANGED <<ton, hotTon, jettons>>
           ELSE /\ jettons' = [jettons EXCEPT ![d][j] = @ - t.amount]
                /\ ton' = [ton EXCEPT ![d] = 0]
                /\ hotTon' = hotTon + ton[d]
                /\ unscanned' = Append(unscanned, DepositOut(t.memo))
                /\ UNCHANGED bounced
        /\ UNCHANGED <<dbVars, hotVars, depositVars, mail, valid, sentVars, payVars, faults>>

\* The message of a deposit is too old for the next block.
TooOld(t) ==
    /\ t \in valid
    /\ valid' = valid \ {t}
    /\ UNCHANGED <<dbVars, hotVars, depositVars, ton, jettons, hotTon, mail, unscanned, sentVars,
                   payVars, execVars, faults>>

PayTon(a) ==
    /\ tonPayments < MaxTonPayments
    /\ tonPayments' = tonPayments + 1
    /\ ton' = [ton EXCEPT ![a] = @ + 1]
    /\ IF a \in Deposits
       THEN /\ paid' = [paid EXCEPT ![a] = @ + 1]
            /\ unscanned' = Append(unscanned, DepositIn(a, "payer", 1))
       ELSE UNCHANGED <<paid, unscanned>>
    /\ UNCHANGED <<dbVars, hotVars, depositVars, jettons, hotTon, mail, valid, sentVars,
                   jettonPayments, execVars, faults>>

PayJetton(a, j) ==
    /\ jettonPayments < MaxJettonPayments /\ j \notin BadMasters
    /\ jettonPayments' = jettonPayments + 1
    /\ jettons' = [jettons EXCEPT ![a][j] = @ + 1]
    /\ UNCHANGED <<dbVars, hotVars, depositVars, ton, hotTon, mail, valid, unscanned, sentVars,
                   paid, tonPayments, execVars, faults>>

-----------------------------------------------------------------------------
(* Block scanner *)

\* SendingConfirmations: processTonHotWalletProxyMsg makes one when the proxy is
\* told to write to the Jetton wallet of the deposit, and
\* processTonDepositWalletExternalInMsg none for a message to a Jetton wallet.
Confirmations(x) ==
    {m \in Requested : /\ x.kind = "hotOut" /\ x.memo = m
                       /\ reqs[m].from \in Proxies /\ reqs[m].jetton = DepositJetton}

\* applySendingConfirmations fails for a memo that is not one of an internal
\* withdrawal, and the process ends at this block for ever.
Refused(x) == Confirmations(x) # {}

\* Mutant: who sent the message does not matter.
IncomesFromAnybody(x) == IF x.kind = "depositIn" THEN {x} ELSE {}

\* processTonDepositWalletInternalInMsg: an income when the sender is not in the
\* address book.  A Jetton wallet of a TON deposit is not.
Incomes(x) == IF x.kind = "depositIn" /\ x.from # "hot" THEN {x} ELSE {}

Due(x, d) == IF \E y \in Incomes(x) : y.to = d THEN x.amount ELSE 0

Scan ==
    /\ unscanned # << >>
    /\ LET x == Head(unscanned)
       IN  /\ ~Refused(x)
           /\ income' = [d \in Deposits |-> income[d] + Due(x, d)]
           /\ fresh' = [d \in Deposits |-> fresh[d] \/ \E y \in Incomes(x) : y.to = d]
    /\ unscanned' = Tail(unscanned)
    /\ UNCHANGED <<reqs, lastMemo, hotVars, depositVars, ton, jettons, hotTon, mail, valid,
                   sentVars, payVars, execVars, faults>>

-----------------------------------------------------------------------------
Operator ==
    \/ \E a \in Addresses : ServiceTonWithdrawal(a)
    \/ \E w \in JettonWallets : ServiceJettonWithdrawal(w[1], w[2])

Payer ==
    \/ \E a \in TonPayees : PayTon(a)
    \/ \E w \in JettonWallets : PayJetton(w[1], w[2])

WithdrawalsProcessor ==
    \/ StartBatch
    \/ \E m \in todo : BuildMessage(m)
    \/ \E m \in todo : BuildFails(m)
    \/ \E w \in unsaved : SaveMessage(w)
    \/ SendBatch

InternalTonProcessor ==
    \/ GetDepositTasks
    \/ \E t \in tasks : SkipDeposit(t) \/ UpdateDepositRequest(t)
    \/ WithdrawJettons

HotWallet == \E w \in mail : SkipMessage(w) \/ FillDeposit(w) \/ ProxyTransfer(w)

Next ==
    \/ Operator
    \/ Payer
    \/ WithdrawalsProcessor
    \/ InternalTonProcessor
    \/ HotWallet
    \/ \E t \in valid : DepositTransfer(t)
    \/ \E t \in valid : TooOld(t)
    \/ \E d \in Deposits : WithdrawTONs(d)
    \/ Scan
    \/ Restart

Spec == Init /\ [][Next]_vars

\* The goroutines run and are started again after a crash, the hot wallet
\* executes what it was given, the scanner reads.  Nobody has to ask or to pay,
\* and a message of a deposit may also be lost or too old.
FairSpec ==
    /\ Spec
    /\ WF_vars(WithdrawalsProcessor)
    /\ WF_vars(InternalTonProcessor)
    /\ WF_vars(HotWallet)
    /\ WF_vars(Scan)

-----------------------------------------------------------------------------
(* Properties *)

\* A request costs the hot wallet one message and a deposit one message, however
\* the process ends between the update and the sending and however the two
\* processors interleave.
SentAtMostOnce == \A m \in Memos : hotMsgs[m] <= 1 /\ depositMsgs[m] <= 1

\* What was processed stays processed: the two processors, which both rewrite
\* the same columns from what they read before, never undo each other.
ProcessedIsFinal ==
    [][\A m \in Requested : reqs[m].processed => reqs[m]' = reqs[m]]_vars

\* Fillings are not incomes: when all is read, the deposit side of a TON deposit
\* is what payers paid and what came back from Jetton wallets.
IncomeAccountedFor ==
    unscanned = << >> => \A d \in Deposits : income[d] = paid[d] + bounced[d]

\* No block with a service withdrawal is refused: its memo is not one of an
\* internal withdrawal, so it must never look like one.
NoBlockRefused == \A i \in 1..Len(unscanned) : ~Refused(unscanned[i])

\* An operator has named an address that is no Jetton master.  Its request is
\* never processed, and every round of the withdrawals processor ends with it.
BadMasterNamed == \E m \in Requested : reqs[m].jetton \in BadMasters

\* Requests to proxies do not pile up: again and again all of them are processed,
\* whichever requests to the same address the query returns first and whatever is
\* lost, unless the hot wallet runs out of TON or a request names what is no Jetton
\* master.  Nothing else holds up the loop of buildWithdrawalMessages.
ProxyRequestsProcessed ==
    []<>(\/ \A m \in Requested : reqs[m].from \in Proxies => reqs[m].processed
         \/ hotTon = 0 \/ BadMasterNamed)

\* Requests whose deposit is filled (or was meant to be) and that wait for the
\* second message.
FilledRequests == {m \in Requested : reqs[m].filled /\ ~reqs[m].processed}

\* As many deposits with lower addresses as the LIMIT of the query wait, too.
Crowded(d) == d \notin FirstAddresses({reqs[m].from : m \in FilledRequests}, DepositLimit)

\* Deposits that are filled and still have their TON are not forgotten, however
\* the process ends between the two steps: again and again the second messages are
\* sent or the internal TON withdrawal has taken the TON first.  A deposit waits no
\* longer than others with lower addresses take up the whole LIMIT of the query
\* (those whose filling was lost do so for ever) and no request names what is no
\* Jetton master.
FilledUntilSwept ==
    []<>(\/ \A m \in FilledRequests : ton[reqs[m].from] = 0 \/ Crowded(reqs[m].from)
         \/ BadMasterNamed)

\* "There is no any deposit transactions (incomes/withdrawals) in the database"
\* after a service withdrawal: the deposit side is what payers paid.
NoServiceIncome ==
    unscanned = << >> => \A d \in Deposits : income[d] <= paid[d]
=============================================================================
