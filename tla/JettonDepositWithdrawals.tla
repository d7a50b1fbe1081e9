---------------------- MODULE JettonDepositWithdrawals ----------------------
(***************************************************************************)
(* Internal withdrawals of Jettons.  The hot wallet sends a message to the *)
(* proxy that owns the Jetton wallet of a deposit, the proxy asks it for a *)
(* transfer, the transfer arrives on the hot wallet.  The scanner sees the *)
(* three transactions in order and learns the incomes of a deposit from    *)
(* transfer notifications and from its balance before and after a block.   *)
(*                                                                         *)
(* Anybody may send a transfer message to the Jetton wallet of a deposit;  *)
(* the wallet refuses what is not its owner's.  The scanner does not look  *)
(* at the sender of a refused transfer, only at its comment, and takes it  *)
(* for a failed withdrawal.                                                *)
(*                                                                         *)
(* A block has up to two transactions, the i-th with logical time          *)
(* 2 * time + i - 1.  An income is one unit.                               *)
(***************************************************************************)
EXTENDS Integers, Sequences, FiniteSets, FiniteSetsExt, Functions

CONSTANTS
    Deposits,       \* Jetton deposit wallets
    Lifetime,       \* config.ExternalMessageLifetime
    Lag,            \* config.AllowableBlockchainLagging
    Cutoff,         \* WithdrawalCutoff of the Jetton
    ExpireDelay,    \* longest time from waitSync to the clock read of SetExpired
    MaxIncomes,     \* bound: transfers to deposits
    MaxForeign,     \* bound: refused transfers that are not the service's
    MaxMemos,       \* bound: internal withdrawals
    MaxTime         \* bound: the clock

ASSUME ConstantsAssumption ==
    /\ IsFiniteSet(Deposits)
    /\ {Lifetime, Lag, Cutoff, ExpireDelay} \subseteq Nat
    /\ {MaxIncomes, MaxForeign, MaxMemos, MaxTime} \subseteq Nat

Memos == 1..MaxMemos
Null == 0       \* NULL of a logical time or block time; real ones are positive.
                \* Also a comment that is the memo of no withdrawal

VARIABLES
    \* payments.external_incomes: greatest lt and total amount of each deposit
    lastIncome, income,
    \* payments.internal_incomes: total amount of each deposit
    internalIncome,
    \* payments.internal_withdrawals by memo
    rows, lastMemo,
    \* gen_utime of the last saved block
    scanTime,
    \* withdrawals processor: tasks left, withdrawals of the batch not yet saved,
    \* memos and TTL of the message in hand
    ppc, tasks, taken, memos, until,
    \* expiration processor
    epc, syncedAt,
    \* the chain: messages of the hot wallet that can be executed, amount each
    \* memo asks for, memos on their way to the deposit and to the hot wallet
    sent, asked, proxied, moved,
    \* published balances, the block being made, blocks not yet scanned
    balance, draft, unscanned, chainTime, incomes,
    \* transfers that are not the service's: their number, the memos they named
    foreign, claimed,
    now

dbVars == <<lastIncome, income, internalIncome, rows, lastMemo, scanTime>>
procVars == <<ppc, tasks, taken, memos, until>>
expVars == <<epc, syncedAt>>
chainVars == <<sent, asked, proxied, moved, balance, draft, unscanned, chainTime, incomes,
              foreign, claimed>>
vars == <<dbVars, procVars, expVars, chainVars, now>>

RowMemos == 1..lastMemo
RowsOf(d) == {m \in RowMemos : rows[m].from = d}

\* A withdrawal that is neither finished nor failed.
Live(m) == ~rows[m].failed /\ rows[m].finishLt = Null

-----------------------------------------------------------------------------
(* Queries *)

Synced == scanTime # Null /\ now < scanTime + Lag

\* The joined rows: the greatest since_lt among the rows that did not fail (a
\* failed row with this since_lt is joined as well).
LatestRows(d) ==
    LET since == {rows[m].sinceLt : m \in {n \in RowsOf(d) : ~rows[n].failed}}
    IN  {m \in RowsOf(d) : since # {} /\ rows[m].sinceLt = Max(since)}

\* Mutant: an unfinished withdrawal does not hide the deposit.
JettonTasksUnfinished ==
    {d \in Deposits : /\ lastIncome[d] # Null
                      /\ \/ LatestRows(d) = {}
                         \/ \E m \in LatestRows(d) : lastIncome[d] > rows[m].sinceLt}

\* Mutant: incomes are compared with the end of the withdrawal, as for TON.
JettonTasksAfterFinish ==
    {d \in Deposits : /\ lastIncome[d] # Null
                      /\ \/ LatestRows(d) = {}
                         \/ \E m \in LatestRows(d) :
                               rows[m].finishLt # Null /\ lastIncome[d] > rows[m].finishLt}

\* GetJettonInternalWithdrawalTasks: an income later than the one the last
\* finished withdrawal was made for, or no withdrawal that did not fail.
JettonTasks ==
    {d \in Deposits : /\ lastIncome[d] # Null
                      /\ \/ LatestRows(d) = {}
                         \/ \E m \in LatestRows(d) :
                               rows[m].finishLt # Null /\ lastIncome[d] > rows[m].sinceLt}

Zero == [d \in Deposits |-> 0]

Init ==
    /\ lastIncome = [d \in Deposits |-> Null] /\ income = Zero /\ internalIncome = Zero
    /\ rows = [m \in Memos |-> Null] /\ lastMemo = 0
    /\ scanTime = Null
    /\ ppc = "waitSync" /\ tasks = {} /\ taken = {} /\ memos = {} /\ until = Null
    /\ epc = "waitSync" /\ syncedAt = Null
    /\ sent = {} /\ asked = [m \in Memos |-> 0] /\ proxied = {} /\ moved = {}
    /\ balance = Zero /\ draft = [txs |-> <<>>, balance |-> Zero] /\ unscanned = <<>> /\ chainTime = 0 /\ incomes = 0
    /\ foreign = 0 /\ claimed = {}
    /\ now = 1

-----------------------------------------------------------------------------
(* Withdrawals processor *)

\* waitSync returned: sleep.
ProcessorSynced ==
    /\ ppc = "waitSync" /\ Synced
    /\ ppc' = "sleep"
    /\ UNCHANGED <<dbVars, tasks, taken, memos, until, expVars, chainVars, now>>

\* The tasks in any number up to the limits, without the proxies that service
\* withdrawals of the batch use; each with the greatest lt known now.
GetTasks(S) ==
    /\ ppc = "sleep"
    /\ tasks' = {[from |-> d, lt |-> lastIncome[d]] : d \in S}
    /\ ppc' = IF S = {} THEN "waitSync" ELSE "loop"
    /\ UNCHANGED <<dbVars, taken, memos, until, expVars, chainVars, now>>

\* buildJettonInternalWithdrawalMessage reads the balance of the deposit: at the
\* cutoff or below it there is no message, above it all is withdrawn.
ReadBalance(task) ==
    /\ ppc = "loop" /\ task \in tasks
    /\ tasks' = tasks \ {task}
    /\ taken' = IF balance[task.from] > Cutoff
                THEN taken \cup {[from |-> task.from, lt |-> task.lt, amount |-> balance[task.from]]}
                ELSE taken
    /\ UNCHANGED <<dbVars, ppc, memos, until, expVars, chainVars, now>>

\* BuildExternalMessageForMany, when there is something to send.
BuildMessage ==
    /\ ppc = "loop" /\ tasks = {}
    /\ IF taken = {} THEN ppc' = "waitSync" /\ UNCHANGED until
                     ELSE ppc' = "save" /\ until' = now + Lifetime
    /\ UNCHANGED <<dbVars, tasks, taken, memos, expVars, chainVars, now>>

\* One statement per withdrawal, with the TTL of the message as expired_at.
SaveInternalWithdrawalTask(w) ==
    /\ ppc = "save" /\ w \in taken
    /\ lastMemo < MaxMemos
    /\ lastMemo' = lastMemo + 1
    /\ rows' = [rows EXCEPT ![lastMemo + 1] =
                  [from |-> w.from, sinceLt |-> w.lt, expiredAt |-> until, failed |-> FALSE,
                   sendingLt |-> Null, finishLt |-> Null, amount |-> 0]]
    /\ asked' = [asked EXCEPT ![lastMemo + 1] = w.amount]
    /\ taken' = taken \ {w} /\ memos' = memos \cup {lastMemo + 1}
    /\ UNCHANGED <<lastIncome, income, internalIncome, scanTime, ppc, tasks, until, expVars,
                   sent, proxied, moved, balance, draft, unscanned, chainTime, incomes, foreign,
                   claimed, now>>

\* SendExternalMessage: the message reaches a node, or is lost.
SendMessage ==
    /\ ppc = "save" /\ taken = {}
    /\ sent' \in {sent, sent \cup {[until |-> until, memos |-> memos]}}
    /\ ppc' = "waitSync" /\ memos' = {} /\ until' = Null
    /\ UNCHANGED <<dbVars, tasks, taken, expVars, asked, proxied, moved, balance, draft, unscanned,
                   chainTime, incomes, foreign, claimed, now>>

-----------------------------------------------------------------------------
(* Expiration processor *)

\* waitSync, and the start of SetExpired.
ExpirationSynced ==
    /\ epc = "waitSync" /\ Synced
    /\ epc' = "expire" /\ syncedAt' = now
    /\ UNCHANGED <<dbVars, procVars, chainVars, now>>

\* Mutant: the condition sending_lt IS NULL is missing.
ExpiredEvenSent ==
    {m \in RowMemos : rows[m].expiredAt + Lag < now /\ ~rows[m].failed /\ rows[m].finishLt = Null}

Expired ==
    {m \in RowMemos : rows[m].expiredAt + Lag < now /\ ~rows[m].failed /\ rows[m].sendingLt = Null}

SetExpired ==
    /\ epc = "expire" /\ now <= syncedAt + ExpireDelay
    /\ rows' = [m \in Memos |-> IF m \in Expired THEN [rows[m] EXCEPT !.failed = TRUE] ELSE rows[m]]
    /\ epc' = "waitSync" /\ syncedAt' = Null
    /\ UNCHANGED <<lastIncome, income, internalIncome, lastMemo, scanTime, procVars, chainVars, now>>

-----------------------------------------------------------------------------
(* Block scanner *)

\* Transactions of block b on accounts of the address book.
Txs(b, kind) == {x \in Range(b.txs) : x.kind = kind}

\* Withdrawals whose message to the proxy left the hot wallet in block b.
SentMemos(b) == UNION {x.memos : x \in Txs(b, "sending")}

\* Transactions of the Jetton wallet of d in block b with a message that may have
\* changed its balance: incomes, transfers, and refused ones that were sent back.
DepositTxs(b, d) ==
    {x \in Txs(b, "income") : x.deposit = d} \cup {x \in Txs(b, "transfer") : rows[x.memo].from = d}
        \cup {x \in Txs(b, "foreign") : x.deposit = d /\ x.bounced}

\* Incomes with a transfer notification to the owner.
KnownIncomes(b, d) == {x \in Txs(b, "income") : x.deposit = d /\ x.notification}

\* What the transfers of the block took from d.
Withdrawn(b, d) ==
    LET out == {x \in Txs(b, "transfer") : rows[x.memo].from = d /\ x.success}
    IN  SumFunction([x \in out |-> asked[x.memo]])

\* Mutant: what was withdrawn in the block is not added.
UnknownIncomeOfBalance(b, d) == (b.after[d] - b.before[d]) - Cardinality(KnownIncomes(b, d))

\* calculateJettonAmounts: the change of the balance that is not explained.
UnknownIncome(b, d) ==
    (b.after[d] - b.before[d]) + Withdrawn(b, d) - Cardinality(KnownIncomes(b, d))

\* External incomes of the block: the known ones, and, when something is
\* unexplained, a zero income for each transaction with an unknown message
\* (every one of them has one, a failed transfer the bounce) and the amount with the lt of the first.
IncomeLts(b, d) ==
    {x.lt : x \in IF UnknownIncome(b, d) > 0 THEN DepositTxs(b, d) ELSE KnownIncomes(b, d)}
IncomeAmount(b, d) ==
    Cardinality(KnownIncomes(b, d)) + Max({UnknownIncome(b, d), 0})

Sendings(b, m) == {x \in Txs(b, "sending") : m \in x.memos}
Transfers(b, m) == {x \in Txs(b, "transfer") : x.memo = m}
Foreign(b, m) == {x \in Txs(b, "foreign") : x.memo = m}

\* Is y saved after x whatever the order of the accounts?  Transactions of one
\* account are in the order of their lt.
SavedAfter(y, x) == x.kind = y.kind \/ (x.deposit = rows[y.memo].from /\ x.lt < y.lt)

\* What the block says of memo m is refused.  applySendingConfirmations refuses a
\* failed row; updateInternalWithdrawal a comment that is no memo, a failed row (one
\* that an earlier event of the block failed, too) and one without a sending
\* confirmation.
Refused(b, m) ==
    LET events == Transfers(b, m) \cup Foreign(b, m)
    IN  IF m \notin RowMemos THEN events # {}
        ELSE \/ rows[m].failed /\ Sendings(b, m) \cup events # {}
             \/ rows[m].sendingLt = Null /\ Sendings(b, m) = {} /\ events # {}
             \/ \E x \in Foreign(b, m), y \in events : x # y /\ SavedAfter(y, x)
             \/ \E x \in Transfers(b, m) : ~x.success /\ Foreign(b, m) # {}
BlockError(b) == \E m \in RowMemos \cup {Null} : Refused(b, m)

\* applySendingConfirmations.
Confirmed(row, xs) ==
    IF xs = {} THEN row ELSE [row EXCEPT !.sendingLt = Max({x.lt : x \in xs})]

\* Mutant: a failed transfer finishes the withdrawal as well.
FinishedEvenFailed(row, xs) ==
    IF xs = {} THEN row
    ELSE LET x == CHOOSE y \in xs : TRUE
         IN  [row EXCEPT !.failed = ~x.success, !.finishLt = x.lt, !.amount = @ + asked[x.memo]]

\* updateInternalWithdrawal of the withdrawal's transfer (there is one at most).
Finished(row, xs) ==
    IF xs = {} THEN row
    ELSE LET x == CHOOSE y \in xs : TRUE
         IN  IF x.success THEN [row EXCEPT !.finishLt = x.lt, !.amount = @ + asked[x.memo]]
                          ELSE [row EXCEPT !.failed = TRUE]

\* updateInternalWithdrawal of refused transfers, whoever sent them: no condition on
\* finish_lt, and the amount stays.
Failed(row, xs) == IF xs = {} THEN row ELSE [row EXCEPT !.failed = TRUE]

\* Internal incomes: notifications of the Jetton hot wallet, sent by a proxy.
HotIncome(b, d) ==
    LET in == {x \in Txs(b, "notify") : rows[x.memo].from = d}
    IN  SumFunction([x \in in |-> asked[x.memo]])

\* processBlock and SaveParsedBlockData of the next block.
ScanBlock ==
    /\ unscanned # <<>>
    /\ LET b == Head(unscanned)
       IN  /\ ~BlockError(b)
           /\ lastIncome' = [d \in Deposits |-> Max({lastIncome[d]} \cup IncomeLts(b, d))]
           /\ income' = [d \in Deposits |-> income[d] + IncomeAmount(b, d)]
           /\ internalIncome' = [d \in Deposits |-> internalIncome[d] + HotIncome(b, d)]
           /\ rows' = [m \in Memos |-> Failed(Finished(Confirmed(rows[m], Sendings(b, m)),
                                                       Transfers(b, m)),
                                              Foreign(b, m))]
           /\ scanTime' = b.time
    /\ unscanned' = Tail(unscanned)
    /\ UNCHANGED <<lastMemo, procVars, expVars, sent, asked, proxied, moved, balance, draft, chainTime,
                   incomes, foreign, claimed, now>>

\* The process ends, by a crash, an error or a block that is refused, and starts
\* again; the refused block is still the next one.
Restart ==
    /\ ppc # "waitSync" \/ epc # "waitSync"
    /\ ppc' = "waitSync" /\ tasks' = {} /\ taken' = {} /\ memos' = {} /\ until' = Null
    /\ epc' = "waitSync" /\ syncedAt' = Null
    /\ UNCHANGED <<dbVars, chainVars, now>>

-----------------------------------------------------------------------------
(* The chain and the clock *)

\* The draft of the next block; its transactions follow one another within it.
NextLt == 2 * now + Len(draft.txs)
Transact(x, bal) ==
    /\ chainTime < now /\ Len(draft.txs) < 2
    /\ draft' = [txs |-> Append(draft.txs, x), balance |-> bal]
    /\ UNCHANGED <<dbVars, procVars, expVars, asked, balance, unscanned, chainTime, now>>

\* A payer sends one unit; his wallet may ask for no transfer notification.
Income(d, n) ==
    /\ incomes < MaxIncomes
    /\ Transact([kind |-> "income", deposit |-> d, notification |-> n, lt |-> NextLt],
                [draft.balance EXCEPT ![d] = @ + 1])
    /\ incomes' = incomes + 1
    /\ UNCHANGED <<sent, proxied, moved, foreign, claimed>>

\* Somebody else sends a transfer message to the Jetton wallet of d, with the memo
\* of a withdrawal as its comment (memos are public once a message is sent) or with
\* another one.  The wallet refuses it, and sends it back if it may (the block with
\* another comment is never saved, so that back makes no difference then).
ForeignTransfer(d, m, back) ==
    /\ foreign < MaxForeign
    /\ m \notin memos /\ (m = Null => back)
    /\ Transact([kind |-> "foreign", deposit |-> d, memo |-> m, bounced |-> back, lt |-> NextLt],
                draft.balance)
    /\ foreign' = foreign + 1 /\ claimed' = claimed \cup {m}
    /\ UNCHANGED <<sent, proxied, moved, incomes>>

\* The hot wallet executes a valid message, once; it may skip transfers.
Execute(msg, D) ==
    /\ now <= msg.until
    /\ Transact([kind |-> "sending", memos |-> D, lt |-> NextLt], draft.balance)
    /\ sent' = sent \ {msg}
    /\ proxied' = proxied \cup D
    /\ UNCHANGED <<moved, incomes, foreign, claimed>>

\* The proxy's message is executed by the Jetton wallet, or fails there.
Transfer(m, ok) ==
    LET d == rows[m].from
    IN  /\ ok => draft.balance[d] >= asked[m]
        /\ Transact([kind |-> "transfer", memo |-> m, success |-> ok, lt |-> NextLt],
                    IF ok THEN [draft.balance EXCEPT ![d] = @ - asked[m]] ELSE draft.balance)
        /\ proxied' = proxied \ {m}
        /\ moved' = IF ok THEN moved \cup {m} ELSE moved
        /\ UNCHANGED <<sent, incomes, foreign, claimed>>

\* The Jetton hot wallet notifies the hot wallet.
Notify(m) ==
    /\ Transact([kind |-> "notify", memo |-> m, lt |-> NextLt], draft.balance)
    /\ moved' = moved \ {m}
    /\ UNCHANGED <<sent, proxied, incomes, foreign, claimed>>

\* The block is final.
NewBlock ==
    /\ chainTime < now
    /\ chainTime' = now
    /\ unscanned' = Append(unscanned, [time |-> now, before |-> balance, after |-> draft.balance,
                                       txs |-> draft.txs])
    /\ balance' = draft.balance
    /\ draft' = [txs |-> <<>>, balance |-> draft.balance]
    /\ UNCHANGED <<dbVars, procVars, expVars, sent, asked, proxied, moved, incomes, foreign, claimed,
                   now>>

\* Time passes; a message past its TTL is worth nothing any more.
Tick ==
    /\ now < MaxTime /\ draft.txs = <<>>
    /\ now' = now + 1 /\ sent' = {msg \in sent : now' <= msg.until}
    /\ UNCHANGED <<dbVars, procVars, expVars, asked, proxied, moved, balance, draft, unscanned,
                   chainTime, incomes, foreign, claimed>>

Next ==
    \/ ProcessorSynced
    \/ \E S \in SUBSET JettonTasks : GetTasks(S)
    \/ \E task \in tasks : ReadBalance(task)
    \/ BuildMessage
    \/ \E w \in taken : SaveInternalWithdrawalTask(w)
    \/ SendMessage
    \/ ExpirationSynced
    \/ SetExpired
    \/ ScanBlock
    \/ Restart
    \/ \E d \in Deposits, n \in BOOLEAN : Income(d, n)
    \/ \E d \in Deposits, m \in RowMemos \cup {Null}, back \in BOOLEAN : ForeignTransfer(d, m, back)
    \/ \E msg \in sent : \E D \in SUBSET msg.memos : Execute(msg, D)
    \/ \E m \in proxied, ok \in BOOLEAN : Transfer(m, ok)
    \/ \E m \in moved : Notify(m)
    \/ NewBlock
    \/ Tick

Spec == Init /\ [][Next]_vars

-----------------------------------------------------------------------------
(* Properties *)

\* Incomes are never negative, and a withdrawal that failed brought nothing and is
\* not finished, unless somebody else has named it in a refused transfer.
TypeOK ==
    /\ lastIncome \in [Deposits -> Nat] /\ income \in [Deposits -> Nat]
    /\ internalIncome \in [Deposits -> Nat]
    /\ lastMemo \in 0..MaxMemos /\ scanTime \in Nat /\ now \in Nat
    /\ \A m \in RowMemos :
          /\ rows[m] \in [from : Deposits, sinceLt : Nat, expiredAt : Nat, failed : BOOLEAN,
                          sendingLt : Nat, finishLt : Nat, amount : Nat]
          /\ rows[m].failed /\ m \notin claimed => rows[m].finishLt = Null /\ rows[m].amount = 0
    /\ ppc \in {"waitSync", "sleep", "loop", "save"} /\ epc \in {"waitSync", "expire"}
    /\ memos \cup proxied \cup moved \subseteq RowMemos
    /\ balance \in [Deposits -> Nat]
    /\ claimed \subseteq RowMemos \cup {Null}

\* A finished withdrawal of the deposit was failed afterwards.
TakenBack(d) == \E m \in RowsOf(d) : rows[m].failed /\ rows[m].finishLt # Null

\* At most one withdrawal of a deposit is under way, whatever was lost, failed,
\* interrupted or named by others, as long as no finished one of it was failed
\* afterwards: the query for tasks may then take that row for the last one, next to
\* a withdrawal that is under way.
OneLivePerDeposit ==
    \A d \in Deposits : ~TakenBack(d) => \A m, n \in RowsOf(d) : Live(m) /\ Live(n) => m = n

\* What the service itself does never makes a block that the scanner refuses, which
\* would end the process at every restart: a withdrawal that was given up is never
\* met, and a transfer not before its sending ("invalid event order").  When a block
\* is refused, it is for a memo, or a comment that is none, of a refused transfer
\* that somebody else sent.
NoBlockRefused ==
    unscanned # <<>> =>
        \A m \in RowMemos \cup {Null} : Refused(Head(unscanned), m) => m \in claimed

\* Jettons on a deposit are never forgotten: once all blocks are read and no
\* withdrawal is under way, a deposit with more than the cutoff is a task.
NoStrandedDeposit ==
    \A d \in Deposits :
        unscanned = <<>> /\ balance[d] > Cutoff /\ (\A m \in RowsOf(d) : ~Live(m))
            => d \in JettonTasks

\* Once all blocks are read, the incomes of a deposit, with and without
\* notification, are what is on it and what its withdrawals brought, and the
\* hot wallet has received this but for what is still on its way.
AmountsBalance ==
    unscanned = <<>> /\ draft.txs = <<>> =>
        \A d \in Deposits :
            LET out == SumFunction([m \in RowsOf(d) |-> rows[m].amount])
                way == SumFunction([m \in {n \in moved : rows[n].from = d} |-> asked[m]])
            IN  /\ income[d] = balance[d] + out
                /\ out = internalIncome[d] + way

\* The withdrawals as InternalWithdrawalLifecycle sees them: what the table says,
\* and the successful transfers that the scanner still has to read.
StageOf(m) == IF m \notin RowMemos THEN "none"
              ELSE IF rows[m].failed THEN "failed"
              ELSE IF rows[m].finishLt # Null THEN "finished" ELSE "open"
FromOf(m) == IF m \in RowMemos THEN rows[m].from ELSE Null
BroughtOf(m) == IF m \in RowMemos THEN rows[m].amount ELSE 0
Took(b, m) ==
    \E i \in DOMAIN b.txs : b.txs[i].kind = "transfer" /\ b.txs[i].memo = m /\ b.txs[i].success
OnTheWay(m) == Took(draft, m) \/ \E i \in DOMAIN unscanned : Took(unscanned[i], m)
WayOf(m) == IF OnTheWay(m) THEN asked[m] ELSE 0

Lifecycle == INSTANCE InternalWithdrawalLifecycle
    WITH Nobody  <- Null,
         Replays <- FALSE,
         stage   <- [m \in Memos |-> StageOf(m)],
         from    <- [m \in Memos |-> FromOf(m)],
         held    <- draft.balance,
         way     <- [m \in Memos |-> WayOf(m)],
         brought <- [m \in Memos |-> BroughtOf(m)],
         claimed <- claimed \ {Null}

\* Internal withdrawals of Jettons keep to InternalWithdrawalLifecycle, and take
\* once each: Jettons leave a deposit only for a withdrawal that is under way, all
\* that left is booked, and a withdrawal whose transfer may have left the deposit
\* is never given up, unless somebody else has named it in a refused transfer.
ImplementsLifecycle == Lifecycle!Spec
=============================================================================
