------------------------ MODULE TonDepositWithdrawals ------------------------
(***************************************************************************)
(* Internal withdrawals of TON: payments arrive on deposit wallets, the    *)
(* internal TON withdrawal processor sends the whole balance of a deposit  *)
(* to the hot wallet, the block scanner records both, and the expiration   *)
(* processor gives up what was not executed.                               *)
(*                                                                         *)
(* The deposit wallet sends with mode 128 + 32: everything leaves and the  *)
(* account is destroyed, so its seqno starts again and the same external   *)
(* message is executed a second time if money arrives while it is valid.   *)
(* A block has two slots; a transaction in slot i of block t has logical   *)
(* time 2 * t + i.  Every payment is one unit.                             *)
(***************************************************************************)
EXTENDS Naturals, FiniteSets, FiniteSetsExt, Functions

CONSTANTS
    Deposits,       \* TON deposit wallets
    Lifetime,       \* config.ExternalMessageLifetime
    Lag,            \* config.AllowableBlockchainLagging
    Cutoff,         \* config.Config.Ton.Withdrawal
    SendDelay,      \* longest time from saving the task to building the message
    ExpireDelay,    \* longest time from waitSync to the clock read of SetExpired
    MaxPayments,    \* bound: payments of payers
    MaxMemos,       \* bound: internal withdrawals
    MaxTime         \* bound: the clock

ASSUME ConstantsAssumption ==
    /\ IsFiniteSet(Deposits)
    /\ {Lifetime, Lag, Cutoff, SendDelay, ExpireDelay} \subseteq Nat
    /\ {MaxPayments, MaxMemos, MaxTime} \subseteq Nat

Memos == 1..MaxMemos
Null == 0       \* NULL of a logical time or block time; real ones are positive

VARIABLES
    \* payments.external_incomes: last lt and total amount of each deposit
    lastIncome, income,
    \* payments.internal_withdrawals by memo
    rows, lastMemo,
    \* gen_utime of the last saved block
    scanTime,
    \* the two goroutines: tasks the processor still has, memo it holds
    ipc, tasks, epc, syncedAt,
    \* the chain: balances, messages by memo (valid_until, Null: never sent),
    \* transactions in unscanned blocks, times of unscanned blocks
    balance, validUntil, txs, unscanned, chainTime, payments,
    now

dbVars == <<lastIncome, income, rows, lastMemo, scanTime>>
serviceVars == <<ipc, tasks, epc, syncedAt>>
chainVars == <<balance, txs, unscanned, chainTime, payments>>
vars == <<dbVars, serviceVars, chainVars, validUntil, now>>

RowMemos == 1..lastMemo
RowsOf(d) == {m \in RowMemos : rows[m].from = d}

\* A withdrawal that is neither finished nor failed.
Live(m) == ~rows[m].failed /\ rows[m].finishLt = Null

-----------------------------------------------------------------------------
(* Queries *)

Synced == scanTime # Null /\ now < scanTime + Lag

\* Mutant: failed rows count as well.
LatestRowsWithFailed(d) ==
    LET since == {rows[m].sinceLt : m \in RowsOf(d)}
    IN  {m \in RowsOf(d) : since # {} /\ rows[m].sinceLt = Max(since)}

\* The join of GetTonInternalWithdrawalTasks: rows with the greatest since_lt
\* among those not failed.
LatestRows(d) ==
    LET since == {rows[m].sinceLt : m \in {n \in RowsOf(d) : ~rows[n].failed}}
    IN  {m \in RowsOf(d) : since # {} /\ rows[m].sinceLt = Max(since)}

\* Mutant: an unfinished withdrawal does not hide the deposit.
TonInternalTasksUnfinished ==
    {d \in Deposits : /\ lastIncome[d] # Null
                      /\ \/ LatestRows(d) = {}
                         \/ \E m \in LatestRows(d) : lastIncome[d] > rows[m].finishLt}

\* GetTonInternalWithdrawalTasks: deposits with an income after the last
\* finished withdrawal, or with no withdrawal that did not fail.
TonInternalTasks ==
    {d \in Deposits : /\ lastIncome[d] # Null
                      /\ \/ LatestRows(d) = {}
                         \/ \E m \in LatestRows(d) :
                               rows[m].finishLt # Null /\ lastIncome[d] > rows[m].finishLt}

Init ==
    /\ lastIncome = [d \in Deposits |-> Null] /\ income = [d \in Deposits |-> 0]
    /\ rows = [m \in Memos |-> Null] /\ lastMemo = 0
    /\ scanTime = Null
    /\ ipc = "waitSync" /\ tasks = {}
    /\ epc = "waitSync" /\ syncedAt = Null
    /\ balance = [d \in Deposits |-> 0]
    /\ validUntil = [m \in Memos |-> Null]
    /\ txs = {} /\ unscanned = {} /\ chainTime = 0 /\ payments = 0
    /\ now = 1

-----------------------------------------------------------------------------
(* Internal TON withdrawal processor *)

\* waitSync, then the list of tasks: each with the last lt known now.
GetTasks ==
    /\ ipc = "waitSync" /\ Synced
    /\ TonInternalTasks # {}
    /\ ipc' = "loop"
    /\ tasks' = {[from |-> d, lt |-> lastIncome[d]] : d \in TonInternalTasks}
    /\ UNCHANGED <<dbVars, epc, syncedAt, chainVars, validUntil, now>>

\* withdrawTONsFromDeposit, first part: an account that does not exist or has
\* no more than the cutoff is left alone, another gets a row.
SkipDeposit(task) ==
    /\ ipc = "loop" /\ task \in tasks
    /\ balance[task.from] <= Cutoff
    /\ tasks' = tasks \ {task}
    /\ ipc' = IF tasks' = {} THEN "waitSync" ELSE "loop"
    /\ UNCHANGED <<dbVars, epc, syncedAt, chainVars, validUntil, now>>

SaveInternalWithdrawalTask(task) ==
    /\ ipc = "loop" /\ task \in tasks
    /\ balance[task.from] > Cutoff
    /\ lastMemo < MaxMemos
    /\ lastMemo' = lastMemo + 1
    /\ rows' = [rows EXCEPT ![lastMemo + 1] =
                  [from |-> task.from, sinceLt |-> task.lt, expiredAt |-> now + Lifetime,
                   failed |-> FALSE, sendingLt |-> Null, finishLt |-> Null, amount |-> 0]]
    /\ tasks' = tasks \ {task}
    /\ ipc' = "send"
    /\ UNCHANGED <<lastIncome, income, scanTime, epc, syncedAt, chainVars, validUntil, now>>

\* withdrawTONsFromDeposit, second part: WithdrawTONs takes the lifetime of the
\* message from the clock again.  The message reaches a node, or an error is
\* written to the audit log and nothing happens.
WithdrawTONs ==
    /\ ipc = "send"
    /\ now + Lifetime <= rows[lastMemo].expiredAt + SendDelay
    /\ validUntil' \in {validUntil, [validUntil EXCEPT ![lastMemo] = now + Lifetime]}
    /\ ipc' = IF tasks = {} THEN "waitSync" ELSE "loop"
    /\ UNCHANGED <<dbVars, tasks, epc, syncedAt, chainVars, now>>

-----------------------------------------------------------------------------
(* Expiration processor *)

ExpirationSynced ==
    /\ epc = "waitSync" /\ Synced
    /\ epc' = "expire" /\ syncedAt' = now
    /\ UNCHANGED <<dbVars, ipc, tasks, chainVars, validUntil, now>>

\* Mutant: the lagging is not subtracted.
ExpiredNoLag == {m \in RowMemos : rows[m].expiredAt < now
                                   /\ rows[m].sendingLt = Null /\ ~rows[m].failed}

Expired == {m \in RowMemos : rows[m].expiredAt + Lag < now
                              /\ rows[m].sendingLt = Null /\ ~rows[m].failed}

SetExpired ==
    /\ epc = "expire" /\ now <= syncedAt + ExpireDelay
    /\ rows' = [m \in Memos |-> IF m \in Expired THEN [rows[m] EXCEPT !.failed = TRUE]
                                                  ELSE rows[m]]
    /\ epc' = "waitSync" /\ syncedAt' = Null
    /\ UNCHANGED <<lastIncome, income, lastMemo, scanTime, ipc, tasks, chainVars,
                   validUntil, now>>

-----------------------------------------------------------------------------
(* Block scanner *)

IsNextBlock(t) == t \in unscanned /\ \A u \in unscanned : t <= u
TxsAt(t, kind) == {x \in txs : x.at = t /\ x.kind = kind}

\* applySendingConfirmations refuses a row that is already failed.
BlockError(t) == \E x \in TxsAt(t, "withdraw") : rows[x.memo].failed

\* Mutant: the amount of the last execution replaces the total.
ConfirmOverwrites(row, xs) ==
    IF xs = {} THEN row
    ELSE LET lt == Max({x.lt : x \in xs})
             sum == SumFunction([x \in xs |-> x.amount])
         IN  [row EXCEPT !.sendingLt = lt, !.finishLt = lt, !.amount = sum]

\* applySendingConfirmations, then updateInternalWithdrawal: the last lt of a
\* memo, and the total of what its executions brought.
Confirm(row, xs) ==
    IF xs = {} THEN row
    ELSE LET lt == Max({x.lt : x \in xs})
             sum == SumFunction([x \in xs |-> x.amount])
         IN  [row EXCEPT !.sendingLt = lt, !.finishLt = lt, !.amount = @ + sum]

\* SaveParsedBlockData: external incomes and confirmations of the block.
ScanBlock(t) ==
    /\ IsNextBlock(t) /\ ~BlockError(t)
    /\ LET in(d) == {x \in TxsAt(t, "income") : x.deposit = d}
       IN  /\ lastIncome' = [d \in Deposits |-> Max({lastIncome[d]} \cup {x.lt : x \in in(d)})]
           /\ income' = [d \in Deposits |-> income[d] + Cardinality(in(d))]
    /\ rows' = [m \in Memos |-> Confirm(rows[m], {x \in TxsAt(t, "withdraw") : x.memo = m})]
    /\ scanTime' = t
    /\ unscanned' = unscanned \ {t}
    /\ txs' = {x \in txs : x.at # t}
    /\ UNCHANGED <<lastMemo, serviceVars, balance, chainTime, payments, validUntil, now>>

\* The process ends, by a crash or by log.Fatal, and starts again.  So it does
\* when SaveParsedBlockData refuses the next block (BlockError): the transaction
\* is rolled back and the same block comes first again.
Restart ==
    /\ ipc # "waitSync" \/ epc # "waitSync"
    /\ ipc' = "waitSync" /\ tasks' = {}
    /\ epc' = "waitSync" /\ syncedAt' = Null
    /\ UNCHANGED <<dbVars, chainVars, validUntil, now>>

-----------------------------------------------------------------------------
(* The chain and the clock *)

Pay(d, lt) == [kind |-> "income", deposit |-> d, lt |-> lt, at |-> lt \div 2]
Execution(m, amt, lt) == [kind |-> "withdraw", memo |-> m, amount |-> amt, lt |-> lt, at |-> lt \div 2]

Valid(d, t) == {m \in RowsOf(d) : validUntil[m] # Null /\ t <= validUntil[m]}

NewBlock(t, X) ==
    /\ t > chainTime /\ t = now
    /\ chainTime' = t
    /\ unscanned' = unscanned \cup {t}
    /\ txs' = txs \cup X
    /\ UNCHANGED <<dbVars, serviceVars, validUntil, now>>

EmptyBlock(t) ==
    /\ NewBlock(t, {})
    /\ UNCHANGED <<balance, payments>>

\* A payer pays d; afterwards, in the same block, a message that is still valid
\* may be executed (it sends all there is).
PaymentBlock(t, d) ==
    /\ payments < MaxPayments
    /\ payments' = payments + 1
    /\ \/ /\ NewBlock(t, {Pay(d, 2 * t)})
          /\ balance' = [balance EXCEPT ![d] = @ + 1]
       \/ \E m \in Valid(d, t) :
             /\ NewBlock(t, {Pay(d, 2 * t), Execution(m, balance[d] + 1, 2 * t + 1)})
             /\ balance' = [balance EXCEPT ![d] = 0]

\* A valid message is executed; afterwards, in the same block, a payer may pay.
WithdrawalBlock(t, d) ==
    \E m \in Valid(d, t) :
       /\ balance[d] > 0
       /\ \/ /\ NewBlock(t, {Execution(m, balance[d], 2 * t)})
             /\ balance' = [balance EXCEPT ![d] = 0]
             /\ UNCHANGED payments
          \/ /\ payments < MaxPayments
             /\ NewBlock(t, {Execution(m, balance[d], 2 * t), Pay(d, 2 * t + 1)})
             /\ balance' = [balance EXCEPT ![d] = 1]
             /\ payments' = payments + 1

Tick ==
    /\ now < MaxTime
    /\ now' = now + 1
    /\ UNCHANGED <<dbVars, serviceVars, chainVars, validUntil>>

Next ==
    \/ GetTasks
    \/ \E task \in tasks : SkipDeposit(task)
    \/ \E task \in tasks : SaveInternalWithdrawalTask(task)
    \/ WithdrawTONs
    \/ ExpirationSynced
    \/ SetExpired
    \/ \E t \in unscanned : ScanBlock(t)
    \/ Restart
    \/ EmptyBlock(now)
    \/ \E d \in Deposits : PaymentBlock(now, d)
    \/ \E d \in Deposits : WithdrawalBlock(now, d)
    \/ Tick

Spec == Init /\ [][Next]_vars

-----------------------------------------------------------------------------
(* Properties *)

\* The values of the tables and of the two goroutines; the withdrawal loop holds
\* tasks only while it runs, and a row that does not exist was never sent.
TypeOK ==
    /\ lastIncome \in [Deposits -> Nat] /\ income \in [Deposits -> Nat]
    /\ lastMemo \in 0..MaxMemos
    /\ \A m \in RowMemos :
          rows[m] \in [from : Deposits, sinceLt : Nat, expiredAt : Nat, failed : BOOLEAN,
                       sendingLt : Nat, finishLt : Nat, amount : Nat]
    /\ scanTime \in Nat /\ chainTime \in Nat /\ now \in Nat /\ unscanned \subseteq Nat
    /\ ipc \in {"waitSync", "loop", "send"} /\ epc \in {"waitSync", "expire"}
    /\ tasks \subseteq [from : Deposits, lt : Nat] /\ syncedAt \in Nat
    /\ balance \in [Deposits -> Nat] /\ payments \in 0..MaxPayments
    /\ validUntil \in [Memos -> Nat]
    /\ ipc = "loop" => tasks # {}
    /\ ipc = "waitSync" => tasks = {}
    /\ \A m \in Memos \ RowMemos : rows[m] = Null /\ validUntil[m] = Null

\* At most one withdrawal of a deposit is under way: the task query and the rows
\* of an interrupted loop never start a second one.
OneLivePerDeposit ==
    \A d \in Deposits : \A m, n \in RowsOf(d) : Live(m) /\ Live(n) => m = n

\* No block the scanner still has to read executes a withdrawal that the
\* expiration processor has given up ("invalid behavior of the expiration
\* processor" would end the process at every restart).
NoBlockRefused ==
    \A t \in unscanned : ~BlockError(t)

\* Money on a deposit is never forgotten: once all blocks are read and no
\* withdrawal is under way, a deposit with more than the cutoff is a task.
NoStrandedDeposit ==
    \A d \in Deposits :
        unscanned = {} /\ balance[d] > Cutoff /\ (\A m \in RowsOf(d) : ~Live(m))
            => d \in TonInternalTasks

\* When all blocks are read, what payers paid is what the withdrawals of the
\* deposit have brought plus what is still on it, replayed messages included.
AmountsBalance ==
    unscanned = {} =>
        \A d \in Deposits :
            income[d] = balance[d] + SumFunction([m \in RowsOf(d) |-> rows[m].amount])

\* The withdrawals as InternalWithdrawalLifecycle sees them: what the table says,
\* and what was executed in blocks the scanner still has to read.  Only a message that
\* a deposit itself has sent reports a withdrawal: nobody else can claim one.
StageOf(m) == IF m \notin RowMemos THEN "none"
              ELSE IF rows[m].failed THEN "failed"
              ELSE IF rows[m].finishLt # Null THEN "finished" ELSE "open"
FromOf(m) == IF m \in RowMemos THEN rows[m].from ELSE Null
BroughtOf(m) == IF m \in RowMemos THEN rows[m].amount ELSE 0
ExecutionsOf(m) == {x \in txs : x.kind = "withdraw" /\ x.memo = m}
WayOf(m) == SumFunction([x \in ExecutionsOf(m) |-> x.amount])

Lifecycle == INSTANCE InternalWithdrawalLifecycle
    WITH Nobody  <- Null,
         Replays <- TRUE,
         stage   <- [m \in Memos |-> StageOf(m)],
         from    <- [m \in Memos |-> FromOf(m)],
         held    <- balance,
         way     <- [m \in Memos |-> WayOf(m)],
         brought <- [m \in Memos |-> BroughtOf(m)],
         claimed <- {}

\* Internal withdrawals of TON keep to InternalWithdrawalLifecycle: money leaves a
\* deposit only for a withdrawal that was not given up, nothing that left is
\* missing from the table, and a withdrawal is given up only when none of its money
\* is on its way, though a message may be executed again after it is finished.
ImplementsLifecycle == Lifecycle!Spec
=============================================================================
