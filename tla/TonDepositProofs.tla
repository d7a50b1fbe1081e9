-------------------------- MODULE TonDepositProofs --------------------------
(***************************************************************************)
(* Theorems about TonDepositWithdrawals for every value of its constants:  *)
(* any number of deposits, payments and withdrawals, any cutoff, message   *)
(* lifetime and lagging.                                                   *)
(***************************************************************************)
EXTENDS TonDepositWithdrawals, FiniteSums, TLAPS

\* The one timing condition, and only NoBlockRefused and the refinement of
\* InternalWithdrawalLifecycle rest on it: building the message and reading the
\* clock of SetExpired take no more than two block times together.
PromptSending == SendDelay + ExpireDelay <= 2

Row == [from : Deposits, sinceLt : Nat, expiredAt : Nat, failed : BOOLEAN,
        sendingLt : Nat, finishLt : Nat, amount : Nat]
Incomes == [kind : {"income"}, deposit : Deposits, lt : Nat, at : Nat]
Executions == [kind : {"withdraw"}, memo : Nat, amount : Nat, lt : Nat, at : Nat]

-----------------------------------------------------------------------------
(* The inductive invariant *)

RowsInv ==
    /\ rows = [m \in Memos |-> rows[m]]
    /\ ipc = "send" => lastMemo \in Memos /\ validUntil[lastMemo] = Null

\* Blocks that are not scanned lie beyond the last saved one; each has at most
\* one income and one execution.
ChainInv ==
    /\ scanTime <= chainTime
    /\ \A t \in unscanned : scanTime < t /\ t <= chainTime
    /\ IsFiniteSet(txs) /\ txs \subseteq Incomes \cup Executions
    /\ \A x \in txs : x.at \in unscanned /\ x.lt \in {2 * x.at, 2 * x.at + 1}
    /\ \A x, y \in txs : x.at = y.at /\ x.kind = y.kind => x = y

\* An execution comes after the income its row was made for, while its message
\* was valid.
ExecInv ==
    \A x \in txs : x.kind = "withdraw" =>
        /\ x.memo \in RowMemos
        /\ rows[x.memo].sinceLt < x.lt
        /\ validUntil[x.memo] # Null /\ x.at <= validUntil[x.memo]

\* What the tables know lies in scanned blocks.
TableInv ==
    /\ \A d \in Deposits : lastIncome[d] <= 2 * scanTime + 1
    /\ \A m \in RowMemos :
          /\ rows[m].sinceLt <= 2 * scanTime + 1
          /\ rows[m].finishLt <= 2 * scanTime + 1
          /\ rows[m].sendingLt = rows[m].finishLt
          /\ rows[m].failed => rows[m].finishLt = Null
          /\ rows[m].finishLt # Null => rows[m].sinceLt < rows[m].finishLt

\* The tasks that the loop still holds stay what the query returned: a deposit
\* without a live withdrawal and with a newer income than all finished ones.
TaskInv ==
    /\ \A a, b \in tasks : a.from = b.from => a = b
    /\ \A a \in tasks :
          /\ a.lt <= 2 * scanTime + 1
          /\ \A m \in RowsOf(a.from) : /\ ~Live(m)
                                       /\ rows[m].finishLt # Null => rows[m].sinceLt < a.lt

\* A live withdrawal is newer than the finished ones of its deposit.
OrderInv ==
    \A m, n \in RowMemos :
        rows[m].from = rows[n].from /\ rows[m].finishLt # Null /\ Live(n)
            => rows[m].sinceLt < rows[n].sinceLt

\* Nothing of d was executed at or after lt.
NothingSince(d, lt) ==
    /\ lt # Null
    /\ \A x \in txs : x.kind = "withdraw" /\ rows[x.memo].from = d => x.lt < lt
    /\ \A m \in RowsOf(d) : rows[m].finishLt < lt

\* Money on a deposit arrived after everything that was executed, and that
\* income is known or will be read.
HeldInv ==
    \A d \in Deposits : balance[d] > 0 =>
        \/ NothingSince(d, lastIncome[d])
        \/ \E x \in txs : x.kind = "income" /\ x.deposit = d /\ NothingSince(d, x.lt)

\* What transaction x will change in the tables for deposit d.
Net(x, d) ==
    IF x.kind = "income" THEN IF x.deposit = d THEN 1 ELSE 0
    ELSE IF rows[x.memo].from = d THEN 0 - x.amount ELSE 0
Coming(d) == SumFunction([x \in txs |-> Net(x, d)])
Brought(d) == SumFunction([m \in RowsOf(d) |-> rows[m].amount])

\* The tables and the blocks to be read account for all that was paid.
MoneyInv ==
    \A d \in Deposits : income[d] + Coming(d) = balance[d] + Brought(d)

IInv ==
    /\ TypeOK /\ RowsInv /\ ChainInv /\ ExecInv /\ TableInv
    /\ TaskInv /\ OneLivePerDeposit /\ OrderInv
    /\ HeldInv /\ MoneyInv

\* A message is built in time, and a row is given up only when the last saved
\* block lies beyond the life of its message.
TimeInv ==
    /\ \A m \in RowMemos :
          /\ validUntil[m] <= rows[m].expiredAt + SendDelay
          /\ rows[m].failed => rows[m].expiredAt + SendDelay <= scanTime
    /\ epc = "expire" => syncedAt < scanTime + Lag

-----------------------------------------------------------------------------
(* Facts the steps need *)

\* The rows that exist, and where they are.
LEMMA RowFacts ==
    ASSUME TypeOK
    PROVE  /\ RowMemos \subseteq Memos /\ IsFiniteSet(RowMemos)
           /\ \A m \in RowMemos :
                 /\ rows[m] \in Row /\ m \in Nat
                 /\ rows[m].from \in Deposits /\ rows[m].sinceLt \in Nat
                 /\ rows[m].expiredAt \in Nat /\ rows[m].failed \in BOOLEAN
                 /\ rows[m].sendingLt \in Nat /\ rows[m].finishLt \in Nat
                 /\ rows[m].amount \in Nat
           /\ \A d : RowsOf(d) \subseteq RowMemos /\ IsFiniteSet(RowsOf(d))
<1> USE ConstantsAssumption
<1>1. lastMemo \in 0..MaxMemos /\ MaxMemos \in Nat BY DEF TypeOK
<1>2. RowMemos \subseteq Memos BY <1>1 DEF RowMemos, Memos
<1>3. IsFiniteSet(RowMemos) BY <1>1, FS_Interval DEF RowMemos
<1>4. ASSUME NEW m \in RowMemos
      PROVE  /\ rows[m] \in Row /\ m \in Nat
             /\ rows[m].from \in Deposits /\ rows[m].sinceLt \in Nat
             /\ rows[m].expiredAt \in Nat /\ rows[m].failed \in BOOLEAN
             /\ rows[m].sendingLt \in Nat /\ rows[m].finishLt \in Nat
             /\ rows[m].amount \in Nat
  <2>1. rows[m] \in Row BY DEF TypeOK, Row
  <2>2. m \in Nat BY <1>1 DEF RowMemos
  <2> QED BY <2>1, <2>2 DEF Row
<1>5. ASSUME NEW d PROVE RowsOf(d) \subseteq RowMemos /\ IsFiniteSet(RowsOf(d))
  <2>1. RowsOf(d) \subseteq RowMemos BY DEF RowsOf
  <2> QED BY <1>3, <2>1, FS_Subset
<1> QED BY <1>2, <1>3, <1>4, <1>5

\* Transactions that are to be read, and what they will change.
LEMMA TxFacts ==
    ASSUME TypeOK, ChainInv, ExecInv
    PROVE  \A x \in txs :
              /\ x.lt \in Nat /\ x.at \in Nat /\ x.at > 0 /\ x.at <= chainTime
              /\ x.lt >= 2 * x.at /\ x.lt <= 2 * chainTime + 1 /\ scanTime < x.at
              /\ x.lt > 2 * scanTime + 1
              /\ x.kind \in {"income", "withdraw"}
              /\ x.kind = "income" => x.deposit \in Deposits
              /\ x.kind = "withdraw" => x.memo \in RowMemos /\ x.amount \in Nat
              /\ \A d \in Deposits : Net(x, d) \in Int
<1> SUFFICES ASSUME NEW x \in txs
             PROVE  /\ x.lt \in Nat /\ x.at \in Nat /\ x.at > 0 /\ x.at <= chainTime
                    /\ x.lt >= 2 * x.at /\ x.lt <= 2 * chainTime + 1 /\ scanTime < x.at
                    /\ x.lt > 2 * scanTime + 1
                    /\ x.kind \in {"income", "withdraw"}
                    /\ x.kind = "income" => x.deposit \in Deposits
                    /\ x.kind = "withdraw" => x.memo \in RowMemos /\ x.amount \in Nat
                    /\ \A d \in Deposits : Net(x, d) \in Int
  OBVIOUS
<1>1. x \in Incomes \/ x \in Executions BY DEF ChainInv
<1>2. /\ x.lt \in Nat /\ x.at \in Nat /\ x.kind \in {"income", "withdraw"}
      /\ x.kind = "income" => x.deposit \in Deposits
      /\ x.kind = "withdraw" => x.amount \in Nat
  BY <1>1 DEF Incomes, Executions
<1>3. /\ x.at \in unscanned /\ (x.lt = 2 * x.at \/ x.lt = 2 * x.at + 1)
      /\ scanTime < x.at /\ x.at <= chainTime /\ scanTime \in Nat /\ chainTime \in Nat
  BY DEF ChainInv, TypeOK
<1>4. x.kind = "withdraw" => x.memo \in RowMemos BY DEF ExecInv
<1>5. \A d \in Deposits : Net(x, d) \in Int BY <1>2 DEF Net
<1> QED BY <1>2, <1>3, <1>4, <1>5

\* Rows that keep their deposit do not change what is coming.
LEMMA ComingSame ==
    ASSUME txs' = txs, NEW d,
           \A x \in txs : x.kind # "income" => rows'[x.memo].from = rows[x.memo].from
    PROVE  Coming(d)' = Coming(d)
<1>1. \A x \in txs : Net(x, d)' = Net(x, d) BY DEF Net
<1>2. [x \in txs' |-> Net(x, d)'] = [x \in txs |-> Net(x, d)] BY <1>1
<1> QED BY <1>2 DEF Coming

\* Rows that keep deposit and amount have brought what they had.
LEMMA BroughtSame ==
    ASSUME lastMemo' = lastMemo, NEW d,
           \A m \in RowMemos : rows'[m].from = rows[m].from /\ rows'[m].amount = rows[m].amount
    PROVE  Brought(d)' = Brought(d)
<1>1. RowsOf(d)' = RowsOf(d) BY DEF RowsOf, RowMemos
<1>2. [m \in RowsOf(d)' |-> rows'[m].amount] = [m \in RowsOf(d) |-> rows[m].amount]
  BY <1>1 DEF RowsOf
<1> QED BY <1>1, <1>2 DEF Brought

LEMMA SumsTyped ==
    ASSUME TypeOK, ChainInv, ExecInv, NEW d \in Deposits
    PROVE  Coming(d) \in Int /\ Brought(d) \in Int
<1> DEFINE f == [x \in txs |-> Net(x, d)]
           g == [m \in RowsOf(d) |-> rows[m].amount]
<1>1. IsFiniteSet(txs) /\ \A x \in txs : f[x] \in Int BY TxFacts DEF ChainInv
<1>2. IsFiniteSet(RowsOf(d)) /\ \A m \in RowsOf(d) : g[m] \in Int BY RowFacts
<1>3. DOMAIN f = txs /\ DOMAIN g = RowsOf(d) OBVIOUS
<1>4. Coming(d) = SumFunctionOnSet(f, txs) BY <1>3 DEF Coming, SumFunction
<1>5. Brought(d) = SumFunctionOnSet(g, RowsOf(d)) BY <1>3 DEF Brought, SumFunction
<1> HIDE DEF f, g
<1> QED BY <1>1, <1>2, <1>4, <1>5, SumType

LEMMA InitInv == Init => IInv /\ TimeInv
<1> SUFFICES ASSUME Init PROVE IInv /\ TimeInv OBVIOUS
<1> USE ConstantsAssumption DEF Init, Null
<1>1. RowMemos = {} /\ \A d : RowsOf(d) = {} BY DEF RowMemos, RowsOf
<1>2. TypeOK BY <1>1 DEF TypeOK, Memos
<1>3. RowsInv BY DEF RowsInv
<1>4. ChainInv /\ ExecInv BY FS_EmptySet DEF ChainInv, ExecInv
<1>5. TableInv /\ TaskInv /\ OneLivePerDeposit /\ OrderInv
  BY <1>1 DEF TableInv, TaskInv, OneLivePerDeposit, OrderInv
<1>6. HeldInv BY DEF HeldInv
<1>7. MoneyInv
  <2> SUFFICES ASSUME NEW d \in Deposits PROVE Coming(d) = 0 /\ Brought(d) = 0
    BY DEF MoneyInv
  <2>1. DOMAIN [x \in txs |-> Net(x, d)] = {} OBVIOUS
  <2>2. DOMAIN [m \in RowsOf(d) |-> rows[m].amount] = {} BY <1>1
  <2> QED BY <2>1, <2>2, SumEmpty DEF Coming, Brought, SumFunction
<1>8. TimeInv BY <1>1 DEF TimeInv
<1> QED BY <1>2, <1>3, <1>4, <1>5, <1>6, <1>7, <1>8 DEF IInv

-----------------------------------------------------------------------------
(* Steps that leave the tables and the chain alone *)

LEMMA QuietStep ==
    ASSUME IInv, UNCHANGED <<dbVars, chainVars>>, TypeOK', RowsInv', TaskInv',
           \A m \in RowMemos : validUntil[m] # Null => validUntil'[m] = validUntil[m]
    PROVE  IInv'
<1> USE DEF dbVars, chainVars
<1>1. RowMemos' = RowMemos /\ \A d : RowsOf(d)' = RowsOf(d) BY DEF RowMemos, RowsOf
<1>2. ChainInv' BY DEF IInv, ChainInv
<1>3. ExecInv' BY <1>1 DEF IInv, ExecInv
<1>4. TableInv' BY <1>1 DEF IInv, TableInv
<1>5. OneLivePerDeposit' /\ OrderInv'
  BY <1>1 DEF IInv, OneLivePerDeposit, OrderInv, Live
<1>6. HeldInv' BY <1>1 DEF IInv, HeldInv, NothingSince
<1>7. MoneyInv' BY ComingSame, BroughtSame DEF IInv, MoneyInv
<1> QED BY <1>2, <1>3, <1>4, <1>5, <1>6, <1>7 DEF IInv

\* What GetTonInternalWithdrawalTasks returns: deposits without a live
\* withdrawal, with an income after every finished one.
LEMMA TasksFacts ==
    ASSUME IInv, NEW d \in TonInternalTasks
    PROVE  \A m \in RowsOf(d) : /\ ~Live(m)
                                /\ rows[m].finishLt # Null => rows[m].sinceLt < lastIncome[d]
<1> DEFINE Kept == {n \in RowsOf(d) : ~rows[n].failed}
           since == {rows[m].sinceLt : m \in Kept}
<1>1. /\ RowsOf(d) \subseteq RowMemos
      /\ \A m \in RowsOf(d) : /\ rows[m].sinceLt \in Nat /\ rows[m].finishLt \in Nat
                              /\ rows[m].failed \in BOOLEAN /\ rows[m].from = d
                              /\ rows[m].failed => rows[m].finishLt = Null
                              /\ rows[m].finishLt # Null => rows[m].sinceLt < rows[m].finishLt
  BY RowFacts DEF IInv, TableInv, RowsOf
<1>2. IsFiniteSet(since) /\ since \in SUBSET Int
  <2>1. IsFiniteSet(RowsOf(d)) BY RowFacts DEF IInv
  <2>2. IsFiniteSet(Kept) BY <2>1, FS_Subset
  <2>3. since \in SUBSET Int BY <1>1
  <2> DEFINE f == [m \in Kept |-> rows[m].sinceLt]
  <2>4. since = {f[m] : m \in Kept} OBVIOUS
  <2> HIDE DEF f, Kept, since
  <2> QED BY <2>2, <2>3, <2>4, FiniteImage
<1>3. LatestRows(d) = {m \in RowsOf(d) : since # {} /\ rows[m].sinceLt = Max(since)}
  BY DEF LatestRows
<1>4. since # {} => /\ Max(since) \in since
                    /\ \A m \in Kept : rows[m].sinceLt <= Max(since)
  <2>1. \A m \in Kept : rows[m].sinceLt \in since OBVIOUS
  <2> HIDE DEF since, Kept
  <2> QED BY <1>2, <2>1, MaxExists
<1>5. CASE LatestRows(d) = {}
  <2>1. since = {}
    <3> SUFFICES ASSUME since # {} PROVE FALSE OBVIOUS
    <3>1. PICK m \in Kept : rows[m].sinceLt = Max(since) BY <1>4
    <3> QED BY <1>3, <1>5, <3>1
  <2>2. \A m \in RowsOf(d) : rows[m].failed BY <2>1
  <2> QED BY <1>1, <2>2 DEF Live
<1>6. CASE \E m \in LatestRows(d) : rows[m].finishLt # Null /\ lastIncome[d] > rows[m].finishLt
  <2>1. PICK k \in LatestRows(d) : rows[k].finishLt # Null /\ lastIncome[d] > rows[k].finishLt
    BY <1>6
  <2>2. k \in RowsOf(d) /\ since # {} /\ rows[k].sinceLt = Max(since) BY <1>3
  <2>3. lastIncome[d] \in Nat BY DEF IInv, TypeOK, TonInternalTasks
  <2>4. rows[k].sinceLt < lastIncome[d] BY <1>1, <2>1, <2>2, <2>3
  <2> SUFFICES ASSUME NEW m \in RowsOf(d)
               PROVE  ~Live(m) /\ (rows[m].finishLt # Null => rows[m].sinceLt < lastIncome[d])
    OBVIOUS
  <2>5. ~rows[m].failed => rows[m].sinceLt <= rows[k].sinceLt BY <1>4, <2>2
  <2>6. Live(m) => rows[k].sinceLt < rows[m].sinceLt
    BY <1>1, <2>1, <2>2 DEF IInv, OrderInv
  <2>7. ~Live(m)
    <3> HIDE DEF since, Kept
    <3> QED BY <1>1, <2>2, <2>5, <2>6 DEF Live
  <2>8. rows[m].finishLt # Null => rows[m].sinceLt < lastIncome[d]
    <3> HIDE DEF since, Kept
    <3>1. rows[m].sinceLt \in Nat /\ rows[k].sinceLt \in Nat BY <1>1, <2>2
    <3> QED BY <1>1, <2>3, <2>4, <2>5, <3>1
  <2> QED BY <2>7, <2>8
<1> QED BY <1>5, <1>6 DEF TonInternalTasks

LEMMA GetTasksStep ==
    ASSUME IInv, GetTasks
    PROVE  IInv'
<1> USE DEF GetTasks
<1>1. TonInternalTasks \subseteq Deposits /\ TonInternalTasks # {} BY DEF TonInternalTasks
<1>2. /\ ipc' = "loop" /\ tasks' = {[from |-> d, lt |-> lastIncome[d]] : d \in TonInternalTasks}
      /\ UNCHANGED <<dbVars, epc, syncedAt, chainVars, validUntil, now>>
  OBVIOUS
<1>3. \A a \in tasks' : a.from \in TonInternalTasks /\ a.lt = lastIncome[a.from]
                        /\ a = [from |-> a.from, lt |-> a.lt]
  BY <1>2
<1>4. \A d \in Deposits : lastIncome[d] \in Nat /\ lastIncome[d] <= 2 * scanTime + 1
  BY DEF IInv, TypeOK, TableInv
<1>5. tasks' \subseteq [from : Deposits, lt : Nat] /\ tasks' # {}
  <2>1. \A d \in TonInternalTasks : [from |-> d, lt |-> lastIncome[d]] \in [from : Deposits, lt : Nat]
    BY <1>1, <1>4
  <2>2. \A d \in TonInternalTasks : [from |-> d, lt |-> lastIncome[d]] \in tasks' BY <1>2
  <2> HIDE DEF GetTasks
  <2>3. tasks' # {} BY <1>1, <2>2
  <2>4. tasks' \subseteq [from : Deposits, lt : Nat] BY <1>2, <2>1
  <2> QED BY <2>3, <2>4
<1>6. RowMemos' = RowMemos /\ \A d : RowsOf(d)' = RowsOf(d) BY DEF RowMemos, RowsOf, dbVars
<1>7. TypeOK' BY <1>2, <1>5, <1>6 DEF IInv, TypeOK, dbVars, chainVars
<1>8. RowsInv' BY <1>2 DEF IInv, RowsInv, dbVars
<1>9. TaskInv'
  <2>1. \A a, b \in tasks' : a.from = b.from => a = b BY <1>3
  <2>2. ASSUME NEW a \in tasks', NEW m \in RowsOf(a.from)
        PROVE  ~Live(m) /\ (rows[m].finishLt # Null => rows[m].sinceLt < a.lt)
    BY <1>3, TasksFacts
  <2>3. \A a \in tasks' : a.lt <= 2 * scanTime + 1 BY <1>1, <1>3, <1>4
  <2> HIDE DEF GetTasks
  <2> QED BY <1>2, <1>6, <2>1, <2>2, <2>3 DEF TaskInv, Live, dbVars
<1>10. UNCHANGED <<dbVars, chainVars>> /\ validUntil' = validUntil BY <1>2
<1> HIDE DEF GetTasks
<1> QED BY <1>7, <1>8, <1>9, <1>10, QuietStep

\* A deposit that is left alone, a new synchronisation, a restart, the clock.
LEMMA LoopStep ==
    ASSUME IInv, UNCHANGED <<dbVars, chainVars, validUntil>>, tasks' \subseteq tasks,
           now' \in Nat, syncedAt' \in Nat,
           ipc' \in {"waitSync", "loop", "send"}, epc' \in {"waitSync", "expire"},
           ipc' = "loop" => tasks' # {}, ipc' = "waitSync" => tasks' = {},
           ipc' = "send" => ipc = "send"
    PROVE  IInv'
<1>1. RowMemos' = RowMemos /\ \A d : RowsOf(d)' = RowsOf(d) BY DEF RowMemos, RowsOf, dbVars
<1>2. TypeOK' BY <1>1 DEF IInv, TypeOK, dbVars, chainVars
<1>3. RowsInv' BY DEF IInv, RowsInv, dbVars
<1>4. TaskInv' BY <1>1 DEF IInv, TaskInv, Live, dbVars
<1> QED BY <1>2, <1>3, <1>4, QuietStep

\* The message is built and reaches a node, or not.
LEMMA WithdrawTONsStep ==
    ASSUME IInv, WithdrawTONs
    PROVE  IInv'
<1> USE ConstantsAssumption
<1>1. /\ ipc = "send" /\ ipc' = (IF tasks = {} THEN "waitSync" ELSE "loop")
      /\ validUntil' \in {validUntil, [validUntil EXCEPT ![lastMemo] = now + Lifetime]}
      /\ UNCHANGED <<dbVars, tasks, epc, syncedAt, chainVars, now>>
  BY DEF WithdrawTONs
<1>2. lastMemo \in Memos /\ lastMemo \in RowMemos /\ lastMemo \in Nat
  BY <1>1 DEF IInv, RowsInv, TypeOK, Memos, RowMemos
<1>3. RowMemos' = RowMemos /\ \A d : RowsOf(d)' = RowsOf(d)
  BY <1>1 DEF RowMemos, RowsOf, dbVars
<1>4. validUntil' \in [Memos -> Nat] BY <1>1, <1>2 DEF IInv, TypeOK
<1>5. \A m \in Memos \ RowMemos : validUntil'[m] = Null BY <1>1, <1>2 DEF IInv, TypeOK
<1>6. TypeOK' BY <1>1, <1>3, <1>4, <1>5 DEF IInv, TypeOK, dbVars, chainVars
<1>7. RowsInv' BY <1>1 DEF IInv, RowsInv, dbVars
<1>8. TaskInv' BY <1>1, <1>3 DEF IInv, TaskInv, Live, dbVars
<1>9. \A m \in RowMemos : validUntil[m] # Null => validUntil'[m] = validUntil[m]
  <2>1. validUntil[lastMemo] = Null BY <1>1 DEF IInv, RowsInv
  <2>2. RowMemos \subseteq Memos /\ validUntil \in [Memos -> Nat] BY RowFacts DEF IInv, TypeOK
  <2> QED BY <1>1, <2>1, <2>2
<1>10. UNCHANGED <<dbVars, chainVars>> BY <1>1
<1> QED BY <1>6, <1>7, <1>8, <1>9, <1>10, QuietStep

-----------------------------------------------------------------------------
(* Steps that change rows *)

\* The row that SetExpired gives up was not executed as far as the tables know.
LEMMA SetExpiredStep ==
    ASSUME IInv, SetExpired
    PROVE  IInv'
<1>1. /\ rows' = [m \in Memos |-> IF m \in Expired THEN [rows[m] EXCEPT !.failed = TRUE]
                                                   ELSE rows[m]]
      /\ epc' = "waitSync" /\ syncedAt' = Null
      /\ UNCHANGED <<lastIncome, income, lastMemo, scanTime, ipc, tasks, chainVars,
                     validUntil, now>>
  BY DEF SetExpired
<1>2. RowMemos' = RowMemos BY <1>1 DEF RowMemos
<1>3. /\ RowMemos \subseteq Memos /\ \A m \in RowMemos : rows[m] \in Row BY RowFacts DEF IInv
<1>4. \A m \in RowMemos :
         /\ rows'[m] \in Row
         /\ rows'[m].from = rows[m].from /\ rows'[m].sinceLt = rows[m].sinceLt
         /\ rows'[m].sendingLt = rows[m].sendingLt /\ rows'[m].finishLt = rows[m].finishLt
         /\ rows'[m].amount = rows[m].amount
         /\ rows[m].failed => rows'[m].failed
         /\ rows'[m].failed => rows[m].failed \/ rows[m].sendingLt = Null
  <2> SUFFICES ASSUME NEW m \in RowMemos
               PROVE  /\ rows'[m] \in Row
                      /\ rows'[m].from = rows[m].from /\ rows'[m].sinceLt = rows[m].sinceLt
                      /\ rows'[m].sendingLt = rows[m].sendingLt
                      /\ rows'[m].finishLt = rows[m].finishLt
                      /\ rows'[m].amount = rows[m].amount
                      /\ rows[m].failed => rows'[m].failed
                      /\ rows'[m].failed => rows[m].failed \/ rows[m].sendingLt = Null
    OBVIOUS
  <2>1. m \in Expired => rows[m].sendingLt = Null BY DEF Expired
  <2> HIDE DEF Expired
  <2>2. CASE m \in Expired BY <1>1, <1>3, <2>1, <2>2 DEF Row
  <2>3. CASE m \notin Expired BY <1>1, <1>3, <2>3
  <2> QED BY <2>2, <2>3
<1>5. \A m \in Memos \ RowMemos : rows'[m] = rows[m] BY <1>1 DEF Expired
<1>6. \A d : RowsOf(d)' = RowsOf(d) BY <1>2, <1>4 DEF RowsOf
<1>7. \A m \in RowMemos : Live(m)' => Live(m) BY <1>4 DEF Live
<1>8. TypeOK'
  <2>1. \A m \in RowMemos' : rows'[m] \in Row BY <1>2, <1>4
  <2> QED BY <1>1, <1>2, <1>5, <2>1 DEF IInv, TypeOK, Row, chainVars, Null
<1>9. RowsInv' BY <1>1 DEF IInv, RowsInv
<1>10. ChainInv' BY <1>1 DEF IInv, ChainInv, chainVars
<1>11. ExecInv' BY <1>1, <1>2, <1>4 DEF IInv, ExecInv, chainVars
<1>12. TableInv'
  <2>1. \A m \in RowMemos : rows'[m].failed => rows'[m].finishLt = Null
    BY <1>4, Zenon DEF IInv, TableInv
  <2>2. \A m \in RowMemos : /\ rows'[m].sinceLt = rows[m].sinceLt
                            /\ rows'[m].finishLt = rows[m].finishLt
                            /\ rows'[m].sendingLt = rows[m].sendingLt
    BY <1>4
  <2> QED BY <1>1, <1>2, <2>1, <2>2 DEF IInv, TableInv
<1>13. TaskInv'
  <2>1. ASSUME NEW b \in tasks, NEW m \in RowsOf(b.from)
        PROVE  ~Live(m)' /\ (rows'[m].finishLt # Null => rows'[m].sinceLt < b.lt)
    <3>1. m \in RowMemos BY DEF RowsOf
    <3>2. ~Live(m) /\ (rows[m].finishLt # Null => rows[m].sinceLt < b.lt) BY DEF IInv, TaskInv
    <3> QED BY <1>4, <1>7, <3>1, <3>2
  <2> QED BY <1>1, <1>6, <2>1 DEF IInv, TaskInv
<1>14. OneLivePerDeposit' BY <1>6, <1>7 DEF IInv, OneLivePerDeposit, RowsOf
<1>15. OrderInv' BY <1>2, <1>4, <1>7 DEF IInv, OrderInv
<1>16. HeldInv'
  <2>1. txs' = txs /\ balance' = balance /\ lastIncome' = lastIncome BY <1>1 DEF chainVars
  <2>2. \A x \in txs : x.kind = "withdraw" => x.memo \in RowMemos BY DEF IInv, ExecInv
  <2>3. \A d, lt : NothingSince(d, lt) => NothingSince(d, lt)'
    BY <1>4, <1>6, <2>1, <2>2 DEF NothingSince, RowsOf
  <2> QED BY <2>1, <2>3 DEF IInv, HeldInv
<1>17. MoneyInv'
  <2>1. txs' = txs /\ balance' = balance /\ income' = income BY <1>1 DEF chainVars
  <2>2. \A x \in txs : x.kind # "income" => x.memo \in RowMemos BY TxFacts DEF IInv
  <2>3. \A d : Coming(d)' = Coming(d) BY <1>4, <2>1, <2>2, ComingSame
  <2>4. \A d : Brought(d)' = Brought(d) BY <1>1, <1>4, BroughtSame
  <2> QED BY <2>1, <2>3, <2>4 DEF IInv, MoneyInv
<1> QED BY <1>8, <1>9, <1>10, <1>11, <1>12, <1>13, <1>14, <1>15, <1>16, <1>17 DEF IInv

\* A new withdrawal is the only live one of its deposit and newer than the
\* finished ones.
LEMMA SaveStep ==
    ASSUME IInv, NEW a \in tasks, SaveInternalWithdrawalTask(a)
    PROVE  IInv'
<1> USE ConstantsAssumption
<1>0. PICK k : k = lastMemo + 1 OBVIOUS
<1> DEFINE r == [from |-> a.from, sinceLt |-> a.lt, expiredAt |-> now + Lifetime, failed |-> FALSE,
                 sendingLt |-> Null, finishLt |-> Null, amount |-> 0]
<1>1. /\ lastMemo < MaxMemos /\ lastMemo' = k /\ rows' = [rows EXCEPT ![k] = r]
      /\ tasks' = tasks \ {a} /\ ipc' = "send"
      /\ UNCHANGED <<lastIncome, income, scanTime, epc, syncedAt, chainVars, validUntil, now>>
  BY <1>0 DEF SaveInternalWithdrawalTask
<1>2. /\ lastMemo \in Nat /\ k \in Memos /\ k \notin RowMemos /\ k \in Nat
      /\ RowMemos' = RowMemos \cup {k} /\ Memos \ RowMemos' \subseteq Memos \ RowMemos
  <2>1. lastMemo \in Nat /\ MaxMemos \in Nat BY DEF IInv, TypeOK
  <2>2. RowMemos = 1..lastMemo /\ RowMemos' = 1..(lastMemo + 1) /\ Memos = 1..MaxMemos
    BY <1>0, <1>1 DEF RowMemos, Memos
  <2> QED BY <1>0, <1>1, <2>1, <2>2
<1>3. a \in [from : Deposits, lt : Nat] BY DEF IInv, TypeOK
<1>4. r \in Row
  <2>1. now + Lifetime \in Nat BY DEF IInv, TypeOK
  <2> QED BY <1>3, <2>1 DEF Row, Null
<1>5. r.from = a.from /\ r.sinceLt = a.lt /\ r.finishLt = Null /\ r.sendingLt = Null
      /\ ~r.failed /\ r.amount = 0
  OBVIOUS
<1> HIDE DEF r
<1>6. /\ rows'[k] = r /\ \A m \in Memos \ {k} : rows'[m] = rows[m]
      /\ rows' = [m \in Memos |-> rows'[m]]
  BY <1>1, <1>2 DEF IInv, RowsInv
<1>7. /\ RowMemos \subseteq Memos \ {k} /\ \A m \in RowMemos : rows[m] \in Row /\ rows'[m] = rows[m]
  BY <1>2, <1>6, RowFacts DEF IInv
<1>8. /\ RowsOf(a.from)' = RowsOf(a.from) \cup {k}
      /\ \A d : d # a.from => RowsOf(d)' = RowsOf(d)
  BY <1>2, <1>5, <1>6, <1>7 DEF RowsOf
<1>9. (\A m \in RowMemos : Live(m)' <=> Live(m)) /\ Live(k)'
  <2>1. \A m \in RowMemos : Live(m)' <=> Live(m) BY <1>7, Zenon DEF Live
  <2>2. Live(k)' BY <1>5, <1>6, Zenon DEF Live
  <2> QED BY <2>1, <2>2
<1>10. \A m \in RowsOf(a.from) : ~Live(m) /\ (rows[m].finishLt # Null => rows[m].sinceLt < a.lt)
  BY DEF IInv, TaskInv
<1>11. \A b \in tasks' : b \in tasks /\ b.from # a.from BY <1>1 DEF IInv, TaskInv
<1>12. TypeOK'
  <2>1. \A m \in RowMemos' : rows'[m] \in Row BY <1>2, <1>4, <1>6, <1>7
  <2>2. lastMemo' \in 0..MaxMemos BY <1>0, <1>1, <1>2
  <2>3. \A m \in Memos \ RowMemos' : rows'[m] = Null /\ validUntil'[m] = Null
    BY <1>1, <1>2, <1>6 DEF IInv, TypeOK
  <2>4. tasks' \subseteq [from : Deposits, lt : Nat] BY <1>1 DEF IInv, TypeOK
  <2> QED BY <1>1, <2>1, <2>2, <2>3, <2>4 DEF IInv, TypeOK, Row, chainVars
<1>13. RowsInv' BY <1>1, <1>2, <1>6 DEF IInv, RowsInv, TypeOK
<1>14. ChainInv' BY <1>1 DEF IInv, ChainInv, chainVars
<1>15. txs' = txs /\ \A x \in txs : x.kind = "withdraw" => x.memo \in RowMemos
  BY <1>1 DEF IInv, ExecInv, chainVars
<1>16. ExecInv' BY <1>1, <1>2, <1>7, <1>15 DEF IInv, ExecInv
<1>17. TableInv'
  <2>1. a.lt <= 2 * scanTime + 1 /\ scanTime \in Nat BY DEF IInv, TaskInv, TypeOK
  <2> QED BY <1>1, <1>2, <1>5, <1>6, <1>7, <2>1 DEF IInv, TableInv, Null
<1>18. TaskInv'
  <2>1. \A b \in tasks' : RowsOf(b.from)' = RowsOf(b.from) BY <1>8, <1>11
  <2>2. \A b \in tasks' : \A m \in RowsOf(b.from) :
            m \in RowMemos /\ rows'[m] = rows[m] /\ (Live(m)' <=> Live(m))
    BY <1>7, <1>9 DEF RowsOf
  <2> QED BY <1>1, <1>11, <2>1, <2>2 DEF IInv, TaskInv
<1>19. OneLivePerDeposit'
  <2> SUFFICES ASSUME NEW d \in Deposits, NEW m \in RowsOf(d)', NEW n \in RowsOf(d)',
                      Live(m)', Live(n)'
               PROVE  m = n
    BY DEF OneLivePerDeposit
  <2>1. CASE d # a.from
    <3>1. m \in RowsOf(d) /\ n \in RowsOf(d) BY <1>8, <2>1
    <3>2. Live(m) /\ Live(n) BY <1>9, <3>1 DEF RowsOf
    <3> QED BY <3>1, <3>2 DEF IInv, OneLivePerDeposit
  <2>2. CASE d = a.from
    <3>1. \A x \in RowsOf(d) : ~Live(x)' BY <1>9, <1>10, <2>2 DEF RowsOf
    <3> QED BY <1>8, <2>2, <3>1
  <2> QED BY <2>1, <2>2
<1>20. OrderInv'
  <2> SUFFICES ASSUME NEW m \in RowMemos', NEW n \in RowMemos',
                      rows'[m].from = rows'[n].from, rows'[m].finishLt # Null, Live(n)'
               PROVE  rows'[m].sinceLt < rows'[n].sinceLt
    BY DEF OrderInv
  <2>1. m # k BY <1>5, <1>6
  <2>2. m \in RowMemos /\ rows'[m] = rows[m] BY <1>2, <1>7, <2>1
  <2>3. CASE n = k
    <3>1. m \in RowsOf(a.from) BY <1>5, <1>6, <2>2, <2>3 DEF RowsOf
    <3> QED BY <1>5, <1>6, <1>10, <2>2, <2>3, <3>1
  <2>4. CASE n # k
    <3>1. n \in RowMemos /\ rows'[n] = rows[n] /\ Live(n) BY <1>2, <1>7, <1>9, <2>4
    <3> QED BY <2>2, <3>1 DEF IInv, OrderInv
  <2> QED BY <2>3, <2>4
<1>21. HeldInv'
  <2>1. balance' = balance /\ lastIncome' = lastIncome BY <1>1 DEF chainVars
  <2>2. ASSUME NEW d, NEW lt \in Nat, NothingSince(d, lt) PROVE NothingSince(d, lt)'
    <3>1. \A x \in txs' : x.kind = "withdraw" /\ rows'[x.memo].from = d => x.lt < lt
      BY <1>7, <1>15, <2>2 DEF NothingSince
    <3>2. \A m \in RowsOf(d)' : rows'[m].finishLt < lt
      <4> SUFFICES ASSUME NEW m \in RowsOf(d)' PROVE rows'[m].finishLt < lt OBVIOUS
      <4>1. CASE m = k BY <1>5, <1>6, <2>2, <4>1 DEF NothingSince, Null
      <4>2. CASE m # k
        <5>1. m \in RowsOf(d) BY <1>8, <4>2
        <5> QED BY <1>7, <2>2, <5>1 DEF NothingSince, RowsOf
      <4> QED BY <4>1, <4>2
    <3> QED BY <2>2, <3>1, <3>2 DEF NothingSince
  <2>3. \A d \in Deposits : lastIncome[d] \in Nat BY DEF IInv, TypeOK
  <2>4. \A x \in txs : x.lt \in Nat BY TxFacts DEF IInv
  <2> QED BY <1>15, <2>1, <2>2, <2>3, <2>4 DEF IInv, HeldInv
<1>22. MoneyInv'
  <2>1. balance' = balance /\ income' = income BY <1>1 DEF chainVars
  <2>2. \A d : Coming(d)' = Coming(d)
    <3>1. \A x \in txs : x.kind # "income" => x.memo \in RowMemos BY TxFacts DEF IInv
    <3> QED BY <1>7, <1>15, <3>1, ComingSame
  <2>3. ASSUME NEW d \in Deposits PROVE Brought(d)' = Brought(d)
    <3> DEFINE f == [m \in RowsOf(d) |-> rows[m].amount]
               g == [m \in RowsOf(d)' |-> rows'[m].amount]
    <3>1. IsFiniteSet(RowsOf(d)) /\ \A m \in RowsOf(d) : m \in RowMemos /\ rows[m].amount \in Int
      BY RowFacts DEF IInv
    <3>2. Brought(d) = SumFunctionOnSet(f, RowsOf(d)) BY DEF Brought, SumFunction
    <3>3. Brought(d)' = SumFunctionOnSet(g, RowsOf(d)') BY DEF Brought, SumFunction
    <3>4. RowsOf(d) \subseteq RowsOf(d)' BY <1>8
    <3>5. \A m \in RowsOf(d) : f[m] = g[m] /\ g[m] \in Int BY <1>7, <3>1, <3>4
    <3>6. k \notin RowsOf(d) BY <1>2 DEF RowsOf
    <3>7. k \in RowsOf(d)' => g[k] = 0 BY <1>5, <1>6
    <3> HIDE DEF f, g
    <3>8. SumFunctionOnSet(f, RowsOf(d)) = SumFunctionOnSet(g, RowsOf(d)) BY <3>1, <3>5, SumSame
    <3>9. SumFunctionOnSet(g, RowsOf(d)) \in Int BY <3>1, <3>5, SumType
    <3>10. CASE d = a.from
      <4>1. RowsOf(d)' = RowsOf(d) \cup {k} BY <1>8, <3>10
      <4>2. \A m \in RowsOf(d) \cup {k} : g[m] \in Int BY <3>5, <3>7, <4>1
      <4>3. SumFunctionOnSet(g, RowsOf(d) \cup {k}) = g[k] + SumFunctionOnSet(g, RowsOf(d))
        BY <3>1, <3>6, <4>2, SumAdd
      <4>4. g[k] = 0 BY <3>7, <4>1
      <4>5. SumFunctionOnSet(g, RowsOf(d)') = SumFunctionOnSet(g, RowsOf(d))
        BY <3>9, <4>1, <4>3, <4>4
      <4> QED BY <3>2, <3>3, <3>8, <4>5
    <3>11. CASE d # a.from BY <1>8, <3>2, <3>3, <3>8, <3>11
    <3> QED BY <3>10, <3>11
  <2> QED BY <2>1, <2>2, <2>3 DEF IInv, MoneyInv
<1> QED BY <1>12, <1>13, <1>14, <1>16, <1>17, <1>18, <1>19, <1>20, <1>21, <1>22 DEF IInv

-----------------------------------------------------------------------------
(* The scanner *)

\* A row after one execution.
Confirmed(row, w) ==
    [row EXCEPT !.sendingLt = w.lt, !.finishLt = w.lt, !.amount = @ + w.amount]

LEMMA ConfirmedFacts ==
    ASSUME NEW row \in Row, NEW w, w.lt \in Nat, w.amount \in Nat
    PROVE  /\ Confirmed(row, w) \in Row
           /\ Confirmed(row, w).from = row.from /\ Confirmed(row, w).sinceLt = row.sinceLt
           /\ Confirmed(row, w).expiredAt = row.expiredAt
           /\ Confirmed(row, w).failed = row.failed
           /\ Confirmed(row, w).sendingLt = w.lt /\ Confirmed(row, w).finishLt = w.lt
           /\ Confirmed(row, w).amount = row.amount + w.amount
<1>1. /\ row.from \in Deposits /\ row.sinceLt \in Nat /\ row.expiredAt \in Nat
      /\ row.failed \in BOOLEAN /\ row.amount \in Nat
  BY DEF Row
<1>2. row.amount + w.amount \in Nat BY <1>1
<1>3. /\ Confirmed(row, w).from = row.from /\ Confirmed(row, w).sinceLt = row.sinceLt
      /\ Confirmed(row, w).expiredAt = row.expiredAt
      /\ Confirmed(row, w).sendingLt = w.lt /\ Confirmed(row, w).finishLt = w.lt
      /\ Confirmed(row, w).amount = row.amount + w.amount
  BY DEF Confirmed, Row
<1>4. Confirmed(row, w).failed = row.failed BY DEF Confirmed, Row
<1>5. Confirmed(row, w) \in Row BY <1>2 DEF Confirmed, Row
<1> QED BY <1>3, <1>4, <1>5

\* The executions of a row in a block: none or one.
LEMMA RowScanned ==
    ASSUME IInv, NEW t \in unscanned, ScanBlock(t), NEW m \in RowMemos
    PROVE  \/ /\ rows'[m] = rows[m]
              /\ \A x \in txs : x.at = t /\ x.kind = "withdraw" => x.memo # m
           \/ \E w \in txs :
                 /\ w.at = t /\ w.kind = "withdraw" /\ w.memo = m /\ ~rows[m].failed
                 /\ rows'[m] = Confirmed(rows[m], w)
<1> DEFINE Xs == {x \in TxsAt(t, "withdraw") : x.memo = m}
<1>1. m \in Memos /\ rows[m] \in Row BY RowFacts DEF IInv
<1>2. rows'[m] = Confirm(rows[m], Xs) BY <1>1 DEF ScanBlock
<1>3. \A x \in txs : x \in Xs <=> x.at = t /\ x.kind = "withdraw" /\ x.memo = m BY DEF TxsAt
<1>4. CASE Xs = {}
  <2>1. rows'[m] = rows[m] BY <1>2, <1>4 DEF Confirm
  <2> QED BY <1>3, <1>4, <2>1
<1>5. CASE Xs # {}
  <2>1. PICK w \in Xs : TRUE BY <1>5
  <2>2. w \in txs /\ w.at = t /\ w.kind = "withdraw" /\ w.memo = m BY DEF TxsAt
  <2>3. Xs = {w} BY <1>3, <2>2 DEF IInv, ChainInv, TxsAt
  <2>4. w.lt \in Nat /\ w.amount \in Nat BY <2>2, TxFacts DEF IInv
  <2>5. ~rows[m].failed
    <3>1. w \in TxsAt(t, "withdraw") OBVIOUS
    <3> QED BY <2>2, <3>1 DEF ScanBlock, BlockError
  <2>6. Max({x.lt : x \in Xs}) = w.lt
    <3>1. {x.lt : x \in Xs} = {w.lt} BY <2>3
    <3> QED BY <2>4, <3>1, MaxOne
  <2>7. SumFunction([x \in Xs |-> x.amount]) = w.amount
    <3> DEFINE f == [x \in Xs |-> x.amount]
    <3>1. DOMAIN f = {w} /\ f[w] = w.amount BY <2>3
    <3> HIDE DEF f
    <3>2. SumFunctionOnSet(f, {w}) = w.amount BY <2>4, <3>1, SumSingle
    <3>3. SumFunction(f) = w.amount BY <3>1, <3>2 DEF SumFunction
    <3> QED BY <3>3 DEF f
  <2>8. rows'[m] = Confirmed(rows[m], w)
    <3> HIDE DEF Xs
    <3> QED BY <1>2, <1>5, <2>6, <2>7 DEF Confirm, Confirmed
  <2> QED BY <2>2, <2>5, <2>8
<1> QED BY <1>4, <1>5

\* The incomes of a deposit in a block: none or one.
LEMMA IncomeScanned ==
    ASSUME IInv, NEW t \in unscanned, ScanBlock(t), NEW d \in Deposits
    PROVE  \/ /\ lastIncome'[d] = lastIncome[d] /\ income'[d] = income[d]
              /\ \A x \in txs : x.at = t /\ x.kind = "income" => x.deposit # d
           \/ \E i \in txs :
                 /\ i.at = t /\ i.kind = "income" /\ i.deposit = d
                 /\ lastIncome'[d] = i.lt /\ income'[d] = income[d] + 1
<1> DEFINE in == {x \in TxsAt(t, "income") : x.deposit = d}
<1>1. /\ lastIncome'[d] = Max({lastIncome[d]} \cup {x.lt : x \in in})
      /\ income'[d] = income[d] + Cardinality(in)
  BY DEF ScanBlock
<1>2. lastIncome[d] \in Nat /\ income[d] \in Nat /\ lastIncome[d] <= 2 * scanTime + 1
      /\ scanTime \in Nat
  BY DEF IInv, TypeOK, TableInv
<1>3. CASE in = {}
  <2>1. {x.lt : x \in in} = {} BY <1>3
  <2>2. lastIncome'[d] = lastIncome[d]
    <3>1. {lastIncome[d]} \cup {x.lt : x \in in} = {lastIncome[d]} BY <2>1
    <3> HIDE DEF in
    <3> QED BY <1>1, <1>2, <3>1, MaxOne
  <2>3. income'[d] = income[d]
    <3>1. Cardinality(in) = 0 BY <1>3, FS_EmptySet
    <3> HIDE DEF in
    <3> QED BY <1>1, <1>2, <3>1
  <2> QED BY <1>3, <2>2, <2>3 DEF TxsAt
<1>4. CASE in # {}
  <2>1. PICK i \in in : TRUE BY <1>4
  <2>2. i \in txs /\ i.at = t /\ i.kind = "income" /\ i.deposit = d BY DEF TxsAt
  <2>3. in = {i} BY <2>2 DEF IInv, ChainInv, TxsAt
  <2>4. i.lt \in Nat /\ i.lt > 2 * scanTime + 1 BY <2>2, TxFacts DEF IInv
  <2>5. {x.lt : x \in in} = {i.lt} BY <2>3
  <2>6. lastIncome[d] <= i.lt BY <1>2, <2>4
  <2>7. lastIncome'[d] = i.lt
    <3>1. lastIncome'[d] = Max({lastIncome[d]} \cup {i.lt}) BY <1>1, <2>5
    <3> HIDE DEF in
    <3> QED BY <1>2, <2>4, <2>6, <3>1, MaxTwo
  <2>8. income'[d] = income[d] + 1 BY <1>1, <2>3, FS_Singleton
  <2> QED BY <2>2, <2>7, <2>8
<1> QED BY <1>3, <1>4

\* What a block brings moves from the transactions to the tables.
LEMMA MoneyScanned ==
    ASSUME IInv, NEW t \in unscanned, ScanBlock(t), NEW d \in Deposits
    PROVE  income'[d] + Coming(d)' = balance[d] + Brought(d)'
<1> DEFINE f == [x \in txs |-> Net(x, d)]
           g == [x \in txs' |-> Net(x, d)']
           b == [m \in RowsOf(d) |-> rows[m].amount]
           c == [m \in RowsOf(d) |-> rows'[m].amount]
           I == {x \in txs : x.at = t /\ x.kind = "income"}
           W == {x \in txs : x.at = t /\ x.kind = "withdraw"}
<1>1. txs' = {x \in txs : x.at # t} /\ lastMemo' = lastMemo BY DEF ScanBlock
<1>2. \A x \in txs : /\ x.kind \in {"income", "withdraw"} /\ Net(x, d) \in Int
                     /\ x.kind = "withdraw" => x.memo \in RowMemos /\ x.amount \in Nat
  BY TxFacts DEF IInv
<1>3. RowMemos' = RowMemos /\ \A m \in RowMemos : rows[m] \in Row BY <1>1, RowFacts DEF IInv, RowMemos
<1>4. \A m \in RowMemos : rows'[m].from = rows[m].from
  <2> SUFFICES ASSUME NEW m \in RowMemos PROVE rows'[m].from = rows[m].from OBVIOUS
  <2>1. CASE rows'[m] = rows[m] BY <2>1
  <2>2. CASE \E w \in txs : rows'[m] = Confirmed(rows[m], w)
    BY <1>3, <2>2 DEF Row, Confirmed
  <2> QED BY <2>1, <2>2, RowScanned
<1>5. RowsOf(d)' = RowsOf(d) BY <1>3, <1>4 DEF RowsOf
<1>6. IsFiniteSet(txs) /\ \A x \in txs : f[x] \in Int /\ f[x] = Net(x, d)
  BY <1>2 DEF IInv, ChainInv
<1>7. \A x \in txs' : g[x] = f[x] BY <1>1, <1>2, <1>4 DEF Net
<1>8. /\ IsFiniteSet(RowsOf(d)) /\ RowsOf(d) \subseteq RowMemos
      /\ \A m \in RowsOf(d) : b[m] \in Int /\ b[m] = rows[m].amount /\ c[m] = rows'[m].amount
  BY RowFacts DEF IInv
<1>9. Coming(d) = SumFunctionOnSet(f, txs) BY DEF Coming, SumFunction
<1>10. Coming(d)' = SumFunctionOnSet(g, txs') BY DEF Coming, SumFunction
<1>11. Brought(d) = SumFunctionOnSet(b, RowsOf(d)) BY DEF Brought, SumFunction
<1>12. Brought(d)' = SumFunctionOnSet(c, RowsOf(d)) BY <1>5 DEF Brought, SumFunction
<1>13. txs' = (txs \ I) \ W /\ W \subseteq txs \ I BY <1>1, <1>2
<1>14. I = {} \/ \E i \in txs : I = {i} BY DEF IInv, ChainInv
<1>15. W = {} \/ \E w \in txs : W = {w} BY DEF IInv, ChainInv
<1>16. /\ \A i \in I : i \in txs /\ i.at = t /\ i.kind = "income"
       /\ \A w \in W : w \in txs /\ w.at = t /\ w.kind = "withdraw"
       /\ \A x \in txs : x.at = t /\ x.kind = "income" => x \in I
       /\ \A x \in txs : x.at = t /\ x.kind = "withdraw" => x \in W
  OBVIOUS
<1>17. income[d] \in Nat /\ balance[d] \in Nat BY DEF IInv, TypeOK
<1> HIDE DEF f, g, b, c, I, W
<1>18. IsFiniteSet(txs \ I) /\ IsFiniteSet(txs') BY <1>6, <1>13, FS_Difference
<1>19. /\ SumFunctionOnSet(f, txs \ I) \in Int /\ SumFunctionOnSet(f, txs') \in Int
       /\ SumFunctionOnSet(f, txs) \in Int /\ SumFunctionOnSet(b, RowsOf(d)) \in Int
  BY <1>6, <1>8, <1>13, <1>18, SumType
<1>20. SumFunctionOnSet(g, txs') = SumFunctionOnSet(f, txs') BY <1>7, <1>18, SumSame
<1>21. income'[d] + SumFunctionOnSet(f, txs \ I) = income[d] + SumFunctionOnSet(f, txs)
  <2>1. CASE I = {}
    <3>1. txs \ I = txs BY <2>1
    <3>2. income'[d] = income[d] BY <1>16, <2>1, IncomeScanned
    <3> QED BY <3>1, <3>2
  <2>2. ASSUME NEW i \in txs, I = {i}
        PROVE  income'[d] + SumFunctionOnSet(f, txs \ I) = income[d] + SumFunctionOnSet(f, txs)
    <3>1. SumFunctionOnSet(f, txs) = f[i] + SumFunctionOnSet(f, txs \ I)
      BY <1>6, <2>2, SumRemove
    <3>2. i.at = t /\ i.kind = "income" BY <1>16, <2>2
    <3>3. CASE i.deposit = d
      <4>1. f[i] = 1 BY <1>6, <3>2, <3>3 DEF Net
      <4>2. income'[d] = income[d] + 1 BY <3>2, <3>3, IncomeScanned
      <4> QED BY <1>17, <1>19, <3>1, <4>1, <4>2
    <3>4. CASE i.deposit # d
      <4>1. f[i] = 0 BY <1>6, <3>2, <3>4 DEF Net
      <4>2. income'[d] = income[d] BY <1>16, <2>2, <3>4, IncomeScanned
      <4> QED BY <1>17, <1>19, <3>1, <4>1, <4>2
    <3> QED BY <3>3, <3>4
  <2> QED BY <1>14, <2>1, <2>2
<1>22. SumFunctionOnSet(f, txs') + SumFunctionOnSet(b, RowsOf(d))
         = SumFunctionOnSet(f, txs \ I) + SumFunctionOnSet(c, RowsOf(d))
  <2>1. ASSUME NEW m \in RowsOf(d), \A x \in W : x.memo # m PROVE c[m] = b[m]
    <3>1. rows'[m] = rows[m] BY <1>8, <1>16, <2>1, RowScanned
    <3> QED BY <1>8, <3>1
  <2>2. CASE W = {}
    <3>1. txs' = txs \ I BY <1>13, <2>2
    <3>2. SumFunctionOnSet(c, RowsOf(d)) = SumFunctionOnSet(b, RowsOf(d))
      BY <1>8, <2>1, <2>2, SumSame
    <3> QED BY <3>1, <3>2
  <2>3. ASSUME NEW w \in txs, W = {w}
        PROVE  SumFunctionOnSet(f, txs') + SumFunctionOnSet(b, RowsOf(d))
                 = SumFunctionOnSet(f, txs \ I) + SumFunctionOnSet(c, RowsOf(d))
    <3>1. /\ w.at = t /\ w.kind = "withdraw" /\ w.memo \in RowMemos /\ w.amount \in Nat
          /\ w \in txs \ I
      BY <1>2, <1>13, <1>16, <2>3
    <3>2. SumFunctionOnSet(f, txs \ I) = f[w] + SumFunctionOnSet(f, txs')
      BY <1>6, <1>13, <1>18, <2>3, <3>1, SumRemove
    <3>3. CASE rows[w.memo].from = d
      <4>1. f[w] = 0 - w.amount BY <1>6, <3>1, <3>3 DEF Net
      <4>2. w.memo \in RowsOf(d) BY <3>1, <3>3 DEF RowsOf
      <4>3. c[w.memo] = b[w.memo] + w.amount
        <5>1. PICK v \in txs :
                 /\ v.at = t /\ v.kind = "withdraw" /\ v.memo = w.memo
                 /\ rows'[w.memo] = Confirmed(rows[w.memo], v)
          BY <3>1, RowScanned
        <5>2. v = w BY <1>16, <2>3, <5>1
        <5>3. rows'[w.memo].amount = rows[w.memo].amount + w.amount
          BY <1>3, <3>1, <5>1, <5>2 DEF Row, Confirmed
        <5> QED BY <1>8, <4>2, <5>3
      <4>4. \A m \in RowsOf(d) \ {w.memo} : b[m] = c[m] BY <2>1, <2>3
      <4>5. \A m \in RowsOf(d) : b[m] \in Int /\ c[m] \in Int
        <5>1. c[w.memo] \in Int BY <1>8, <3>1, <4>2, <4>3
        <5> QED BY <1>8, <4>4, <5>1
      <4>6. SumFunctionOnSet(c, RowsOf(d))
              = SumFunctionOnSet(b, RowsOf(d)) + (c[w.memo] - b[w.memo])
        BY <1>8, <4>2, <4>4, <4>5, SumChange
      <4>7. c[w.memo] - b[w.memo] = w.amount BY <3>1, <4>2, <4>3, <4>5
      <4> QED BY <1>19, <3>1, <3>2, <4>1, <4>6, <4>7
    <3>4. CASE rows[w.memo].from # d
      <4>1. f[w] = 0 BY <1>6, <3>1, <3>4 DEF Net
      <4>2. w.memo \notin RowsOf(d) BY <3>4 DEF RowsOf
      <4>3. SumFunctionOnSet(c, RowsOf(d)) = SumFunctionOnSet(b, RowsOf(d))
        BY <1>8, <2>1, <2>3, <4>2, SumSame
      <4> QED BY <1>19, <3>2, <4>1, <4>3
    <3> QED BY <3>3, <3>4
  <2> QED BY <1>15, <2>2, <2>3
<1>23. SumFunctionOnSet(c, RowsOf(d)) \in Int
  <2>1. \A m \in RowsOf(d) : c[m] \in Int
    <3> SUFFICES ASSUME NEW m \in RowsOf(d) PROVE c[m] \in Int OBVIOUS
    <3>1. rows[m] \in Row /\ m \in RowMemos BY <1>3, <1>8
    <3>2. CASE rows'[m] = rows[m] BY <1>8, <3>2
    <3>3. ASSUME NEW w \in txs, w.kind = "withdraw",
                 rows'[m] = Confirmed(rows[m], w)
          PROVE  c[m] \in Int
      <4>1. rows'[m].amount = rows[m].amount + w.amount BY <3>1, <3>3 DEF Row, Confirmed
      <4>2. w.amount \in Nat /\ rows[m].amount \in Nat BY <1>2, <3>1, <3>3 DEF Row
      <4> QED BY <1>8, <4>1, <4>2
    <3> QED BY <3>1, <3>2, <3>3, RowScanned
  <2> QED BY <1>8, <2>1, SumType
<1>24. income[d] + SumFunctionOnSet(f, txs) = balance[d] + SumFunctionOnSet(b, RowsOf(d))
  BY <1>9, <1>11 DEF IInv, MoneyInv
<1>25. income'[d] \in Int BY <1>17, IncomeScanned
<1> QED BY <1>10, <1>12, <1>17, <1>19, <1>20, <1>21, <1>22, <1>23, <1>24, <1>25

\* What a block changes in a row.
LEMMA ScannedRows ==
    ASSUME IInv, NEW t \in unscanned, ScanBlock(t), NEW m \in RowMemos
    PROVE  /\ rows'[m] \in Row
           /\ rows'[m].from = rows[m].from /\ rows'[m].sinceLt = rows[m].sinceLt
           /\ rows'[m].expiredAt = rows[m].expiredAt /\ rows'[m].failed = rows[m].failed
           /\ rows'[m].sendingLt = rows'[m].finishLt
           /\ \/ rows'[m].finishLt = rows[m].finishLt
              \/ \E w \in txs : /\ w.at = t /\ w.kind = "withdraw" /\ w.memo = m
                                /\ ~rows[m].failed /\ rows'[m].finishLt = w.lt
<1>1. rows[m] \in Row BY RowFacts DEF IInv
<1>2. rows[m].sendingLt = rows[m].finishLt BY DEF IInv, TableInv
<1>3. CASE rows'[m] = rows[m] BY <1>1, <1>2, <1>3
<1>4. ASSUME NEW w \in txs, w.at = t, w.kind = "withdraw", w.memo = m, ~rows[m].failed,
             rows'[m] = Confirmed(rows[m], w)
      PROVE  /\ rows'[m] \in Row
             /\ rows'[m].from = rows[m].from /\ rows'[m].sinceLt = rows[m].sinceLt
             /\ rows'[m].expiredAt = rows[m].expiredAt /\ rows'[m].failed = rows[m].failed
             /\ rows'[m].sendingLt = rows'[m].finishLt /\ rows'[m].finishLt = w.lt
  <2>1. w.lt \in Nat /\ w.amount \in Nat BY <1>4, TxFacts DEF IInv
  <2> QED BY <1>1, <1>4, <2>1, ConfirmedFacts
<1> QED BY <1>3, <1>4, RowScanned

\* Saving a block keeps everything: executions finish rows that were not given
\* up, and incomes are newer than what is known.
LEMMA ScanStep ==
    ASSUME IInv, NEW t \in unscanned, ScanBlock(t)
    PROVE  IInv'
<1>1. /\ IsNextBlock(t) /\ scanTime' = t /\ unscanned' = unscanned \ {t}
      /\ txs' = {x \in txs : x.at # t}
      /\ UNCHANGED <<lastMemo, serviceVars, balance, chainTime, payments, validUntil, now>>
      /\ rows' = [m \in Memos |-> Confirm(rows[m], {x \in TxsAt(t, "withdraw") : x.memo = m})]
      /\ lastIncome' = [d \in Deposits |-> lastIncome'[d]]
      /\ income' = [d \in Deposits |-> income'[d]]
  BY DEF ScanBlock
<1>2. RowMemos' = RowMemos BY <1>1 DEF RowMemos
<1>3. /\ RowMemos \subseteq Memos
      /\ \A m \in RowMemos : /\ rows[m] \in Row /\ rows[m].finishLt \in Nat
                             /\ rows[m].sinceLt \in Nat /\ rows[m].failed \in BOOLEAN
  BY RowFacts DEF IInv
<1>4. \A m \in RowMemos :
         /\ rows'[m] \in Row
         /\ rows'[m].from = rows[m].from /\ rows'[m].sinceLt = rows[m].sinceLt
         /\ rows'[m].failed = rows[m].failed
         /\ rows'[m].sendingLt = rows'[m].finishLt
         /\ \/ rows'[m].finishLt = rows[m].finishLt
            \/ \E w \in txs : /\ w.at = t /\ w.kind = "withdraw" /\ w.memo = m
                              /\ ~rows[m].failed /\ rows'[m].finishLt = w.lt
  BY ScannedRows
<1>5. \A x \in txs :
         /\ x.lt \in Nat /\ x.at \in Nat /\ x.at > 0 /\ x.lt > 0
         /\ x.lt <= 2 * x.at + 1 /\ x.lt > 2 * scanTime + 1 /\ scanTime < x.at
         /\ x.kind \in {"income", "withdraw"}
         /\ x.kind = "withdraw" => x.memo \in RowMemos
  <2>1. \A x \in txs : x.lt \in {2 * x.at, 2 * x.at + 1} BY DEF IInv, ChainInv
  <2>2. scanTime \in Nat BY DEF IInv, TypeOK
  <2>3. \A x \in txs : /\ x.lt \in Nat /\ x.at \in Nat /\ x.at > 0 /\ x.lt > 2 * scanTime + 1
                       /\ scanTime < x.at /\ x.kind \in {"income", "withdraw"}
                       /\ x.kind = "withdraw" => x.memo \in RowMemos
    BY TxFacts DEF IInv
  <2>4. \A x \in txs : x.lt <= 2 * x.at + 1 BY <2>1, <2>3
  <2> QED BY <2>2, <2>3, <2>4
<1>6. /\ scanTime \in Nat /\ t \in Nat /\ scanTime < t /\ chainTime \in Nat /\ t <= chainTime
      /\ unscanned \subseteq Nat /\ 2 * scanTime + 1 <= 2 * t + 1
  BY DEF IInv, ChainInv, TypeOK
<1>7. \A d : RowsOf(d)' = RowsOf(d) BY <1>2, <1>4 DEF RowsOf
<1>8. \A m \in Memos \ RowMemos : rows'[m] = rows[m]
  <2> SUFFICES ASSUME NEW m \in Memos \ RowMemos PROVE rows'[m] = rows[m] OBVIOUS
  <2>1. {x \in TxsAt(t, "withdraw") : x.memo = m} = {} BY <1>5 DEF TxsAt
  <2> QED BY <1>1, <2>1 DEF Confirm
<1>9. \A d \in Deposits :
         /\ lastIncome'[d] \in Nat /\ income'[d] \in Nat /\ lastIncome[d] <= lastIncome'[d]
         /\ lastIncome'[d] <= 2 * t + 1
         /\ \A i \in txs : i.at = t /\ i.kind = "income" /\ i.deposit = d => i.lt = lastIncome'[d]
  <2> SUFFICES ASSUME NEW d \in Deposits
               PROVE  /\ lastIncome'[d] \in Nat /\ income'[d] \in Nat
                      /\ lastIncome[d] <= lastIncome'[d] /\ lastIncome'[d] <= 2 * t + 1
                      /\ \A i \in txs : i.at = t /\ i.kind = "income" /\ i.deposit = d
                                           => i.lt = lastIncome'[d]
    OBVIOUS
  <2>1. lastIncome[d] \in Nat /\ income[d] \in Nat /\ lastIncome[d] <= 2 * scanTime + 1
    BY DEF IInv, TypeOK, TableInv
  <2>2. CASE /\ lastIncome'[d] = lastIncome[d] /\ income'[d] = income[d]
             /\ \A x \in txs : x.at = t /\ x.kind = "income" => x.deposit # d
    BY <1>6, <2>1, <2>2
  <2>3. ASSUME NEW i \in txs, i.at = t, i.kind = "income", i.deposit = d,
               lastIncome'[d] = i.lt, income'[d] = income[d] + 1
        PROVE  /\ lastIncome'[d] \in Nat /\ income'[d] \in Nat
               /\ lastIncome[d] <= lastIncome'[d] /\ lastIncome'[d] <= 2 * t + 1
               /\ \A j \in txs : j.at = t /\ j.kind = "income" /\ j.deposit = d
                                    => j.lt = lastIncome'[d]
    <3>1. \A j \in txs : j.at = t /\ j.kind = "income" => j = i BY <2>3 DEF IInv, ChainInv
    <3> QED BY <1>5, <1>6, <2>1, <2>3, <3>1
  <2> QED BY <2>2, <2>3, IncomeScanned
<1> DEFINE F(m) == rows'[m].finishLt
<1>10. \A m \in RowMemos : /\ rows[m].finishLt <= 2 * scanTime + 1
                           /\ rows[m].failed => rows[m].finishLt = Null
                           /\ rows[m].finishLt # Null => rows[m].sinceLt < rows[m].finishLt
  BY DEF IInv, TableInv
<1>11. ASSUME NEW m \in RowMemos
       PROVE  /\ F(m) \in Nat /\ F(m) <= 2 * t + 1
              /\ rows[m].failed => F(m) = Null
              /\ F(m) # Null => rows[m].sinceLt < F(m)
              /\ F(m) = Null => rows[m].finishLt = Null
  <2>1. CASE F(m) = rows[m].finishLt BY <1>3, <1>6, <1>10, <2>1
  <2>2. ASSUME NEW w \in txs, w.at = t, w.kind = "withdraw", w.memo = m, ~rows[m].failed,
               F(m) = w.lt
        PROVE  /\ F(m) \in Nat /\ F(m) <= 2 * t + 1
               /\ rows[m].failed => F(m) = Null
               /\ F(m) # Null => rows[m].sinceLt < F(m)
               /\ F(m) = Null => rows[m].finishLt = Null
    <3>1. rows[m].sinceLt < w.lt BY <2>2 DEF IInv, ExecInv
    <3>2. w.lt \in Nat /\ w.lt <= 2 * t + 1 /\ w.lt > 0 BY <1>5, <2>2
    <3> QED BY <2>2, <3>1, <3>2 DEF Null
  <2> QED BY <1>4, <2>1, <2>2
<1>12. \A m \in RowMemos : Live(m)' => Live(m) BY <1>4, <1>11 DEF Live
<1>13. \A m \in RowMemos : F(m) # Null => rows[m].finishLt # Null \/ Live(m)
  <2> SUFFICES ASSUME NEW m \in RowMemos, F(m) # Null, rows[m].finishLt = Null PROVE Live(m)
    OBVIOUS
  <2>1. ~rows[m].failed BY <1>4
  <2> QED BY <2>1 DEF Live
<1>14. TypeOK'
  <2>1. \A m \in RowMemos' : rows'[m] \in Row BY <1>2, <1>4
  <2>2. lastIncome' \in [Deposits -> Nat] /\ income' \in [Deposits -> Nat] BY <1>1, <1>9
  <2>3. unscanned' \subseteq Nat /\ scanTime' \in Nat BY <1>1, <1>6
  <2>4. \A m \in Memos \ RowMemos' : rows'[m] = Null /\ validUntil'[m] = Null
    BY <1>1, <1>2, <1>8 DEF IInv, TypeOK
  <2> QED BY <1>1, <2>1, <2>2, <2>3, <2>4 DEF IInv, TypeOK, Row, serviceVars
<1>15. RowsInv' BY <1>1 DEF IInv, RowsInv, serviceVars
<1>16. ChainInv'
  <2>1. \A u \in unscanned' : t < u /\ u <= chainTime /\ u \in unscanned
    BY <1>1, <1>6 DEF IInv, ChainInv, IsNextBlock
  <2>2. IsFiniteSet(txs') /\ txs' \subseteq txs BY <1>1, FS_Subset DEF IInv, ChainInv
  <2>3. \A x \in txs' : x.at \in unscanned' BY <1>1 DEF IInv, ChainInv
  <2> QED BY <1>1, <1>6, <2>1, <2>2, <2>3 DEF IInv, ChainInv
<1>17. txs' \subseteq txs BY <1>1
<1>18. ExecInv' BY <1>1, <1>2, <1>4, <1>17 DEF IInv, ExecInv
<1>19. TableInv'
  <2>1. \A m \in RowMemos : /\ rows'[m].sinceLt <= 2 * t + 1
                            /\ rows'[m].finishLt <= 2 * t + 1
                            /\ rows'[m].finishLt # Null => rows'[m].sinceLt < rows'[m].finishLt
    <3>1. \A m \in RowMemos : rows[m].sinceLt <= 2 * scanTime + 1 BY DEF IInv, TableInv
    <3> QED BY <1>3, <1>4, <1>6, <1>11, <3>1
  <2>2. \A m \in RowMemos : rows'[m].failed => rows'[m].finishLt = Null
    BY <1>4, <1>11
  <2> QED BY <1>1, <1>2, <1>4, <1>9, <2>1, <2>2 DEF TableInv
<1>20. TaskInv'
  <2>1. tasks' = tasks BY <1>1 DEF serviceVars
  <2>2. ASSUME NEW a \in tasks, NEW m \in RowsOf(a.from)
        PROVE  ~Live(m)' /\ (rows'[m].finishLt # Null => rows'[m].sinceLt < a.lt)
    <3>1. m \in RowMemos BY DEF RowsOf
    <3>2. ~Live(m) /\ (rows[m].finishLt # Null => rows[m].sinceLt < a.lt) BY DEF IInv, TaskInv
    <3>3. rows'[m].finishLt # Null => rows[m].finishLt # Null BY <1>13, <3>1, <3>2
    <3>4. rows'[m].sinceLt = rows[m].sinceLt BY <1>4, <3>1
    <3> QED BY <1>12, <3>1, <3>2, <3>3, <3>4
  <2>3. \A a \in tasks : a.lt <= 2 * t + 1
    <3>1. \A a \in tasks : a.lt \in Nat /\ a.lt <= 2 * scanTime + 1 BY DEF IInv, TypeOK, TaskInv
    <3> QED BY <1>6, <3>1
  <2> QED BY <1>1, <1>7, <2>1, <2>2, <2>3 DEF IInv, TaskInv
<1>21. OneLivePerDeposit'
  <2> SUFFICES ASSUME NEW d \in Deposits, NEW m \in RowsOf(d), NEW n \in RowsOf(d),
                      Live(m)', Live(n)'
               PROVE  m = n
    BY <1>7 DEF OneLivePerDeposit
  <2>1. m \in RowMemos /\ n \in RowMemos BY DEF RowsOf
  <2>2. Live(m) /\ Live(n) BY <1>12, <2>1
  <2> QED BY <2>2 DEF IInv, OneLivePerDeposit
<1>22. OrderInv'
  <2> SUFFICES ASSUME NEW m \in RowMemos, NEW n \in RowMemos,
                      rows'[m].from = rows'[n].from, rows'[m].finishLt # Null, Live(n)'
               PROVE  rows'[m].sinceLt < rows'[n].sinceLt
    BY <1>2 DEF OrderInv
  <2>1. Live(n) /\ rows[m].from = rows[n].from BY <1>4, <1>12
  <2>2. rows[m].finishLt # Null
    <3> SUFFICES ASSUME rows[m].finishLt = Null PROVE FALSE OBVIOUS
    <3>1. Live(m) BY <1>13
    <3>2. rows[m].from \in Deposits /\ m \in RowsOf(rows[m].from) /\ n \in RowsOf(rows[m].from)
      BY <1>3, <2>1 DEF Row, RowsOf
    <3>3. m = n BY <2>1, <3>1, <3>2 DEF IInv, OneLivePerDeposit
    <3> QED BY <3>3 DEF Live
  <2> QED BY <1>4, <2>1, <2>2 DEF IInv, OrderInv
<1>23. HeldInv'
  <2>1. ASSUME NEW d \in Deposits, NEW lt \in Nat, NothingSince(d, lt), NEW u \in Nat, lt <= u
        PROVE  NothingSince(d, u)'
    <3>1. \A x \in txs : x.kind = "withdraw" /\ rows[x.memo].from = d => x.lt < lt
      BY <2>1 DEF NothingSince
    <3>2. \A x \in txs' : x.kind = "withdraw" /\ rows'[x.memo].from = d => x.lt < u
      BY <1>4, <1>5, <1>17, <2>1, <3>1
    <3>3. ASSUME NEW m \in RowsOf(d) PROVE rows'[m].finishLt < u
      <4>1. m \in RowMemos /\ rows[m].from = d BY DEF RowsOf
      <4>2. rows[m].finishLt < lt BY <2>1 DEF NothingSince
      <4>3. CASE rows'[m].finishLt = rows[m].finishLt BY <1>3, <2>1, <4>1, <4>2, <4>3
      <4>4. ASSUME NEW w \in txs, w.kind = "withdraw", w.memo = m, rows'[m].finishLt = w.lt
            PROVE  rows'[m].finishLt < u
        BY <1>5, <2>1, <3>1, <4>1, <4>4
      <4> QED BY <1>4, <4>1, <4>3, <4>4
    <3>4. u # Null BY <2>1 DEF NothingSince, Null
    <3> QED BY <1>7, <3>2, <3>3, <3>4 DEF NothingSince
  <2> SUFFICES ASSUME NEW d \in Deposits, balance[d] > 0
               PROVE  \/ NothingSince(d, lastIncome[d])'
                      \/ \E x \in txs' : x.kind = "income" /\ x.deposit = d /\ NothingSince(d, x.lt)'
    BY <1>1 DEF HeldInv
  <2>2. PICK u : u = lastIncome'[d] OBVIOUS
  <2>3. lastIncome[d] \in Nat /\ u \in Nat /\ lastIncome[d] <= u
    BY <1>9, <2>2 DEF IInv, TypeOK
  <2>4. NothingSince(d, u)' => NothingSince(d, lastIncome[d])' BY <2>2 DEF NothingSince
  <2>5. CASE NothingSince(d, lastIncome[d])
    <3>1. NothingSince(d, u)' BY <2>1, <2>3, <2>5
    <3> QED BY <2>4, <3>1
  <2>6. ASSUME NEW x \in txs, x.kind = "income", x.deposit = d, NothingSince(d, x.lt)
        PROVE  \/ NothingSince(d, lastIncome[d])'
               \/ \E y \in txs' : y.kind = "income" /\ y.deposit = d /\ NothingSince(d, y.lt)'
    <3>1. x.lt \in Nat BY <1>5
    <3>2. CASE x.at = t
      <4>1. x.lt = u BY <1>9, <2>2, <2>6, <3>2
      <4>2. x.lt <= u BY <3>1, <4>1
      <4>3. NothingSince(d, u)' BY <2>1, <2>3, <2>6, <3>1, <4>2
      <4> QED BY <2>4, <4>3
    <3>3. CASE x.at # t
      <4>1. x \in txs' BY <1>1, <3>3
      <4>2. x.lt <= x.lt BY <3>1
      <4>3. NothingSince(d, x.lt)' BY <2>1, <2>6, <3>1, <4>2
      <4> QED BY <2>6, <4>1, <4>3
    <3> QED BY <3>2, <3>3
  <2> QED BY <2>5, <2>6 DEF IInv, HeldInv
<1>24. MoneyInv' BY <1>1, MoneyScanned DEF MoneyInv
<1> QED BY <1>14, <1>15, <1>16, <1>18, <1>19, <1>20, <1>21, <1>22, <1>23, <1>24 DEF IInv

-----------------------------------------------------------------------------
(* New blocks *)

\* The transactions of the block that is made now.
IsBlock(X) ==
    /\ IsFiniteSet(X) /\ X \subseteq Incomes \cup Executions
    /\ \A x \in X : x.at = now /\ x.lt \in {2 * now, 2 * now + 1}
    /\ \A x, y \in X : x.kind = y.kind => x = y
    /\ \A x \in X : x.kind = "withdraw" =>
          x.memo \in RowMemos /\ validUntil[x.memo] # Null /\ now <= validUntil[x.memo]

\* All of a block is newer than what the tables and the other blocks have.
LEMMA BlockStep ==
    ASSUME IInv, NEW X, NewBlock(now, X), IsBlock(X), balance' \in [Deposits -> Nat],
           payments' \in 0..MaxPayments, HeldInv', MoneyInv'
    PROVE  IInv'
<1>1. /\ now > chainTime /\ chainTime' = now /\ unscanned' = unscanned \cup {now}
      /\ txs' = txs \cup X /\ UNCHANGED <<dbVars, serviceVars, validUntil, now>>
  BY DEF NewBlock
<1>2. now \in Nat /\ chainTime \in Nat /\ scanTime \in Nat /\ scanTime <= chainTime
      /\ unscanned \subseteq Nat
  BY DEF IInv, TypeOK, ChainInv
<1>3. RowMemos' = RowMemos /\ rows' = rows /\ \A d : RowsOf(d)' = RowsOf(d)
  BY <1>1 DEF RowMemos, RowsOf, dbVars
<1>4. TypeOK' BY <1>1, <1>2, <1>3 DEF IInv, TypeOK, dbVars, serviceVars
<1>5. RowsInv' /\ TableInv' BY <1>1, <1>3 DEF IInv, RowsInv, TableInv, dbVars, serviceVars
<1>6. TaskInv' /\ OneLivePerDeposit' /\ OrderInv'
  BY <1>1, <1>3 DEF IInv, TaskInv, OneLivePerDeposit, OrderInv, Live, dbVars, serviceVars
<1>7. ChainInv'
  <2>1. scanTime' <= chainTime' BY <1>1, <1>2 DEF dbVars
  <2>2. \A u \in unscanned' : scanTime' < u /\ u <= chainTime'
    BY <1>1, <1>2 DEF IInv, ChainInv, dbVars
  <2>3. IsFiniteSet(txs') /\ txs' \subseteq Incomes \cup Executions
    BY <1>1, FS_Union DEF IInv, ChainInv, IsBlock
  <2>4. \A x \in txs' : x.at \in unscanned' /\ x.lt \in {2 * x.at, 2 * x.at + 1}
    BY <1>1 DEF IInv, ChainInv, IsBlock
  <2>5. \A x, y \in txs' : x.at = y.at /\ x.kind = y.kind => x = y
    <3>1. \A x \in txs : x.at # now
      <4>1. \A x \in txs : x.at \in Nat /\ x.at <= chainTime BY TxFacts DEF IInv
      <4> QED BY <1>1, <1>2, <4>1
    <3>2. \A x \in X : x.at = now BY DEF IsBlock
    <3> QED BY <1>1, <3>1, <3>2 DEF IInv, ChainInv, IsBlock
  <2> QED BY <2>1, <2>2, <2>3, <2>4, <2>5 DEF ChainInv
<1>8. ExecInv'
  <2> SUFFICES ASSUME NEW x \in txs', x.kind = "withdraw"
               PROVE  /\ x.memo \in RowMemos /\ rows[x.memo].sinceLt < x.lt
                      /\ validUntil[x.memo] # Null /\ x.at <= validUntil[x.memo]
    BY <1>1, <1>3 DEF ExecInv
  <2>1. CASE x \in txs BY <2>1 DEF IInv, ExecInv
  <2>2. CASE x \in X
    <3>1. /\ x.memo \in RowMemos /\ validUntil[x.memo] # Null /\ x.at <= validUntil[x.memo]
          /\ (x.lt = 2 * now \/ x.lt = 2 * now + 1)
      BY <2>2 DEF IsBlock
    <3>2. rows[x.memo].sinceLt \in Nat /\ rows[x.memo].sinceLt <= 2 * scanTime + 1
      BY <3>1, RowFacts DEF IInv, TableInv
    <3>3. rows[x.memo].sinceLt < x.lt BY <1>1, <1>2, <3>1, <3>2
    <3> QED BY <3>1, <3>3
  <2> QED BY <1>1, <2>1, <2>2
<1> QED BY <1>4, <1>5, <1>6, <1>7, <1>8 DEF IInv

\* A block that executes nothing of a deposit and does not pay it.
LEMMA HeldElsewhere ==
    ASSUME IInv, NEW X, NewBlock(now, X), NEW d \in Deposits, balance'[d] = balance[d],
           \A x \in X : x.kind = "withdraw" => rows[x.memo].from # d
    PROVE  balance'[d] > 0 =>
             \/ NothingSince(d, lastIncome[d])'
             \/ \E x \in txs' : x.kind = "income" /\ x.deposit = d /\ NothingSince(d, x.lt)'
<1>1. txs' = txs \cup X /\ rows' = rows /\ lastMemo' = lastMemo /\ lastIncome' = lastIncome
  BY DEF NewBlock, dbVars
<1>2. RowsOf(d)' = RowsOf(d) BY <1>1 DEF RowsOf, RowMemos
<1>3. \A lt : NothingSince(d, lt) => NothingSince(d, lt)' BY <1>1, <1>2 DEF NothingSince
<1>4. NothingSince(d, lastIncome[d]) => NothingSince(d, lastIncome[d])'
  BY <1>1, <1>2 DEF NothingSince
<1>5. txs \subseteq txs' BY <1>1
<1> QED BY <1>3, <1>4, <1>5 DEF IInv, HeldInv

\* A payment after which the block executes nothing.
LEMMA HeldPaid ==
    ASSUME IInv, NEW X, NewBlock(now, X), NEW d \in Deposits, NEW p \in X,
           p.kind = "income", p.deposit = d, p.lt \in {2 * now, 2 * now + 1},
           \A x \in X : x.kind = "withdraw" => x.lt < p.lt
    PROVE  \E x \in txs' : x.kind = "income" /\ x.deposit = d /\ NothingSince(d, x.lt)'
<1>1. /\ txs' = txs \cup X /\ rows' = rows /\ lastMemo' = lastMemo /\ now > chainTime
  BY DEF NewBlock, dbVars
<1>2. RowsOf(d)' = RowsOf(d) BY <1>1 DEF RowsOf, RowMemos
<1>3. /\ now \in Nat /\ chainTime \in Nat /\ scanTime \in Nat /\ scanTime <= chainTime
      /\ p.lt \in Nat /\ p.lt >= 2 * now
  BY DEF IInv, TypeOK, ChainInv
<1>4. \A x \in txs : x.lt \in Nat /\ x.lt <= 2 * chainTime + 1 BY TxFacts DEF IInv
<1>5. \A x \in txs : x.lt < p.lt BY <1>1, <1>3, <1>4
<1>6. \A m \in RowsOf(d) : rows[m].finishLt \in Nat /\ rows[m].finishLt <= 2 * scanTime + 1
  BY RowFacts DEF IInv, TableInv, RowsOf
<1>7. \A m \in RowsOf(d) : rows[m].finishLt < p.lt BY <1>1, <1>3, <1>6
<1>8. p.lt # Null BY <1>1, <1>3 DEF Null
<1>9. NothingSince(d, p.lt)' BY <1>1, <1>2, <1>5, <1>7, <1>8 DEF NothingSince
<1> QED BY <1>1, <1>9

Pair(a, b) == {a, b}

\* One or two transactions more.
LEMMA ComingAdd ==
    ASSUME IInv, NEW X, NewBlock(now, X), IsBlock(X), NEW d \in Deposits
    PROVE  /\ \A a : X = {a} => Coming(d)' = Coming(d) + Net(a, d)
           /\ \A a, b : X = Pair(a, b) /\ a # b => Coming(d)' = Coming(d) + Net(a, d) + Net(b, d)
           /\ X = {} => Coming(d)' = Coming(d)
           /\ \A a \in X : Net(a, d) \in Int
<1> DEFINE f == [x \in txs |-> Net(x, d)]
           g == [x \in txs' |-> Net(x, d)']
<1>1. txs' = txs \cup X /\ rows' = rows /\ now > chainTime BY DEF NewBlock, dbVars
<1>2. \A x : Net(x, d)' = Net(x, d) BY <1>1 DEF Net
<1>3. IsFiniteSet(txs) /\ \A x \in txs : Net(x, d) \in Int BY TxFacts DEF IInv, ChainInv
<1>4. \A x \in X : Net(x, d) \in Int
  <2> SUFFICES ASSUME NEW x \in X PROVE Net(x, d) \in Int OBVIOUS
  <2>1. x \in Incomes \/ x \in Executions BY DEF IsBlock
  <2>2. x.kind = "income" \/ x.amount \in Nat BY <2>1 DEF Incomes, Executions
  <2> QED BY <2>2 DEF Net
<1>5. \A x \in X : x \notin txs
  <2>1. \A x \in txs : x.at \in Nat /\ x.at <= chainTime BY TxFacts DEF IInv
  <2>2. now \in Nat /\ chainTime \in Nat BY DEF IInv, TypeOK
  <2> QED BY <1>1, <2>1, <2>2 DEF IsBlock
<1>6. Coming(d) = SumFunctionOnSet(f, txs) BY DEF Coming, SumFunction
<1>7. Coming(d)' = SumFunctionOnSet(g, txs') BY DEF Coming, SumFunction
<1>8. \A x \in txs : f[x] = g[x] /\ g[x] \in Int BY <1>1, <1>2, <1>3
<1>9. \A x \in X : g[x] = Net(x, d) /\ g[x] \in Int BY <1>1, <1>2, <1>4
<1> HIDE DEF f, g
<1>10. SumFunctionOnSet(f, txs) = SumFunctionOnSet(g, txs) BY <1>3, <1>8, SumSame
<1>11. SumFunctionOnSet(g, txs) \in Int BY <1>3, <1>8, SumType
<1>12. ASSUME NEW a, X = {a} PROVE Coming(d)' = Coming(d) + Net(a, d)
  <2>1. a \in X /\ txs' = txs \cup {a} BY <1>1, <1>12
  <2>2. \A x \in txs \cup {a} : g[x] \in Int BY <1>8, <1>9, <2>1
  <2>3. SumFunctionOnSet(g, txs \cup {a}) = g[a] + SumFunctionOnSet(g, txs)
    BY <1>3, <1>5, <2>1, <2>2, SumAdd
  <2>4. g[a] = Net(a, d) /\ g[a] \in Int BY <1>9, <2>1
  <2> QED BY <1>6, <1>7, <1>10, <1>11, <2>1, <2>3, <2>4
<1>13. ASSUME NEW a, NEW b, X = Pair(a, b), a # b
       PROVE  Coming(d)' = Coming(d) + Net(a, d) + Net(b, d)
  <2> DEFINE T == txs \cup {a}
  <2>1. a \in X /\ b \in X /\ txs' = T \cup {b} BY <1>1, <1>13 DEF Pair
  <2>2. \A x \in T \cup {b} : g[x] \in Int BY <1>8, <1>9, <2>1
  <2>3. SumFunctionOnSet(g, T) = g[a] + SumFunctionOnSet(g, txs)
    BY <1>3, <1>5, <2>1, <2>2, SumAdd
  <2>4. IsFiniteSet(T) /\ b \notin T BY <1>3, <1>5, <1>13, <2>1, FS_AddElement
  <2> HIDE DEF T
  <2>5. SumFunctionOnSet(g, T \cup {b}) = g[b] + SumFunctionOnSet(g, T)
    BY <2>2, <2>4, SumAdd
  <2>6. g[a] = Net(a, d) /\ g[a] \in Int /\ g[b] = Net(b, d) /\ g[b] \in Int BY <1>9, <2>1
  <2> QED BY <1>6, <1>7, <1>10, <1>11, <2>1, <2>3, <2>5, <2>6
<1>14. X = {} => Coming(d)' = Coming(d)
  <2> SUFFICES ASSUME X = {} PROVE Coming(d)' = Coming(d) OBVIOUS
  <2>1. txs' = txs BY <1>1
  <2> QED BY <1>6, <1>7, <1>10, <2>1
<1> QED BY <1>4, <1>12, <1>13, <1>14

\* The transactions of a block are what the scanner expects.
LEMMA PayFacts ==
    ASSUME NEW d \in Deposits, NEW t \in Nat, NEW lt \in {2 * t, 2 * t + 1}
    PROVE  LET p == Pay(d, lt)
           IN  /\ p \in Incomes /\ p.kind = "income" /\ p.deposit = d /\ p.lt = lt /\ p.at = t
<1>1. lt \in Nat /\ lt \div 2 = t OBVIOUS
<1> QED BY <1>1 DEF Pay, Incomes

\* One or two elements.
Few(X) == (\E a : X = {a}) \/ (\E a, b : X = Pair(a, b) /\ a # b)

\* The transactions X of a block are all of deposit d; what is left of b > 0 was
\* paid after the last execution.
Concerns(X, d) ==
    \A x \in X : /\ x.kind = "withdraw" => rows[x.memo].from = d
                 /\ x.kind = "income" => x.deposit = d
PaidLast(X, b) ==
    b > 0 => \E p \in X : /\ p.kind = "income" /\ p.lt \in {2 * now, 2 * now + 1}
                          /\ \A x \in X : x.kind = "withdraw" => x.lt < p.lt

\* A block of one deposit.
LEMMA DepositBlock ==
    ASSUME IInv, NEW X, NewBlock(now, X), IsBlock(X), Few(X), NEW d \in Deposits, NEW b \in Nat,
           balance' = [balance EXCEPT ![d] = b], payments' \in 0..MaxPayments,
           Concerns(X, d), PaidLast(X, b),
           Coming(d)' = Coming(d) + (b - balance[d])
    PROVE  IInv'
<1> USE DEF Concerns, PaidLast
<1>1. balance \in [Deposits -> Nat] BY DEF IInv, TypeOK
<1>2. balance' \in [Deposits -> Nat] /\ balance'[d] = b
      /\ \A e \in Deposits \ {d} : balance'[e] = balance[e]
  BY <1>1
<1>3. HeldInv'
  <2> SUFFICES ASSUME NEW e \in Deposits, balance'[e] > 0
               PROVE  \/ NothingSince(e, lastIncome[e])'
                      \/ \E x \in txs' : x.kind = "income" /\ x.deposit = e /\ NothingSince(e, x.lt)'
    BY DEF HeldInv
  <2>1. CASE e = d
    <3>1. PICK p \in X : /\ p.kind = "income" /\ p.lt \in {2 * now, 2 * now + 1}
                         /\ \A x \in X : x.kind = "withdraw" => x.lt < p.lt
      BY <1>2, <2>1
    <3>2. p.deposit = d BY <3>1
    <3> QED BY <2>1, <3>1, <3>2, HeldPaid
  <2>2. CASE e # d
    <3>1. balance'[e] = balance[e] /\ \A x \in X : x.kind = "withdraw" => rows[x.memo].from # e
      BY <1>2, <2>2
    <3> QED BY <3>1, HeldElsewhere
  <2> QED BY <2>1, <2>2
<1>4. MoneyInv'
  <2>1. rows' = rows /\ lastMemo' = lastMemo /\ income' = income BY DEF NewBlock, dbVars
  <2> SUFFICES ASSUME NEW e \in Deposits
               PROVE  income[e] + Coming(e)' = balance'[e] + Brought(e)'
    BY <2>1 DEF MoneyInv
  <2>2. Brought(e)' = Brought(e) BY <2>1, BroughtSame
  <2>3. /\ income[e] + Coming(e) = balance[e] + Brought(e)
        /\ income[e] \in Nat /\ balance[e] \in Nat
    BY DEF IInv, MoneyInv, TypeOK
  <2>4. Coming(e) \in Int /\ Brought(e) \in Int BY SumsTyped DEF IInv
  <2>5. CASE e = d BY <1>2, <2>2, <2>3, <2>4, <2>5
  <2>6. CASE e # d
    <3>1. \A x \in X : Net(x, e) = 0
      <4> SUFFICES ASSUME NEW x \in X PROVE Net(x, e) = 0 OBVIOUS
      <4>1. x \in Incomes \/ x \in Executions BY DEF IsBlock
      <4>2. x.kind \in {"income", "withdraw"} BY <4>1 DEF Incomes, Executions
      <4> QED BY <2>6, <4>2 DEF Net
    <3>2. Coming(e)' = Coming(e)
      <4>1. ASSUME NEW a, X = {a} PROVE Coming(e)' = Coming(e)
        <5>1. Coming(e)' = Coming(e) + Net(a, e) BY <4>1, ComingAdd
        <5>2. Net(a, e) = 0 BY <3>1, <4>1
        <5> QED BY <2>4, <5>1, <5>2
      <4>2. ASSUME NEW a, NEW c, X = Pair(a, c), a # c PROVE Coming(e)' = Coming(e)
        <5>1. Coming(e)' = Coming(e) + Net(a, e) + Net(c, e) BY <4>2, ComingAdd
        <5>2. Net(a, e) = 0 /\ Net(c, e) = 0 BY <3>1, <4>2 DEF Pair
        <5> QED BY <2>4, <5>1, <5>2
      <4> QED BY <4>1, <4>2 DEF Few
    <3>3. balance'[e] = balance[e] BY <1>2, <2>6
    <3> QED BY <2>2, <2>3, <3>2, <3>3
  <2> QED BY <2>5, <2>6
<1> QED BY <1>2, <1>3, <1>4, BlockStep

LEMMA EmptyBlockStep ==
    ASSUME IInv, EmptyBlock(now)
    PROVE  IInv'
<1>1. NewBlock(now, {}) /\ UNCHANGED <<balance, payments>> BY DEF EmptyBlock
<1>2. IsBlock({}) BY FS_EmptySet DEF IsBlock
<1>3. balance' \in [Deposits -> Nat] /\ payments' \in 0..MaxPayments BY <1>1 DEF IInv, TypeOK
<1>4. HeldInv' BY <1>1, HeldElsewhere DEF HeldInv
<1>5. MoneyInv'
  <2>1. rows' = rows /\ lastMemo' = lastMemo /\ income' = income BY <1>1 DEF NewBlock, dbVars
  <2>2. \A d \in Deposits : Coming(d)' = Coming(d) BY <1>1, <1>2, ComingAdd
  <2>3. \A d : Brought(d)' = Brought(d) BY <2>1, BroughtSame
  <2> QED BY <1>1, <2>1, <2>2, <2>3 DEF IInv, MoneyInv
<1> QED BY <1>1, <1>2, <1>3, <1>4, <1>5, BlockStep

\* A payment, an execution, or both in either order.
LEMMA PayOnly ==
    ASSUME IInv, NEW d \in Deposits, NewBlock(now, {Pay(d, 2 * now)}),
           balance' = [balance EXCEPT ![d] = @ + 1], payments' \in 0..MaxPayments
    PROVE  IInv'
<1> DEFINE p == Pay(d, 2 * now)
           X == {p}
           b == balance[d] + 1
<1>1. now \in Nat /\ balance[d] \in Nat BY DEF IInv, TypeOK
<1>2. p \in Incomes /\ p.kind = "income" /\ p.deposit = d /\ p.lt = 2 * now /\ p.at = now
  BY <1>1, PayFacts
<1> HIDE DEF p
<1>3. IsBlock(X)
  <2>1. IsFiniteSet(X) BY FS_Singleton
  <2> QED BY <1>2, <2>1 DEF IsBlock
<1>4. Few(X) BY DEF Few
<1>5. Coming(d)' = Coming(d) + Net(p, d) BY <1>3, ComingAdd DEF p
<1>6. Net(p, d) = 1 BY <1>2 DEF Net
<1>7. Coming(d) \in Int BY SumsTyped DEF IInv
<1>8. b \in Nat /\ Coming(d)' = Coming(d) + (b - balance[d]) BY <1>1, <1>5, <1>6, <1>7
<1>9. \A x \in X : x = p OBVIOUS
<1>10. NewBlock(now, X) /\ balance' = [balance EXCEPT ![d] = b] BY DEF p
<1>11. Concerns(X, d) BY <1>2, <1>9 DEF Concerns
<1>12. PaidLast(X, b) BY <1>2, <1>9 DEF PaidLast
<1> HIDE DEF X, b
<1> QED BY <1>3, <1>4, <1>8, <1>10, <1>11, <1>12, DepositBlock

LEMMA ExecuteOnly ==
    ASSUME IInv, NEW d \in Deposits, NEW m \in Valid(d, now),
           NewBlock(now, {Execution(m, balance[d], 2 * now)}),
           balance' = [balance EXCEPT ![d] = 0], payments' \in 0..MaxPayments
    PROVE  IInv'
<1> DEFINE w == Execution(m, balance[d], 2 * now)
           X == {w}
<1>1. now \in Nat /\ balance[d] \in Nat BY DEF IInv, TypeOK
<1>2. /\ m \in RowMemos /\ m \in Nat /\ rows[m].from = d
      /\ validUntil[m] # Null /\ now <= validUntil[m]
  BY RowFacts DEF IInv, Valid, RowsOf
<1>3. /\ w \in Executions /\ w.kind = "withdraw" /\ w.memo = m /\ w.amount = balance[d]
      /\ w.lt = 2 * now /\ w.at = now
  <2>1. 2 * now \in Nat /\ (2 * now) \div 2 = now BY <1>1
  <2> QED BY <1>1, <1>2, <2>1 DEF w, Execution, Executions
<1> HIDE DEF w
<1>4. IsBlock(X)
  <2>1. IsFiniteSet(X) BY FS_Singleton
  <2> QED BY <1>2, <1>3, <2>1 DEF IsBlock
<1>5. Few(X) BY DEF Few
<1>6. Coming(d)' = Coming(d) + Net(w, d) BY <1>4, ComingAdd DEF w
<1>7. Net(w, d) = 0 - balance[d] BY <1>2, <1>3 DEF Net
<1>8. Coming(d) \in Int BY SumsTyped DEF IInv
<1>9. Coming(d)' = Coming(d) + (0 - balance[d]) BY <1>1, <1>6, <1>7, <1>8
<1>10. NewBlock(now, X) BY DEF w
<1>11. Concerns(X, d) BY <1>2, <1>3 DEF Concerns
<1> DEFINE b == 0
<1>12. b \in Nat /\ PaidLast(X, b) BY DEF PaidLast
<1>13. balance' = [balance EXCEPT ![d] = b] /\ Coming(d)' = Coming(d) + (b - balance[d]) BY <1>9
<1> HIDE DEF X, b
<1> QED BY <1>4, <1>5, <1>10, <1>11, <1>12, <1>13, DepositBlock

\* The payment first (it leaves with the rest), or after the execution.
LEMMA PayAndExecute ==
    ASSUME IInv, NEW d \in Deposits, NEW m \in Valid(d, now), NEW amt \in Nat, NEW b \in Nat,
           NEW l \in {2 * now, 2 * now + 1}, NEW k \in {2 * now, 2 * now + 1},
           NewBlock(now, {Pay(d, l), Execution(m, amt, k)}),
           balance' = [balance EXCEPT ![d] = b], payments' \in 0..MaxPayments,
           1 - amt = b - balance[d], b > 0 => k < l
    PROVE  IInv'
<1> DEFINE p == Pay(d, l)
           w == Execution(m, amt, k)
           X == {p, w}
<1>1. now \in Nat /\ balance[d] \in Nat BY DEF IInv, TypeOK
<1>2. /\ m \in RowMemos /\ m \in Nat /\ rows[m].from = d
      /\ validUntil[m] # Null /\ now <= validUntil[m]
  BY RowFacts DEF IInv, Valid, RowsOf
<1>3. /\ w \in Executions /\ w.kind = "withdraw" /\ w.memo = m /\ w.amount = amt
      /\ w.lt = k /\ w.at = now
  <2>1. k \in Nat /\ k \div 2 = now BY <1>1
  <2> QED BY <1>1, <1>2, <2>1 DEF w, Execution, Executions
<1>4. p \in Incomes /\ p.kind = "income" /\ p.deposit = d /\ p.lt = l /\ p.at = now
  BY <1>1, PayFacts
<1> HIDE DEF p, w
<1>5. IsBlock(X)
  <2>1. IsFiniteSet({p}) BY FS_Singleton
  <2>2. IsFiniteSet({p} \cup {w}) BY <2>1, FS_AddElement
  <2>3. X = {p} \cup {w} OBVIOUS
  <2> QED BY <1>2, <1>3, <1>4, <2>2, <2>3 DEF IsBlock
<1>6. p # w BY <1>3, <1>4
<1>7. Few(X) /\ X = Pair(p, w) BY <1>6 DEF Few, Pair
<1>8. Coming(d)' = Coming(d) + Net(p, d) + Net(w, d)
  <2>1. NewBlock(now, X) BY DEF p, w
  <2> HIDE DEF X
  <2> QED BY <1>5, <1>6, <1>7, <2>1, ComingAdd
<1>9. Net(w, d) = 0 - amt /\ Net(p, d) = 1 BY <1>2, <1>3, <1>4 DEF Net
<1>10. Coming(d) \in Int BY SumsTyped DEF IInv
<1>11. Coming(d)' = Coming(d) + (b - balance[d]) BY <1>1, <1>8, <1>9, <1>10
<1>12. NewBlock(now, X) BY DEF p, w
<1>13. Concerns(X, d) BY <1>2, <1>3, <1>4 DEF Concerns
<1>14. PaidLast(X, b) BY <1>3, <1>4 DEF PaidLast
<1> HIDE DEF X
<1> QED BY <1>5, <1>7, <1>11, <1>12, <1>13, <1>14, DepositBlock

LEMMA PaymentBlockStep ==
    ASSUME IInv, NEW d \in Deposits, PaymentBlock(now, d)
    PROVE  IInv'
<1> USE ConstantsAssumption
<1>1. now \in Nat /\ balance[d] \in Nat /\ payments \in Nat BY DEF IInv, TypeOK
<1>2. payments' \in 0..MaxPayments BY <1>1 DEF PaymentBlock
<1>3. CASE /\ NewBlock(now, {Pay(d, 2 * now)})
           /\ balance' = [balance EXCEPT ![d] = @ + 1]
  BY <1>2, <1>3, PayOnly
<1>4. ASSUME NEW m \in Valid(d, now),
             NewBlock(now, {Pay(d, 2 * now), Execution(m, balance[d] + 1, 2 * now + 1)}),
             balance' = [balance EXCEPT ![d] = 0]
      PROVE  IInv'
  <2>1. balance[d] + 1 \in Nat /\ 1 - (balance[d] + 1) = 0 - balance[d] /\ ~(0 > 0) BY <1>1
  <2> QED BY <1>1, <1>2, <1>4, <2>1, PayAndExecute
<1> QED BY <1>3, <1>4 DEF PaymentBlock

LEMMA WithdrawalBlockStep ==
    ASSUME IInv, NEW d \in Deposits, WithdrawalBlock(now, d)
    PROVE  IInv'
<1> USE ConstantsAssumption
<1>1. /\ now \in Nat /\ balance[d] \in Nat /\ payments \in Nat
      /\ payments \in 0..MaxPayments /\ MaxPayments \in Nat
  BY DEF IInv, TypeOK
<1>2. ASSUME NEW m \in Valid(d, now), NewBlock(now, {Execution(m, balance[d], 2 * now)}),
             balance' = [balance EXCEPT ![d] = 0], UNCHANGED payments
      PROVE  IInv'
  BY <1>1, <1>2, ExecuteOnly
<1>3. ASSUME NEW m \in Valid(d, now), payments < MaxPayments, payments' = payments + 1,
             NewBlock(now, {Execution(m, balance[d], 2 * now), Pay(d, 2 * now + 1)}),
             balance' = [balance EXCEPT ![d] = 1]
      PROVE  IInv'
  <2>1. payments' \in 0..MaxPayments BY <1>1, <1>3
  <2>2. 2 * now < 2 * now + 1 BY <1>1
  <2>3. {Execution(m, balance[d], 2 * now), Pay(d, 2 * now + 1)}
          = {Pay(d, 2 * now + 1), Execution(m, balance[d], 2 * now)}
    OBVIOUS
  <2>4. NewBlock(now, {Pay(d, 2 * now + 1), Execution(m, balance[d], 2 * now)})
    BY <1>3, <2>3
  <2> QED BY <1>1, <1>3, <2>1, <2>2, <2>4, PayAndExecute
<1> QED BY <1>2, <1>3 DEF WithdrawalBlock

-----------------------------------------------------------------------------
(* All steps *)

LEMMA InvStep == IInv /\ [Next]_vars => IInv'
<1> SUFFICES ASSUME IInv, [Next]_vars PROVE IInv' OBVIOUS
<1> USE ConstantsAssumption
<1>0. /\ now \in Nat /\ syncedAt \in Nat /\ epc \in {"waitSync", "expire"}
      /\ ipc \in {"waitSync", "loop", "send"}
      /\ ipc = "loop" => tasks # {} 
      /\ ipc = "waitSync" => tasks = {}
  BY DEF IInv, TypeOK
<1>1. CASE GetTasks BY <1>1, GetTasksStep
<1>2. ASSUME NEW a \in tasks, SkipDeposit(a) PROVE IInv'
  <2>1. /\ UNCHANGED <<dbVars, chainVars, validUntil, now, epc, syncedAt>> /\ tasks' = tasks \ {a}
        /\ ipc' = (IF tasks' = {} THEN "waitSync" ELSE "loop")
    BY <1>2 DEF SkipDeposit
  <2> QED BY <1>0, <2>1, LoopStep
<1>3. ASSUME NEW a \in tasks, SaveInternalWithdrawalTask(a) PROVE IInv' BY <1>3, SaveStep
<1>4. CASE WithdrawTONs BY <1>4, WithdrawTONsStep
<1>5. CASE ExpirationSynced
  <2>1. /\ UNCHANGED <<dbVars, chainVars, validUntil, now, ipc, tasks>>
        /\ epc' = "expire" /\ syncedAt' = now
    BY <1>5 DEF ExpirationSynced
  <2> QED BY <1>0, <2>1, LoopStep
<1>6. CASE SetExpired BY <1>6, SetExpiredStep
<1>7. ASSUME NEW t \in unscanned, ScanBlock(t) PROVE IInv' BY <1>7, ScanStep
<1>8. CASE Restart
  <2>1. /\ UNCHANGED <<dbVars, chainVars, validUntil, now>>
        /\ ipc' = "waitSync" /\ tasks' = {} /\ epc' = "waitSync" /\ syncedAt' = 0
    BY <1>8 DEF Restart, Null
  <2> QED BY <1>0, <2>1, LoopStep
<1>9. CASE EmptyBlock(now) BY <1>9, EmptyBlockStep
<1>10. ASSUME NEW d \in Deposits, PaymentBlock(now, d) PROVE IInv' BY <1>10, PaymentBlockStep
<1>11. ASSUME NEW d \in Deposits, WithdrawalBlock(now, d) PROVE IInv'
  BY <1>11, WithdrawalBlockStep
<1>12. CASE Tick
  <2>1. UNCHANGED <<dbVars, serviceVars, chainVars, validUntil>> /\ now' = now + 1
    BY <1>12 DEF Tick
  <2>2. UNCHANGED <<ipc, tasks, epc, syncedAt>> /\ now' \in Nat BY <1>0, <2>1 DEF serviceVars
  <2> QED BY <1>0, <2>1, <2>2, LoopStep
<1>13. CASE UNCHANGED vars
  <2>1. UNCHANGED <<dbVars, chainVars, validUntil, now, ipc, tasks, epc, syncedAt>>
    BY <1>13 DEF vars, serviceVars
  <2> QED BY <1>0, <2>1, LoopStep
<1> QED BY <1>1, <1>2, <1>3, <1>4, <1>5, <1>6, <1>7, <1>8, <1>9, <1>10, <1>11, <1>12, <1>13
       DEF Next

LEMMA Invariance == Spec => []IInv
<1>1. Init => IInv BY InitInv
<1>2. IInv /\ [Next]_vars => IInv' BY InvStep
<1> QED BY <1>1, <1>2, PTL DEF Spec

\* The last saved block only moves on, so what is void stays void.
LEMMA TimeStep ==
    ASSUME PromptSending
    PROVE  IInv /\ TimeInv /\ [Next]_vars => TimeInv'
<1> SUFFICES ASSUME IInv, TimeInv, [Next]_vars PROVE TimeInv' OBVIOUS
<1> USE ConstantsAssumption
<1>0. /\ now \in Nat /\ syncedAt \in Nat /\ scanTime \in Nat /\ lastMemo \in Nat
      /\ {Lifetime, Lag, SendDelay, ExpireDelay} \subseteq Nat
  BY DEF IInv, TypeOK
<1>1. ASSUME UNCHANGED <<rows, lastMemo, scanTime, validUntil>>,
             epc' = "expire" => syncedAt' < scanTime + Lag
      PROVE  TimeInv'
  BY <1>1 DEF TimeInv, RowMemos
<1>2. CASE GetTasks BY <1>1, <1>2 DEF GetTasks, dbVars, TimeInv
<1>3. ASSUME NEW a \in tasks, SkipDeposit(a) PROVE TimeInv'
  BY <1>1, <1>3 DEF SkipDeposit, dbVars, TimeInv
<1>4. ASSUME NEW a \in tasks, SaveInternalWithdrawalTask(a) PROVE TimeInv'
  <2>0. PICK k : k = lastMemo + 1 OBVIOUS
  <2>1. /\ lastMemo' = k /\ UNCHANGED <<scanTime, epc, syncedAt, validUntil>>
        /\ rows' = [rows EXCEPT ![k] =
                     [from |-> a.from, sinceLt |-> a.lt, expiredAt |-> now + Lifetime,
                      failed |-> FALSE, sendingLt |-> Null, finishLt |-> Null, amount |-> 0]]
        /\ lastMemo < MaxMemos
    BY <1>4, <2>0 DEF SaveInternalWithdrawalTask
  <2>2. k \in Memos /\ k \notin RowMemos /\ RowMemos' = RowMemos \cup {k}
    <3>1. RowMemos = 1..lastMemo /\ RowMemos' = 1..(lastMemo + 1) /\ Memos = 1..MaxMemos
      BY <2>0, <2>1 DEF RowMemos, Memos
    <3> QED BY <1>0, <2>0, <2>1, <3>1
  <2>3. RowMemos \subseteq Memos BY RowFacts DEF IInv
  <2>4. \A m \in RowMemos : rows'[m] = rows[m] BY <2>1, <2>2, <2>3 DEF IInv, RowsInv
  <2>5. rows'[k].expiredAt = now + Lifetime /\ rows'[k].failed = FALSE
    BY <2>1, <2>2 DEF IInv, RowsInv
  <2>6. validUntil[k] = 0 BY <2>2 DEF IInv, TypeOK, Null
  <2>7. 0 <= now + Lifetime + SendDelay BY <1>0
  <2> QED BY <2>1, <2>2, <2>4, <2>5, <2>6, <2>7 DEF TimeInv
<1>5. CASE WithdrawTONs
  <2>1. /\ ipc = "send" /\ now + Lifetime <= rows[lastMemo].expiredAt + SendDelay
        /\ validUntil' \in {validUntil, [validUntil EXCEPT ![lastMemo] = now + Lifetime]}
        /\ UNCHANGED <<rows, lastMemo, scanTime, epc, syncedAt>>
    BY <1>5 DEF WithdrawTONs, dbVars
  <2>2. RowMemos' = RowMemos BY <2>1 DEF RowMemos
  <2>3. RowMemos \subseteq Memos /\ validUntil \in [Memos -> Nat] BY RowFacts DEF IInv, TypeOK
  <2>4. \A m \in RowMemos : validUntil'[m] <= rows[m].expiredAt + SendDelay
    BY <2>1, <2>3 DEF TimeInv
  <2> QED BY <2>1, <2>2, <2>4 DEF TimeInv
<1>6. CASE ExpirationSynced
  BY <1>1, <1>6 DEF ExpirationSynced, Synced, dbVars
<1>7. CASE SetExpired
  <2>1. /\ epc = "expire" /\ epc' = "waitSync" /\ now <= syncedAt + ExpireDelay
        /\ UNCHANGED <<lastMemo, scanTime, validUntil>>
        /\ rows' = [m \in Memos |-> IF m \in Expired THEN [rows[m] EXCEPT !.failed = TRUE]
                                                     ELSE rows[m]]
    BY <1>7 DEF SetExpired
  <2>2. RowMemos' = RowMemos BY <2>1 DEF RowMemos
  <2>3. RowMemos \subseteq Memos /\ \A m \in RowMemos : rows[m] \in Row /\ rows[m].expiredAt \in Nat
    BY RowFacts DEF IInv
  <2>4. syncedAt < scanTime + Lag BY <2>1 DEF TimeInv
  <2>5. \A m \in Expired : m \in RowMemos /\ rows[m].expiredAt + SendDelay <= scanTime
    <3>1. \A m \in Expired : m \in RowMemos /\ rows[m].expiredAt + Lag < now BY DEF Expired
    <3> QED BY <1>0, <2>1, <2>3, <2>4, <3>1 DEF PromptSending
  <2>6. ASSUME NEW m \in RowMemos
        PROVE  /\ rows'[m].expiredAt = rows[m].expiredAt
               /\ rows'[m].failed => rows[m].failed \/ m \in Expired
    <3> HIDE DEF Expired
    <3>1. CASE m \in Expired BY <2>1, <2>3, <3>1 DEF Row
    <3>2. CASE m \notin Expired BY <2>1, <2>3, <3>2
    <3> QED BY <3>1, <3>2
  <2>7. ASSUME NEW m \in RowMemos
        PROVE  /\ validUntil'[m] <= rows'[m].expiredAt + SendDelay
               /\ rows'[m].failed => rows'[m].expiredAt + SendDelay <= scanTime
    <3>1. rows[m].failed => rows[m].expiredAt + SendDelay <= scanTime BY DEF TimeInv
    <3>2. validUntil[m] <= rows[m].expiredAt + SendDelay BY DEF TimeInv
    <3> QED BY <2>1, <2>5, <2>6, <3>1, <3>2
  <2> QED BY <2>1, <2>2, <2>7 DEF TimeInv
<1>8. ASSUME NEW t \in unscanned, ScanBlock(t) PROVE TimeInv'
  <2>1. UNCHANGED <<lastMemo, epc, syncedAt, validUntil>> /\ scanTime' = t
    BY <1>8 DEF ScanBlock, serviceVars
  <2>2. RowMemos' = RowMemos BY <2>1 DEF RowMemos
  <2>3. scanTime < t /\ t \in Nat BY DEF IInv, ChainInv, TypeOK
  <2>4. \A m \in RowMemos : /\ rows'[m].expiredAt = rows[m].expiredAt
                            /\ rows'[m].failed = rows[m].failed
    BY <1>8, ScannedRows
  <2>5. \A m \in RowMemos : rows[m].expiredAt \in Nat BY RowFacts DEF IInv
  <2>6. ASSUME NEW m \in RowMemos
        PROVE  /\ validUntil'[m] <= rows'[m].expiredAt + SendDelay
               /\ rows'[m].failed => rows'[m].expiredAt + SendDelay <= t
    <3>1. rows[m].failed => rows[m].expiredAt + SendDelay <= scanTime BY DEF TimeInv
    <3>2. rows[m].expiredAt + SendDelay <= scanTime => rows[m].expiredAt + SendDelay <= t
      BY <1>0, <2>3, <2>5
    <3>3. validUntil[m] <= rows[m].expiredAt + SendDelay BY DEF TimeInv
    <3> QED BY <2>1, <2>4, <3>1, <3>2, <3>3
  <2>7. epc' = "expire" => syncedAt' < t + Lag BY <1>0, <2>1, <2>3 DEF TimeInv
  <2> QED BY <2>1, <2>2, <2>6, <2>7 DEF TimeInv
<1>9. CASE Restart BY <1>1, <1>9 DEF Restart, dbVars
<1>10. ASSUME NEW X, NewBlock(now, X) PROVE TimeInv'
  BY <1>1, <1>10 DEF NewBlock, dbVars, serviceVars, TimeInv
<1>11. CASE EmptyBlock(now) BY <1>10, <1>11 DEF EmptyBlock
<1>12. ASSUME NEW d \in Deposits, PaymentBlock(now, d) PROVE TimeInv'
  BY <1>10, <1>12 DEF PaymentBlock
<1>13. ASSUME NEW d \in Deposits, WithdrawalBlock(now, d) PROVE TimeInv'
  BY <1>10, <1>13 DEF WithdrawalBlock
<1>14. CASE Tick BY <1>1, <1>14 DEF Tick, dbVars, serviceVars, TimeInv
<1>15. CASE UNCHANGED vars BY <1>1, <1>15 DEF vars, dbVars, serviceVars, TimeInv
<1> QED BY <1>2, <1>3, <1>4, <1>5, <1>6, <1>7, <1>8, <1>9, <1>11, <1>12, <1>13, <1>14, <1>15
       DEF Next

-----------------------------------------------------------------------------
(* Theorems *)

\* The tables, the two goroutines and the chain keep their types: the withdrawal
\* loop holds tasks exactly while it runs, and unused rows were never sent.
THEOREM TypeInvariance == Spec => []TypeOK
<1>1. IInv => TypeOK BY DEF IInv
<1> QED BY <1>1, Invariance, PTL

\* GetTonInternalWithdrawalTasks and the loop over its result never start a
\* second withdrawal of a deposit, whatever crashes, expires or is replayed, and
\* with any timing.
THEOREM OneWithdrawalUnderWay == Spec => []OneLivePerDeposit
<1>1. IInv => OneLivePerDeposit BY DEF IInv
<1> QED BY <1>1, Invariance, PTL

\* A deposit with more than the cutoff is never forgotten by the task query once
\* all blocks are read and nothing of it is under way.
THEOREM NoDepositForgotten == Spec => []NoStrandedDeposit
<1>1. IInv => NoStrandedDeposit
  <2> SUFFICES ASSUME IInv, NEW d \in Deposits, unscanned = {}, balance[d] > Cutoff,
                      \A m \in RowsOf(d) : ~Live(m)
               PROVE  d \in TonInternalTasks
    BY DEF NoStrandedDeposit
  <2>1. txs = {} BY DEF IInv, ChainInv
  <2>2. balance[d] > 0 BY ConstantsAssumption DEF IInv, TypeOK
  <2>3. NothingSince(d, lastIncome[d]) BY <2>1, <2>2 DEF IInv, HeldInv
  <2>4. lastIncome[d] \in Nat /\ lastIncome[d] # Null
        /\ \A m \in RowsOf(d) : rows[m].finishLt < lastIncome[d]
    BY <2>3 DEF NothingSince, IInv, TypeOK
  <2>5. /\ IsFiniteSet(RowsOf(d)) /\ RowsOf(d) \subseteq RowMemos
        /\ \A m \in RowsOf(d) : rows[m].sinceLt \in Nat /\ rows[m].finishLt \in Nat
    BY RowFacts DEF IInv
  <2> DEFINE Kept == {n \in RowsOf(d) : ~rows[n].failed}
             since == {rows[m].sinceLt : m \in Kept}
  <2>6. LatestRows(d) = {m \in RowsOf(d) : since # {} /\ rows[m].sinceLt = Max(since)}
    BY DEF LatestRows
  <2>7. CASE since = {} BY <2>4, <2>6, <2>7 DEF TonInternalTasks
  <2>8. CASE since # {}
    <3>1. IsFiniteSet(Kept) BY <2>5, FS_Subset
    <3>2. since \in SUBSET Int BY <2>5
    <3>3. IsFiniteSet(since)
      <4> DEFINE f == [m \in Kept |-> rows[m].sinceLt]
      <4>1. since = {f[m] : m \in Kept} OBVIOUS
      <4> HIDE DEF f, Kept, since
      <4> QED BY <3>1, <4>1, FiniteImage
    <3>4. Max(since) \in since
      <4> HIDE DEF since, Kept
      <4> QED BY <2>8, <3>2, <3>3, MaxExists
    <3>5. PICK m \in Kept : rows[m].sinceLt = Max(since) BY <3>4
    <3>6. m \in LatestRows(d) BY <2>6, <2>8, <3>5
    <3>7. rows[m].finishLt # Null BY <3>5 DEF Live
    <3>8. lastIncome[d] > rows[m].finishLt BY <2>4, <2>5, <3>5
    <3> HIDE DEF since, Kept
    <3> QED BY <2>4, <3>6, <3>7, <3>8 DEF TonInternalTasks
  <2> QED BY <2>7, <2>8
<1> QED BY <1>1, Invariance, PTL

\* Once all blocks are read, the amounts of the withdrawals of a deposit and
\* what is left on it add up to what was paid, replayed messages included.
THEOREM NothingLost == Spec => []AmountsBalance
<1>1. IInv => AmountsBalance
  <2> SUFFICES ASSUME IInv, unscanned = {}, NEW d \in Deposits
               PROVE  income[d] = balance[d] + Brought(d)
    BY DEF AmountsBalance, Brought
  <2>1. txs = {} BY DEF IInv, ChainInv
  <2>2. DOMAIN [x \in txs |-> Net(x, d)] = {} BY <2>1
  <2>3. Coming(d) = 0 BY <2>2, SumEmpty DEF Coming, SumFunction
  <2>4. income[d] \in Nat /\ income[d] + Coming(d) = balance[d] + Brought(d)
    BY DEF IInv, TypeOK, MoneyInv
  <2> QED BY <2>3, <2>4
<1> QED BY <1>1, Invariance, PTL

\* The scanner never meets an execution of a withdrawal that SetExpired has given
\* up, provided that messages are built and rows expired promptly.
THEOREM ScannerNeverRefuses ==
    ASSUME PromptSending
    PROVE  Spec => []NoBlockRefused
<1>1. Init => IInv /\ TimeInv BY InitInv
<1>2. IInv /\ TimeInv /\ [Next]_vars => IInv' /\ TimeInv' BY InvStep, TimeStep
<1>3. IInv /\ TimeInv => NoBlockRefused
  <2> SUFFICES ASSUME IInv, TimeInv, NEW t \in unscanned, NEW x \in TxsAt(t, "withdraw"),
                      rows[x.memo].failed
               PROVE  FALSE
    BY DEF NoBlockRefused, BlockError
  <2>1. x \in txs /\ x.at = t /\ x.kind = "withdraw" BY DEF TxsAt
  <2>2. x.memo \in RowMemos /\ x.at <= validUntil[x.memo] BY <2>1 DEF IInv, ExecInv
  <2>3. validUntil[x.memo] <= rows[x.memo].expiredAt + SendDelay
        /\ rows[x.memo].expiredAt + SendDelay <= scanTime
    BY <2>2 DEF TimeInv
  <2>4. x.at \in Nat /\ scanTime < x.at BY <2>1, TxFacts DEF IInv
  <2>5. validUntil[x.memo] \in Nat /\ rows[x.memo].expiredAt \in Nat /\ scanTime \in Nat
        /\ SendDelay \in Nat
    BY <2>2, RowFacts, ConstantsAssumption DEF IInv, TypeOK
  <2> QED BY <2>2, <2>3, <2>4, <2>5
<1> QED BY <1>1, <1>2, <1>3, PTL DEF Spec

-----------------------------------------------------------------------------
(* Refinement of InternalWithdrawalLifecycle *)

\* An execution brings something.
PaidInv == \A x \in txs : x.kind = "withdraw" => x.amount > 0

\* What transactions bring together.
Together(X) == SumFunction([x \in X |-> x.amount])

LEMMA TogetherFacts ==
    ASSUME NEW X, IsFiniteSet(X), \A x \in X : x.amount \in Nat
    PROVE  /\ Together(X) \in Nat
           /\ X = {} => Together(X) = 0
           /\ \A e \in X : Together(X) = e.amount + Together(X \ {e})
<1> DEFINE f == [x \in X |-> x.amount]
<1>1. \A x \in X : f[x] \in Nat /\ f[x] \in Int OBVIOUS
<1>2. Together(X) = SumFunctionOnSet(f, X) BY DEF Together, SumFunction
<1>3. Together(X) \in Nat
  <2> HIDE DEF f
  <2> QED BY <1>1, <1>2, SumNat
<1>4. X = {} => Together(X) = 0 BY <1>2, SumEmpty
<1>5. ASSUME NEW e \in X PROVE Together(X) = e.amount + Together(X \ {e})
  <2> DEFINE Y == X \ {e}
             g == [x \in Y |-> x.amount]
  <2>1. Together(Y) = SumFunctionOnSet(g, Y) BY DEF Together, SumFunction
  <2>2. \A x \in Y : f[x] = g[x] OBVIOUS
  <2>3. IsFiniteSet(Y) BY FS_RemoveElement
  <2>4. f[e] = e.amount OBVIOUS
  <2> HIDE DEF f, g
  <2>5. SumFunctionOnSet(f, X) = f[e] + SumFunctionOnSet(f, Y) BY <1>1, SumRemove
  <2>6. SumFunctionOnSet(f, Y) = SumFunctionOnSet(g, Y)
    <3> HIDE DEF Y
    <3> QED BY <2>2, <2>3, SumSame
  <2> QED BY <1>2, <2>1, <2>4, <2>5, <2>6
<1> QED BY <1>3, <1>4, <1>5

\* What of a withdrawal is in blocks to be read.
LEMMA WayFacts ==
    ASSUME IInv, NEW m
    PROVE  /\ WayOf(m) = Together(ExecutionsOf(m)) /\ WayOf(m)' = Together(ExecutionsOf(m)')
           /\ IsFiniteSet(ExecutionsOf(m)) /\ \A x \in ExecutionsOf(m) : x.amount \in Nat
           /\ WayOf(m) \in Nat
           /\ ExecutionsOf(m) = {} => WayOf(m) = 0
           /\ ExecutionsOf(m)' = ExecutionsOf(m) => WayOf(m)' = WayOf(m)
<1>1. WayOf(m) = Together(ExecutionsOf(m)) /\ WayOf(m)' = Together(ExecutionsOf(m)')
  BY DEF WayOf, Together
<1>2. IsFiniteSet(ExecutionsOf(m))
  <2>1. ExecutionsOf(m) \subseteq txs /\ IsFiniteSet(txs) BY DEF ExecutionsOf, IInv, ChainInv
  <2> QED BY <2>1, FS_Subset
<1>3. \A x \in ExecutionsOf(m) : x.amount \in Nat BY TxFacts DEF IInv, ExecutionsOf
<1>4. WayOf(m) \in Nat /\ (ExecutionsOf(m) = {} => WayOf(m) = 0) BY <1>1, <1>2, <1>3, TogetherFacts
<1> QED BY <1>1, <1>2, <1>3, <1>4

\* Nothing that the lifecycle shows changes.
LEMMA SimUnchanged ==
    ASSUME IInv, UNCHANGED <<rows, lastMemo, balance, txs>> PROVE UNCHANGED Lifecycle!vars
<1>1. RowMemos' = RowMemos BY DEF RowMemos
<1>2. \A m : StageOf(m)' = StageOf(m) /\ FromOf(m)' = FromOf(m) /\ BroughtOf(m)' = BroughtOf(m)
  BY <1>1 DEF StageOf, FromOf, BroughtOf
<1>3. \A m : ExecutionsOf(m)' = ExecutionsOf(m) BY DEF ExecutionsOf
<1>4. \A m : WayOf(m)' = WayOf(m) BY <1>3, WayFacts
<1> QED BY <1>2, <1>4 DEF Lifecycle!vars

\* A step books the withdrawals S with got and gives up those of G.
Reports(S, got, G) ==
    /\ got \in [S -> UNION {1..WayOf(m) : m \in S}]
    /\ \A m \in S : StageOf(m) \in {"open", "finished"} /\ got[m] <= WayOf(m)
    /\ \A m \in G : StageOf(m) = "open" /\ WayOf(m) = 0
    /\ \A m \in Memos : /\ FromOf(m)' = FromOf(m)
                        /\ StageOf(m)' = IF m \in G THEN "failed"
                                         ELSE IF m \in S THEN "finished" ELSE StageOf(m)
                        /\ WayOf(m)' = IF m \in S THEN WayOf(m) - got[m] ELSE WayOf(m)
                        /\ BroughtOf(m)' = IF m \in S THEN BroughtOf(m) + got[m] ELSE BroughtOf(m)
    /\ balance' = balance

LEMMA SimReport ==
    ASSUME NEW S \in SUBSET Memos, NEW G \in SUBSET Memos, NEW got, Reports(S, got, G)
    PROVE  Lifecycle!Next
<1> USE DEF Reports
<1>1. Lifecycle!Report(S, got, G) BY DEF Lifecycle!Report
<1>2. got \in [S -> UNION {1..([n \in Memos |-> WayOf(n)])[m] : m \in S}]
  <2>1. \A m \in S : ([n \in Memos |-> WayOf(n)])[m] = WayOf(m) OBVIOUS
  <2>2. UNION {1..([n \in Memos |-> WayOf(n)])[m] : m \in S} = UNION {1..WayOf(m) : m \in S} BY <2>1
  <2> QED BY <2>2
<1> QED BY <1>1, <1>2 DEF Lifecycle!Next

\* SaveInternalWithdrawalTask starts a withdrawal of a deposit that has none under way.
LEMMA SimSave ==
    ASSUME IInv, NEW a \in tasks, SaveInternalWithdrawalTask(a) PROVE Lifecycle!Next
<1> USE DEF IInv
<1>0. PICK k \in Nat : k = lastMemo + 1 BY DEF TypeOK
<1>1. PICK r : r = [from |-> a.from, sinceLt |-> a.lt, expiredAt |-> now + Lifetime, failed |-> FALSE,
                    sendingLt |-> 0, finishLt |-> 0, amount |-> 0]
  OBVIOUS
<1>2. /\ lastMemo < MaxMemos /\ lastMemo' = k /\ rows' = [rows EXCEPT ![k] = r]
      /\ UNCHANGED <<balance, txs>>
  BY <1>0, <1>1 DEF SaveInternalWithdrawalTask, Null, chainVars
<1>3. r.from = a.from /\ r.failed = FALSE /\ r.finishLt = 0 /\ r.amount = 0 BY <1>1
<1>4. a.from \in Deposits BY DEF TypeOK
<1>5. k \in Memos /\ k \notin RowMemos /\ RowMemos' = RowMemos \cup {k}
  <2>1. lastMemo \in 0..MaxMemos /\ MaxMemos \in Nat BY ConstantsAssumption DEF TypeOK
  <2> QED BY <1>0, <1>2, <2>1 DEF Memos, RowMemos
<1>6. rows'[k] = r /\ \A m \in Memos : m # k => rows'[m] = rows[m]
  <2>1. rows = [m \in Memos |-> rows[m]] BY DEF RowsInv
  <2> QED BY <1>2, <1>5, <2>1
<1>7. StageOf(k) = "none" /\ StageOf(k)' = "open" /\ FromOf(k)' = a.from
  BY <1>3, <1>5, <1>6 DEF StageOf, FromOf, Null
<1>8. ASSUME NEW m \in Memos, m # k
      PROVE  StageOf(m)' = StageOf(m) /\ FromOf(m)' = FromOf(m) /\ BroughtOf(m)' = BroughtOf(m)
  BY <1>5, <1>6, <1>8 DEF StageOf, FromOf, BroughtOf
<1>9. BroughtOf(k)' = BroughtOf(k) BY <1>3, <1>5, <1>6 DEF BroughtOf
<1>10. ASSUME NEW m \in Memos PROVE WayOf(m)' = WayOf(m)
  <2>1. ExecutionsOf(m)' = ExecutionsOf(m) BY <1>2 DEF ExecutionsOf
  <2> QED BY <2>1, WayFacts
<1>11. \A n \in Memos : FromOf(n) = a.from => StageOf(n) # "open"
  <2> SUFFICES ASSUME NEW n \in RowMemos, rows[n].from = a.from, StageOf(n) = "open" PROVE FALSE
    BY DEF StageOf, FromOf
  <2>1. n \in RowsOf(a.from) BY DEF RowsOf
  <2>2. ~Live(n) BY <2>1 DEF TaskInv
  <2> QED BY <2>2 DEF Live, StageOf
<1>12. [m \in Memos |-> StageOf(m)'] = [[m \in Memos |-> StageOf(m)] EXCEPT ![k] = "open"]
  BY <1>5, <1>7, <1>8
<1>13. [m \in Memos |-> FromOf(m)'] = [[m \in Memos |-> FromOf(m)] EXCEPT ![k] = a.from]
  BY <1>5, <1>7, <1>8
<1>14. [m \in Memos |-> BroughtOf(m)'] = [m \in Memos |-> BroughtOf(m)] BY <1>8, <1>9
<1>15. Lifecycle!Start(k, a.from)
  BY <1>2, <1>5, <1>7, <1>10, <1>11, <1>12, <1>13, <1>14 DEF Lifecycle!Start
<1> QED BY <1>4, <1>5, <1>15 DEF Lifecycle!Next

\* A withdrawal that is given up has no execution in a block to be read: the last
\* saved block lies beyond the life of its message.
LEMMA FailedHasNoWay ==
    ASSUME IInv, TimeInv, NEW m \in RowMemos, rows[m].failed
    PROVE  ExecutionsOf(m) = {} /\ ~(validUntil[m] # Null /\ now > chainTime /\ now <= validUntil[m])
<1> USE DEF IInv
<1>1. /\ validUntil[m] <= rows[m].expiredAt + SendDelay
      /\ rows[m].expiredAt + SendDelay <= scanTime
  BY DEF TimeInv
<1>2. PICK v \in Nat, s \in Nat, c \in Nat, n \in Nat, e \in Nat :
         /\ v = validUntil[m] /\ s = scanTime /\ c = chainTime /\ n = now
         /\ e = rows[m].expiredAt + SendDelay
  <2>1. /\ validUntil[m] \in Nat /\ scanTime \in Nat /\ chainTime \in Nat /\ now \in Nat
    BY RowFacts DEF TypeOK
  <2>2. rows[m].expiredAt + SendDelay \in Nat
    <3>1. rows[m].expiredAt \in Nat /\ SendDelay \in Nat BY RowFacts, ConstantsAssumption
    <3> QED BY <3>1
  <2> QED BY <2>1, <2>2
<1>3. v <= s BY <1>1, <1>2
<1>4. s <= c BY <1>2 DEF ChainInv
<1>5. ExecutionsOf(m) = {}
  <2> SUFFICES ASSUME NEW x \in ExecutionsOf(m) PROVE FALSE OBVIOUS
  <2>1. x \in txs /\ x.kind = "withdraw" /\ x.memo = m BY DEF ExecutionsOf
  <2>2. x.at \in Nat /\ s < x.at BY <1>2, <2>1, TxFacts
  <2>3. x.at <= v BY <1>2, <2>1 DEF ExecInv
  <2> QED BY <1>3, <2>2, <2>3
<1>6. ~(n > c /\ n <= v) BY <1>3, <1>4
<1> QED BY <1>2, <1>5, <1>6

LEMMA FailedNext == (IInv /\ TimeInv)' => (\A m \in RowMemos : rows[m].failed => ExecutionsOf(m) = {})'
<1>1. IInv /\ TimeInv => \A m \in RowMemos : rows[m].failed => ExecutionsOf(m) = {} BY FailedHasNoWay
<1> QED BY <1>1, PTL

\* SetExpired gives up withdrawals of which nothing is on its way.
LEMMA SimExpired ==
    ASSUME IInv, IInv', TimeInv', SetExpired PROVE Lifecycle!Next
<1> USE DEF IInv
<1>1. /\ rows' = [m \in Memos |-> IF m \in Expired THEN [rows[m] EXCEPT !.failed = TRUE] ELSE rows[m]]
      /\ UNCHANGED <<lastMemo, balance, txs>>
  BY DEF SetExpired, chainVars
<1>2. PICK G \in SUBSET Memos : G = Expired BY RowFacts DEF Expired
<1>3. RowMemos' = RowMemos BY <1>1 DEF RowMemos
<1>e. \A m : ExecutionsOf(m)' = ExecutionsOf(m) BY <1>1 DEF ExecutionsOf
<1>4. ASSUME NEW m \in Memos
      PROVE  /\ WayOf(m)' = WayOf(m) /\ FromOf(m)' = FromOf(m) /\ BroughtOf(m)' = BroughtOf(m)
             /\ StageOf(m)' = IF m \in G THEN "failed" ELSE StageOf(m)
  <2>2. WayOf(m)' = WayOf(m) BY <1>e, WayFacts
  <2>3. CASE m \in G
    <3>1. m \in RowMemos /\ rows'[m] = [rows[m] EXCEPT !.failed = TRUE] /\ rows[m] \in Row
      BY <1>1, <1>2, <2>3, RowFacts DEF Expired
    <3>2. rows'[m].failed /\ rows'[m].from = rows[m].from /\ rows'[m].amount = rows[m].amount
      BY <3>1 DEF Row
    <3> QED BY <1>3, <2>2, <2>3, <3>1, <3>2 DEF StageOf, FromOf, BroughtOf
  <2>4. CASE m \notin G
    <3>1. rows'[m] = rows[m] BY <1>1, <1>2, <2>4
    <3> QED BY <1>3, <2>2, <2>4, <3>1 DEF StageOf, FromOf, BroughtOf
  <2> QED BY <2>3, <2>4
<1>f. (\A m \in RowMemos : rows[m].failed => ExecutionsOf(m) = {})'
  <2> HIDE DEF IInv
  <2> QED BY FailedNext
<1>5. ASSUME NEW m \in G PROVE StageOf(m) = "open" /\ WayOf(m) = 0
  <2>1. m \in RowMemos /\ ~rows[m].failed /\ rows[m].sendingLt = Null BY <1>2 DEF Expired
  <2>2. rows[m].finishLt = Null BY <2>1 DEF TableInv
  <2>3. rows'[m].failed
    <3>1. rows'[m] = [rows[m] EXCEPT !.failed = TRUE] /\ rows[m] \in Row BY <1>1, <1>2, <2>1, RowFacts
    <3> QED BY <3>1 DEF Row
  <2>4. ExecutionsOf(m) = {} BY <1>3, <1>e, <1>f, <2>1, <2>3
  <2> QED BY <2>1, <2>2, <2>4, WayFacts DEF StageOf
<1>6. PICK S \in SUBSET Memos : S = {} OBVIOUS
<1>7. PICK got : got \in [S -> UNION {1..WayOf(m) : m \in S}]
  <2>1. [m \in S |-> 0] \in [S -> UNION {1..WayOf(m) : m \in S}] BY <1>6
  <2> QED BY <2>1
<1>8. balance' = balance BY <1>1
<1>9. \A m : m \notin S BY <1>6
<1>10. \A m \in Memos :
          /\ FromOf(m)' = FromOf(m)
          /\ StageOf(m)' = IF m \in G THEN "failed" ELSE IF m \in S THEN "finished" ELSE StageOf(m)
          /\ WayOf(m)' = IF m \in S THEN WayOf(m) - got[m] ELSE WayOf(m)
          /\ BroughtOf(m)' = IF m \in S THEN BroughtOf(m) + got[m] ELSE BroughtOf(m)
  BY <1>4, <1>9
<1>11. \A m \in S : StageOf(m) \in {"open", "finished"} /\ got[m] <= WayOf(m) BY <1>9
<1>12. Reports(S, got, G) BY <1>5, <1>7, <1>8, <1>10, <1>11 DEF Reports
<1> HIDE DEF IInv
<1> QED BY <1>12, SimReport

\* A scan books the execution of the block, if there is one.
LEMMA SimScan ==
    ASSUME IInv, PaidInv, NEW t \in unscanned, ScanBlock(t)
    PROVE  Lifecycle!Next
<1> USE DEF IInv
<1>1. /\ UNCHANGED <<lastMemo, balance>> /\ txs' = {x \in txs : x.at # t} BY DEF ScanBlock
<1>2. RowMemos' = RowMemos /\ RowMemos \subseteq Memos BY <1>1, RowFacts DEF RowMemos
<1>3. PICK G \in SUBSET Memos : G = {} OBVIOUS
<1> DEFINE Here(m) == {x \in txs : x.at = t /\ x.kind = "withdraw" /\ x.memo = m}
<1>4. PICK S \in SUBSET Memos : S = {m \in RowMemos : Here(m) # {}} BY <1>2
<1>5. PICK got : got = [m \in S |-> (CHOOSE x \in Here(m) : TRUE).amount] OBVIOUS
<1>6. ASSUME NEW m \in S
      PROVE  /\ m \in RowMemos /\ StageOf(m) \in {"open", "finished"} /\ StageOf(m)' = "finished"
             /\ got[m] \in 1..WayOf(m) /\ got[m] <= WayOf(m) /\ WayOf(m)' = WayOf(m) - got[m]
             /\ BroughtOf(m)' = BroughtOf(m) + got[m]
  <2>1. m \in RowMemos /\ Here(m) # {} BY <1>4
  <2>2. PICK w \in txs : /\ w.at = t /\ w.kind = "withdraw" /\ w.memo = m /\ ~rows[m].failed
                         /\ rows'[m] = Confirmed(rows[m], w)
    BY <2>1, RowScanned
  <2>3. Here(m) = {w} BY <2>2 DEF ChainInv
  <2>4. got[m] = w.amount BY <1>5, <2>3
  <2>5. w.lt \in Nat /\ w.lt > 0 /\ w.amount \in Nat /\ w.amount > 0
    <3>1. w.lt \in Nat /\ w.lt > 2 * scanTime + 1 /\ w.amount \in Nat BY <2>2, TxFacts
    <3>2. scanTime \in Nat BY DEF TypeOK
    <3>3. w.lt > 0 BY <3>1, <3>2
    <3> QED BY <2>2, <3>1, <3>3 DEF PaidInv
  <2>6. rows[m] \in Row /\ rows[m].amount \in Nat BY <2>1, RowFacts
  <2>7. /\ rows'[m].failed = rows[m].failed /\ rows'[m].finishLt = w.lt
        /\ rows'[m].amount = rows[m].amount + w.amount
    BY <2>2, <2>5, <2>6, ConfirmedFacts
  <2>8. StageOf(m) \in {"open", "finished"} /\ StageOf(m)' = "finished"
    BY <1>2, <2>1, <2>2, <2>5, <2>7 DEF StageOf, Null
  <2>9. BroughtOf(m)' = BroughtOf(m) + got[m] BY <1>2, <2>1, <2>4, <2>7 DEF BroughtOf
  <2>10. w \in ExecutionsOf(m) /\ ExecutionsOf(m)' = ExecutionsOf(m) \ {w}
    BY <1>1, <2>2, <2>3 DEF ExecutionsOf
  <2>11. WayOf(m) = w.amount + WayOf(m)' /\ WayOf(m)' \in Nat
    <3>1. PICK X : X = ExecutionsOf(m) OBVIOUS
    <3>2. /\ IsFiniteSet(X) /\ (\A x \in X : x.amount \in Nat) /\ w \in X
          /\ WayOf(m) = Together(X) /\ WayOf(m)' = Together(X \ {w})
      BY <2>10, <3>1, WayFacts
    <3>3. Together(X) = w.amount + Together(X \ {w}) BY <3>2, TogetherFacts
    <3>4. Together(X \ {w}) \in Nat
      <4>1. IsFiniteSet(X \ {w}) /\ \A x \in X \ {w} : x.amount \in Nat BY <3>2, FS_RemoveElement
      <4> QED BY <4>1, TogetherFacts
    <3> QED BY <3>2, <3>3, <3>4
  <2>12. PICK a \in Nat, l \in Nat : a = w.amount /\ l = WayOf(m)' /\ WayOf(m) = a + l /\ a > 0
    BY <2>5, <2>11
  <2>13. a \in 1..(a + l) /\ a <= a + l /\ l = a + l - a BY <2>12
  <2>14. got[m] \in 1..WayOf(m) /\ got[m] <= WayOf(m) /\ WayOf(m)' = WayOf(m) - got[m]
    BY <2>4, <2>12, <2>13
  <2> QED BY <2>1, <2>8, <2>9, <2>14
<1>7. ASSUME NEW m \in Memos, m \notin S
      PROVE  StageOf(m)' = StageOf(m) /\ WayOf(m)' = WayOf(m) /\ BroughtOf(m)' = BroughtOf(m)
  <2>1. Here(m) = {} BY <1>4, <1>7 DEF ExecInv
  <2>2. ExecutionsOf(m)' = ExecutionsOf(m) BY <1>1, <2>1 DEF ExecutionsOf
  <2>3. WayOf(m)' = WayOf(m) BY <2>2, WayFacts
  <2>4. m \in RowMemos => rows'[m] = rows[m] BY <2>1, RowScanned
  <2> QED BY <1>2, <2>3, <2>4 DEF StageOf, BroughtOf
<1>8. \A m \in Memos : FromOf(m)' = FromOf(m) BY <1>2, ScannedRows DEF FromOf
<1>9. got \in [S -> UNION {1..WayOf(m) : m \in S}]
  <2>1. \A m \in S : got[m] \in UNION {1..WayOf(n) : n \in S} BY <1>6
  <2> QED BY <1>5, <2>1
<1>10. \A m \in Memos :
          /\ FromOf(m)' = FromOf(m)
          /\ StageOf(m)' = IF m \in G THEN "failed" ELSE IF m \in S THEN "finished" ELSE StageOf(m)
          /\ WayOf(m)' = IF m \in S THEN WayOf(m) - got[m] ELSE WayOf(m)
          /\ BroughtOf(m)' = IF m \in S THEN BroughtOf(m) + got[m] ELSE BroughtOf(m)
  BY <1>3, <1>6, <1>7, <1>8
<1>11. \A m \in S : StageOf(m) \in {"open", "finished"} /\ got[m] <= WayOf(m) BY <1>6
<1>12. \A m \in G : StageOf(m) = "open" /\ WayOf(m) = 0 BY <1>3
<1>13. balance' = balance BY <1>1
<1>14. Reports(S, got, G) BY <1>9, <1>10, <1>11, <1>12, <1>13 DEF Reports
<1> HIDE DEF IInv
<1> QED BY <1>14, SimReport

\* Every execution takes something.
LEMMA PaidStep ==
    ASSUME IInv, PaidInv, [Next]_vars PROVE PaidInv'
<1>1. ASSUME txs' \subseteq txs PROVE PaidInv' BY <1>1 DEF PaidInv
<1>2. ASSUME NEW X, NewBlock(now, X), \A x \in X : x.kind = "withdraw" => x.amount > 0 PROVE PaidInv'
  BY <1>2 DEF NewBlock, PaidInv
<1>3. \A d, l : Pay(d, l).kind = "income" BY DEF Pay
<1>4. \A m, a, l : Execution(m, a, l).amount = a BY DEF Execution
<1>5. CASE EmptyBlock(now) BY <1>2, <1>5 DEF EmptyBlock
<1>6. ASSUME NEW d \in Deposits, PaymentBlock(now, d) PROVE PaidInv'
  <2>1. balance[d] + 1 > 0 BY DEF IInv, TypeOK
  <2>2. CASE NewBlock(now, {Pay(d, 2 * now)}) BY <1>2, <1>3, <2>2
  <2>3. ASSUME NEW m, NewBlock(now, {Pay(d, 2 * now), Execution(m, balance[d] + 1, 2 * now + 1)})
        PROVE  PaidInv'
    BY <1>2, <1>3, <1>4, <2>1, <2>3
  <2> QED BY <1>6, <2>2, <2>3 DEF PaymentBlock
<1>7. ASSUME NEW d \in Deposits, WithdrawalBlock(now, d) PROVE PaidInv'
  <2>1. balance[d] > 0 BY <1>7 DEF WithdrawalBlock
  <2>2. ASSUME NEW m, NewBlock(now, {Execution(m, balance[d], 2 * now)}) PROVE PaidInv'
    BY <1>2, <1>4, <2>1, <2>2
  <2>3. ASSUME NEW m, NewBlock(now, {Execution(m, balance[d], 2 * now), Pay(d, 2 * now + 1)})
        PROVE  PaidInv'
    BY <1>2, <1>3, <1>4, <2>1, <2>3
  <2> QED BY <1>7, <2>2, <2>3 DEF WithdrawalBlock
<1>8. ASSUME NEW t, ScanBlock(t) PROVE PaidInv' BY <1>1, <1>8 DEF ScanBlock
<1>9. CASE \/ GetTasks \/ WithdrawTONs \/ ExpirationSynced \/ SetExpired \/ Restart \/ Tick \/ UNCHANGED vars
           \/ \E a \in tasks : SkipDeposit(a) \/ SaveInternalWithdrawalTask(a)
  <2>1. txs' = txs
    BY <1>9 DEF GetTasks, WithdrawTONs, ExpirationSynced, SetExpired, Restart, Tick, vars, chainVars,
       SkipDeposit, SaveInternalWithdrawalTask
  <2> QED BY <1>1, <2>1
<1> QED BY <1>5, <1>6, <1>7, <1>8, <1>9 DEF Next

\* A block leaves the table as it is.
LEMMA BlockTable ==
    ASSUME NEW X, NewBlock(now, X)
    PROVE  \A m : StageOf(m)' = StageOf(m) /\ FromOf(m)' = FromOf(m) /\ BroughtOf(m)' = BroughtOf(m)
<1>1. UNCHANGED <<rows, lastMemo>> BY DEF NewBlock, dbVars
<1>2. RowMemos' = RowMemos BY <1>1 DEF RowMemos
<1> QED BY <1>1, <1>2 DEF StageOf, FromOf, BroughtOf

\* What of a withdrawal is on its way after a block: one execution more, or the same.
LEMMA BlockWay ==
    ASSUME IInv, NEW X, NewBlock(now, X), NEW m
    PROVE  /\ (\A x \in X : ~(x.kind = "withdraw" /\ x.memo = m)) => WayOf(m)' = WayOf(m)
           /\ \A e \in X :
                 /\ e.kind = "withdraw" /\ e.memo = m /\ e.at = now /\ e.amount \in Nat
                 /\ \A x \in X : x.kind = "withdraw" => x = e
                 => WayOf(m)' = WayOf(m) + e.amount
<1>1. txs' = txs \cup X /\ now > chainTime BY DEF NewBlock
<1>2. ASSUME \A x \in X : ~(x.kind = "withdraw" /\ x.memo = m) PROVE WayOf(m)' = WayOf(m)
  <2>1. ExecutionsOf(m)' = ExecutionsOf(m) BY <1>1, <1>2 DEF ExecutionsOf
  <2> QED BY <2>1, WayFacts
<1>3. ASSUME NEW e \in X, e.kind = "withdraw", e.memo = m, e.at = now, e.amount \in Nat,
             \A x \in X : x.kind = "withdraw" => x = e
      PROVE  WayOf(m)' = WayOf(m) + e.amount
  <2>1. PICK E : E = ExecutionsOf(m) OBVIOUS
  <2>2. PICK F : F = ExecutionsOf(m)' OBVIOUS
  <2>3. /\ WayOf(m) = Together(E) /\ WayOf(m)' = Together(F) /\ IsFiniteSet(E)
        /\ \A x \in E : x.amount \in Nat
    BY <2>1, <2>2, WayFacts
  <2>4. F = E \cup {e} BY <1>1, <1>3, <2>1, <2>2 DEF ExecutionsOf
  <2>5. e \notin E
    <3>1. \A x \in txs : x.at \in Nat /\ x.at <= chainTime BY TxFacts DEF IInv
    <3>2. chainTime \in Nat /\ now \in Nat BY DEF IInv, TypeOK
    <3>3. e \notin txs BY <1>1, <1>3, <3>1, <3>2
    <3> QED BY <2>1, <3>3 DEF ExecutionsOf
  <2>6. IsFiniteSet(F) /\ \A x \in F : x.amount \in Nat BY <1>3, <2>3, <2>4, FS_AddElement
  <2>7. e \in F /\ F \ {e} = E BY <2>4, <2>5
  <2>8. Together(F) = e.amount + Together(E) BY <2>6, <2>7, TogetherFacts
  <2>9. Together(E) \in Nat BY <2>3, TogetherFacts
  <2>10. PICK a \in Nat, l \in Nat : a = e.amount /\ l = Together(E) BY <1>3, <2>9
  <2> QED BY <2>3, <2>8, <2>10
<1> QED BY <1>2, <1>3

\* The one execution of block X is e, of withdrawal m, and brings a.
Executes(X, e, m, a) ==
    /\ e \in X /\ e.kind = "withdraw" /\ e.memo = m /\ e.at = now /\ e.amount = a
    /\ \A x \in X : x.kind = "withdraw" => x = e

\* A block that executes a message of m takes from its deposit: the message is
\* valid, so the withdrawal is not given up.
LEMMA SimTake ==
    ASSUME IInv, TimeInv, NEW X, NewBlock(now, X), NEW d \in Deposits, NEW m \in Valid(d, now),
           NEW p \in {0, 1}, NEW a, NEW b, a \in 1..(balance[d] + p), b = balance[d] + p - a,
           NEW e, Executes(X, e, m, a), balance' = [balance EXCEPT ![d] = b]
    PROVE  Lifecycle!Next
<1>1. m \in RowMemos /\ m \in Memos /\ rows[m].from = d /\ validUntil[m] # Null /\ now <= validUntil[m]
  BY RowFacts DEF IInv, Valid, RowsOf
<1>2. now > chainTime BY DEF NewBlock
<1>3. ~rows[m].failed BY <1>1, <1>2, FailedHasNoWay
<1>4. StageOf(m) \in {"open", "finished"} /\ FromOf(m) = d BY <1>1, <1>3 DEF StageOf, FromOf
<1>5. a \in Nat
  <2>1. balance[d] \in Nat BY DEF IInv, TypeOK
  <2> QED BY <2>1
<1>6. WayOf(m)' = WayOf(m) + a BY <1>5, BlockWay DEF Executes
<1>7. \A n \in Memos : n # m => WayOf(n)' = WayOf(n) BY BlockWay DEF Executes
<1>8. [n \in Memos |-> WayOf(n)'] = [[n \in Memos |-> WayOf(n)] EXCEPT ![m] = @ + a]
  BY <1>1, <1>6, <1>7
<1>9. /\ [n \in Memos |-> StageOf(n)'] = [n \in Memos |-> StageOf(n)]
      /\ [n \in Memos |-> FromOf(n)'] = [n \in Memos |-> FromOf(n)]
      /\ [n \in Memos |-> BroughtOf(n)'] = [n \in Memos |-> BroughtOf(n)]
  BY BlockTable
<1>10. Lifecycle!MayTake(m) BY <1>1, <1>4 DEF Lifecycle!MayTake
<1>11. balance' = [balance EXCEPT ![d] = @ + p - a] OBVIOUS
<1>12. Lifecycle!Take(m, d, p, a) BY <1>1, <1>4, <1>8, <1>9, <1>10, <1>11 DEF Lifecycle!Take
<1> QED BY <1>1, <1>12 DEF Lifecycle!Next

\* A payer pays, and a message that is still valid may take the payment along.
LEMMA SimPaymentBlock ==
    ASSUME IInv, TimeInv, NEW d \in Deposits, PaymentBlock(now, d) PROVE Lifecycle!Next
<1>1. balance[d] \in Nat /\ now \in Nat /\ balance \in [Deposits -> Nat] BY DEF IInv, TypeOK
<1>2. ASSUME NewBlock(now, {Pay(d, 2 * now)}), balance' = [balance EXCEPT ![d] = @ + 1]
      PROVE  Lifecycle!Next
  <2>1. \A m : WayOf(m)' = WayOf(m)
    <3>1. Pay(d, 2 * now).kind = "income" BY DEF Pay
    <3> QED BY <1>2, <3>1, BlockWay
  <2>2. Lifecycle!Pay(d) BY <1>2, <2>1, BlockTable DEF Lifecycle!Pay
  <2> QED BY <2>2 DEF Lifecycle!Next
<1>3. ASSUME NEW m \in Valid(d, now),
             NewBlock(now, {Pay(d, 2 * now), Execution(m, balance[d] + 1, 2 * now + 1)}),
             balance' = [balance EXCEPT ![d] = 0]
      PROVE  Lifecycle!Next
  <2>1. PICK a \in Nat : a = balance[d] + 1 BY <1>1
  <2>2. PICK e : e = Execution(m, a, 2 * now + 1) OBVIOUS
  <2>3. PICK p \in {0, 1} : p = 1 OBVIOUS
  <2>4. PICK X : X = {Pay(d, 2 * now), e} OBVIOUS
  <2>5. e.kind = "withdraw" /\ e.memo = m /\ e.at = now /\ e.amount = a
    <3>1. (2 * now + 1) \div 2 = now BY <1>1
    <3> QED BY <2>2, <3>1 DEF Execution
  <2>6. NewBlock(now, X) BY <1>3, <2>1, <2>2, <2>4
  <2>7. e \in X /\ \A x \in X : x.kind = "withdraw" => x = e
    <3>1. Pay(d, 2 * now).kind = "income" BY DEF Pay
    <3> QED BY <2>4, <3>1
  <2>8. a \in 1..(balance[d] + p) /\ 0 = balance[d] + p - a BY <1>1, <2>1, <2>3
  <2>9. Executes(X, e, m, a) BY <2>5, <2>7 DEF Executes
  <2> QED BY <1>3, <2>6, <2>8, <2>9, SimTake
<1> QED BY <1>2, <1>3 DEF PaymentBlock

\* A valid message takes what the deposit has, and a payer may pay afterwards.
LEMMA SimWithdrawalBlock ==
    ASSUME IInv, TimeInv, NEW d \in Deposits, WithdrawalBlock(now, d) PROVE Lifecycle!Next
<1>1. balance[d] \in Nat /\ now \in Nat /\ balance \in [Deposits -> Nat] BY DEF IInv, TypeOK
<1>2. PICK m \in Valid(d, now) :
         /\ balance[d] > 0
         /\ \/ /\ NewBlock(now, {Execution(m, balance[d], 2 * now)})
               /\ balance' = [balance EXCEPT ![d] = 0]
            \/ /\ NewBlock(now, {Execution(m, balance[d], 2 * now), Pay(d, 2 * now + 1)})
               /\ balance' = [balance EXCEPT ![d] = 1]
  BY DEF WithdrawalBlock
<1>3. PICK a \in Nat : a = balance[d] BY <1>1
<1>4. PICK e : e = Execution(m, a, 2 * now) OBVIOUS
<1>5. e.kind = "withdraw" /\ e.memo = m /\ e.at = now /\ e.amount = a
  <2>1. (2 * now) \div 2 = now BY <1>1
  <2> QED BY <1>4, <2>1 DEF Execution
<1>6. Pay(d, 2 * now + 1).kind = "income" BY DEF Pay
<1>7. CASE /\ NewBlock(now, {Execution(m, balance[d], 2 * now)})
           /\ balance' = [balance EXCEPT ![d] = 0]
  <2>1. PICK p \in {0, 1} : p = 0 OBVIOUS
  <2>2. PICK X : X = {e} OBVIOUS
  <2>3. NewBlock(now, X) /\ e \in X /\ \A x \in X : x.kind = "withdraw" => x = e
    BY <1>3, <1>4, <1>7, <2>2
  <2>4. a \in 1..(balance[d] + p) /\ 0 = balance[d] + p - a BY <1>1, <1>2, <1>3, <2>1
  <2>5. Executes(X, e, m, a) BY <1>5, <2>3 DEF Executes
  <2> QED BY <1>7, <2>3, <2>4, <2>5, SimTake
<1>8. CASE /\ NewBlock(now, {Execution(m, balance[d], 2 * now), Pay(d, 2 * now + 1)})
           /\ balance' = [balance EXCEPT ![d] = 1]
  <2>1. PICK p \in {0, 1} : p = 1 OBVIOUS
  <2>2. PICK X : X = {e, Pay(d, 2 * now + 1)} OBVIOUS
  <2>3. NewBlock(now, X) /\ e \in X /\ \A x \in X : x.kind = "withdraw" => x = e
    BY <1>3, <1>4, <1>6, <1>8, <2>2
  <2>4. a \in 1..(balance[d] + p) /\ 1 = balance[d] + p - a BY <1>1, <1>2, <1>3, <2>1
  <2>5. Executes(X, e, m, a) BY <1>5, <2>3 DEF Executes
  <2> QED BY <1>8, <2>3, <2>4, <2>5, SimTake
<1> QED BY <1>2, <1>7, <1>8

\* Every step is a step of the lifecycle or changes nothing that it shows.
LEMMA SimStep ==
    ASSUME IInv, TimeInv, PaidInv, IInv', TimeInv', [Next]_vars
    PROVE  [Lifecycle!Next]_(Lifecycle!vars)
<1>1. CASE \/ GetTasks \/ WithdrawTONs \/ ExpirationSynced \/ Restart \/ Tick \/ UNCHANGED vars
           \/ \E a \in tasks : SkipDeposit(a)
  <2>1. UNCHANGED <<rows, lastMemo, balance, txs>>
    BY <1>1 DEF GetTasks, WithdrawTONs, ExpirationSynced, Restart, Tick, vars, dbVars, chainVars, SkipDeposit
  <2> QED BY <2>1, SimUnchanged
<1>2. ASSUME NEW a \in tasks, SaveInternalWithdrawalTask(a) PROVE Lifecycle!Next BY <1>2, SimSave
<1>3. CASE SetExpired BY <1>3, SimExpired
<1>4. ASSUME NEW t \in unscanned, ScanBlock(t) PROVE Lifecycle!Next BY <1>4, SimScan
<1>5. CASE EmptyBlock(now)
  <2>1. UNCHANGED <<rows, lastMemo, balance>> /\ txs' = txs \cup {}
    BY <1>5 DEF EmptyBlock, NewBlock, dbVars
  <2>2. txs' = txs BY <2>1
  <2> QED BY <2>1, <2>2, SimUnchanged
<1>6. ASSUME NEW d \in Deposits, PaymentBlock(now, d) PROVE Lifecycle!Next BY <1>6, SimPaymentBlock
<1>7. ASSUME NEW d \in Deposits, WithdrawalBlock(now, d) PROVE Lifecycle!Next
  BY <1>7, SimWithdrawalBlock
<1> QED BY <1>1, <1>2, <1>3, <1>4, <1>5, <1>6, <1>7 DEF Next

\* Internal withdrawals of TON implement InternalWithdrawalLifecycle, with any
\* number of deposits, withdrawals and payments, and whatever is lost, replayed or
\* interrupted: withdrawTONsFromDeposit starts a withdrawal only for a deposit with
\* none under way, SetExpired gives up only what took nothing that is not booked
\* and can take nothing any more, and SaveParsedBlockData books all that left.
THEOREM Refinement ==
    ASSUME PromptSending
    PROVE  Spec => ImplementsLifecycle
<1> DEFINE LInv == IInv /\ TimeInv /\ PaidInv
<1>1. Init => LInv /\ Lifecycle!Init
  <2> SUFFICES ASSUME Init PROVE LInv /\ Lifecycle!Init OBVIOUS
  <2>1. IInv /\ TimeInv BY InitInv
  <2>2. txs = {} /\ balance = [d \in Deposits |-> 0] /\ lastMemo = 0 BY DEF Init
  <2>3. RowMemos = {} BY <2>2 DEF RowMemos
  <2>4. PaidInv BY <2>2 DEF PaidInv
  <2>5. \A m : ExecutionsOf(m) = {} BY <2>2 DEF ExecutionsOf
  <2>6. \A m : WayOf(m) = 0 BY <2>1, <2>5, WayFacts
  <2>7. \A m \in Memos : StageOf(m) = "none" /\ FromOf(m) = Null /\ BroughtOf(m) = 0
    BY <2>3 DEF StageOf, FromOf, BroughtOf
  <2>8. Lifecycle!Init BY <2>2, <2>6, <2>7 DEF Lifecycle!Init
  <2> QED BY <2>1, <2>4, <2>8
<1>2. LInv /\ [Next]_vars => LInv' BY InvStep, TimeStep, PaidStep
<1>3. LInv /\ LInv' /\ [Next]_vars => [Lifecycle!Next]_(Lifecycle!vars) BY SimStep
<1> QED BY <1>1, <1>2, <1>3, PTL DEF Spec, ImplementsLifecycle, Lifecycle!Spec

\* A step takes nothing back: finished and failed withdrawals stay so, what is
\* booked never shrinks, and for a failed one nothing is booked any more.
NothingTakenBack ==
    \A m \in Memos :
        /\ StageOf(m) \in {"finished", "failed"} => StageOf(m)' = StageOf(m)
        /\ BroughtOf(m) <= BroughtOf(m)'
        /\ StageOf(m) = "failed" => BroughtOf(m)' = BroughtOf(m)

\* The lifecycle takes nothing back.
LEMMA LifecycleStep ==
    ASSUME \A m \in Memos : BroughtOf(m) \in Nat /\ WayOf(m) \in Nat,
           [Lifecycle!Next]_(Lifecycle!vars)
    PROVE  NothingTakenBack
<1>1. \A m \in Memos : BroughtOf(m) <= BroughtOf(m) OBVIOUS
<1>2. ASSUME [m \in Memos |-> StageOf(m)'] = [m \in Memos |-> StageOf(m)],
             [m \in Memos |-> BroughtOf(m)'] = [m \in Memos |-> BroughtOf(m)]
      PROVE  NothingTakenBack
  <2>1. \A m \in Memos : StageOf(m)' = StageOf(m) /\ BroughtOf(m)' = BroughtOf(m) BY <1>2
  <2> QED BY <1>1, <2>1 DEF NothingTakenBack
<1>3. ASSUME NEW k \in Memos, NEW d \in Deposits, Lifecycle!Start(k, d) PROVE NothingTakenBack
  <2>1. /\ StageOf(k) = "none"
        /\ [m \in Memos |-> StageOf(m)'] = [[m \in Memos |-> StageOf(m)] EXCEPT ![k] = "open"]
        /\ [m \in Memos |-> BroughtOf(m)'] = [m \in Memos |-> BroughtOf(m)]
    BY <1>3 DEF Lifecycle!Start
  <2>2. \A m \in Memos : BroughtOf(m)' = BroughtOf(m) /\ (m # k => StageOf(m)' = StageOf(m)) BY <2>1
  <2> QED BY <1>1, <2>1, <2>2 DEF NothingTakenBack
<1>4. ASSUME NEW d \in Deposits, Lifecycle!Pay(d) PROVE NothingTakenBack
  BY <1>2, <1>4 DEF Lifecycle!Pay
<1>5. ASSUME NEW k, NEW d, NEW p, NEW a, Lifecycle!Take(k, d, p, a) PROVE NothingTakenBack
  BY <1>2, <1>5 DEF Lifecycle!Take
<1>8. ASSUME NEW k, Lifecycle!Claim(k) PROVE NothingTakenBack BY <1>2, <1>8 DEF Lifecycle!Claim
<1>6. ASSUME NEW S \in SUBSET Memos, NEW G \in SUBSET Memos,
             NEW got \in [S -> UNION {1..([n \in Memos |-> WayOf(n)])[m] : m \in S}],
             Lifecycle!Report(S, got, G)
      PROVE  NothingTakenBack
  <2> SUFFICES ASSUME NEW m \in Memos
               PROVE  /\ StageOf(m) \in {"finished", "failed"} => StageOf(m)' = StageOf(m)
                      /\ BroughtOf(m) <= BroughtOf(m)'
                      /\ StageOf(m) = "failed" => BroughtOf(m)' = BroughtOf(m)
    BY DEF NothingTakenBack
  <2>1. /\ m \in S => StageOf(m) \in {"open", "finished"}
        /\ m \in G => StageOf(m) = "open"
        /\ StageOf(m)' = IF m \in G THEN "failed" ELSE IF m \in S THEN "finished" ELSE StageOf(m)
        /\ BroughtOf(m)' = IF m \in S THEN BroughtOf(m) + got[m] ELSE BroughtOf(m)
    BY <1>6 DEF Lifecycle!Report
  <2>2. ASSUME m \in S PROVE got[m] \in Nat
    <3>1. got[m] \in UNION {1..([k \in Memos |-> WayOf(k)])[n] : n \in S} BY <2>2
    <3>2. PICK n \in S : got[m] \in 1..([k \in Memos |-> WayOf(k)])[n] BY <3>1
    <3>3. PICK w \in Nat : w = ([k \in Memos |-> WayOf(k)])[n] OBVIOUS
    <3>4. got[m] \in 1..w BY <3>2, <3>3
    <3> QED BY <3>4
  <2>3. PICK b \in Nat : b = BroughtOf(m) OBVIOUS
  <2>4. BroughtOf(m) <= BroughtOf(m)' BY <2>1, <2>2, <2>3
  <2> QED BY <2>1, <2>4
<1>7. CASE UNCHANGED Lifecycle!vars BY <1>2, <1>7 DEF Lifecycle!vars
<1> QED BY <1>3, <1>4, <1>5, <1>6, <1>7, <1>8 DEF Lifecycle!Next

\* What the tables say of internal withdrawals of TON is final: SetExpired, the
\* scanner and a restart leave finished and given up withdrawals as they are, and an
\* amount once booked is never replaced by a smaller one, replayed messages included.
THEOREM BookedForGood ==
    ASSUME PromptSending
    PROVE  Spec => [][NothingTakenBack]_vars
<1> DEFINE LInv == IInv /\ TimeInv /\ PaidInv
<1>1. Init => LInv
  <2>1. Init => PaidInv BY DEF Init, PaidInv
  <2> QED BY <2>1, InitInv
<1>2. LInv /\ [Next]_vars => LInv' BY InvStep, TimeStep, PaidStep
<1>3. LInv /\ LInv' /\ [Next]_vars => [NothingTakenBack]_vars
  <2> SUFFICES ASSUME LInv, LInv', [Next]_vars PROVE NothingTakenBack OBVIOUS
  <2>1. [Lifecycle!Next]_(Lifecycle!vars) BY SimStep
  <2>2. \A m \in Memos : WayOf(m) \in Nat BY WayFacts
  <2>3. \A m \in Memos : BroughtOf(m) \in Nat BY RowFacts DEF BroughtOf, IInv
  <2> QED BY <2>1, <2>2, <2>3, LifecycleStep
<1> QED BY <1>1, <1>2, <1>3, PTL DEF Spec
=============================================================================
