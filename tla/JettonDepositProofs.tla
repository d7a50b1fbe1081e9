------------------------ MODULE JettonDepositProofs ------------------------
(***************************************************************************)
(* Theorems about JettonDepositWithdrawals for every value of its          *)
(* constants: any number of deposits, incomes and withdrawals, any cutoff, *)
(* message lifetime and lagging.                                           *)
(***************************************************************************)
EXTENDS JettonDepositWithdrawals, FiniteSums, TLAPS

\* The one timing condition, and only NoBlockRefused and the refinement of
\* InternalWithdrawalLifecycle rest on it: SetExpired reads its clock within two
\* block times of waitSync.
PromptExpiry == ExpireDelay <= 2

Row == [from : Deposits, sinceLt : Nat, expiredAt : Nat, failed : BOOLEAN,
        sendingLt : Nat, finishLt : Nat, amount : Nat]
IncomeTxs == [kind : {"income"}, deposit : Deposits, notification : BOOLEAN, lt : Nat]
SendingTxs == [kind : {"sending"}, memos : SUBSET Nat, lt : Nat]
TransferTxs == [kind : {"transfer"}, memo : Nat, success : BOOLEAN, lt : Nat]
NotifyTxs == [kind : {"notify"}, memo : Nat, lt : Nat]
ForeignTxs == [kind : {"foreign"}, deposit : Deposits, memo : Nat, bounced : BOOLEAN, lt : Nat]
Transactions == IncomeTxs \cup SendingTxs \cup TransferTxs \cup NotifyTxs \cup ForeignTxs
Balances == [Deposits -> Nat]
Blocks == [time : Nat, before : Balances, after : Balances, txs : Seq(Transactions)]

-----------------------------------------------------------------------------
(* Transactions that the scanner has not read *)

InBlocks == UNION {Range(unscanned[i].txs) : i \in DOMAIN unscanned}
InDraft == Range(draft.txs)
Pending == InBlocks \cup InDraft

PSendings(m) == {x \in Pending : x.kind = "sending" /\ m \in x.memos}
PTransfers(m) == {x \in Pending : x.kind = "transfer" /\ x.memo = m}
PNotifies(m) == {x \in Pending : x.kind = "notify" /\ x.memo = m}

\* What a set of withdrawals asks for.
Amount(S) == SumFunctionOnSet(asked, S)

\* Of the transactions X: incomes of d, withdrawals that took Jettons from d,
\* withdrawals from d that arrived on the hot wallet.
IncomesIn(X, d) == {x \in X : x.kind = "income" /\ x.deposit = d}
TakenIn(X, d) ==
    {m \in RowsOf(d) : \E x \in X : x.kind = "transfer" /\ x.memo = m /\ x.success}
ArrivedIn(X, d) == {m \in RowsOf(d) : \E x \in X : x.kind = "notify" /\ x.memo = m}

-----------------------------------------------------------------------------
(* The inductive invariant *)

ShapeInv ==
    /\ rows = [m \in Memos |-> rows[m]] /\ asked \in [Memos -> Nat]
    /\ tasks \subseteq [from : Deposits, lt : Nat]
    /\ taken \subseteq [from : Deposits, lt : Nat, amount : Nat]
    /\ until \in Nat /\ syncedAt \in Nat /\ chainTime \in Nat
    /\ incomes \in Nat /\ foreign \in Nat
    /\ sent \subseteq [until : Nat, memos : SUBSET Nat]
    /\ unscanned \in Seq(Blocks)
    /\ draft \in [txs : Seq(Transactions), balance : Balances]

\* What the withdrawals processor holds at each point of its loop.
LoopInv ==
    /\ ppc \in {"waitSync", "sleep"} => tasks = {} /\ taken = {} /\ memos = {}
    /\ ppc = "loop" => memos = {}
    /\ ppc = "save" => tasks = {}

\* Blocks are in the order of their times, beyond the last saved one;
\* transactions are told apart by their lt.
OrderInv ==
    /\ scanTime <= chainTime /\ chainTime <= now
    /\ \A i \in DOMAIN unscanned :
          /\ scanTime < unscanned[i].time /\ unscanned[i].time <= chainTime
          /\ \A x \in Range(unscanned[i].txs) :
                x.lt \in {2 * unscanned[i].time, 2 * unscanned[i].time + 1}
    /\ \A i, j \in DOMAIN unscanned : i < j => unscanned[i].time < unscanned[j].time
    /\ draft.txs # <<>> => chainTime < now
    /\ Len(draft.txs) <= 2
    /\ \A x \in InDraft : 2 * now <= x.lt /\ x.lt < 2 * now + Len(draft.txs)
    /\ \A x, y \in Pending : x.lt = y.lt => x = y

\* The change of a balance is explained by the transactions X.
Explained(X, before, after) ==
    \A d \in Deposits :
        after[d] = before[d] + Cardinality(IncomesIn(X, d)) - Amount(TakenIn(X, d))

\* A block starts from the balances the one before it ended with.
BalanceInv ==
    /\ \A i \in DOMAIN unscanned :
          /\ i + 1 \in DOMAIN unscanned => unscanned[i + 1].before = unscanned[i].after
          /\ i = Len(unscanned) => unscanned[i].after = balance
          /\ Explained(Range(unscanned[i].txs), unscanned[i].before, unscanned[i].after)
    /\ Explained(InDraft, balance, draft.balance)

\* What the tables know of incomes lies in scanned blocks.
TableInv ==
    /\ \A d \in Deposits : lastIncome[d] <= 2 * scanTime + 1
    /\ \A m \in RowMemos : rows[m].sinceLt <= 2 * scanTime + 1

\* The tasks and balances that the loop holds stay what was read: deposits
\* without a live withdrawal and with a newer income than all finished ones, unless
\* one of these is failed by somebody else.
TaskInv ==
    /\ \A a, b \in tasks : a.from = b.from => a = b
    /\ \A a, b \in taken : a.from = b.from => a = b
    /\ \A a \in tasks, b \in taken : a.from # b.from
    /\ \A a \in tasks \cup taken :
          /\ a.lt <= 2 * scanTime + 1
          /\ ~TakenBack(a.from) =>
                \A m \in RowsOf(a.from) : /\ ~Live(m)
                                          /\ rows[m].finishLt # Null => rows[m].sinceLt < a.lt

\* A live withdrawal is newer than the finished ones of its deposit.
AgeInv ==
    \A m, n \in RowMemos :
        rows[m].from = rows[n].from /\ rows[m].finishLt # Null /\ Live(n) /\ ~TakenBack(rows[n].from)
            => rows[m].sinceLt < rows[n].sinceLt

\* Withdrawal m has left nothing on the chain yet.
Unsent(m) ==
    /\ rows[m].sendingLt = Null /\ rows[m].finishLt = Null
    /\ PSendings(m) = {} /\ PTransfers(m) = {} /\ PNotifies(m) = {}
    /\ m \notin proxied /\ m \notin moved

\* Withdrawals of a message that is not executed yet, valid until t; those given
\* up are too old to be executed.
InMessage(S, t) ==
    \A m \in S : /\ m \in RowMemos /\ Unsent(m) /\ rows[m].expiredAt = t
                 /\ rows[m].failed => t < now

MessageInv ==
    /\ InMessage(memos, until)
    /\ \A g \in sent : InMessage(g.memos, g.until) /\ g.memos \cap memos = {}
    /\ \A g, h \in sent : g.memos \cap h.memos # {} => g = h

\* The message to the proxy of m has left the hot wallet.
Started(m) == rows[m].sendingLt # Null \/ PSendings(m) # {}

\* The Jettons of m have left the deposit.
Gone(m) == rows[m].finishLt # Null \/ \E x \in PTransfers(m) : x.success

\* The transactions of m happen once each, in order.
SendingOK(m) ==
    /\ rows[m].sendingLt # Null => PSendings(m) = {}
    /\ \A x \in PSendings(m) : /\ x.lt <= 2 * rows[m].expiredAt + 1
                               /\ \A y \in PSendings(m) : y = x
TransferOK(m) ==
    /\ m \in proxied => /\ Started(m) /\ ~Gone(m) /\ PTransfers(m) = {}
                        /\ m \notin moved /\ PNotifies(m) = {}
    /\ \A x \in PTransfers(m) :
          /\ Started(m) /\ rows[m].finishLt = Null
          /\ \A y \in PSendings(m) : y.lt < x.lt
          /\ \A y \in PTransfers(m) : y = x
          /\ x.success <=> m \in moved \/ PNotifies(m) # {}
NotifyOK(m) ==
    /\ m \in moved => PNotifies(m) = {} /\ Gone(m)
    /\ \A x \in PNotifies(m) : /\ Gone(m)
                               /\ \A y \in PTransfers(m) : y.lt < x.lt
                               /\ \A y \in PNotifies(m) : y = x
FinishOK(m) ==
    /\ rows[m].finishLt # Null =>
          rows[m].sendingLt # Null /\ PTransfers(m) = {}
    /\ rows[m].amount = IF rows[m].finishLt = Null THEN 0 ELSE asked[m]

\* A row that was given up although its message was executed, and not for a refused
\* transfer of somebody else, is met by the scanner before any transfer.
FailedOK(m) ==
    rows[m].failed /\ m \notin claimed /\ (PSendings(m) # {} \/ m \in proxied \/ PTransfers(m) # {})
        => \E x \in InBlocks : x.kind = "sending" /\ m \in x.memos

FlowInv ==
    \A m \in RowMemos : SendingOK(m) /\ TransferOK(m) /\ NotifyOK(m) /\ FinishOK(m) /\ FailedOK(m)

\* Withdrawals named by transactions exist, those that others name are claimed.
NamedInv ==
    \A x \in Pending : /\ x.kind = "sending" => x.memos \subseteq RowMemos
                       /\ x.kind \in {"transfer", "notify"} => x.memo \in RowMemos
                       /\ x.kind = "foreign" => x.memo \in claimed

\* An income of d after lt is known or in a block.
Newer(d, lt) ==
    \/ lastIncome[d] > lt
    \/ \E x \in InBlocks : x.kind = "income" /\ x.deposit = d /\ x.lt > lt

\* What is left of the published balance after the transfers of the draft.
Left(d) == balance[d] - Amount(TakenIn(InDraft, d))

\* A transfer of m that succeeded lies in a block.
Paid(m) ==
    \/ rows[m].finishLt # Null
    \/ \E x \in InBlocks : x.kind = "transfer" /\ x.memo = m /\ x.success

\* More Jettons on a deposit than a withdrawal takes, or than it left, come from an
\* income newer than the one it was made for.
HeldInv ==
    /\ \A m \in RowMemos : Left(rows[m].from) > (IF Gone(m) THEN 0 ELSE asked[m])
                              => Newer(rows[m].from, rows[m].sinceLt)
    /\ \A w \in taken : Left(w.from) > w.amount => Newer(w.from, w.lt)

\* So do Jettons that a block left on a deposit, and on one that was withdrawn from.
PublishedInv ==
    /\ \A d \in Deposits : balance[d] > 0 => Newer(d, Null)
    /\ \A m \in RowMemos : Paid(m) /\ balance[rows[m].from] > 0
                              => Newer(rows[m].from, rows[m].sinceLt)

FinishedOf(d) == {m \in RowsOf(d) : rows[m].finishLt # Null}
ReceivedOf(d) == {m \in FinishedOf(d) : m \notin moved /\ PNotifies(m) = {}}
ScannedBalance == IF unscanned = <<>> THEN balance ELSE unscanned[1].before

\* The tables are in balance with what was on the deposits at the last scanned
\* block.
MoneyInv ==
    \A d \in Deposits : /\ income[d] = ScannedBalance[d] + Amount(FinishedOf(d))
                        /\ internalIncome[d] = Amount(ReceivedOf(d))

IInv ==
    /\ TypeOK /\ ShapeInv /\ LoopInv /\ OrderInv /\ BalanceInv /\ TableInv
    /\ TaskInv /\ OneLivePerDeposit /\ AgeInv
    /\ NamedInv /\ MessageInv /\ FlowInv /\ HeldInv /\ PublishedInv
    /\ MoneyInv

\* A row is given up only when the last saved block lies beyond the life of its
\* message.
TimeInv ==
    /\ epc = "expire" => syncedAt < scanTime + Lag
    /\ \A x \in Pending : x.kind = "sending" => \A m \in x.memos : ~rows[m].failed

-----------------------------------------------------------------------------
(* Rows and amounts *)

\* The rows that exist, and where they are.
LEMMA RowFacts ==
    ASSUME TypeOK
    PROVE  /\ RowMemos \subseteq Memos /\ IsFiniteSet(Memos)
           /\ \A m \in RowMemos :
                 /\ rows[m] \in Row /\ m \in Nat
                 /\ rows[m].from \in Deposits /\ rows[m].sinceLt \in Nat
                 /\ rows[m].expiredAt \in Nat /\ rows[m].failed \in BOOLEAN
                 /\ rows[m].sendingLt \in Nat /\ rows[m].finishLt \in Nat
                 /\ rows[m].amount \in Nat
           /\ \A d : RowsOf(d) \subseteq RowMemos
<1> USE ConstantsAssumption
<1>1. lastMemo \in 0..MaxMemos /\ MaxMemos \in Nat BY DEF TypeOK
<1>2. RowMemos \subseteq Memos BY <1>1 DEF RowMemos, Memos
<1>3. IsFiniteSet(Memos) BY <1>1, FS_Interval DEF Memos
<1>4. ASSUME NEW m \in RowMemos
      PROVE  /\ rows[m] \in Row /\ m \in Nat
             /\ rows[m].from \in Deposits /\ rows[m].sinceLt \in Nat
             /\ rows[m].expiredAt \in Nat /\ rows[m].failed \in BOOLEAN
             /\ rows[m].sendingLt \in Nat /\ rows[m].finishLt \in Nat
             /\ rows[m].amount \in Nat
  <2>1. rows[m] \in Row BY DEF TypeOK, Row
  <2>2. m \in Nat BY <1>1 DEF RowMemos
  <2> QED BY <2>1, <2>2 DEF Row
<1>5. \A d : RowsOf(d) \subseteq RowMemos BY DEF RowsOf
<1> QED BY <1>2, <1>3, <1>4, <1>5

\* Sets of withdrawals ask for a natural number of Jettons, and the amounts of
\* different ones add up.
LEMMA AmountFacts ==
    ASSUME asked \in [Memos -> Nat]
    PROVE  /\ \A S \in SUBSET Memos : IsFiniteSet(S) /\ Amount(S) \in Nat
           /\ \A A, B \in SUBSET Memos : A \cap B = {} => Amount(A \cup B) = Amount(A) + Amount(B)
           /\ \A m \in Memos : Amount({m}) = asked[m] /\ asked[m] \in Nat
           /\ Amount({}) = 0
<1>1. IsFiniteSet(Memos) BY ConstantsAssumption, FS_Interval DEF Memos
<1>2. ASSUME NEW S \in SUBSET Memos PROVE IsFiniteSet(S) /\ Amount(S) \in Nat
  <2>1. IsFiniteSet(S) BY <1>1, FS_Subset
  <2>2. \A m \in S : asked[m] \in Nat OBVIOUS
  <2> QED BY <2>1, <2>2, SumNat DEF Amount
<1>3. ASSUME NEW A \in SUBSET Memos, NEW B \in SUBSET Memos, A \cap B = {}
      PROVE  Amount(A \cup B) = Amount(A) + Amount(B)
  <2>1. IsFiniteSet(A) /\ IsFiniteSet(B) BY <1>2
  <2>2. \A m \in A \cup B : asked[m] \in Int OBVIOUS
  <2> QED BY <1>3, <2>1, <2>2, SumUnion DEF Amount
<1>4. ASSUME NEW m \in Memos PROVE Amount({m}) = asked[m] /\ asked[m] \in Nat
  <2>1. asked[m] \in Nat /\ asked[m] \in Int OBVIOUS
  <2> QED BY <2>1, SumSingle DEF Amount
<1>5. Amount({}) = 0 BY SumEmpty DEF Amount
<1> QED BY <1>2, <1>3, <1>4, <1>5

\* What saved withdrawals ask for does not change.
LEMMA AmountSame ==
    ASSUME NEW S \in SUBSET Memos, \A m \in S : asked'[m] = asked[m]
    PROVE  SumFunctionOnSet(asked', S) = SumFunctionOnSet(asked, S)
<1>1. IsFiniteSet(Memos) BY ConstantsAssumption, FS_Interval DEF Memos
<1>2. IsFiniteSet(S) BY <1>1, FS_Subset
<1> QED BY <1>2, SumSame

-----------------------------------------------------------------------------
(* How the steps move transactions *)

LEMMA RangeFacts ==
    ASSUME NEW T, NEW s \in Seq(T)
    PROVE  /\ Range(s) \subseteq T /\ IsFiniteSet(Range(s))
           /\ \A x \in T : Range(Append(s, x)) = Range(s) \cup {x} /\ Append(s, x) \in Seq(T)
                           /\ Len(Append(s, x)) = Len(s) + 1
           /\ Range(<<>>) = {} /\ Len(s) \in Nat
           /\ s = <<>> <=> Len(s) = 0
           /\ s = <<>> <=> Range(s) = {}
<1>1. DOMAIN s = 1..Len(s) /\ Len(s) \in Nat OBVIOUS
<1>2. IsFiniteSet(DOMAIN s) BY <1>1, FS_Interval
<1>3. IsFiniteSet(Range(s))
  <2>1. IsFiniteSet({s[x] : x \in DOMAIN s}) BY <1>2, FiniteImage
  <2> QED BY <2>1 DEF Range
<1>4. Range(s) \subseteq T BY DEF Range
<1>5. ASSUME NEW x \in T
      PROVE  Range(Append(s, x)) = Range(s) \cup {x} /\ Append(s, x) \in Seq(T)
             /\ Len(Append(s, x)) = Len(s) + 1
  <2>1. /\ DOMAIN Append(s, x) = (1..Len(s)) \cup {Len(s) + 1}
        /\ \A i \in 1..Len(s) : Append(s, x)[i] = s[i]
        /\ Append(s, x)[Len(s) + 1] = x
    BY <1>1
  <2>2. Append(s, x) \in Seq(T) /\ Len(Append(s, x)) = Len(s) + 1 OBVIOUS
  <2>3. Range(Append(s, x)) \subseteq Range(s) \cup {x} BY <1>1, <2>1 DEF Range
  <2>4. Range(s) \subseteq Range(Append(s, x)) BY <1>1, <2>1 DEF Range
  <2>5. x \in Range(Append(s, x)) BY <1>1, <2>1 DEF Range
  <2> QED BY <2>2, <2>3, <2>4, <2>5
<1>6. Range(<<>>) = {} BY DEF Range
<1>7. s = <<>> <=> Len(s) = 0 OBVIOUS
<1>8. s = <<>> <=> Range(s) = {}
  <2>1. s # <<>> => 1 \in DOMAIN s /\ s[1] \in Range(s) BY <1>1 DEF Range
  <2> QED BY <1>6, <2>1
<1> QED BY <1>1, <1>3, <1>4, <1>5, <1>6, <1>7, <1>8

\* Fields of a transaction.
LEMMA TxFacts ==
    ASSUME NEW x \in Transactions
    PROVE  /\ x.lt \in Nat /\ x.kind \in {"income", "sending", "transfer", "notify", "foreign"}
           /\ x.kind = "income" => x.deposit \in Deposits /\ x.notification \in BOOLEAN
           /\ x.kind = "transfer" => x.success \in BOOLEAN
BY DEF Transactions, IncomeTxs, SendingTxs, TransferTxs, NotifyTxs, ForeignTxs

\* Blocks and their transactions.
LEMMA BlockFacts ==
    ASSUME ShapeInv
    PROVE  /\ Len(unscanned) \in Nat /\ DOMAIN unscanned = 1..Len(unscanned)
           /\ \A i \in DOMAIN unscanned :
                 /\ unscanned[i] \in Blocks /\ unscanned[i].time \in Nat
                 /\ unscanned[i].before \in Balances /\ unscanned[i].after \in Balances
                 /\ unscanned[i].txs \in Seq(Transactions)
                 /\ Range(unscanned[i].txs) \subseteq Transactions
                 /\ IsFiniteSet(Range(unscanned[i].txs))
           /\ draft.txs \in Seq(Transactions) /\ draft.balance \in Balances
           /\ Len(draft.txs) \in Nat /\ IsFiniteSet(InDraft)
           /\ Pending \subseteq Transactions
<1>1. Len(unscanned) \in Nat /\ DOMAIN unscanned = 1..Len(unscanned) BY DEF ShapeInv
<1>2. ASSUME NEW i \in DOMAIN unscanned
      PROVE  /\ unscanned[i] \in Blocks /\ unscanned[i].time \in Nat
             /\ unscanned[i].before \in Balances /\ unscanned[i].after \in Balances
             /\ unscanned[i].txs \in Seq(Transactions)
             /\ Range(unscanned[i].txs) \subseteq Transactions
             /\ IsFiniteSet(Range(unscanned[i].txs))
  <2>1. unscanned[i] \in Blocks BY DEF ShapeInv
  <2>2. unscanned[i].txs \in Seq(Transactions) BY <2>1 DEF Blocks
  <2>3. Range(unscanned[i].txs) \subseteq Transactions /\ IsFiniteSet(Range(unscanned[i].txs))
    BY <2>2, RangeFacts
  <2> QED BY <2>1, <2>2, <2>3 DEF Blocks
<1>3. draft.txs \in Seq(Transactions) /\ draft.balance \in Balances BY DEF ShapeInv
<1>4. Len(draft.txs) \in Nat /\ IsFiniteSet(InDraft) /\ InDraft \subseteq Transactions
  BY <1>3, RangeFacts DEF InDraft
<1>5. InBlocks \subseteq Transactions BY <1>2 DEF InBlocks
<1> QED BY <1>1, <1>2, <1>3, <1>4, <1>5 DEF Pending

\* A transaction is put at the end of the draft.
LEMMA TransactFacts ==
    ASSUME IInv, NEW x \in Transactions, NEW bal, Transact(x, bal), x.lt = NextLt
    PROVE  /\ InBlocks' = InBlocks /\ InDraft' = InDraft \cup {x} /\ Pending' = Pending \cup {x}
           /\ \A y \in Pending : y.lt < x.lt
           /\ x \notin Pending
           /\ draft'.txs \in Seq(Transactions) /\ draft'.balance = bal
           /\ draft' = [txs |-> draft'.txs, balance |-> bal]
           /\ OrderInv'
<1> USE DEF IInv
<1>1. /\ chainTime < now /\ Len(draft.txs) < 2
      /\ draft' = [txs |-> Append(draft.txs, x), balance |-> bal]
      /\ unscanned' = unscanned /\ chainTime' = chainTime /\ now' = now /\ scanTime' = scanTime
  BY DEF Transact, dbVars
<1>2. draft'.txs = Append(draft.txs, x) /\ draft'.balance = bal BY <1>1
<1>3. /\ Range(draft'.txs) = InDraft \cup {x} /\ draft'.txs \in Seq(Transactions)
      /\ Len(draft'.txs) = Len(draft.txs) + 1
  BY <1>2, BlockFacts, RangeFacts DEF InDraft
<1>4. InBlocks' = InBlocks BY <1>1 DEF InBlocks
<1>5. InDraft' = InDraft \cup {x} BY <1>3 DEF InDraft
<1>6. Pending' = Pending \cup {x} BY <1>4, <1>5 DEF Pending
<1>7a. PICK k \in Nat : k = Len(draft.txs) BY BlockFacts
<1>7. now \in Nat /\ chainTime \in Nat /\ x.lt = 2 * now + k
  BY <1>7a DEF NextLt, TypeOK, ShapeInv
<1>7b. x.lt \in Nat BY TxFacts
<1>8. ASSUME NEW y \in Pending PROVE y.lt < x.lt /\ y.lt \in Nat
  <2>0. y.lt \in Nat BY BlockFacts, TxFacts
  <2>1. CASE y \in InDraft
    <3>1. y.lt < 2 * now + k BY <1>7a, <2>1 DEF OrderInv
    <3> QED BY <1>7, <2>0, <3>1
  <2>2. CASE y \in InBlocks
    <3>1. PICK i \in DOMAIN unscanned : y \in Range(unscanned[i].txs) BY <2>2 DEF InBlocks
    <3>2. PICK t \in Nat : t <= chainTime /\ y.lt \in {2 * t, 2 * t + 1}
      BY <3>1, BlockFacts DEF OrderInv
    <3>3. chainTime < now BY <1>1
    <3> QED BY <1>7, <2>0, <3>2, <3>3
  <2> QED BY <2>0, <2>1, <2>2 DEF Pending
<1>9. x \notin Pending
  <2>1. ~(x.lt < x.lt) BY <1>7b
  <2> QED BY <1>8, <2>1
<1>10. OrderInv'
  <2>1. /\ scanTime <= chainTime /\ chainTime <= now
        /\ \A i \in DOMAIN unscanned :
              /\ scanTime < unscanned[i].time /\ unscanned[i].time <= chainTime
              /\ \A y \in Range(unscanned[i].txs) :
                    y.lt \in {2 * unscanned[i].time, 2 * unscanned[i].time + 1}
        /\ \A i, j \in DOMAIN unscanned : i < j => unscanned[i].time < unscanned[j].time
    BY DEF OrderInv
  <2>2. ASSUME NEW y \in InDraft \cup {x}
        PROVE  2 * now <= y.lt /\ y.lt < 2 * now + Len(draft'.txs)
    <3>0. Len(draft'.txs) = k + 1 BY <1>3, <1>7a
    <3>1. CASE y = x
      <4>1. 2 * now <= y.lt /\ y.lt < 2 * now + (k + 1) BY <1>7, <3>1
      <4> QED BY <3>0, <4>1
    <3>2. CASE y \in InDraft
      <4>1. y.lt \in Nat BY <1>8, <3>2 DEF Pending
      <4>2. 2 * now <= y.lt /\ y.lt < 2 * now + k BY <1>7a, <3>2 DEF OrderInv
      <4>3. y.lt < 2 * now + (k + 1) BY <1>7, <4>1, <4>2
      <4> QED BY <3>0, <4>2, <4>3
    <3> QED BY <3>1, <3>2
  <2>3. \A y, z \in Pending \cup {x} : y.lt = z.lt => y = z
    <3>1. \A y \in Pending : y.lt # x.lt
      <4> SUFFICES ASSUME NEW y \in Pending PROVE y.lt # x.lt OBVIOUS
      <4>1. y.lt < x.lt /\ y.lt \in Nat BY <1>8
      <4> QED BY <1>7b, <4>1
    <3>2. \A y, z \in Pending : y.lt = z.lt => y = z BY DEF OrderInv
    <3> QED BY <3>1, <3>2
  <2>4. Len(draft'.txs) <= 2
    <3>1. k < 2 /\ Len(draft'.txs) = k + 1 BY <1>1, <1>3, <1>7a
    <3> QED BY <3>1
  <2> QED BY <1>1, <1>5, <1>6, <2>1, <2>2, <2>3, <2>4 DEF OrderInv
<1> QED BY <1>1, <1>2, <1>3, <1>4, <1>5, <1>6, <1>8, <1>9, <1>10

\* The draft becomes a block.
LEMMA NewBlockFacts ==
    ASSUME IInv, NewBlock
    PROVE  /\ InBlocks' = Pending /\ InDraft' = {} /\ Pending' = Pending
           /\ \A i \in DOMAIN unscanned : i \in DOMAIN unscanned' /\ unscanned'[i] = unscanned[i]
           /\ LET n == Len(unscanned) + 1
              IN  /\ Len(unscanned') = n /\ DOMAIN unscanned' = DOMAIN unscanned \cup {n}
                  /\ n \notin DOMAIN unscanned
                  /\ unscanned'[n].time = now /\ unscanned'[n].before = balance
                  /\ unscanned'[n].after = draft.balance /\ unscanned'[n].txs = draft.txs
           /\ unscanned' \in Seq(Blocks) /\ draft' \in [txs : Seq(Transactions), balance : Balances]
           /\ OrderInv'
<1> USE DEF IInv
<1> DEFINE b == [time |-> now, before |-> balance, after |-> draft.balance, txs |-> draft.txs]
           n == Len(unscanned) + 1
<1>1. /\ chainTime < now /\ chainTime' = now /\ now' = now /\ scanTime' = scanTime
      /\ unscanned' = Append(unscanned, b)
      /\ draft' = [txs |-> <<>>, balance |-> draft.balance]
  BY DEF NewBlock, dbVars
<1>2. /\ now \in Nat /\ chainTime \in Nat /\ scanTime \in Nat BY DEF TypeOK, ShapeInv
<1>3. balance \in Balances BY DEF TypeOK, Balances
<1>4. b \in Blocks BY <1>2, <1>3, BlockFacts DEF Blocks
<1>5. b.time = now /\ b.before = balance /\ b.after = draft.balance /\ b.txs = draft.txs OBVIOUS
<1> HIDE DEF b
<1>6. unscanned \in Seq(Blocks) BY DEF ShapeInv
<1>7. /\ unscanned' \in Seq(Blocks) /\ Len(unscanned') = n
      /\ DOMAIN unscanned' = DOMAIN unscanned \cup {n} /\ n \notin DOMAIN unscanned
      /\ \A i \in DOMAIN unscanned : unscanned'[i] = unscanned[i]
      /\ unscanned'[n] = b
  BY <1>1, <1>4, <1>6
<1> HIDE DEF n
<1>8. draft'.txs = <<>> /\ draft' \in [txs : Seq(Transactions), balance : Balances]
  BY <1>1, BlockFacts
<1>9. InDraft' = {} BY <1>8, RangeFacts DEF InDraft
<1>10. InBlocks' = Pending
  <2>1. InBlocks' \subseteq Pending
    <3> SUFFICES ASSUME NEW i \in DOMAIN unscanned', NEW y \in Range(unscanned'[i].txs)
                 PROVE  y \in Pending
      BY DEF InBlocks
    <3>1. CASE i = n BY <1>5, <1>7, <3>1 DEF Pending, InDraft
    <3>2. CASE i \in DOMAIN unscanned BY <1>7, <3>2 DEF Pending, InBlocks
    <3> QED BY <1>7, <3>1, <3>2
  <2>2. InDraft \subseteq InBlocks' BY <1>5, <1>7 DEF InDraft, InBlocks
  <2>3. InBlocks \subseteq InBlocks' BY <1>7 DEF InBlocks
  <2> QED BY <2>1, <2>2, <2>3 DEF Pending
<1>11. Pending' = Pending BY <1>9, <1>10 DEF Pending
<1>12. OrderInv'
  <2>1. scanTime <= chainTime /\ scanTime <= now BY <1>1, <1>2 DEF OrderInv
  <2>2. ASSUME NEW i \in DOMAIN unscanned'
        PROVE  /\ scanTime < unscanned'[i].time /\ unscanned'[i].time <= now
               /\ \A y \in Range(unscanned'[i].txs) :
                     y.lt \in {2 * unscanned'[i].time, 2 * unscanned'[i].time + 1}
    <3>1. CASE i = n
      <4>1. \A y \in Range(draft.txs) : y.lt \in {2 * now, 2 * now + 1}
        <5> SUFFICES ASSUME NEW y \in Range(draft.txs) PROVE y.lt \in {2 * now, 2 * now + 1}
          OBVIOUS
        <5>1. y.lt \in Nat BY BlockFacts, TxFacts DEF Pending, InDraft
        <5>2. PICK k \in Nat : k <= 2 /\ 2 * now <= y.lt /\ y.lt < 2 * now + k
          BY BlockFacts DEF OrderInv, InDraft
        <5> QED BY <1>2, <5>1, <5>2
      <4>2. scanTime < now BY <1>1, <1>2, <2>1
      <4> QED BY <1>2, <1>5, <1>7, <3>1, <4>1, <4>2
    <3>2. CASE i \in DOMAIN unscanned
      <4>1. unscanned[i].time <= chainTime /\ unscanned[i].time \in Nat BY <3>2, BlockFacts DEF OrderInv
      <4>2. unscanned[i].time <= now BY <1>1, <1>2, <4>1
      <4> QED BY <1>7, <3>2, <4>2 DEF OrderInv
    <3> QED BY <1>7, <3>1, <3>2
  <2>3. ASSUME NEW i \in DOMAIN unscanned', NEW j \in DOMAIN unscanned', i < j
        PROVE  unscanned'[i].time < unscanned'[j].time
    <3>1. CASE j \in DOMAIN unscanned
      <4>1. i \in DOMAIN unscanned BY <1>7, <2>3, <3>1, BlockFacts DEF n
      <4> QED BY <1>7, <2>3, <3>1, <4>1 DEF OrderInv
    <3>2. CASE j = n
      <4>1. i \in DOMAIN unscanned BY <1>7, <2>3, <3>2, BlockFacts DEF n
      <4>2. unscanned[i].time <= chainTime /\ unscanned[i].time \in Nat BY <4>1, BlockFacts DEF OrderInv
      <4> QED BY <1>1, <1>2, <1>5, <1>7, <3>2, <4>1, <4>2
    <3> QED BY <1>7, <3>1, <3>2
  <2>4. Len(draft'.txs) = 0 BY <1>8
  <2>5. \A x, y \in Pending : x.lt = y.lt => x = y BY DEF OrderInv
  <2>6. now <= now BY <1>2
  <2> QED BY <1>1, <1>8, <1>9, <1>11, <2>1, <2>2, <2>3, <2>4, <2>5, <2>6 DEF OrderInv
<1> QED BY <1>5, <1>7, <1>8, <1>9, <1>10, <1>11, <1>12 DEF n

\* The transactions of the block that is scanned next.
Next1 == Range(unscanned[1].txs)

\* The first block is read.
LEMMA ScanFacts ==
    ASSUME IInv, unscanned # <<>>, unscanned' = Tail(unscanned), draft' = draft,
           scanTime' = unscanned[1].time, chainTime' = chainTime, now' = now
    PROVE  /\ 1 \in DOMAIN unscanned
           /\ Next1 \subseteq InBlocks /\ InDraft' = InDraft
           /\ InBlocks' = InBlocks \ Next1 /\ Pending' = Pending \ Next1
           /\ \A x \in Next1, y \in Pending' : x.lt < y.lt
           /\ Len(unscanned') \in Nat /\ Len(unscanned) = Len(unscanned') + 1
           /\ DOMAIN unscanned' = 1..Len(unscanned')
           /\ \A i \in DOMAIN unscanned' : i + 1 \in DOMAIN unscanned /\ unscanned'[i] = unscanned[i + 1]
           /\ unscanned' \in Seq(Blocks)
           /\ scanTime < scanTime' /\ \A x \in Next1 : x.lt <= 2 * scanTime' + 1 /\ x.lt > 0
           /\ OrderInv'
<1> USE DEF IInv
<1>1. unscanned \in Seq(Blocks) BY DEF ShapeInv
<1>2. PICK n \in Nat : /\ Len(unscanned) = n + 1 /\ DOMAIN unscanned = 1..(n + 1)
                       /\ Len(unscanned') = n /\ DOMAIN unscanned' = 1..n
                       /\ unscanned' \in Seq(Blocks)
                       /\ \A i \in 1..n : unscanned'[i] = unscanned[i + 1]
  <2>1. Tail(unscanned) \in Seq(Blocks) /\ Len(unscanned) \in Nat /\ Len(unscanned) # 0
        /\ DOMAIN unscanned = 1..Len(unscanned)
    BY <1>1
  <2>2. /\ Len(Tail(unscanned)) = Len(unscanned) - 1
        /\ DOMAIN Tail(unscanned) = 1..(Len(unscanned) - 1)
        /\ \A i \in 1..(Len(unscanned) - 1) : Tail(unscanned)[i] = unscanned[i + 1]
    BY <1>1, <2>1
  <2>3. Len(unscanned) - 1 \in Nat /\ Len(unscanned) = (Len(unscanned) - 1) + 1 BY <2>1
  <2> QED BY <2>1, <2>2, <2>3
<1>3. 1 \in DOMAIN unscanned /\ \A i \in 1..n : i + 1 \in DOMAIN unscanned BY <1>2
<1>4. Next1 \subseteq InBlocks BY <1>3 DEF Next1, InBlocks
<1>5. InDraft' = InDraft BY DEF InDraft
<1> DEFINE t == unscanned[1].time
<1>6. /\ t \in Nat /\ scanTime \in Nat /\ scanTime < t /\ t <= chainTime /\ chainTime \in Nat
      /\ now \in Nat
      /\ \A x \in Next1 : x.lt \in {2 * t, 2 * t + 1} /\ x.lt \in Nat
  BY <1>3, BlockFacts, TxFacts DEF OrderInv, TypeOK, ShapeInv, Next1
<1>7. ASSUME NEW x \in Next1, NEW i \in 1..n, NEW y \in Range(unscanned[i + 1].txs)
      PROVE  x.lt < y.lt
  <2>1. i + 1 \in DOMAIN unscanned /\ 1 < i + 1 BY <1>3
  <2>2. unscanned[i + 1].time \in Nat /\ t < unscanned[i + 1].time
    BY <1>3, <2>1, BlockFacts DEF OrderInv
  <2>3. y.lt \in {2 * unscanned[i + 1].time, 2 * unscanned[i + 1].time + 1} BY <2>1 DEF OrderInv
  <2>4. PICK u \in Nat : t < u /\ y.lt \in {2 * u, 2 * u + 1} BY <2>2, <2>3
  <2>5. x.lt \in {2 * t, 2 * t + 1} /\ t \in Nat BY <1>6
  <2> HIDE DEF t
  <2> QED BY <2>4, <2>5
<1>8. ASSUME NEW x \in Next1, NEW y \in InDraft PROVE x.lt < y.lt
  <2>1. draft.txs # <<>> BY BlockFacts, RangeFacts DEF InDraft
  <2>2. chainTime < now /\ 2 * now <= y.lt /\ y.lt \in Nat
    BY <2>1, BlockFacts, TxFacts DEF OrderInv, Pending
  <2>3. x.lt \in {2 * t, 2 * t + 1} /\ t \in Nat /\ t <= chainTime /\ chainTime \in Nat /\ now \in Nat
    BY <1>6
  <2> HIDE DEF t
  <2> QED BY <2>2, <2>3
<1>9. InBlocks' = UNION {Range(unscanned[i + 1].txs) : i \in 1..n} BY <1>2 DEF InBlocks
<1>10. InBlocks = Next1 \cup InBlocks'
  <2>1. InBlocks' \subseteq InBlocks BY <1>3, <1>9 DEF InBlocks
  <2>2. ASSUME NEW y \in InBlocks PROVE y \in Next1 \cup InBlocks'
    <3>1. PICK j \in DOMAIN unscanned : y \in Range(unscanned[j].txs) BY DEF InBlocks
    <3>2. CASE j = 1 BY <3>1, <3>2 DEF Next1
    <3>3. CASE j # 1
      <4>1. j - 1 \in 1..n /\ j = (j - 1) + 1 BY <1>2, <3>3
      <4> QED BY <1>9, <3>1, <4>1
    <3> QED BY <3>2, <3>3
  <2> QED BY <1>4, <2>1, <2>2
<1>11. ASSUME NEW x \in Next1, NEW y \in Pending' PROVE x.lt < y.lt
  BY <1>5, <1>7, <1>8, <1>9 DEF Pending
<1>12. \A x \in Next1 : x \notin Pending'
  <2> SUFFICES ASSUME NEW x \in Next1, x \in Pending' PROVE FALSE OBVIOUS
  <2>1. x.lt < x.lt /\ x.lt \in Nat BY <1>6, <1>11
  <2> QED BY <2>1
<1>13. InBlocks' = InBlocks \ Next1 /\ Pending' = Pending \ Next1
  BY <1>5, <1>10, <1>12 DEF Pending
<1>14. \A x \in Next1 : x.lt <= 2 * t + 1 /\ x.lt > 0
  <2> SUFFICES ASSUME NEW x \in Next1 PROVE x.lt <= 2 * t + 1 /\ x.lt > 0 OBVIOUS
  <2>1. t \in Nat /\ scanTime \in Nat /\ scanTime < t /\ x.lt \in {2 * t, 2 * t + 1} BY <1>6
  <2> HIDE DEF t
  <2> QED BY <2>1
<1>15. OrderInv'
  <2>1. ASSUME NEW i \in DOMAIN unscanned'
        PROVE  /\ t < unscanned'[i].time /\ unscanned'[i].time <= chainTime
               /\ \A x \in Range(unscanned'[i].txs) :
                     x.lt \in {2 * unscanned'[i].time, 2 * unscanned'[i].time + 1}
    <3>1. i \in 1..n /\ i + 1 \in DOMAIN unscanned /\ 1 < i + 1 /\ unscanned'[i] = unscanned[i + 1]
      BY <1>2, <1>3
    <3> QED BY <1>3, <3>1 DEF OrderInv
  <2>2. ASSUME NEW i \in DOMAIN unscanned', NEW j \in DOMAIN unscanned', i < j
        PROVE  unscanned'[i].time < unscanned'[j].time
    <3>1. /\ i + 1 \in DOMAIN unscanned /\ unscanned'[i] = unscanned[i + 1]
          /\ j + 1 \in DOMAIN unscanned /\ unscanned'[j] = unscanned[j + 1] /\ i + 1 < j + 1
      BY <1>2, <1>3, <2>2
    <3> QED BY <3>1 DEF OrderInv
  <2>3. t <= chainTime /\ chainTime <= now BY <1>6 DEF OrderInv
  <2>4. \A x, y \in Pending' : x.lt = y.lt => x = y BY <1>13 DEF OrderInv
  <2>5. /\ draft.txs # <<>> => chainTime < now
        /\ Len(draft.txs) <= 2
        /\ \A x \in InDraft : 2 * now <= x.lt /\ x.lt < 2 * now + Len(draft.txs)
    BY DEF OrderInv
  <2> QED BY <1>5, <2>1, <2>2, <2>3, <2>4, <2>5 DEF OrderInv
<1> HIDE DEF t
<1>16. t = scanTime' BY DEF t
<1>17. scanTime < scanTime' BY <1>6, <1>16
<1> QED BY <1>2, <1>3, <1>4, <1>5, <1>11, <1>13, <1>14, <1>15, <1>16, <1>17

-----------------------------------------------------------------------------
(* What does not change *)

Flow(m) == SendingOK(m) /\ TransferOK(m) /\ NotifyOK(m) /\ FinishOK(m) /\ FailedOK(m)

\* The step has nothing to do with withdrawal m.
SameMemo(m) ==
    /\ rows'[m] = rows[m] /\ asked'[m] = asked[m]
    /\ PSendings(m)' = PSendings(m) /\ PTransfers(m)' = PTransfers(m)
    /\ PNotifies(m)' = PNotifies(m)
    /\ m \in proxied' <=> m \in proxied
    /\ m \in moved' <=> m \in moved
    /\ m \in claimed => m \in claimed'

LEMMA FlowFrame ==
    ASSUME NEW m, SameMemo(m), Flow(m),
           \A x \in InBlocks : x.kind = "sending" /\ m \in x.memos => x \in InBlocks'
    PROVE  Flow(m)'
<1> USE DEF SameMemo
<1>1. Started(m)' <=> Started(m) BY DEF Started
<1>2. Gone(m)' <=> Gone(m) BY DEF Gone
<1>3. SendingOK(m)' BY DEF Flow, SendingOK
<1>4. TransferOK(m)' BY <1>1, <1>2 DEF Flow, TransferOK
<1>5. NotifyOK(m)' BY <1>2 DEF Flow, NotifyOK
<1>6. FinishOK(m)' BY DEF Flow, FinishOK
<1>7. FailedOK(m)' BY DEF Flow, FailedOK
<1> QED BY <1>3, <1>4, <1>5, <1>6, <1>7 DEF Flow

LEMMA UnsentFrame ==
    ASSUME NEW m, SameMemo(m), Unsent(m)
    PROVE  Unsent(m)'
BY DEF SameMemo, Unsent

LEMMA GoneFrame ==
    ASSUME NEW m, SameMemo(m)
    PROVE  Gone(m)' <=> Gone(m)
BY DEF SameMemo, Gone

\* Withdrawals named by the transactions X exist.
Named(X) ==
    \A x \in X : /\ x.kind = "sending" => x.memos \subseteq RowMemos
                 /\ x.kind \in {"transfer", "notify"} => x.memo \in RowMemos
                 /\ x.kind = "foreign" => x.memo \in claimed

\* Saved withdrawals keep their deposit and amount.
SameRows ==
    /\ RowMemos \subseteq RowMemos'
    /\ \A m \in RowMemos : rows'[m].from = rows[m].from /\ asked'[m] = asked[m]

LEMMA TakenSame ==
    ASSUME TypeOK, SameRows, NEW X, Named(X), NEW d
    PROVE  /\ TakenIn(X, d)' = TakenIn(X, d)
           /\ Amount(TakenIn(X, d))' = Amount(TakenIn(X, d))
           /\ TakenIn(X, d) \subseteq Memos
<1>1. TakenIn(X, d)' = TakenIn(X, d)
  BY DEF TakenIn, RowsOf, Named, SameRows
<1>2. TakenIn(X, d) \subseteq RowMemos BY DEF TakenIn, RowsOf
<1>3. SumFunctionOnSet(asked', TakenIn(X, d)) = SumFunctionOnSet(asked, TakenIn(X, d))
  BY <1>2, AmountSame, RowFacts DEF SameRows
<1> QED BY <1>1, <1>2, <1>3, RowFacts DEF Amount

LEMMA ExplainedSame ==
    ASSUME TypeOK, SameRows, NEW X, Named(X), NEW before, NEW after, Explained(X, before, after)
    PROVE  Explained(X, before, after)'
<1> SUFFICES ASSUME NEW d \in Deposits
             PROVE  after[d] = before[d] + Cardinality(IncomesIn(X, d)) - Amount(TakenIn(X, d))'
  BY DEF Explained, IncomesIn
<1> QED BY TakenSame DEF Explained

\* Steps that leave the chain and the tables alone.
CoreVars == <<lastIncome, income, internalIncome, rows, lastMemo, scanTime, asked, proxied, moved,
              balance, draft, unscanned, chainTime, claimed>>

LEMMA PendingSame ==
    ASSUME UNCHANGED <<draft, unscanned>>
    PROVE  /\ InBlocks' = InBlocks /\ InDraft' = InDraft /\ Pending' = Pending
           /\ \A m : /\ PSendings(m)' = PSendings(m) /\ PTransfers(m)' = PTransfers(m)
                     /\ PNotifies(m)' = PNotifies(m)
<1>1. InBlocks' = InBlocks BY DEF InBlocks
<1>2. InDraft' = InDraft BY DEF InDraft
<1>3. Pending' = Pending BY <1>1, <1>2 DEF Pending
<1> QED BY <1>1, <1>2, <1>3 DEF PSendings, PTransfers, PNotifies

\* Withdrawal m had already taken what it took.
KeptPaid(m) ==
    /\ m \in RowMemos /\ Paid(m)
    /\ rows'[m].from = rows[m].from /\ rows'[m].sinceLt = rows[m].sinceLt

\* A step that publishes no balances, and in which no transfer enters a block.
LEMMA PublishedSame ==
    ASSUME IInv, UNCHANGED balance, \A d, lt : Newer(d, lt) => Newer(d, lt)',
           \A m \in RowMemos' : Paid(m)' => KeptPaid(m)
    PROVE  PublishedInv'
<1>1. \A d \in Deposits : balance'[d] > 0 => Newer(d, Null)' BY DEF IInv, PublishedInv
<1>2. ASSUME NEW m \in RowMemos', Paid(m)', balance'[rows'[m].from] > 0
      PROVE  Newer(rows[m].from, rows[m].sinceLt)'
  <2>1. KeptPaid(m) BY <1>2
  <2>2. Newer(rows[m].from, rows[m].sinceLt) BY <1>2, <2>1 DEF IInv, PublishedInv, KeptPaid
  <2>3. Newer(rows'[m].from, rows'[m].sinceLt)
    BY <2>1, <2>2 DEF KeptPaid
  <2>4. PICK d, lt : d = rows'[m].from /\ lt = rows'[m].sinceLt OBVIOUS
  <2>5. Newer(d, lt)' BY <2>3, <2>4
  <2> QED BY <2>4, <2>5 DEF Newer
<1> QED BY <1>1, <1>2 DEF PublishedInv

LEMMA CoreSame ==
    ASSUME IInv, UNCHANGED CoreVars
    PROVE  /\ BalanceInv' /\ TableInv' /\ OneLivePerDeposit' /\ AgeInv' /\ NamedInv' /\ FlowInv'
           /\ PublishedInv' /\ MoneyInv' /\ \A m : SameMemo(m)
           /\ \A d : Left(d)' = Left(d)
           /\ \A d, lt : Newer(d, lt)' <=> Newer(d, lt)
           /\ InBlocks' = InBlocks /\ InDraft' = InDraft /\ Pending' = Pending
           /\ SameRows /\ \A d : RowsOf(d)' = RowsOf(d)
<1> USE DEF IInv, CoreVars
<1>1. /\ InBlocks' = InBlocks /\ InDraft' = InDraft /\ Pending' = Pending
      /\ \A m : /\ PSendings(m)' = PSendings(m) /\ PTransfers(m)' = PTransfers(m)
                /\ PNotifies(m)' = PNotifies(m)
  BY PendingSame
<1>2. \A m : SameMemo(m) BY <1>1 DEF SameMemo
<1>3. RowMemos' = RowMemos /\ \A d : RowsOf(d)' = RowsOf(d) BY DEF RowsOf, RowMemos
<1>4. SameRows BY <1>3 DEF SameRows
<1>5. NamedInv' BY <1>1, <1>3 DEF NamedInv
<1>6. FlowInv'
  <2> SUFFICES ASSUME NEW m \in RowMemos PROVE Flow(m)' BY <1>3 DEF FlowInv, Flow
  <2>1. Flow(m) BY DEF FlowInv, Flow
  <2> QED BY <1>1, <1>2, <2>1, FlowFrame
<1>7. BalanceInv' BY DEF BalanceInv, Explained, InDraft, TakenIn, IncomesIn, Amount, RowsOf, RowMemos
<1>8. TableInv' BY <1>3 DEF TableInv
<1>9. OneLivePerDeposit' /\ AgeInv' BY <1>3 DEF OneLivePerDeposit, AgeInv, Live, TakenBack
<1>10. \A d : Left(d)' = Left(d) BY <1>1, <1>3 DEF Left, TakenIn, Amount
<1>11. \A d, lt : Newer(d, lt)' <=> Newer(d, lt) BY <1>1 DEF Newer
<1>12. MoneyInv'
  <2>1. \A d : FinishedOf(d)' = FinishedOf(d) BY <1>3 DEF FinishedOf
  <2>2. \A d : ReceivedOf(d)' = ReceivedOf(d) BY <1>1, <2>1 DEF ReceivedOf
  <2>3. ScannedBalance' = ScannedBalance BY DEF ScannedBalance
  <2> QED BY <2>1, <2>2, <2>3 DEF MoneyInv, Amount
<1>13. PublishedInv'
  <2>1. \A m \in RowMemos' : Paid(m)' => KeptPaid(m) BY <1>1, <1>3 DEF Paid, KeptPaid
  <2> QED BY <1>11, <2>1, PublishedSame
<1> QED BY <1>1, <1>2, <1>3, <1>4, <1>5, <1>6, <1>7, <1>8, <1>9, <1>10, <1>11, <1>12, <1>13

-----------------------------------------------------------------------------
(* Steps of the processors that do not write the tables *)

LEMMA QuietStep ==
    ASSUME IInv, UNCHANGED <<CoreVars, incomes, foreign, now>>,
           tasks' \subseteq [from : Deposits, lt : Nat],
           taken' \subseteq [from : Deposits, lt : Nat, amount : Nat],
           sent' \subseteq [until : Nat, memos : SUBSET Nat],
           until' \in Nat, syncedAt' \in Nat, memos' \subseteq RowMemos,
           ppc' \in {"waitSync", "sleep", "loop", "save"}, epc' \in {"waitSync", "expire"},
           LoopInv', MessageInv', TaskInv', HeldInv'
    PROVE  IInv'
<1> USE DEF IInv
<1>1. /\ BalanceInv' /\ TableInv' /\ OneLivePerDeposit' /\ AgeInv' /\ NamedInv' /\ FlowInv'
      /\ PublishedInv' /\ MoneyInv'
  BY CoreSame
<1>2. TypeOK' BY DEF TypeOK, CoreVars, RowMemos
<1>3. ShapeInv' BY DEF ShapeInv, CoreVars
<1>4. OrderInv' BY PendingSame DEF OrderInv, CoreVars
<1> QED BY <1>1, <1>2, <1>3, <1>4

\* Fewer tasks and balances are held.
LEMMA TaskShrink ==
    ASSUME IInv, UNCHANGED CoreVars, tasks' \subseteq tasks, taken' \subseteq taken
    PROVE  TaskInv' /\ HeldInv'
<1> USE DEF IInv
<1>1. TaskInv' BY CoreSame DEF TaskInv, Live, TakenBack, CoreVars
<1>3. ASSUME NEW m \in RowMemos', Left(rows[m].from)' > (IF Gone(m)' THEN 0 ELSE asked'[m])
      PROVE  Newer(rows[m].from, rows[m].sinceLt)'
  <2>1. m \in RowMemos /\ rows'[m] = rows[m] /\ asked' = asked BY DEF CoreVars, RowMemos
  <2>2. Gone(m)' <=> Gone(m) BY CoreSame, GoneFrame
  <2> QED BY <1>3, <2>1, <2>2, CoreSame DEF HeldInv
<1>4. \A w \in taken' : Left(w.from)' > w.amount => Newer(w.from, w.lt)' BY CoreSame DEF HeldInv
<1> QED BY <1>1, <1>3, <1>4 DEF HeldInv

\* Messages that were there stay what they are.
LEMMA MessageSame ==
    ASSUME IInv, UNCHANGED CoreVars, now' \in Nat, now <= now', NEW S, NEW t \in Nat, InMessage(S, t)
    PROVE  InMessage(S, t)'
<1> SUFFICES ASSUME NEW m \in S
             PROVE  /\ m \in RowMemos' /\ Unsent(m)' /\ rows'[m].expiredAt = t
                    /\ rows'[m].failed => t < now'
  BY DEF InMessage
<1>1. m \in RowMemos /\ Unsent(m) /\ rows[m].expiredAt = t /\ (rows[m].failed => t < now)
  BY DEF InMessage
<1>2. Unsent(m)' BY <1>1, CoreSame, UnsentFrame
<1>3. m \in RowMemos' /\ rows' = rows BY <1>1 DEF CoreVars, RowMemos
<1>4. now \in Nat BY DEF IInv, TypeOK
<1>5. t < now => t < now' BY <1>4
<1>6. rows'[m].failed => t < now' BY <1>1, <1>3, <1>5, Zenon
<1> QED BY <1>1, <1>2, <1>3, <1>6

\* Nothing is sent; the message in hand is kept or forgotten.
LEMMA MessagesKept ==
    ASSUME IInv, UNCHANGED CoreVars, sent' \subseteq sent, now' \in Nat, now <= now',
           memos' = {} \/ (memos' = memos /\ until' = until)
    PROVE  MessageInv'
<1> USE DEF IInv
<1>1. ASSUME NEW g \in sent' PROVE InMessage(g.memos, g.until)' /\ g.memos \cap memos' = {}
  <2>1. g \in sent /\ g.until \in Nat BY DEF ShapeInv
  <2>2. InMessage(g.memos, g.until) /\ g.memos \cap memos = {} BY <2>1 DEF MessageInv
  <2>3. InMessage(g.memos, g.until)' BY <2>1, <2>2, MessageSame
  <2> QED BY <2>2, <2>3
<1>2. InMessage(memos, until)'
  <2>1. CASE memos' = {} BY <2>1 DEF InMessage
  <2>2. CASE memos' = memos /\ until' = until
    <3>1. InMessage(memos, until) /\ until \in Nat BY DEF MessageInv, ShapeInv
    <3> QED BY <2>2, <3>1, MessageSame DEF InMessage
  <2> QED BY <2>1, <2>2
<1> QED BY <1>1, <1>2 DEF MessageInv

LEMMA ProcessorSyncedStep ==
    ASSUME IInv, ProcessorSynced PROVE IInv'
<1> USE DEF IInv
<1>1. /\ ppc = "waitSync" /\ ppc' = "sleep" /\ UNCHANGED <<CoreVars, incomes, foreign, now>>
      /\ UNCHANGED <<tasks, taken, memos, until, epc, syncedAt, sent>>
  BY DEF ProcessorSynced, dbVars, expVars, chainVars, CoreVars
<1>2. LoopInv' BY <1>1 DEF LoopInv
<1>3. now' \in Nat /\ now <= now' BY <1>1 DEF TypeOK
<1>4. MessageInv' BY <1>1, <1>3, MessagesKept
<1>5. TaskInv' /\ HeldInv' BY <1>1, TaskShrink
<1> QED BY <1>1, <1>2, <1>4, <1>5, QuietStep DEF ShapeInv, TypeOK

LEMMA BuildMessageStep ==
    ASSUME IInv, BuildMessage PROVE IInv'
<1> USE DEF IInv
<1>1. /\ ppc = "loop" /\ tasks = {} /\ UNCHANGED <<CoreVars, incomes, foreign, now>>
      /\ UNCHANGED <<tasks, taken, memos, epc, syncedAt, sent>>
      /\ \/ taken = {} /\ ppc' = "waitSync" /\ until' = until
         \/ ppc' = "save" /\ until' = now + Lifetime
  BY DEF BuildMessage, dbVars, expVars, chainVars, CoreVars
<1>2. LoopInv' BY <1>1 DEF LoopInv
<1>3. now' \in Nat /\ now <= now' /\ until' \in Nat
  <2>1. now \in Nat /\ until \in Nat /\ now' = now BY <1>1 DEF TypeOK, ShapeInv
  <2>2. PICK t \in Nat, l \in Nat : t = now /\ l = Lifetime BY <2>1, ConstantsAssumption
  <2>3. until' \in {until, t + l} BY <1>1, <2>2
  <2> HIDE DEF IInv
  <2>4. t + l \in Nat /\ t <= t BY <2>2
  <2> QED BY <2>1, <2>2, <2>3, <2>4
<1>4. memos' = {} BY <1>1 DEF LoopInv
<1>5. MessageInv' BY <1>1, <1>3, <1>4, MessagesKept
<1>6. TaskInv' /\ HeldInv' BY <1>1, TaskShrink
<1> QED BY <1>1, <1>2, <1>3, <1>4, <1>5, <1>6, QuietStep DEF ShapeInv, TypeOK

LEMMA ExpirationSyncedStep ==
    ASSUME IInv, ExpirationSynced PROVE IInv'
<1> USE DEF IInv
<1>1. /\ epc' = "expire" /\ syncedAt' = now /\ UNCHANGED <<CoreVars, incomes, foreign, now>>
      /\ UNCHANGED <<ppc, tasks, taken, memos, until, sent>>
  BY DEF ExpirationSynced, dbVars, procVars, chainVars, CoreVars
<1>2. LoopInv' BY <1>1 DEF LoopInv
<1>3. now' \in Nat /\ now <= now' /\ syncedAt' \in Nat BY <1>1 DEF TypeOK
<1>4. MessageInv' BY <1>1, <1>3, MessagesKept
<1>5. TaskInv' /\ HeldInv' BY <1>1, TaskShrink
<1> QED BY <1>1, <1>2, <1>3, <1>4, <1>5, QuietStep DEF ShapeInv, TypeOK

LEMMA RestartStep ==
    ASSUME IInv, Restart PROVE IInv'
<1> USE DEF IInv
<1>1. /\ ppc' = "waitSync" /\ epc' = "waitSync" /\ UNCHANGED <<CoreVars, incomes, foreign, now>>
      /\ tasks' = {} /\ taken' = {} /\ memos' = {} /\ until' = 0 /\ syncedAt' = 0 /\ sent' = sent
  BY DEF Restart, dbVars, chainVars, CoreVars, Null
<1>2. LoopInv' BY <1>1 DEF LoopInv
<1>3. now' \in Nat /\ now <= now' BY <1>1 DEF TypeOK
<1>4. MessageInv' BY <1>1, <1>3, MessagesKept
<1>5. TaskInv' /\ HeldInv' BY <1>1, TaskShrink
<1> QED BY <1>1, <1>2, <1>4, <1>5, QuietStep DEF ShapeInv, TypeOK

\* The message in hand is sent, or lost.
LEMMA SendMessageStep ==
    ASSUME IInv, SendMessage PROVE IInv'
<1> USE DEF IInv
<1> DEFINE g == [until |-> until, memos |-> memos]
<1>1. /\ ppc' = "waitSync" /\ ppc = "save" /\ taken = {} /\ UNCHANGED <<CoreVars, incomes, foreign, now>>
      /\ UNCHANGED <<tasks, taken, epc, syncedAt>> /\ memos' = {} /\ until' = 0
      /\ (sent' = sent \/ sent' = sent \cup {g})
  BY DEF SendMessage, dbVars, expVars, chainVars, CoreVars, Null
<1>2. LoopInv' BY <1>1 DEF LoopInv
<1>3. now' \in Nat /\ now <= now' BY <1>1 DEF TypeOK
<1>4. TaskInv' /\ HeldInv' BY <1>1, TaskShrink
<1>5. g \in [until : Nat, memos : SUBSET Nat]
  <2>1. memos \subseteq Nat BY RowFacts DEF TypeOK
  <2> QED BY <2>1 DEF ShapeInv
<1>6. g.until = until /\ g.memos = memos OBVIOUS
<1> HIDE DEF g
<1>7. MessageInv'
  <2>1. CASE sent' = sent BY <1>1, <1>3, <2>1, MessagesKept
  <2>2. CASE sent' = sent \cup {g}
    <3>1. InMessage({}, until)' BY DEF InMessage
    <3>2. ASSUME NEW h \in sent' PROVE InMessage(h.memos, h.until)'
      <4>1. h.until \in Nat /\ InMessage(h.memos, h.until)
        BY <1>5, <1>6, <2>2 DEF MessageInv, ShapeInv
      <4> QED BY <1>1, <1>3, <4>1, MessageSame
    <3>3. \A h, k \in sent' : h.memos \cap k.memos # {} => h = k BY <1>6, <2>2 DEF MessageInv
    <3>4. InMessage(memos, until)' BY <1>1 DEF InMessage
    <3> QED BY <1>1, <3>2, <3>3, <3>4 DEF MessageInv
  <2> QED BY <1>1, <2>1, <2>2
<1> QED BY <1>1, <1>2, <1>4, <1>5, <1>7, QuietStep DEF ShapeInv, TypeOK

\* The rows that GetJettonInternalWithdrawalTasks joins.
LEMMA LatestFacts ==
    ASSUME TypeOK, NEW d
    PROVE  /\ \A m \in LatestRows(d) : /\ m \in RowsOf(d)
                                       /\ \A n \in RowsOf(d) : ~rows[n].failed
                                             => rows[n].sinceLt <= rows[m].sinceLt
           /\ (\E n \in RowsOf(d) : ~rows[n].failed)
                 => \E m \in LatestRows(d) : ~rows[m].failed
<1> DEFINE alive == {n \in RowsOf(d) : ~rows[n].failed}
           f == [n \in alive |-> rows[n].sinceLt]
           since == {rows[m].sinceLt : m \in alive}
<1>1. IsFiniteSet(alive)
  <2>1. IsFiniteSet(Memos) /\ alive \subseteq Memos BY RowFacts
  <2> QED BY <2>1, FS_Subset
<1>2. IsFiniteSet(since)
  <2>1. IsFiniteSet({f[m] : m \in alive}) BY <1>1, FiniteImage
  <2>2. since = {f[m] : m \in alive} OBVIOUS
  <2> QED BY <2>1, <2>2
<1>3. since \in SUBSET Int BY RowFacts
<1>4. LatestRows(d) = {m \in RowsOf(d) : since # {} /\ rows[m].sinceLt = Max(since)}
  BY DEF LatestRows
<1>5. since # {} => Max(since) \in since /\ \A x \in since : x <= Max(since)
  <2> HIDE DEF since
  <2> QED BY <1>2, <1>3, MaxExists
<1>6. ASSUME NEW m \in LatestRows(d), NEW n \in RowsOf(d), ~rows[n].failed
      PROVE  rows[n].sinceLt <= rows[m].sinceLt
  <2>1. rows[m].sinceLt = Max(since) /\ since # {} BY <1>4
  <2>2. rows[n].sinceLt \in since BY <1>6
  <2> HIDE DEF since
  <2> QED BY <1>5, <2>1, <2>2
<1>7. ASSUME NEW n \in RowsOf(d), ~rows[n].failed
      PROVE  \E m \in LatestRows(d) : ~rows[m].failed
  <2>1. since # {} BY <1>7
  <2>2. PICK m \in alive : rows[m].sinceLt = Max(since) BY <1>5, <2>1
  <2> QED BY <1>4, <2>1, <2>2
<1> QED BY <1>4, <1>6, <1>7

\* A task has no withdrawal under way, and an income that no finished withdrawal
\* was made for, unless a finished one was failed.
LEMMA TaskQuery ==
    ASSUME IInv, NEW d \in JettonTasks, ~TakenBack(d), NEW m \in RowsOf(d)
    PROVE  ~Live(m) /\ (rows[m].finishLt # Null => rows[m].sinceLt < lastIncome[d])
<1> USE DEF IInv
<1>1. m \in RowMemos /\ rows[m].from = d BY DEF RowsOf
<1>2. /\ rows[m].sinceLt \in Nat /\ d \in Deposits /\ lastIncome[d] \in Nat
      /\ rows[m].finishLt # Null => ~rows[m].failed
  BY <1>1, RowFacts DEF TypeOK, TakenBack
<1>3. CASE LatestRows(d) = {}
  <2>1. rows[m].failed BY <1>3, LatestFacts
  <2> QED BY <1>2, <2>1 DEF Live
<1>4. CASE \E n \in LatestRows(d) : rows[n].finishLt # Null /\ lastIncome[d] > rows[n].sinceLt
  <2>1. PICK n \in LatestRows(d) : rows[n].finishLt # Null /\ lastIncome[d] > rows[n].sinceLt
    BY <1>4
  <2>2. n \in RowsOf(d) /\ (~rows[m].failed => rows[m].sinceLt <= rows[n].sinceLt) BY LatestFacts
  <2>3. n \in RowMemos /\ rows[n].from = d /\ rows[n].sinceLt \in Nat BY <2>2, RowFacts DEF RowsOf
  <2>4. Live(m) => rows[n].sinceLt < rows[m].sinceLt /\ ~rows[m].failed
    BY <1>1, <2>1, <2>3 DEF AgeInv, Live
  <2>5. ~Live(m) BY <1>2, <2>2, <2>3, <2>4
  <2>6. rows[m].finishLt # Null => rows[m].sinceLt <= rows[n].sinceLt BY <1>2, <2>2
  <2>7. rows[m].finishLt # Null => rows[m].sinceLt < lastIncome[d] BY <1>2, <2>1, <2>3, <2>6
  <2> QED BY <2>5, <2>7
<1> QED BY <1>3, <1>4 DEF JettonTasks

LEMMA GetTasksStep ==
    ASSUME IInv, NEW S \in SUBSET JettonTasks, GetTasks(S) PROVE IInv'
<1> USE DEF IInv
<1>1. /\ ppc = "sleep" /\ UNCHANGED <<CoreVars, incomes, foreign, now>>
      /\ UNCHANGED <<taken, memos, until, epc, syncedAt, sent>>
      /\ tasks' = {[from |-> d, lt |-> lastIncome[d]] : d \in S}
      /\ (S = {} /\ ppc' = "waitSync") \/ ppc' = "loop"
  BY DEF GetTasks, dbVars, expVars, chainVars, CoreVars
<1>2. taken = {} /\ memos = {} BY <1>1 DEF LoopInv
<1>3. LoopInv' BY <1>1, <1>2 DEF LoopInv
<1>4. now' \in Nat /\ now <= now' BY <1>1 DEF TypeOK
<1>5. MessageInv' BY <1>1, <1>4, MessagesKept
<1>6. \A a \in tasks' : a.from \in S /\ a.lt = lastIncome[a.from]
                        /\ a = [from |-> a.from, lt |-> lastIncome[a.from]]
  BY <1>1
<1>7. tasks' \subseteq [from : Deposits, lt : Nat] BY <1>1 DEF JettonTasks, TypeOK
<1>8. TaskInv'
  <2>1. \A a, b \in tasks' : a.from = b.from => a = b BY <1>6
  <2>2. ASSUME NEW a \in tasks'
        PROVE  /\ a.lt <= 2 * scanTime' + 1
               /\ ~TakenBack(a.from)' =>
                     \A m \in RowsOf(a.from)' :
                         ~Live(m)' /\ (rows'[m].finishLt # Null => rows'[m].sinceLt < a.lt)
    <3>1. a.from \in JettonTasks /\ a.from \in Deposits /\ a.lt = lastIncome[a.from]
      BY <1>6 DEF JettonTasks
    <3>2. a.lt <= 2 * scanTime + 1 BY <3>1 DEF TableInv
    <3>3. ~TakenBack(a.from) =>
            \A m \in RowsOf(a.from) : ~Live(m) /\ (rows[m].finishLt # Null => rows[m].sinceLt < a.lt)
      BY <3>1, TaskQuery
    <3> QED BY <1>1, <3>2, <3>3 DEF CoreVars, RowsOf, RowMemos, Live, TakenBack
  <2> QED BY <1>1, <1>2, <2>1, <2>2 DEF TaskInv
<1>9. HeldInv'
  <2>2. ASSUME NEW m \in RowMemos', Left(rows[m].from)' > (IF Gone(m)' THEN 0 ELSE asked'[m])
        PROVE  Newer(rows[m].from, rows[m].sinceLt)'
    <3>1. m \in RowMemos /\ rows'[m] = rows[m] /\ asked' = asked BY <1>1 DEF CoreVars, RowMemos
    <3>2. Gone(m)' <=> Gone(m) BY <1>1, CoreSame, GoneFrame
    <3> QED BY <1>1, <2>2, <3>1, <3>2, CoreSame DEF HeldInv
  <2> QED BY <1>1, <1>2, <2>2 DEF HeldInv
<1> QED BY <1>1, <1>3, <1>5, <1>7, <1>8, <1>9, QuietStep DEF ShapeInv, TypeOK

\* What is left of a balance after the transfers of the draft is not more than it.
LEMMA LeftFacts ==
    ASSUME IInv, NEW d \in Deposits
    PROVE  /\ Left(d) \in Int /\ Left(d) <= balance[d] /\ balance[d] \in Nat
           /\ Amount(TakenIn(InDraft, d)) \in Nat
           /\ TakenIn(InDraft, d) = {} => Left(d) = balance[d]
<1> USE DEF IInv
<1>1. balance[d] \in Nat BY DEF TypeOK
<1>2. TakenIn(InDraft, d) \subseteq Memos BY RowFacts DEF TakenIn
<1>3. Amount(TakenIn(InDraft, d)) \in Nat BY <1>2, AmountFacts DEF ShapeInv
<1>4. Amount({}) = 0 BY AmountFacts DEF ShapeInv
<1> QED BY <1>1, <1>3, <1>4 DEF Left

\* A withdrawal takes the whole published balance, so only a later income leaves
\* more than it takes.
LEMMA ReadBalanceStep ==
    ASSUME IInv, NEW task \in tasks, ReadBalance(task) PROVE IInv'
<1> USE DEF IInv
<1> DEFINE w == [from |-> task.from, lt |-> task.lt, amount |-> balance[task.from]]
<1>1. /\ ppc = "loop" /\ UNCHANGED <<CoreVars, incomes, foreign, now>>
      /\ UNCHANGED <<ppc, memos, until, epc, syncedAt, sent>>
      /\ tasks' = tasks \ {task}
      /\ taken' = taken \/ taken' = taken \cup {w}
  BY DEF ReadBalance, dbVars, expVars, chainVars, CoreVars
<1>2. LoopInv' BY <1>1 DEF LoopInv
<1>3. now' \in Nat /\ now <= now' BY <1>1 DEF TypeOK
<1>4. MessageInv' BY <1>1, <1>3, MessagesKept
<1>5. task.from \in Deposits /\ task.lt \in Nat /\ balance[task.from] \in Nat
  BY DEF ShapeInv, TypeOK
<1>6. /\ w \in [from : Deposits, lt : Nat, amount : Nat]
      /\ w.from = task.from /\ w.lt = task.lt /\ w.amount = balance[task.from]
  BY <1>5
<1> HIDE DEF w
<1>7. taken' \subseteq [from : Deposits, lt : Nat, amount : Nat] BY <1>1, <1>6 DEF ShapeInv
<1>8. CASE taken' = taken
  <2>1. TaskInv' /\ HeldInv' BY <1>1, <1>8, TaskShrink
  <2> QED BY <1>1, <1>2, <1>4, <1>7, <2>1, QuietStep DEF ShapeInv, TypeOK
<1>9. CASE taken' = taken \cup {w}
  <2>1. TaskInv'
    <3>1. \A a, b \in tasks' : a.from = b.from => a = b BY <1>1 DEF TaskInv
    <3>2. \A a, b \in taken' : a.from = b.from => a = b BY <1>6, <1>9 DEF TaskInv
    <3>3. \A a \in tasks', b \in taken' : a.from # b.from BY <1>1, <1>6, <1>9 DEF TaskInv
    <3>4. ASSUME NEW a \in tasks' \cup taken'
          PROVE  /\ a.lt <= 2 * scanTime' + 1
                 /\ ~TakenBack(a.from)' =>
                       \A m \in RowsOf(a.from)' :
                           ~Live(m)' /\ (rows'[m].finishLt # Null => rows'[m].sinceLt < a.lt)
      <4>1. PICK c \in tasks \cup taken : c.from = a.from /\ c.lt = a.lt BY <1>1, <1>6, <1>9
      <4>2. /\ c.lt <= 2 * scanTime + 1
            /\ ~TakenBack(c.from) =>
                  \A m \in RowsOf(c.from) : ~Live(m) /\ (rows[m].finishLt # Null => rows[m].sinceLt < c.lt)
        BY DEF TaskInv
      <4> QED BY <1>1, <4>1, <4>2 DEF CoreVars, RowsOf, RowMemos, Live, TakenBack
    <3> QED BY <3>1, <3>2, <3>3, <3>4 DEF TaskInv
  <2>2. HeldInv'
    <3>2. ASSUME NEW m \in RowMemos', Left(rows[m].from)' > (IF Gone(m)' THEN 0 ELSE asked'[m])
          PROVE  Newer(rows[m].from, rows[m].sinceLt)'
      <4>1. m \in RowMemos /\ rows'[m] = rows[m] /\ asked' = asked BY <1>1 DEF CoreVars, RowMemos
      <4>2. Gone(m)' <=> Gone(m) BY <1>1, CoreSame, GoneFrame
      <4> QED BY <1>1, <3>2, <4>1, <4>2, CoreSame DEF HeldInv
    <3>3. ASSUME NEW v \in taken', Left(v.from)' > v.amount PROVE Newer(v.from, v.lt)'
      <4>1. Left(v.from) > v.amount BY <1>1, <3>3, CoreSame
      <4>2. v # w
        <5>1. Left(task.from) \in Int /\ Left(task.from) <= balance[task.from] BY <1>5, LeftFacts
        <5>2. ~(Left(w.from) > w.amount) BY <1>5, <1>6, <5>1
        <5> QED BY <4>1, <5>2
      <4>3. Newer(v.from, v.lt) BY <1>9, <4>1, <4>2 DEF HeldInv
      <4> QED BY <1>1, <4>3, CoreSame
    <3> QED BY <3>2, <3>3 DEF HeldInv
  <2> QED BY <1>1, <1>2, <1>4, <1>7, <2>1, <2>2, QuietStep DEF ShapeInv, TypeOK
<1> QED BY <1>1, <1>8, <1>9

LEMMA TickStep ==
    ASSUME IInv, Tick PROVE IInv'
<1> USE DEF IInv
<1>1. /\ draft.txs = <<>> /\ now' = now + 1 /\ UNCHANGED <<CoreVars, incomes, foreign>>
      /\ UNCHANGED <<ppc, tasks, taken, memos, until, epc, syncedAt>> /\ sent' \subseteq sent
  BY DEF Tick, dbVars, procVars, expVars, chainVars, CoreVars
<1>2. now' \in Nat /\ now <= now' /\ now \in Nat BY <1>1 DEF TypeOK
<1>3. LoopInv' BY <1>1 DEF LoopInv
<1>4. MessageInv' BY <1>1, <1>2, MessagesKept
<1>5. TaskInv' /\ HeldInv' BY <1>1, TaskShrink
<1>6. /\ BalanceInv' /\ TableInv' /\ OneLivePerDeposit' /\ AgeInv' /\ NamedInv' /\ FlowInv'
      /\ PublishedInv' /\ MoneyInv'
  BY <1>1, CoreSame
<1>7. TypeOK' BY <1>1, <1>2 DEF TypeOK, CoreVars, RowMemos
<1>8. ShapeInv' BY <1>1 DEF ShapeInv, CoreVars
<1>9. OrderInv'
  <2>1. InDraft = {} BY <1>1, RangeFacts, BlockFacts DEF InDraft
  <2>2. InDraft' = {} /\ InBlocks' = InBlocks /\ Pending' = Pending
    BY <1>1, <2>1, PendingSame DEF CoreVars
  <2>3. chainTime <= now' BY <1>1, <1>2 DEF OrderInv, ShapeInv
  <2> QED BY <1>1, <2>2, <2>3 DEF OrderInv, CoreVars
<1> QED BY <1>3, <1>4, <1>5, <1>6, <1>7, <1>8, <1>9

-----------------------------------------------------------------------------
(* Steps of the processors that write rows *)

\* The chain and the incomes stay, saved withdrawals keep deposit and amount.
LEMMA ChainSame ==
    ASSUME IInv, SameRows, UNCHANGED <<draft, unscanned, balance, lastIncome, claimed>>
    PROVE  /\ BalanceInv' /\ NamedInv'
           /\ \A d : Left(d)' = Left(d)
           /\ \A d, lt : Newer(d, lt)' <=> Newer(d, lt)
<1> USE DEF IInv
<1>1. InBlocks' = InBlocks /\ InDraft' = InDraft /\ Pending' = Pending BY PendingSame
<1>2. NamedInv' BY <1>1 DEF NamedInv, SameRows
<1>3. Named(Pending) BY DEF NamedInv, Named
<1>4. Named(InDraft) /\ \A i \in DOMAIN unscanned : Named(Range(unscanned[i].txs))
  BY <1>3 DEF Named, Pending, InBlocks
<1>5. ASSUME NEW i \in DOMAIN unscanned
      PROVE  Explained(Range(unscanned[i].txs), unscanned[i].before, unscanned[i].after)'
  <2> DEFINE X == Range(unscanned[i].txs)
             p == unscanned[i].before
             q == unscanned[i].after
  <2>1. Named(X) /\ Explained(X, p, q) BY <1>4 DEF BalanceInv
  <2>2. X' = X /\ p' = p /\ q' = q OBVIOUS
  <2> HIDE DEF X, p, q
  <2>3. \A d \in Deposits : /\ TakenIn(X, d)' = TakenIn(X, d)
                            /\ Amount(TakenIn(X, d))' = Amount(TakenIn(X, d))
    BY <2>1, <2>2, TakenSame
  <2>4. Explained(X, p, q)' BY <2>1, <2>2, <2>3 DEF Explained, IncomesIn
  <2> QED BY <2>4 DEF X, p, q
<1>6. \A d : Amount(TakenIn(InDraft, d))' = Amount(TakenIn(InDraft, d))
  BY <1>1, <1>4, TakenSame DEF Amount, TakenIn
<1>7. Explained(InDraft, balance, draft.balance)' BY <1>1, <1>6 DEF BalanceInv, Explained, IncomesIn
<1>8. BalanceInv' BY <1>5, <1>7 DEF BalanceInv
<1>9. \A d : Left(d)' = Left(d) BY <1>6 DEF Left
<1>10. \A d, lt : Newer(d, lt)' <=> Newer(d, lt) BY <1>1 DEF Newer
<1> QED BY <1>2, <1>8, <1>9, <1>10

\* A row that exists when its message is built: nothing of it is on the chain.
LEMMA SaveStep ==
    ASSUME IInv, NEW w \in taken, SaveInternalWithdrawalTask(w) PROVE IInv'
<1> USE DEF IInv
<1>0. PICK k \in Nat : k = lastMemo + 1 BY DEF TypeOK
<1> DEFINE r == [from |-> w.from, sinceLt |-> w.lt, expiredAt |-> until, failed |-> FALSE,
                 sendingLt |-> 0, finishLt |-> 0, amount |-> 0]
<1>1. /\ ppc = "save" /\ lastMemo < MaxMemos /\ lastMemo' = k
      /\ rows' = [rows EXCEPT ![k] = r] /\ asked' = [asked EXCEPT ![k] = w.amount]
      /\ taken' = taken \ {w} /\ memos' = memos \cup {k}
      /\ UNCHANGED <<lastIncome, income, internalIncome, scanTime, ppc, tasks, until, epc, syncedAt>>
      /\ UNCHANGED <<sent, proxied, moved, balance, draft, unscanned, chainTime, incomes, now>>
      /\ UNCHANGED <<foreign, claimed>>
  BY <1>0 DEF SaveInternalWithdrawalTask, expVars, Null
<1>2. w.from \in Deposits /\ w.lt \in Nat /\ w.amount \in Nat /\ until \in Nat BY DEF ShapeInv
<1>3. r \in Row BY <1>2 DEF Row
<1>4. /\ r.from = w.from /\ r.sinceLt = w.lt /\ r.expiredAt = until /\ r.failed = FALSE
      /\ r.sendingLt = 0 /\ r.finishLt = 0 /\ r.amount = 0
  OBVIOUS
<1> HIDE DEF r
<1>5. /\ k \in Memos /\ k \notin RowMemos /\ RowMemos' = RowMemos \cup {k} /\ k \in Nat
      /\ lastMemo' \in 0..MaxMemos
  <2>1. lastMemo \in 0..MaxMemos /\ MaxMemos \in Nat BY ConstantsAssumption DEF TypeOK
  <2>2. k \in 1..MaxMemos /\ k \notin 1..lastMemo /\ 1..k = (1..lastMemo) \cup {k} /\ k \in 0..MaxMemos
    BY <1>0, <1>1, <2>1
  <2> QED BY <1>1, <2>2 DEF Memos, RowMemos
<1>6. rows = [m \in Memos |-> rows[m]] /\ asked \in [Memos -> Nat] /\ RowMemos \subseteq Memos
  BY RowFacts DEF ShapeInv
<1>7. /\ rows' = [m \in Memos |-> rows'[m]] /\ asked' \in [Memos -> Nat]
      /\ rows'[k] = r /\ asked'[k] = w.amount
      /\ \A m \in RowMemos : rows'[m] = rows[m] /\ asked'[m] = asked[m]
  <2>1. rows' = [m \in Memos |-> IF m = k THEN r ELSE rows[m]] BY <1>1, <1>6
  <2> QED BY <1>1, <1>2, <1>5, <1>6, <2>1
<1>8. SameRows BY <1>5, <1>7 DEF SameRows
<1>9. /\ InBlocks' = InBlocks /\ InDraft' = InDraft /\ Pending' = Pending
      /\ \A m : /\ PSendings(m)' = PSendings(m) /\ PTransfers(m)' = PTransfers(m)
                /\ PNotifies(m)' = PNotifies(m)
  BY <1>1, PendingSame
<1>10. /\ PSendings(k) = {} /\ PTransfers(k) = {} /\ PNotifies(k) = {}
       /\ k \notin proxied /\ k \notin moved
  BY <1>5 DEF NamedInv, PSendings, PTransfers, PNotifies, TypeOK
<1>11. Unsent(k)' BY <1>1, <1>4, <1>7, <1>9, <1>10 DEF Unsent, Null
<1>12. \A m \in RowMemos : SameMemo(m) BY <1>1, <1>7, <1>9 DEF SameMemo
<1>13. /\ BalanceInv' /\ NamedInv' /\ \A d : Left(d)' = Left(d)
       /\ \A d, lt : Newer(d, lt)' <=> Newer(d, lt)
  BY <1>1, <1>8, ChainSame
<1>14. /\ w.lt <= 2 * scanTime + 1
       /\ ~TakenBack(w.from) =>
             \A m \in RowsOf(w.from) : ~Live(m) /\ (rows[m].finishLt # Null => rows[m].sinceLt < w.lt)
  BY DEF TaskInv
<1>15. \A m \in RowMemos : Live(m)' <=> Live(m) BY <1>7 DEF Live
<1>16. /\ RowsOf(w.from)' = RowsOf(w.from) \cup {k}
       /\ \A d : d # w.from => RowsOf(d)' = RowsOf(d)
  BY <1>4, <1>5, <1>7 DEF RowsOf
<1>30. \A d : TakenBack(d) => TakenBack(d)' BY <1>5, <1>7 DEF TakenBack, RowsOf
<1>17. TypeOK'
  <2>1. ASSUME NEW m \in RowMemos'
        PROVE  /\ rows'[m] \in Row
               /\ rows'[m].failed /\ m \notin claimed' => rows'[m].finishLt = Null /\ rows'[m].amount = 0
    <3>1. CASE m = k BY <1>3, <1>4, <1>7, <3>1, Zenon
    <3>2. CASE m \in RowMemos BY <1>1, <1>7, <3>2 DEF TypeOK, Row
    <3> QED BY <1>5, <3>1, <3>2
  <2>2. memos' \cup proxied' \cup moved' \subseteq RowMemos' BY <1>1, <1>5 DEF TypeOK
  <2> QED BY <1>1, <1>5, <2>1, <2>2 DEF TypeOK, Row
<1>18. ShapeInv' BY <1>1, <1>7 DEF ShapeInv
<1>19. LoopInv' BY <1>1 DEF LoopInv
<1>20. OrderInv' BY <1>1, <1>9 DEF OrderInv
<1>21. TableInv' BY <1>1, <1>4, <1>5, <1>7, <1>14 DEF TableInv
<1>22. TaskInv'
  <2>1. ASSUME NEW a \in tasks' \cup taken'
        PROVE  /\ a.lt <= 2 * scanTime' + 1
               /\ ~TakenBack(a.from)' =>
                     \A m \in RowsOf(a.from)' :
                         ~Live(m)' /\ (rows'[m].finishLt # Null => rows'[m].sinceLt < a.lt)
    <3>1. a \in tasks \cup taken /\ a.from # w.from BY <1>1 DEF TaskInv
    <3>2. RowsOf(a.from)' = RowsOf(a.from) BY <1>16, <3>1
    <3>3. \A m \in RowsOf(a.from) : m \in RowMemos BY DEF RowsOf
    <3> QED BY <1>1, <1>7, <1>15, <1>30, <3>1, <3>2, <3>3 DEF TaskInv
  <2> QED BY <1>1, <2>1 DEF TaskInv
<1>23. OneLivePerDeposit'
  <2> SUFFICES ASSUME NEW d \in Deposits, ~TakenBack(d)', NEW m \in RowsOf(d)', NEW n \in RowsOf(d)',
                      Live(m)', Live(n)'
               PROVE  m = n
    BY DEF OneLivePerDeposit
  <2>0. ~TakenBack(d) BY <1>30
  <2>1. CASE d = w.from
    <3>1. \A i \in RowsOf(d) : i \in RowMemos BY DEF RowsOf
    <3> QED BY <1>14, <1>15, <1>16, <2>0, <2>1, <3>1
  <2>2. CASE d # w.from
    <3>1. m \in RowsOf(d) /\ n \in RowsOf(d) BY <1>16, <2>2
    <3>2. Live(m) /\ Live(n) BY <1>15, <3>1 DEF RowsOf
    <3> QED BY <2>0, <3>1, <3>2 DEF OneLivePerDeposit
  <2> QED BY <2>1, <2>2
<1>24. AgeInv'
  <2> SUFFICES ASSUME NEW m \in RowMemos', NEW n \in RowMemos',
                      rows'[m].from = rows'[n].from, rows'[m].finishLt # Null, Live(n)',
                      ~TakenBack(rows[n].from)'
               PROVE  rows'[m].sinceLt < rows'[n].sinceLt
    BY DEF AgeInv
  <2>0. PICK d : d = rows'[n].from OBVIOUS
  <2>4. ~TakenBack(d)' BY <2>0 DEF TakenBack, RowsOf
  <2>5. ~TakenBack(rows'[n].from) BY <1>30, <2>0, <2>4
  <2>1. m \in RowMemos BY <1>4, <1>5, <1>7 DEF Null
  <2>2. CASE n = k
    <3>1. m \in RowsOf(w.from) BY <1>4, <1>7, <2>1, <2>2 DEF RowsOf
    <3> QED BY <1>4, <1>7, <1>14, <2>1, <2>2, <2>5, <3>1
  <2>3. CASE n \in RowMemos BY <1>7, <1>15, <2>1, <2>3, <2>5 DEF AgeInv
  <2> QED BY <1>5, <2>2, <2>3
<1>25. \A S, t : InMessage(S, t) => InMessage(S, t)'
  <2> SUFFICES ASSUME NEW S, NEW t, InMessage(S, t), NEW m \in S
               PROVE  /\ m \in RowMemos' /\ Unsent(m)' /\ rows'[m].expiredAt = t
                      /\ rows'[m].failed => t < now'
    BY DEF InMessage
  <2>1. m \in RowMemos /\ Unsent(m) /\ rows[m].expiredAt = t /\ (rows[m].failed => t < now)
    BY DEF InMessage
  <2>2. Unsent(m)' BY <1>12, <2>1, UnsentFrame
  <2> QED BY <1>1, <1>5, <1>7, <2>1, <2>2
<1>26. MessageInv'
  <2>1. InMessage(memos, until) /\ \A g \in sent : InMessage(g.memos, g.until) BY DEF MessageInv
  <2>2. \A g \in sent : InMessage(g.memos, g.until)' BY <1>25, <2>1
  <2>3. InMessage(memos, until)'
    <3> SUFFICES ASSUME NEW m \in memos'
                 PROVE  /\ m \in RowMemos' /\ Unsent(m)' /\ rows'[m].expiredAt = until'
                        /\ rows'[m].failed => until' < now'
      BY DEF InMessage
    <3>1. CASE m = k
      <4>1. ~rows'[k].failed /\ rows'[k].expiredAt = until' BY <1>1, <1>4, <1>7
      <4> QED BY <1>5, <1>11, <3>1, <4>1, Zenon
    <3>2. CASE m \in memos
      <4>1. m \in RowMemos /\ Unsent(m) /\ rows[m].expiredAt = until /\ (rows[m].failed => until < now)
        BY <2>1, <3>2 DEF InMessage
      <4>2. Unsent(m)' BY <1>12, <4>1, UnsentFrame
      <4> QED BY <1>1, <1>5, <1>7, <4>1, <4>2
    <3> QED BY <1>1, <3>1, <3>2
  <2>4. \A g \in sent : k \notin g.memos BY <1>5, <2>1 DEF InMessage
  <2>5. \A g \in sent : g.memos \cap memos' = {} BY <1>1, <2>4 DEF MessageInv
  <2> QED BY <1>1, <2>2, <2>3, <2>5 DEF MessageInv
<1>27. FlowInv'
  <2> SUFFICES ASSUME NEW m \in RowMemos' PROVE Flow(m)' BY DEF FlowInv, Flow
  <2>1. CASE m = k
    <3>1. /\ PSendings(m)' = {} /\ PTransfers(m)' = {} /\ PNotifies(m)' = {}
          /\ m \notin proxied' /\ m \notin moved'
          /\ rows'[m].sendingLt = 0 /\ rows'[m].finishLt = 0 /\ rows'[m].amount = 0
      BY <1>1, <1>4, <1>7, <1>9, <1>10, <2>1
    <3> QED BY <3>1 DEF Flow, SendingOK, TransferOK, NotifyOK, FinishOK, FailedOK, Null
  <2>2. CASE m \in RowMemos
    <3>1. Flow(m) /\ SameMemo(m) BY <1>12, <2>2 DEF FlowInv, Flow
    <3> QED BY <1>9, <3>1, FlowFrame
  <2> QED BY <1>5, <2>1, <2>2
<1>28. HeldInv'
  <2>2. ASSUME NEW m \in RowMemos', Left(rows[m].from)' > (IF Gone(m)' THEN 0 ELSE asked'[m])
        PROVE  Newer(rows[m].from, rows[m].sinceLt)'
    <3>1. CASE m = k
      <4>1. ~Gone(m)' BY <1>4, <1>7, <1>9, <1>10, <3>1 DEF Gone, Null
      <4>2. Left(w.from) > w.amount BY <1>4, <1>7, <1>13, <2>2, <3>1, <4>1
      <4>3. Newer(w.from, w.lt) BY <4>2 DEF HeldInv
      <4> QED BY <1>4, <1>7, <1>13, <3>1, <4>3
    <3>2. CASE m \in RowMemos
      <4>1. Gone(m)' <=> Gone(m) BY <1>12, <3>2, GoneFrame
      <4>2. rows'[m] = rows[m] /\ asked'[m] = asked[m] BY <1>7, <3>2
      <4> QED BY <1>13, <2>2, <3>2, <4>1, <4>2 DEF HeldInv
    <3> QED BY <1>5, <3>1, <3>2
  <2>3. \A v \in taken' : Left(v.from)' > v.amount => Newer(v.from, v.lt)' BY <1>1, <1>13 DEF HeldInv
  <2> QED BY <2>2, <2>3 DEF HeldInv
<1>31. PublishedInv'
  <2>1. ASSUME NEW m \in RowMemos', Paid(m)' PROVE KeptPaid(m)
    <3>1. m # k
      <4>1. ASSUME m = k PROVE FALSE
        <5>1. rows'[m].finishLt = Null BY <1>4, <1>7, <4>1 DEF Null
        <5>2. \E x \in InBlocks : x.kind = "transfer" /\ x.memo = k /\ x.success
          BY <1>9, <2>1, <4>1, <5>1 DEF Paid
        <5> QED BY <1>10, <5>2 DEF PTransfers, Pending
      <4> QED BY <4>1
    <3>2. m \in RowMemos BY <1>5, <3>1
    <3> QED BY <1>7, <1>9, <2>1, <3>2 DEF Paid, KeptPaid
  <2> QED BY <1>1, <1>13, <2>1, PublishedSame
<1>29. MoneyInv'
  <2> SUFFICES ASSUME NEW d \in Deposits
               PROVE  /\ income'[d] = ScannedBalance'[d] + Amount(FinishedOf(d))'
                      /\ internalIncome'[d] = Amount(ReceivedOf(d))'
    BY DEF MoneyInv
  <2>1. FinishedOf(d)' = FinishedOf(d)
    <3>1. rows'[k].finishLt = Null BY <1>4, <1>7 DEF Null
    <3> QED BY <1>5, <1>7, <3>1 DEF FinishedOf, RowsOf
  <2>2. ReceivedOf(d)' = ReceivedOf(d) BY <1>1, <1>9, <2>1 DEF ReceivedOf
  <2>3. FinishedOf(d) \subseteq RowMemos /\ ReceivedOf(d) \subseteq RowMemos
    BY DEF FinishedOf, ReceivedOf, RowsOf
  <2>4. Amount(FinishedOf(d))' = Amount(FinishedOf(d))
    BY <1>6, <1>7, <2>1, <2>3, AmountSame DEF Amount
  <2>5. Amount(ReceivedOf(d))' = Amount(ReceivedOf(d))
    BY <1>6, <1>7, <2>2, <2>3, AmountSame DEF Amount
  <2>6. ScannedBalance' = ScannedBalance BY <1>1 DEF ScannedBalance
  <2> QED BY <1>1, <2>4, <2>5, <2>6 DEF MoneyInv
<1> QED BY <1>13, <1>17, <1>18, <1>19, <1>20, <1>21, <1>22, <1>23, <1>24, <1>26, <1>27, <1>28, <1>29,
          <1>31

\* A row is given up: its message can no longer be executed, and if it was, the
\* transaction is in a block.
LEMMA SetExpiredStep ==
    ASSUME IInv, SetExpired PROVE IInv'
<1> USE DEF IInv
<1>1. /\ rows' = [m \in Memos |-> IF m \in Expired THEN [rows[m] EXCEPT !.failed = TRUE] ELSE rows[m]]
      /\ epc' = "waitSync" /\ syncedAt' = 0
      /\ UNCHANGED <<lastIncome, income, internalIncome, lastMemo, scanTime>>
      /\ UNCHANGED <<ppc, tasks, taken, memos, until>>
      /\ UNCHANGED <<sent, asked, proxied, moved, balance, draft, unscanned, chainTime, incomes, now>>
      /\ UNCHANGED <<foreign, claimed>>
  BY DEF SetExpired, procVars, chainVars, Null
<1>2. RowMemos \subseteq Memos /\ RowMemos' = RowMemos BY <1>1, RowFacts DEF RowMemos
<1>3. ASSUME NEW m \in RowMemos
      PROVE  /\ rows'[m] \in Row
             /\ rows'[m].from = rows[m].from /\ rows'[m].sinceLt = rows[m].sinceLt
             /\ rows'[m].expiredAt = rows[m].expiredAt /\ rows'[m].sendingLt = rows[m].sendingLt
             /\ rows'[m].finishLt = rows[m].finishLt /\ rows'[m].amount = rows[m].amount
             /\ rows[m].failed => rows'[m].failed
             /\ rows'[m].failed => rows[m].failed \/ m \in Expired
  <2>1. rows[m] \in Row BY RowFacts
  <2>2. CASE m \in Expired
    <3>1. rows'[m] = [rows[m] EXCEPT !.failed = TRUE] BY <1>1, <1>2, <2>2
    <3>2. rows'[m] \in Row /\ rows'[m].failed BY <2>1, <3>1 DEF Row
    <3>3. /\ rows'[m].from = rows[m].from /\ rows'[m].sinceLt = rows[m].sinceLt
          /\ rows'[m].expiredAt = rows[m].expiredAt /\ rows'[m].sendingLt = rows[m].sendingLt
          /\ rows'[m].finishLt = rows[m].finishLt /\ rows'[m].amount = rows[m].amount
      BY <2>1, <3>1 DEF Row
    <3> QED BY <2>2, <3>2, <3>3
  <2>3. CASE m \notin Expired
    <3>1. rows'[m] = rows[m] BY <1>1, <1>2, <2>3
    <3> QED BY <2>1, <3>1
  <2> QED BY <2>2, <2>3
<1>4. ASSUME NEW m \in Expired
      PROVE  /\ m \in RowMemos /\ rows[m].sendingLt = Null /\ rows[m].finishLt = Null
             /\ rows[m].amount = 0 /\ rows[m].expiredAt < now /\ rows[m].expiredAt \in Nat
  <2>1. m \in RowMemos /\ rows[m].sendingLt = Null /\ rows[m].expiredAt + Lag < now BY DEF Expired
  <2>2. rows[m].expiredAt \in Nat /\ now \in Nat /\ Lag \in Nat
    BY <2>1, RowFacts, ConstantsAssumption DEF TypeOK
  <2>3. rows[m].finishLt = Null /\ rows[m].amount = 0 BY <2>1 DEF FlowInv, FinishOK
  <2>4. rows[m].expiredAt < now BY <2>1, <2>2
  <2> QED BY <2>1, <2>2, <2>3, <2>4
<1>5. rows' = [m \in Memos |-> rows'[m]] BY <1>1
<1>6. SameRows BY <1>1, <1>2, <1>3 DEF SameRows
<1>7. /\ InBlocks' = InBlocks /\ InDraft' = InDraft /\ Pending' = Pending
      /\ \A m : /\ PSendings(m)' = PSendings(m) /\ PTransfers(m)' = PTransfers(m)
                /\ PNotifies(m)' = PNotifies(m)
  BY <1>1, PendingSame
<1>8. /\ BalanceInv' /\ NamedInv' /\ \A d : Left(d)' = Left(d)
      /\ \A d, lt : Newer(d, lt)' <=> Newer(d, lt)
  BY <1>1, <1>6, ChainSame
<1>9. \A m \in RowMemos : Live(m)' => Live(m) BY <1>3 DEF Live
<1>10. \A d : RowsOf(d)' = RowsOf(d) /\ RowsOf(d) \subseteq RowMemos BY <1>2, <1>3 DEF RowsOf
<1>11. \A m \in RowMemos : /\ Started(m)' <=> Started(m)
                           /\ Gone(m)' <=> Gone(m)
                           /\ Unsent(m) => Unsent(m)'
  BY <1>1, <1>3, <1>7 DEF Started, Gone, Unsent
<1>12. TypeOK'
  <2>1. ASSUME NEW m \in RowMemos
        PROVE  /\ rows'[m] \in Row
               /\ rows'[m].failed /\ m \notin claimed' => rows'[m].finishLt = Null /\ rows'[m].amount = 0
    <3>1. rows[m].failed /\ m \notin claimed => rows[m].finishLt = Null /\ rows[m].amount = 0 BY DEF TypeOK
    <3> QED BY <1>1, <1>3, <1>4, <3>1
  <2> QED BY <1>1, <1>2, <2>1 DEF TypeOK, Row
<1>13. ShapeInv' BY <1>1, <1>5 DEF ShapeInv
<1>14. LoopInv' BY <1>1 DEF LoopInv
<1>15. OrderInv' BY <1>1, <1>7 DEF OrderInv
<1>16. TableInv' BY <1>1, <1>2, <1>3 DEF TableInv
<1>25. \A d : TakenBack(d) => TakenBack(d)' BY <1>3, <1>10 DEF TakenBack
<1>17. TaskInv'
  <2>1. ASSUME NEW a \in tasks \cup taken, ~TakenBack(a.from)', NEW m \in RowsOf(a.from)
        PROVE  ~Live(m)' /\ (rows'[m].finishLt # Null => rows'[m].sinceLt < a.lt)
    <3>1. m \in RowMemos BY <1>10
    <3>2. ~Live(m) /\ (rows[m].finishLt # Null => rows[m].sinceLt < a.lt) BY <1>25, <2>1 DEF TaskInv
    <3> QED BY <1>3, <1>9, <3>1, <3>2
  <2> QED BY <1>1, <1>10, <2>1 DEF TaskInv
<1>18. OneLivePerDeposit'
  <2> SUFFICES ASSUME NEW d \in Deposits, ~TakenBack(d)', NEW m \in RowsOf(d)', NEW n \in RowsOf(d)',
                      Live(m)', Live(n)'
               PROVE  m = n
    BY DEF OneLivePerDeposit
  <2>1. m \in RowsOf(d) /\ n \in RowsOf(d) /\ Live(m) /\ Live(n) /\ ~TakenBack(d)
    BY <1>9, <1>10, <1>25
  <2> QED BY <2>1 DEF OneLivePerDeposit
<1>19. AgeInv'
  <2> SUFFICES ASSUME NEW m \in RowMemos, NEW n \in RowMemos,
                      rows'[m].from = rows'[n].from, rows'[m].finishLt # Null, Live(n)',
                      ~TakenBack(rows[n].from)'
               PROVE  rows'[m].sinceLt < rows'[n].sinceLt
    BY <1>2 DEF AgeInv
  <2>1. PICK d : d = rows'[n].from OBVIOUS
  <2>2. ~TakenBack(d)' BY <2>1 DEF TakenBack, RowsOf
  <2>3. ~TakenBack(rows[n].from) BY <1>3, <1>25, <2>1, <2>2
  <2> QED BY <1>3, <1>9, <2>3 DEF AgeInv
<1>20. ASSUME NEW S, NEW t, InMessage(S, t), NEW m \in S
       PROVE  /\ m \in RowMemos' /\ Unsent(m)' /\ rows'[m].expiredAt = t
              /\ rows'[m].failed => t < now'
  <2>1. m \in RowMemos /\ Unsent(m) /\ rows[m].expiredAt = t /\ (rows[m].failed => t < now)
    BY <1>20 DEF InMessage
  <2>2. rows'[m].failed => t < now BY <1>3, <1>4, <2>1
  <2> QED BY <1>1, <1>2, <1>3, <1>11, <2>1, <2>2
<1>21. MessageInv'
  <2>1. InMessage(memos, until) /\ \A g \in sent : InMessage(g.memos, g.until) BY DEF MessageInv
  <2>2. InMessage(memos, until)'
    <3> SUFFICES ASSUME NEW m \in memos'
                 PROVE  /\ m \in RowMemos' /\ Unsent(m)' /\ rows'[m].expiredAt = until'
                        /\ rows'[m].failed => until' < now'
      BY DEF InMessage
    <3>1. m \in memos /\ until' = until BY <1>1
    <3>2. /\ m \in RowMemos' /\ Unsent(m)' /\ rows'[m].expiredAt = until
          /\ rows'[m].failed => until < now'
      BY <1>20, <2>1, <3>1
    <3> QED BY <3>1, <3>2
  <2>3. \A g \in sent' : InMessage(g.memos, g.until)' BY <1>1, <1>20, <2>1 DEF InMessage
  <2> QED BY <1>1, <2>2, <2>3 DEF MessageInv
<1>22. FlowInv'
  <2> SUFFICES ASSUME NEW m \in RowMemos PROVE Flow(m)' BY <1>2 DEF FlowInv, Flow
  <2>1. Flow(m) BY DEF FlowInv, Flow
  <2>2. SendingOK(m)' BY <1>3, <1>7, <2>1 DEF Flow, SendingOK
  <2>3. TransferOK(m)' BY <1>1, <1>3, <1>7, <1>11, <2>1 DEF Flow, TransferOK
  <2>4. NotifyOK(m)' BY <1>1, <1>7, <1>11, <2>1 DEF Flow, NotifyOK
  <2>5. FinishOK(m)' BY <1>1, <1>3, <1>7, <2>1 DEF Flow, FinishOK
  <2>6. FailedOK(m)'
    <3> SUFFICES ASSUME rows'[m].failed, m \notin claimed,
                        PSendings(m) # {} \/ m \in proxied \/ PTransfers(m) # {}
                 PROVE  \E x \in InBlocks : x.kind = "sending" /\ m \in x.memos
      BY <1>1, <1>7 DEF FailedOK
    <3>1. CASE rows[m].failed BY <2>1, <3>1 DEF Flow, FailedOK
    <3>2. CASE m \in Expired
      <4>1. PSendings(m) # {} BY <1>4, <2>1, <3>2 DEF Flow, TransferOK, Started
      <4>2. PICK x \in PSendings(m) : TRUE BY <4>1
      <4>3. x \in Pending /\ x.kind = "sending" /\ m \in x.memos BY DEF PSendings
      <4>4. x.lt <= 2 * rows[m].expiredAt + 1 BY <2>1 DEF Flow, SendingOK
      <4>5. x \notin InDraft
        <5> SUFFICES ASSUME x \in InDraft PROVE FALSE OBVIOUS
        <5>1. 2 * now <= x.lt /\ x.lt \in Nat BY <4>3, BlockFacts, TxFacts DEF OrderInv
        <5>2. rows[m].expiredAt < now /\ rows[m].expiredAt \in Nat /\ now \in Nat
          BY <1>4, <3>2 DEF TypeOK
        <5> QED BY <4>4, <5>1, <5>2
      <4> QED BY <4>3, <4>5 DEF Pending
    <3> QED BY <1>3, <3>1, <3>2
  <2> QED BY <2>2, <2>3, <2>4, <2>5, <2>6 DEF Flow
<1>23. HeldInv'
  <2>2. ASSUME NEW m \in RowMemos', Left(rows[m].from)' > (IF Gone(m)' THEN 0 ELSE asked'[m])
        PROVE  Newer(rows[m].from, rows[m].sinceLt)'
    <3>1. m \in RowMemos /\ (Gone(m)' <=> Gone(m)) /\ asked' = asked BY <1>1, <1>2, <1>11
    <3>2. rows'[m].from = rows[m].from /\ rows'[m].sinceLt = rows[m].sinceLt BY <1>3, <3>1
    <3>3. Left(rows[m].from) > (IF Gone(m) THEN 0 ELSE asked[m]) BY <1>8, <2>2, <3>1, <3>2
    <3>4. Newer(rows[m].from, rows[m].sinceLt) BY <3>1, <3>3 DEF HeldInv
    <3> QED BY <1>8, <3>2, <3>4
  <2>3. \A v \in taken' : Left(v.from)' > v.amount => Newer(v.from, v.lt)' BY <1>1, <1>8 DEF HeldInv
  <2> QED BY <2>2, <2>3 DEF HeldInv
<1>26. PublishedInv'
  <2>1. ASSUME NEW m \in RowMemos', Paid(m)' PROVE KeptPaid(m)
    BY <1>2, <1>3, <1>7, <2>1 DEF Paid, KeptPaid
  <2> QED BY <1>1, <1>8, <2>1, PublishedSame
<1>24. MoneyInv'
  <2>1. \A d : FinishedOf(d)' = FinishedOf(d) BY <1>3, <1>10 DEF FinishedOf
  <2>2. \A d : ReceivedOf(d)' = ReceivedOf(d) BY <1>1, <1>7, <2>1 DEF ReceivedOf
  <2>3. ScannedBalance' = ScannedBalance BY <1>1 DEF ScannedBalance
  <2> QED BY <1>1, <2>1, <2>2, <2>3 DEF MoneyInv, Amount
<1> QED BY <1>8, <1>12, <1>13, <1>14, <1>15, <1>16, <1>17, <1>18, <1>19, <1>21, <1>22, <1>23, <1>24,
          <1>26

-----------------------------------------------------------------------------
(* Steps of the chain *)

\* What a new transaction in the draft leaves alone.
LEMMA TransactRest ==
    ASSUME IInv, NEW x \in Transactions, NEW bal, Transact(x, bal), x.lt = NextLt
    PROVE  /\ UNCHANGED <<lastIncome, income, internalIncome, rows, lastMemo, scanTime>>
           /\ UNCHANGED <<ppc, tasks, taken, memos, until, epc, syncedAt>>
           /\ UNCHANGED <<asked, balance, unscanned, chainTime, now>>
           /\ RowMemos' = RowMemos /\ \A d : RowsOf(d)' = RowsOf(d)
           /\ \A m : IF x.kind = "sending" /\ m \in x.memos
                    THEN PSendings(m)' = PSendings(m) \cup {x} ELSE PSendings(m)' = PSendings(m)
           /\ \A m : IF x.kind = "transfer" /\ x.memo = m
                    THEN PTransfers(m)' = PTransfers(m) \cup {x} ELSE PTransfers(m)' = PTransfers(m)
           /\ \A m : IF x.kind = "notify" /\ x.memo = m
                    THEN PNotifies(m)' = PNotifies(m) \cup {x} ELSE PNotifies(m)' = PNotifies(m)
           /\ \A d, lt : Newer(d, lt)' <=> Newer(d, lt)
<1>1. /\ UNCHANGED <<lastIncome, income, internalIncome, rows, lastMemo, scanTime>>
      /\ UNCHANGED <<ppc, tasks, taken, memos, until, epc, syncedAt>>
      /\ UNCHANGED <<asked, balance, unscanned, chainTime, now>>
  BY DEF Transact, dbVars, procVars, expVars
<1>2. InBlocks' = InBlocks /\ Pending' = Pending \cup {x} BY TransactFacts
<1>3. RowMemos' = RowMemos /\ \A d : RowsOf(d)' = RowsOf(d) BY <1>1 DEF RowMemos, RowsOf
<1>4. \A m : IF x.kind = "sending" /\ m \in x.memos
             THEN PSendings(m)' = PSendings(m) \cup {x} ELSE PSendings(m)' = PSendings(m)
  BY <1>2 DEF PSendings
<1>5. \A m : IF x.kind = "transfer" /\ x.memo = m
             THEN PTransfers(m)' = PTransfers(m) \cup {x} ELSE PTransfers(m)' = PTransfers(m)
  BY <1>2 DEF PTransfers
<1>6. \A m : IF x.kind = "notify" /\ x.memo = m
             THEN PNotifies(m)' = PNotifies(m) \cup {x} ELSE PNotifies(m)' = PNotifies(m)
  BY <1>2 DEF PNotifies
<1>7. \A d, lt : Newer(d, lt)' <=> Newer(d, lt) BY <1>1, <1>2 DEF Newer
<1> QED BY <1>1, <1>3, <1>4, <1>5, <1>6, <1>7

\* Nothing leaves a deposit, no withdrawal takes its Jettons.
LEMMA HeldSame ==
    ASSUME IInv, UNCHANGED <<rows, lastMemo, asked, taken>>,
           \A d \in Deposits : Left(d)' = Left(d),
           \A m \in RowMemos : Gone(m)' <=> Gone(m),
           \A d, lt : Newer(d, lt) => Newer(d, lt)'
    PROVE  HeldInv'
<1> USE DEF IInv
<1>1. RowMemos' = RowMemos BY DEF RowMemos
<1>3. ASSUME NEW m \in RowMemos, Left(rows[m].from)' > (IF Gone(m)' THEN 0 ELSE asked'[m])
      PROVE  Newer(rows[m].from, rows[m].sinceLt)'
  <2>1. rows[m].from \in Deposits /\ rows' = rows /\ asked' = asked BY RowFacts
  <2>2. Left(rows[m].from) > (IF Gone(m) THEN 0 ELSE asked[m]) BY <1>3, <2>1
  <2> QED BY <2>1, <2>2 DEF HeldInv
<1>4. ASSUME NEW v \in taken, Left(v.from)' > v.amount PROVE Newer(v.from, v.lt)'
  <2>1. v.from \in Deposits BY DEF ShapeInv
  <2> QED BY <1>4, <2>1 DEF HeldInv
<1> QED BY <1>1, <1>3, <1>4 DEF HeldInv

\* The step is about the withdrawals T, none of them in a message.
About(T) ==
    /\ \A m : m \notin T => SameMemo(m)
    /\ T \cap memos = {} /\ \A g \in sent' : T \cap g.memos = {}

\* It leaves the withdrawals of T in order; what arrived has been taken.
Orderly(T) ==
    \A m \in T \cap RowMemos :
        /\ Flow(m)'
        /\ rows[m].finishLt # Null =>
              ((m \in moved' \/ PNotifies(m)' # {}) <=> (m \in moved \/ PNotifies(m) # {}))

\* More withdrawals, or the same, are named by transfers of others.
ClaimsGrow ==
    foreign' \in Nat /\ claimed \subseteq claimed' /\ claimed' \subseteq RowMemos \cup {Null}

LEMMA TransactStep ==
    ASSUME IInv, NEW x \in Transactions, NEW bal \in Balances, Transact(x, bal), x.lt = NextLt,
           Named({x})', incomes' \in Nat, sent' \subseteq sent, ClaimsGrow,
           proxied' \cup moved' \subseteq RowMemos,
           NEW T, About(T), Orderly(T),
           Explained(InDraft, balance, bal)', HeldInv'
    PROVE  IInv'
<1> USE DEF IInv
<1>1. /\ UNCHANGED <<lastIncome, income, internalIncome, rows, lastMemo, scanTime>>
      /\ UNCHANGED <<ppc, tasks, taken, memos, until, epc, syncedAt>>
      /\ UNCHANGED <<asked, balance, unscanned, chainTime, now>>
      /\ RowMemos' = RowMemos /\ \A d : RowsOf(d)' = RowsOf(d)
  BY TransactRest
<1>2. /\ InBlocks' = InBlocks /\ InDraft' = InDraft \cup {x} /\ Pending' = Pending \cup {x}
      /\ draft'.txs \in Seq(Transactions) /\ draft'.balance = bal
      /\ draft' = [txs |-> draft'.txs, balance |-> bal] /\ OrderInv'
  BY TransactFacts
<1>3. TypeOK' BY <1>1 DEF TypeOK, ClaimsGrow
<1>4. ShapeInv'
  <2>1. draft' \in [txs : Seq(Transactions), balance : Balances] BY <1>2
  <2> QED BY <1>1, <2>1 DEF ShapeInv, ClaimsGrow
<1>5. LoopInv' /\ TableInv' /\ OneLivePerDeposit' /\ AgeInv'
  BY <1>1 DEF LoopInv, TableInv, OneLivePerDeposit, AgeInv, Live, TakenBack
<1>6. TaskInv' BY <1>1 DEF TaskInv, Live, TakenBack
<1>7. NamedInv' BY <1>1, <1>2 DEF NamedInv, Named, ClaimsGrow
<1>8. BalanceInv'
  <2>1. SameRows BY <1>1 DEF SameRows
  <2>2. ASSUME NEW i \in DOMAIN unscanned
        PROVE  Explained(Range(unscanned[i].txs), unscanned[i].before, unscanned[i].after)'
    BY <1>1 DEF BalanceInv, Explained, IncomesIn, TakenIn, Amount
  <2> QED BY <1>1, <1>2, <2>2 DEF BalanceInv, Explained
<1>9. FlowInv'
  <2> SUFFICES ASSUME NEW m \in RowMemos PROVE Flow(m)' BY <1>1 DEF FlowInv, Flow
  <2>1. CASE m \in T BY <2>1 DEF Orderly
  <2>2. CASE m \notin T
    <3>1. Flow(m) /\ SameMemo(m) BY <2>2 DEF FlowInv, Flow, About
    <3> QED BY <1>2, <3>1, FlowFrame
  <2> QED BY <2>1, <2>2
<1>10. ASSUME NEW S, NEW t, InMessage(S, t), T \cap S = {}, NEW m \in S
       PROVE  /\ m \in RowMemos' /\ Unsent(m)' /\ rows'[m].expiredAt = t
              /\ rows'[m].failed => t < now'
  <2>1. m \in RowMemos /\ Unsent(m) /\ rows[m].expiredAt = t /\ (rows[m].failed => t < now)
    BY <1>10 DEF InMessage
  <2>2. SameMemo(m) BY <1>10 DEF About
  <2>3. Unsent(m)' BY <2>1, <2>2, UnsentFrame
  <2> QED BY <1>1, <2>1, <2>3
<1>11. MessageInv'
  <2>1. InMessage(memos, until) /\ \A g \in sent : InMessage(g.memos, g.until) BY DEF MessageInv
  <2>2. InMessage(memos, until)'
    <3> SUFFICES ASSUME NEW m \in memos'
                 PROVE  /\ m \in RowMemos' /\ Unsent(m)' /\ rows'[m].expiredAt = until'
                        /\ rows'[m].failed => until' < now'
      BY DEF InMessage
    <3>1. m \in memos /\ until' = until BY <1>1
    <3>2. /\ m \in RowMemos' /\ Unsent(m)' /\ rows'[m].expiredAt = until
          /\ rows'[m].failed => until < now'
      BY <1>10, <2>1, <3>1 DEF About
    <3> QED BY <3>1, <3>2
  <2>3. \A g \in sent' : InMessage(g.memos, g.until)' BY <1>10, <2>1 DEF InMessage, About
  <2> QED BY <1>1, <2>2, <2>3 DEF MessageInv
<1>12. MoneyInv'
  <2>1. \A d : FinishedOf(d)' = FinishedOf(d) BY <1>1 DEF FinishedOf
  <2>2. \A d : \A m \in FinishedOf(d) : m \in RowMemos /\ rows[m].finishLt # Null
    BY DEF FinishedOf, RowsOf
  <2>3. \A m : m \notin T => (m \in moved' <=> m \in moved) /\ PNotifies(m)' = PNotifies(m)
    BY DEF SameMemo, About
  <2>4. \A d : ReceivedOf(d)' = ReceivedOf(d) BY <2>1, <2>2, <2>3 DEF ReceivedOf, Orderly
  <2>5. ScannedBalance' = ScannedBalance BY <1>1 DEF ScannedBalance
  <2> QED BY <1>1, <2>1, <2>4, <2>5 DEF MoneyInv, Amount
<1>13. PublishedInv'
  <2>1. \A m \in RowMemos' : Paid(m)' => KeptPaid(m) BY <1>1, <1>2 DEF Paid, KeptPaid
  <2>2. \A d, lt : Newer(d, lt) => Newer(d, lt)' BY TransactRest
  <2> QED BY <1>1, <2>1, <2>2, PublishedSame
<1> QED BY <1>2, <1>3, <1>4, <1>5, <1>6, <1>7, <1>8, <1>9, <1>11, <1>12, <1>13

\* The draft's transfers and incomes after a transaction of another kind.
LEMMA DraftSame ==
    ASSUME IInv, NEW x \in Transactions, NEW bal, Transact(x, bal), x.lt = NextLt
    PROVE  /\ ~(x.kind = "transfer" /\ x.success) =>
                 \A d : /\ Amount(TakenIn(InDraft, d))' = Amount(TakenIn(InDraft, d))
                        /\ Left(d)' = Left(d)
           /\ x.kind # "income" => \A d : IncomesIn(InDraft, d)' = IncomesIn(InDraft, d)
<1>1. InDraft' = InDraft \cup {x} BY TransactFacts
<1>2. UNCHANGED <<rows, asked, balance>> /\ \A d : RowsOf(d)' = RowsOf(d) BY TransactRest
<1>3. ~(x.kind = "transfer" /\ x.success) => \A d : TakenIn(InDraft, d)' = TakenIn(InDraft, d)
  BY <1>1, <1>2 DEF TakenIn
<1>4. x.kind # "income" => \A d : IncomesIn(InDraft, d)' = IncomesIn(InDraft, d)
  BY <1>1 DEF IncomesIn
<1> QED BY <1>2, <1>3, <1>4 DEF Amount, Left

\* A new transaction has a logical time.
LEMMA NextLtNat ==
    ASSUME IInv PROVE NextLt \in Nat /\ now \in Nat /\ 2 * now <= NextLt
<1>1. PICK k \in Nat : k = Len(draft.txs) BY BlockFacts DEF IInv
<1>2. now \in Nat BY DEF IInv, TypeOK
<1>3. NextLt = 2 * now + k BY <1>1 DEF NextLt
<1> QED BY <1>2, <1>3

LEMMA IncomeStep ==
    ASSUME IInv, NEW d \in Deposits, NEW n \in BOOLEAN, Income(d, n) PROVE IInv'
<1> USE DEF IInv
<1>1. draft.balance \in [Deposits -> Nat] /\ NextLt \in Nat
  BY NextLtNat, BlockFacts DEF Balances
<1>2. PICK x \in Transactions :
         x = [kind |-> "income", deposit |-> d, notification |-> n, lt |-> NextLt]
  BY <1>1 DEF Transactions, IncomeTxs
<1>3. PICK bal \in Balances : bal = [draft.balance EXCEPT ![d] = @ + 1]
  <2>1. [draft.balance EXCEPT ![d] = @ + 1] \in [Deposits -> Nat] BY <1>1
  <2> QED BY <2>1 DEF Balances
<1>4. /\ Transact(x, bal) /\ incomes' = incomes + 1
      /\ UNCHANGED <<sent, proxied, moved, foreign, claimed>>
  BY <1>2, <1>3 DEF Income
<1>5. x.kind = "income" /\ x.deposit = d /\ x.lt = NextLt BY <1>2
<1>6. /\ UNCHANGED <<rows, lastMemo, asked, taken, balance>>
      /\ \A m : /\ PSendings(m)' = PSendings(m) /\ PTransfers(m)' = PTransfers(m)
                /\ PNotifies(m)' = PNotifies(m)
      /\ \A e, lt : Newer(e, lt)' <=> Newer(e, lt)
  BY <1>4, <1>5, TransactRest
<1>7. \A m : SameMemo(m) BY <1>4, <1>6 DEF SameMemo
<1>8. \A e : Amount(TakenIn(InDraft, e))' = Amount(TakenIn(InDraft, e)) /\ Left(e)' = Left(e)
  BY <1>4, <1>5, DraftSame
<1>9. InDraft' = InDraft \cup {x} /\ x \notin InDraft BY <1>4, <1>5, TransactFacts DEF Pending
<1>10. Explained(InDraft, balance, bal)'
  <2> SUFFICES ASSUME NEW e \in Deposits
               PROVE  bal[e] = balance[e] + Cardinality(IncomesIn(InDraft, e)') - Amount(TakenIn(InDraft, e))
    BY <1>6, <1>8 DEF Explained
  <2>1. draft.balance[e] = balance[e] + Cardinality(IncomesIn(InDraft, e)) - Amount(TakenIn(InDraft, e))
    BY DEF BalanceInv, Explained
  <2>2. balance[e] \in Nat /\ Amount(TakenIn(InDraft, e)) \in Nat BY LeftFacts
  <2>3. IsFiniteSet(IncomesIn(InDraft, e))
    <3>1. IncomesIn(InDraft, e) \subseteq InDraft BY DEF IncomesIn
    <3> QED BY <3>1, BlockFacts, FS_Subset
  <2>4. Cardinality(IncomesIn(InDraft, e)) \in Nat BY <2>3, FS_CardinalityType
  <2>5. CASE e = d
    <3>1. IncomesIn(InDraft, e)' = IncomesIn(InDraft, e) \cup {x} /\ x \notin IncomesIn(InDraft, e)
      BY <1>5, <1>9, <2>5 DEF IncomesIn
    <3>2. Cardinality(IncomesIn(InDraft, e)') = Cardinality(IncomesIn(InDraft, e)) + 1
      BY <2>3, <3>1, FS_AddElement
    <3>3. bal[e] = draft.balance[e] + 1 BY <1>1, <1>3, <2>5
    <3> QED BY <2>1, <2>2, <2>4, <3>2, <3>3
  <2>6. CASE e # d
    <3>1. IncomesIn(InDraft, e)' = IncomesIn(InDraft, e) BY <1>5, <1>9, <2>6 DEF IncomesIn
    <3>2. bal[e] = draft.balance[e] BY <1>1, <1>3, <2>6
    <3> QED BY <2>1, <3>1, <3>2
  <2> QED BY <2>5, <2>6
<1>11. HeldInv' BY <1>6, <1>7, <1>8, HeldSame, GoneFrame
<1>12. /\ incomes' \in Nat /\ proxied' \cup moved' \subseteq RowMemos /\ Named({x})' /\ sent' \subseteq sent
       /\ ClaimsGrow
  BY <1>4, <1>5 DEF ShapeInv, TypeOK, Named, ClaimsGrow
<1>13. About({}) /\ Orderly({}) BY <1>7 DEF About, Orderly
<1> QED BY <1>4, <1>5, <1>10, <1>11, <1>12, <1>13, TransactStep

\* Somebody else's transfer is refused: it moves nothing and names a withdrawal.
LEMMA ForeignTransferStep ==
    ASSUME IInv, NEW d \in Deposits, NEW c \in RowMemos \cup {Null}, NEW back \in BOOLEAN,
           ForeignTransfer(d, c, back)
    PROVE  IInv'
<1> USE DEF IInv
<1>0. c \in Nat BY RowFacts DEF Null
<1>1. draft.balance \in Balances /\ NextLt \in Nat
  BY NextLtNat, BlockFacts
<1>2. PICK x \in Transactions :
         x = [kind |-> "foreign", deposit |-> d, memo |-> c, bounced |-> back, lt |-> NextLt]
  BY <1>0, <1>1 DEF Transactions, ForeignTxs
<1>3. PICK bal \in Balances : bal = draft.balance BY <1>1
<1>4. /\ Transact(x, bal) /\ foreign' = foreign + 1 /\ claimed' = claimed \cup {c}
      /\ UNCHANGED <<sent, proxied, moved, incomes>>
  BY <1>2, <1>3 DEF ForeignTransfer
<1>5. x.kind = "foreign" /\ x.memo = c /\ x.lt = NextLt BY <1>2
<1>6. /\ UNCHANGED <<rows, lastMemo, asked, taken, balance>>
      /\ \A m : /\ PSendings(m)' = PSendings(m) /\ PTransfers(m)' = PTransfers(m)
                /\ PNotifies(m)' = PNotifies(m)
      /\ \A e, lt : Newer(e, lt)' <=> Newer(e, lt)
  BY <1>4, <1>5, TransactRest
<1>7. \A m : SameMemo(m) BY <1>4, <1>6 DEF SameMemo
<1>8. \A e : Amount(TakenIn(InDraft, e))' = Amount(TakenIn(InDraft, e)) /\ Left(e)' = Left(e)
  BY <1>4, <1>5, DraftSame
<1>9. Explained(InDraft, balance, bal)'
  <2>1. \A e : IncomesIn(InDraft, e)' = IncomesIn(InDraft, e) BY <1>4, <1>5, DraftSame
  <2> QED BY <1>3, <1>6, <1>8, <2>1 DEF BalanceInv, Explained
<1>10. HeldInv' BY <1>6, <1>7, <1>8, HeldSame, GoneFrame
<1>11. /\ incomes' \in Nat /\ proxied' \cup moved' \subseteq RowMemos /\ Named({x})' /\ sent' \subseteq sent
       /\ ClaimsGrow
  BY <1>4, <1>5 DEF ShapeInv, TypeOK, Named, ClaimsGrow
<1>12. About({}) /\ Orderly({}) BY <1>7 DEF About, Orderly
<1> QED BY <1>4, <1>5, <1>9, <1>10, <1>11, <1>12, TransactStep

\* The Jettons arrive on the hot wallet.
LEMMA NotifyStep ==
    ASSUME IInv, NEW m \in moved, Notify(m) PROVE IInv'
<1> USE DEF IInv
<1>0. m \in RowMemos /\ m \in Nat BY RowFacts DEF TypeOK
<1>1. draft.balance \in Balances /\ NextLt \in Nat
  BY NextLtNat, BlockFacts
<1>2. PICK x \in Transactions : x = [kind |-> "notify", memo |-> m, lt |-> NextLt]
  BY <1>0, <1>1 DEF Transactions, NotifyTxs
<1>3. PICK bal \in Balances : bal = draft.balance BY <1>1
<1>4. /\ Transact(x, bal) /\ moved' = moved \ {m} /\ UNCHANGED <<sent, proxied, incomes, foreign, claimed>>
  BY <1>2, <1>3 DEF Notify
<1>5. x.kind = "notify" /\ x.memo = m /\ x.lt = NextLt BY <1>2
<1>6. /\ UNCHANGED <<rows, lastMemo, asked, taken, balance>>
      /\ \A k : PSendings(k)' = PSendings(k) /\ PTransfers(k)' = PTransfers(k)
      /\ \A k : k # m => PNotifies(k)' = PNotifies(k)
      /\ PNotifies(m)' = PNotifies(m) \cup {x}
      /\ \A e, lt : Newer(e, lt)' <=> Newer(e, lt)
  BY <1>4, <1>5, TransactRest
<1>7. \A k : k \notin {m} => SameMemo(k) BY <1>4, <1>6 DEF SameMemo
<1>8. \A e : Amount(TakenIn(InDraft, e))' = Amount(TakenIn(InDraft, e)) /\ Left(e)' = Left(e)
  BY <1>4, <1>5, DraftSame
<1>9. Explained(InDraft, balance, bal)'
  <2>1. \A e : IncomesIn(InDraft, e)' = IncomesIn(InDraft, e) BY <1>4, <1>5, DraftSame
  <2> QED BY <1>3, <1>6, <1>8, <2>1 DEF BalanceInv, Explained
<1>10. /\ InBlocks' = InBlocks /\ \A y \in Pending : y.lt < x.lt
  BY <1>4, <1>5, TransactFacts
<1>11. /\ PNotifies(m) = {} /\ Gone(m) /\ m \notin proxied /\ Flow(m)
  BY <1>0 DEF FlowInv, NotifyOK, TransferOK, Flow
<1>12. \A k : (Gone(k)' <=> Gone(k)) /\ (Started(k)' <=> Started(k)) BY <1>6 DEF Gone, Started
<1>13. Flow(m)'
  <2>1. SendingOK(m)' BY <1>6, <1>11 DEF Flow, SendingOK
  <2>2. TransferOK(m)' BY <1>4, <1>6, <1>11, <1>12 DEF Flow, TransferOK
  <2>3. \A y \in PTransfers(m) : y.lt < x.lt BY <1>10 DEF PTransfers
  <2>4. NotifyOK(m)' BY <1>4, <1>6, <1>11, <1>12, <2>3 DEF NotifyOK
  <2>5. FinishOK(m)' /\ FailedOK(m)' BY <1>4, <1>6, <1>10, <1>11 DEF Flow, FinishOK, FailedOK
  <2> QED BY <2>1, <2>2, <2>4, <2>5 DEF Flow
<1>14. HeldInv' BY <1>6, <1>8, <1>12, HeldSame
<1>15. /\ incomes' \in Nat /\ proxied' \cup moved' \subseteq RowMemos /\ Named({x})' /\ sent' \subseteq sent
       /\ ClaimsGrow
  BY <1>0, <1>4, <1>5, <1>6 DEF ShapeInv, TypeOK, Named, ClaimsGrow, RowMemos
<1>16. {m} \cap memos = {} /\ \A g \in sent' : {m} \cap g.memos = {}
  BY <1>4 DEF MessageInv, InMessage, Unsent
<1>17. PNotifies(m)' # {} BY <1>6
<1>18. About({m}) /\ Orderly({m}) BY <1>7, <1>13, <1>16, <1>17 DEF About, Orderly
<1> QED BY <1>4, <1>5, <1>9, <1>14, <1>15, <1>18, TransactStep

\* The hot wallet executes a message: its rows are not given up.
LEMMA ExecuteStep ==
    ASSUME IInv, NEW msg \in sent, NEW D \in SUBSET msg.memos, Execute(msg, D) PROVE IInv'
<1> USE DEF IInv
<1>0. ASSUME NEW m \in D
      PROVE  /\ m \in RowMemos /\ m \in Nat /\ Unsent(m) /\ ~rows[m].failed
             /\ rows[m].expiredAt = msg.until
  <2>1. m \in RowMemos /\ Unsent(m) /\ rows[m].expiredAt = msg.until /\ (rows[m].failed => msg.until < now)
    BY DEF MessageInv, InMessage
  <2>2. now <= msg.until /\ msg.until \in Nat /\ now \in Nat BY DEF Execute, ShapeInv, TypeOK
  <2>3. ~(msg.until < now) BY <2>2
  <2> QED BY <2>1, <2>3, RowFacts
<1>1. draft.balance \in Balances /\ NextLt \in Nat BY NextLtNat, BlockFacts
<1>2. PICK x \in Transactions : x = [kind |-> "sending", memos |-> D, lt |-> NextLt]
  BY <1>0, <1>1 DEF Transactions, SendingTxs
<1>3. PICK bal \in Balances : bal = draft.balance BY <1>1
<1>4. /\ now <= msg.until /\ Transact(x, bal) /\ sent' = sent \ {msg} /\ proxied' = proxied \cup D
      /\ UNCHANGED <<moved, incomes, foreign, claimed>>
  BY <1>2, <1>3 DEF Execute
<1>5. x.kind = "sending" /\ x.memos = D /\ x.lt = NextLt BY <1>2
<1>6. /\ UNCHANGED <<rows, lastMemo, asked, taken, balance>>
      /\ \A k : PTransfers(k)' = PTransfers(k) /\ PNotifies(k)' = PNotifies(k)
      /\ \A k : k \notin D => PSendings(k)' = PSendings(k)
      /\ \A k \in D : PSendings(k)' = PSendings(k) \cup {x}
      /\ \A e, lt : Newer(e, lt)' <=> Newer(e, lt)
  BY <1>4, <1>5, TransactRest
<1>7. \A k : k \notin D => SameMemo(k) BY <1>4, <1>6 DEF SameMemo
<1>8. \A e : Amount(TakenIn(InDraft, e))' = Amount(TakenIn(InDraft, e)) /\ Left(e)' = Left(e)
  BY <1>4, <1>5, DraftSame
<1>9. Explained(InDraft, balance, bal)'
  <2>1. \A e : IncomesIn(InDraft, e)' = IncomesIn(InDraft, e) BY <1>4, <1>5, DraftSame
  <2> QED BY <1>3, <1>6, <1>8, <2>1 DEF BalanceInv, Explained
<1>10. x.lt <= 2 * msg.until + 1
  <2>1. PICK k \in Nat : k = Len(draft.txs) BY BlockFacts
  <2>2. k < 2 /\ x.lt = 2 * now + k BY <1>4, <1>5, <2>1 DEF Transact, NextLt
  <2>3. msg.until \in Nat /\ now \in Nat BY DEF ShapeInv, TypeOK
  <2> QED BY <1>4, <2>2, <2>3
<1>11. \A k : Gone(k)' <=> Gone(k) BY <1>6 DEF Gone
<1>12. ASSUME NEW m \in D PROVE Flow(m)' /\ rows[m].finishLt = Null
  <2>1. /\ rows[m].sendingLt = Null /\ rows[m].finishLt = Null /\ rows' = rows /\ asked' = asked
        /\ PSendings(m)' = {x} /\ PTransfers(m)' = {} /\ PNotifies(m)' = {}
        /\ m \in proxied' /\ m \notin moved'
        /\ rows[m].expiredAt = msg.until /\ ~rows[m].failed
    BY <1>0, <1>4, <1>6 DEF Unsent
  <2>2. Started(m)' /\ ~Gone(m)' BY <2>1 DEF Started, Gone
  <2>3. SendingOK(m)' BY <1>10, <2>1 DEF SendingOK
  <2>4. TransferOK(m)' BY <2>1, <2>2 DEF TransferOK
  <2>5. NotifyOK(m)' BY <2>1 DEF NotifyOK
  <2>6. FinishOK(m)'
    <3>1. FinishOK(m) BY <1>0 DEF FlowInv
    <3> QED BY <2>1, <3>1 DEF FinishOK
  <2>7. FailedOK(m)' BY <2>1 DEF FailedOK
  <2> QED BY <2>1, <2>3, <2>4, <2>5, <2>6, <2>7 DEF Flow
<1>13. HeldInv' BY <1>6, <1>8, <1>11, HeldSame
<1>14. /\ incomes' \in Nat /\ proxied' \cup moved' \subseteq RowMemos /\ Named({x})' /\ sent' \subseteq sent
       /\ ClaimsGrow
  BY <1>0, <1>4, <1>5, <1>6 DEF ShapeInv, TypeOK, Named, ClaimsGrow, RowMemos
<1>15. D \cap memos = {} /\ \A g \in sent' : D \cap g.memos = {}
  BY <1>4 DEF MessageInv
<1>16. About(D) /\ Orderly(D) BY <1>7, <1>12, <1>15 DEF About, Orderly
<1> QED BY <1>4, <1>5, <1>9, <1>13, <1>14, <1>16, TransactStep

\* The Jettons leave the deposit, or the transfer fails.
LEMMA TransferStep ==
    ASSUME IInv, NEW m \in proxied, NEW ok \in BOOLEAN, Transfer(m, ok) PROVE IInv'
<1> USE DEF IInv
<1>0. m \in RowMemos /\ m \in Nat /\ m \in Memos /\ rows[m].from \in Deposits /\ asked[m] \in Nat
  BY RowFacts DEF TypeOK, ShapeInv
<1>1. draft.balance \in [Deposits -> Nat] /\ NextLt \in Nat BY NextLtNat, BlockFacts DEF Balances
<1>d. PICK d \in Deposits : d = rows[m].from BY <1>0
<1>2. PICK x \in Transactions :
         x = [kind |-> "transfer", memo |-> m, success |-> ok, lt |-> NextLt]
  BY <1>0, <1>1 DEF Transactions, TransferTxs
<1>3. PICK bal \in Balances :
         bal = IF ok THEN [draft.balance EXCEPT ![d] = @ - asked[m]] ELSE draft.balance
  <2>1. CASE ok
    <3>1. draft.balance[d] >= asked[m] BY <1>d, <2>1 DEF Transfer
    <3>2. draft.balance[d] \in Nat BY <1>1
    <3>3. draft.balance[d] - asked[m] \in Nat BY <1>0, <3>1, <3>2
    <3>4. [draft.balance EXCEPT ![d] = @ - asked[m]] \in [Deposits -> Nat] BY <1>1, <3>3
    <3> QED BY <2>1, <3>4 DEF Balances
  <2>2. CASE ~ok BY <1>1, <2>2 DEF Balances
  <2> QED BY <2>1, <2>2
<1>4. /\ Transact(x, bal) /\ proxied' = proxied \ {m}
      /\ moved' = IF ok THEN moved \cup {m} ELSE moved
      /\ UNCHANGED <<sent, incomes, foreign, claimed>>
  BY <1>2, <1>3, <1>d DEF Transfer
<1>5. x.kind = "transfer" /\ x.memo = m /\ x.success = ok /\ x.lt = NextLt BY <1>2
<1>6. /\ UNCHANGED <<rows, lastMemo, asked, taken, balance>>
      /\ \A k : PSendings(k)' = PSendings(k) /\ PNotifies(k)' = PNotifies(k)
      /\ \A k : k # m => PTransfers(k)' = PTransfers(k)
      /\ PTransfers(m)' = PTransfers(m) \cup {x}
      /\ \A e, lt : Newer(e, lt)' <=> Newer(e, lt)
      /\ \A e : RowsOf(e)' = RowsOf(e)
  BY <1>4, <1>5, TransactRest
<1>7. \A k : k \notin {m} => SameMemo(k) BY <1>4, <1>6 DEF SameMemo
<1>8. /\ Started(m) /\ ~Gone(m) /\ PTransfers(m) = {} /\ m \notin moved /\ PNotifies(m) = {}
      /\ Flow(m) /\ rows[m].finishLt = Null
  BY <1>0 DEF FlowInv, TransferOK, Flow, Gone
<1>9. InBlocks' = InBlocks /\ InDraft' = InDraft \cup {x} /\ \A y \in Pending : y.lt < x.lt
  BY <1>4, <1>5, TransactFacts
<1>10. /\ \A k : k # m => (Gone(k)' <=> Gone(k))
       /\ Gone(m)' <=> ok
       /\ Started(m)'
  BY <1>5, <1>6, <1>8 DEF Gone, Started
<1>11. Flow(m)'
  <2>1. SendingOK(m)' BY <1>6, <1>8 DEF Flow, SendingOK
  <2>2. \A y \in PSendings(m) : y.lt < x.lt BY <1>9 DEF PSendings
  <2>3. m \notin proxied' /\ PTransfers(m)' = {x} /\ PNotifies(m)' = {} /\ (m \in moved' <=> ok)
    BY <1>4, <1>6, <1>8
  <2>4. TransferOK(m)' BY <1>5, <1>6, <1>8, <1>10, <2>2, <2>3 DEF TransferOK
  <2>5. NotifyOK(m)' BY <1>10, <2>3 DEF NotifyOK
  <2>6. FinishOK(m)' BY <1>6, <1>8 DEF Flow, FinishOK
  <2>7. FailedOK(m)' BY <1>4, <1>6, <1>8, <1>9 DEF Flow, FailedOK
  <2> QED BY <2>1, <2>4, <2>5, <2>6, <2>7 DEF Flow
<1>12. ASSUME NEW e \in Deposits
       PROVE  /\ Amount(TakenIn(InDraft, e))' =
                   Amount(TakenIn(InDraft, e)) + (IF ok /\ e = d THEN asked[m] ELSE 0)
              /\ Left(e)' = Left(e) - (IF ok /\ e = d THEN asked[m] ELSE 0)
  <2>1. Amount(TakenIn(InDraft, e)) \in Nat /\ balance[e] \in Nat /\ asked[m] \in Nat
    BY <1>0, LeftFacts
  <2>2. TakenIn(InDraft, e)' = TakenIn(InDraft, e) \cup {k \in {m} : ok /\ e = d}
    BY <1>0, <1>5, <1>6, <1>9, <1>d DEF TakenIn, RowsOf
  <2>3. CASE ok /\ e = d
    <3>1. m \notin TakenIn(InDraft, e) BY <1>8 DEF TakenIn, PTransfers, Pending
    <3>2. TakenIn(InDraft, e)' = TakenIn(InDraft, e) \cup {m} BY <2>2, <2>3
    <3>3. TakenIn(InDraft, e) \in SUBSET Memos /\ {m} \in SUBSET Memos
      BY <1>0, RowFacts DEF TakenIn
    <3>4. TakenIn(InDraft, e) \cap {m} = {} BY <3>1
    <3>5. asked \in [Memos -> Nat] BY DEF ShapeInv
    <3>6. Amount({m}) = asked[m] BY <1>0, <3>5, AmountFacts
    <3>7. Amount(TakenIn(InDraft, e) \cup {m}) = Amount(TakenIn(InDraft, e)) + Amount({m})
      BY <3>3, <3>4, <3>5, AmountFacts
    <3>8. Amount(TakenIn(InDraft, e))' = Amount(TakenIn(InDraft, e)) + asked[m]
      BY <1>6, <3>2, <3>6, <3>7 DEF Amount
    <3>9. Left(e)' = Left(e) - asked[m] BY <1>6, <2>1, <3>8 DEF Left
    <3> QED BY <2>3, <3>8, <3>9
  <2>4. CASE ~(ok /\ e = d)
    <3>1. TakenIn(InDraft, e)' = TakenIn(InDraft, e) BY <2>2, <2>4
    <3>2. Amount(TakenIn(InDraft, e))' = Amount(TakenIn(InDraft, e)) BY <1>6, <3>1 DEF Amount
    <3>3. Left(e)' = Left(e) BY <1>6, <3>2 DEF Left
    <3>4. Left(e) \in Int BY LeftFacts
    <3>5. Left(e) = Left(e) - 0 /\ Amount(TakenIn(InDraft, e)) = Amount(TakenIn(InDraft, e)) + 0
      BY <2>1, <3>4
    <3> QED BY <2>4, <3>2, <3>3, <3>5
  <2> QED BY <2>3, <2>4
<1>13. Explained(InDraft, balance, bal)'
  <2> SUFFICES ASSUME NEW e \in Deposits
               PROVE  bal[e] = balance[e] + Cardinality(IncomesIn(InDraft, e)) - Amount(TakenIn(InDraft, e))'
    <3>1. \A e : IncomesIn(InDraft, e)' = IncomesIn(InDraft, e) BY <1>4, <1>5, DraftSame
    <3> QED BY <1>6, <3>1 DEF Explained
  <2>1. draft.balance[e] = balance[e] + Cardinality(IncomesIn(InDraft, e)) - Amount(TakenIn(InDraft, e))
    BY DEF BalanceInv, Explained
  <2>2. balance[e] \in Nat /\ Amount(TakenIn(InDraft, e)) \in Nat BY LeftFacts
  <2>3. IsFiniteSet(IncomesIn(InDraft, e))
    <3>1. IncomesIn(InDraft, e) \subseteq InDraft BY DEF IncomesIn
    <3> QED BY <3>1, BlockFacts, FS_Subset
  <2>4. Cardinality(IncomesIn(InDraft, e)) \in Nat BY <2>3, FS_CardinalityType
  <2>5. bal[e] = draft.balance[e] - (IF ok /\ e = d THEN asked[m] ELSE 0)
    BY <1>0, <1>1, <1>3
  <2>6. PICK z \in Nat : z = IF ok /\ e = d THEN asked[m] ELSE 0 BY <1>0
  <2>7. Amount(TakenIn(InDraft, e))' = Amount(TakenIn(InDraft, e)) + z BY <1>12, <2>6
  <2>8. bal[e] = draft.balance[e] - z BY <2>5, <2>6
  <2> QED BY <2>1, <2>2, <2>4, <2>7, <2>8
<1>14. HeldInv'
  <2>1. \A e \in Deposits : /\ Left(e) \in Int /\ Left(e)' \in Int /\ Left(e)' <= Left(e)
                            /\ (ok /\ e = d => Left(e)' = Left(e) - asked[m])
    <3> SUFFICES ASSUME NEW e \in Deposits
                 PROVE  /\ Left(e) \in Int /\ Left(e)' \in Int /\ Left(e)' <= Left(e)
                        /\ (ok /\ e = d => Left(e)' = Left(e) - asked[m])
      OBVIOUS
    <3>1. Left(e) \in Int BY LeftFacts
    <3>2. PICK z \in Nat : z = IF ok /\ e = d THEN asked[m] ELSE 0 BY <1>0
    <3>3. Left(e)' = Left(e) - z BY <1>12, <3>2
    <3> QED BY <3>1, <3>2, <3>3
  <2>3. ASSUME NEW k \in RowMemos', Left(rows[k].from)' > (IF Gone(k)' THEN 0 ELSE asked'[k])
        PROVE  Newer(rows[k].from, rows[k].sinceLt)'
    <3>1. k \in RowMemos /\ rows' = rows /\ asked' = asked BY <1>6 DEF RowMemos
    <3>2. PICK e \in Deposits : e = rows[k].from BY <3>1, RowFacts
    <3>3. asked[k] \in Nat BY <3>1, RowFacts DEF ShapeInv
    <3>4. Left(e)' > (IF Gone(k)' THEN 0 ELSE asked[k]) BY <2>3, <3>1, <3>2
    <3>5. Left(e) > (IF Gone(k) THEN 0 ELSE asked[k])
      <4>1. CASE k = m /\ ok
        <5>1. e = d /\ Left(e)' > 0 /\ ~Gone(k) BY <1>8, <1>10, <1>d, <3>2, <3>4, <4>1
        <5>2. Left(e)' = Left(e) - asked[m] /\ Left(e) \in Int BY <2>1, <4>1, <5>1
        <5>3. Left(e) > asked[m] BY <1>0, <5>1, <5>2
        <5> QED BY <4>1, <5>1, <5>3
      <4>2. CASE ~(k = m /\ ok)
        <5>1. Gone(k)' <=> Gone(k) BY <1>8, <1>10, <4>2
        <5>2. PICK z \in Nat : z = IF Gone(k) THEN 0 ELSE asked[k] BY <3>3
        <5>3. Left(e)' > z /\ Left(e)' <= Left(e) /\ Left(e) \in Int /\ Left(e)' \in Int
          BY <2>1, <3>4, <5>1, <5>2
        <5>4. Left(e) > z BY <5>3
        <5> QED BY <5>2, <5>4
      <4> QED BY <4>1, <4>2
    <3>6. Newer(e, rows[k].sinceLt) BY <3>1, <3>2, <3>5 DEF HeldInv
    <3> QED BY <1>6, <3>1, <3>2, <3>6
  <2>4. ASSUME NEW v \in taken', Left(v.from)' > v.amount PROVE Newer(v.from, v.lt)'
    <3>1. v \in taken /\ v.from \in Deposits /\ v.amount \in Nat BY <1>6 DEF ShapeInv
    <3>2. Left(v.from) > v.amount BY <2>1, <2>4, <3>1
    <3> QED BY <1>6, <3>1, <3>2 DEF HeldInv
  <2> QED BY <2>3, <2>4 DEF HeldInv
<1>15. /\ incomes' \in Nat /\ proxied' \cup moved' \subseteq RowMemos /\ Named({x})' /\ sent' \subseteq sent
       /\ ClaimsGrow
  BY <1>0, <1>4, <1>5, <1>6 DEF ShapeInv, TypeOK, Named, ClaimsGrow, RowMemos
<1>16. {m} \cap memos = {} /\ \A g \in sent' : {m} \cap g.memos = {}
  BY <1>4 DEF MessageInv, InMessage, Unsent
<1>17. About({m}) /\ Orderly({m}) BY <1>7, <1>8, <1>11, <1>16 DEF About, Orderly
<1> QED BY <1>4, <1>5, <1>13, <1>14, <1>15, <1>17, TransactStep

\* The published balances become those of the draft; its incomes are newer than
\* all the tables know of.
LEMMA NewBlockStep ==
    ASSUME IInv, NewBlock PROVE IInv'
<1> USE DEF IInv
<1>1. /\ chainTime < now /\ chainTime' = now /\ balance' = draft.balance
      /\ draft' = [txs |-> <<>>, balance |-> draft.balance]
      /\ UNCHANGED <<lastIncome, income, internalIncome, rows, lastMemo, scanTime>>
      /\ UNCHANGED <<ppc, tasks, taken, memos, until, epc, syncedAt>>
      /\ UNCHANGED <<sent, asked, proxied, moved, incomes, foreign, claimed, now>>
  BY DEF NewBlock, dbVars, procVars, expVars
<1>n. PICK n \in Nat : n = Len(unscanned) + 1 BY BlockFacts
<1>2. /\ InBlocks' = Pending /\ InDraft' = {} /\ Pending' = Pending
      /\ \A i \in DOMAIN unscanned : i \in DOMAIN unscanned' /\ unscanned'[i] = unscanned[i]
      /\ Len(unscanned') = n /\ DOMAIN unscanned' = DOMAIN unscanned \cup {n}
      /\ n \notin DOMAIN unscanned
      /\ unscanned'[n].time = now /\ unscanned'[n].before = balance
      /\ unscanned'[n].after = draft.balance /\ unscanned'[n].txs = draft.txs
      /\ unscanned' \in Seq(Blocks) /\ draft' \in [txs : Seq(Transactions), balance : Balances]
      /\ OrderInv'
  BY <1>n, NewBlockFacts
<1> HIDE DEF NewBlock
<1>3. RowMemos' = RowMemos /\ \A d : RowsOf(d)' = RowsOf(d) BY <1>1 DEF RowMemos, RowsOf
<1>4. \A m : /\ PSendings(m)' = PSendings(m) /\ PTransfers(m)' = PTransfers(m)
             /\ PNotifies(m)' = PNotifies(m)
  BY <1>2 DEF PSendings, PTransfers, PNotifies
<1>5. \A m : SameMemo(m) BY <1>1, <1>4 DEF SameMemo
<1>6. balance' \in Balances /\ draft'.balance = draft.balance BY <1>1, BlockFacts
<1>7. TypeOK' BY <1>1, <1>3, <1>6 DEF TypeOK, Balances
<1>8. ShapeInv'
  <2>1. chainTime' \in Nat BY <1>1 DEF TypeOK
  <2> QED BY <1>1, <1>2, <2>1 DEF ShapeInv
<1>9. LoopInv' /\ TableInv' /\ OneLivePerDeposit' /\ AgeInv' /\ TaskInv'
  BY <1>1, <1>3 DEF LoopInv, TableInv, OneLivePerDeposit, AgeInv, TaskInv, Live, TakenBack
<1>10. NamedInv' BY <1>1, <1>2, <1>3 DEF NamedInv
<1>11. FlowInv'
  <2> SUFFICES ASSUME NEW m \in RowMemos PROVE Flow(m)' BY <1>3 DEF FlowInv, Flow
  <2>1. Flow(m) /\ SameMemo(m) BY <1>5 DEF FlowInv, Flow
  <2> QED BY <1>2, <2>1, FlowFrame DEF Pending
<1>12. ASSUME NEW S, NEW t, InMessage(S, t), NEW m \in S
       PROVE  /\ m \in RowMemos' /\ Unsent(m)' /\ rows'[m].expiredAt = t
              /\ rows'[m].failed => t < now'
  <2>1. m \in RowMemos /\ Unsent(m) /\ rows[m].expiredAt = t /\ (rows[m].failed => t < now)
    BY <1>12 DEF InMessage
  <2>2. Unsent(m)' BY <1>5, <2>1, UnsentFrame
  <2> QED BY <1>1, <1>3, <2>1, <2>2
<1>13. MessageInv'
  <2>1. InMessage(memos, until) /\ \A g \in sent : InMessage(g.memos, g.until) BY DEF MessageInv
  <2>2. InMessage(memos, until)'
    <3> SUFFICES ASSUME NEW m \in memos'
                 PROVE  /\ m \in RowMemos' /\ Unsent(m)' /\ rows'[m].expiredAt = until'
                        /\ rows'[m].failed => until' < now'
      BY DEF InMessage
    <3>1. m \in memos /\ until' = until BY <1>1
    <3>2. /\ m \in RowMemos' /\ Unsent(m)' /\ rows'[m].expiredAt = until
          /\ rows'[m].failed => until < now'
      BY <1>12, <2>1, <3>1
    <3> QED BY <3>1, <3>2
  <2>3. \A g \in sent' : InMessage(g.memos, g.until)' BY <1>1, <1>12, <2>1 DEF InMessage
  <2> QED BY <1>1, <2>2, <2>3 DEF MessageInv
<1>14. \A X, d : /\ TakenIn(X, d)' = TakenIn(X, d) /\ IncomesIn(X, d)' = IncomesIn(X, d)
                 /\ Amount(TakenIn(X, d))' = Amount(TakenIn(X, d))
  BY <1>1, <1>3 DEF TakenIn, IncomesIn, Amount
<1>15. \A d : Amount(TakenIn(InDraft, d))' = 0 /\ Cardinality(IncomesIn(InDraft, d))' = 0
  <2>1. \A d : TakenIn(InDraft, d)' = {} /\ IncomesIn(InDraft, d)' = {}
    BY <1>2 DEF TakenIn, IncomesIn
  <2>2. SumFunctionOnSet(asked', {}) = 0 /\ Cardinality({}) = 0 BY SumEmpty, FS_EmptySet
  <2> QED BY <2>1, <2>2 DEF Amount
<1>16. BalanceInv'
  <2>1. ASSUME NEW i \in DOMAIN unscanned'
        PROVE  /\ i + 1 \in DOMAIN unscanned' => unscanned'[i + 1].before = unscanned'[i].after
               /\ i = Len(unscanned') => unscanned'[i].after = balance'
               /\ Explained(Range(unscanned[i].txs), unscanned[i].before, unscanned[i].after)'
    <3>0. DOMAIN unscanned = 1..Len(unscanned) /\ Len(unscanned) \in Nat BY BlockFacts
    <3>1. CASE i = n
      <4>1. i + 1 \notin DOMAIN unscanned' BY <1>n, <1>2, <3>0, <3>1
      <4>2. Explained(InDraft, balance, draft.balance) BY DEF BalanceInv
      <4>3. \A d \in Deposits : draft.balance[d] = balance[d] + Cardinality(IncomesIn(InDraft, d))
                                                  - Amount(TakenIn(InDraft, d))
        BY <4>2 DEF Explained
      <4>4. Range(unscanned'[i].txs) = InDraft /\ unscanned'[i].before = balance
            /\ unscanned'[i].after = draft.balance
        BY <1>2, <3>1 DEF InDraft
      <4>5. PICK X : X = InDraft OBVIOUS
      <4>6. \A d \in Deposits : draft.balance[d] = balance[d] + Cardinality(IncomesIn(X, d)')
                                                  - Amount(TakenIn(X, d))'
        BY <1>14, <4>3, <4>5
      <4>7. Explained(Range(unscanned[i].txs), unscanned[i].before, unscanned[i].after)'
        BY <4>4, <4>5, <4>6 DEF Explained, IncomesIn, TakenIn, Amount
      <4> QED BY <1>1, <1>2, <3>1, <4>1, <4>7
    <3>2. CASE i \in DOMAIN unscanned
      <4>1. i # n /\ unscanned'[i] = unscanned[i] BY <1>2, <3>2
      <4>2. i + 1 \in DOMAIN unscanned' => unscanned'[i + 1].before = unscanned'[i].after
        <5>1. CASE i + 1 = n
          <6>1. i = Len(unscanned) BY <1>n, <3>0, <3>2, <5>1
          <6> QED BY <1>2, <3>2, <4>1, <5>1, <6>1 DEF BalanceInv
        <5>2. CASE i + 1 \in DOMAIN unscanned BY <1>2, <3>2, <4>1, <5>2 DEF BalanceInv
        <5> QED BY <1>2, <5>1, <5>2
      <4>3. Explained(Range(unscanned[i].txs), unscanned[i].before, unscanned[i].after)
        BY <3>2 DEF BalanceInv
      <4>4. Explained(Range(unscanned[i].txs), unscanned[i].before, unscanned[i].after)'
        BY <1>1, <1>3, <4>1, <4>3 DEF Explained, IncomesIn, TakenIn, Amount
      <4> QED BY <1>2, <4>1, <4>2, <4>4
    <3> QED BY <1>2, <3>1, <3>2
  <2>2. Explained(InDraft, balance, draft.balance)'
    <3> SUFFICES ASSUME NEW d \in Deposits
                 PROVE  draft'.balance[d] = balance'[d] + Cardinality(IncomesIn(InDraft, d))'
                                                        - Amount(TakenIn(InDraft, d))'
      BY DEF Explained
    <3>1. draft'.balance[d] = balance'[d] /\ balance'[d] \in Nat BY <1>1, <1>6 DEF Balances
    <3> QED BY <1>15, <3>1
  <2> QED BY <2>1, <2>2 DEF BalanceInv
<1>17. ASSUME NEW d \in Deposits, NEW lt \in Nat, NEW c \in Nat, lt <= 2 * scanTime + 1,
              Left(d)' > c, Left(d) > c => Newer(d, lt)
       PROVE  Newer(d, lt)'
  <2>1. Left(d)' = draft.balance[d]
    <3>1. draft.balance[d] \in Nat BY <1>1, <1>6 DEF Balances
    <3> QED BY <1>1, <1>15, <3>1 DEF Left
  <2>2. draft.balance[d] = balance[d] + Cardinality(IncomesIn(InDraft, d)) - Amount(TakenIn(InDraft, d))
    BY DEF BalanceInv, Explained
  <2>3. balance[d] \in Nat /\ Amount(TakenIn(InDraft, d)) \in Nat BY LeftFacts
  <2>4. CASE IncomesIn(InDraft, d) = {}
    <3>1. Cardinality(IncomesIn(InDraft, d)) = 0 BY <2>4, FS_EmptySet
    <3>2. Left(d) = draft.balance[d] BY <2>2, <2>3, <3>1 DEF Left
    <3>3. Newer(d, lt) BY <1>17, <2>1, <3>2
    <3> QED BY <1>1, <1>2, <3>3 DEF Newer, Pending
  <2>5. CASE IncomesIn(InDraft, d) # {}
    <3>1. PICK x \in InDraft : x.kind = "income" /\ x.deposit = d BY <2>5 DEF IncomesIn
    <3>2. 2 * now <= x.lt /\ x.lt \in Nat BY BlockFacts, TxFacts DEF OrderInv, Pending
    <3>3. scanTime <= chainTime /\ chainTime < now /\ scanTime \in Nat /\ chainTime \in Nat /\ now \in Nat
      BY <1>1 DEF OrderInv, TypeOK, ShapeInv
    <3>4. x.lt > lt BY <1>17, <3>2, <3>3
    <3> QED BY <1>2, <3>1, <3>4 DEF Newer, Pending
  <2> QED BY <2>4, <2>5
<1>18. HeldInv'
  <2>2. ASSUME NEW m \in RowMemos', Left(rows[m].from)' > (IF Gone(m)' THEN 0 ELSE asked'[m])
        PROVE  Newer(rows[m].from, rows[m].sinceLt)'
    <3>1. m \in RowMemos /\ rows' = rows /\ asked' = asked BY <1>1, <1>3
    <3>2. Gone(m)' <=> Gone(m) BY <1>5, GoneFrame
    <3>3. PICK d \in Deposits, lt \in Nat, c \in Nat :
             d = rows[m].from /\ lt = rows[m].sinceLt /\ c = IF Gone(m) THEN 0 ELSE asked[m]
      <4>1. asked[m] \in Nat BY <3>1, RowFacts DEF ShapeInv
      <4> QED BY <3>1, <4>1, RowFacts
    <3>4. lt <= 2 * scanTime + 1 /\ Left(d)' > c /\ (Left(d) > c => Newer(d, lt))
      BY <2>2, <3>1, <3>2, <3>3 DEF TableInv, HeldInv
    <3>5. Newer(d, lt)' BY <1>17, <3>4
    <3> QED BY <3>1, <3>3, <3>5
  <2>3. ASSUME NEW v \in taken', Left(v.from)' > v.amount PROVE Newer(v.from, v.lt)'
    <3>1. v \in taken /\ v.from \in Deposits /\ v.amount \in Nat /\ v.lt \in Nat BY <1>1 DEF ShapeInv
    <3>2. v.lt <= 2 * scanTime + 1 BY <3>1 DEF TaskInv
    <3>3. Left(v.from) > v.amount => Newer(v.from, v.lt) BY <3>1 DEF HeldInv
    <3> QED BY <1>17, <2>3, <3>1, <3>2, <3>3
  <2> QED BY <2>2, <2>3 DEF HeldInv
<1>20. \A d \in Deposits : Left(d)' = balance'[d] /\ balance'[d] \in Nat
  BY <1>6, <1>15 DEF Left, Balances
<1>21. PublishedInv'
  <2>1. ASSUME NEW d \in Deposits, balance'[d] > 0 PROVE Newer(d, Null)'
    <3>1. 0 <= 2 * scanTime + 1 BY DEF TypeOK
    <3>2. Left(d) > 0 => Newer(d, 0)
      <4>1. Left(d) \in Int /\ Left(d) <= balance[d] /\ balance[d] \in Nat BY LeftFacts
      <4> QED BY <4>1 DEF PublishedInv, Null
    <3>3. Left(d)' > 0 BY <1>20, <2>1
    <3> QED BY <1>17, <3>1, <3>2, <3>3 DEF Null
  <2>2. ASSUME NEW m \in RowMemos', Paid(m)', balance'[rows'[m].from] > 0
        PROVE  Newer(rows[m].from, rows[m].sinceLt)'
    <3>1. Gone(m)' BY <1>2, <2>2 DEF Paid, Gone, PTransfers
    <3>2. Left(rows[m].from)' > 0
      <4>1. rows' = rows /\ m \in RowMemos BY <1>1, <1>3
      <4>2. PICK d \in Deposits : d = rows[m].from BY <4>1, RowFacts
      <4>3. Left(d)' > 0 BY <1>20, <2>2, <4>1, <4>2
      <4> QED BY <4>1, <4>2, <4>3
    <3> QED BY <1>18, <3>1, <3>2 DEF HeldInv
  <2> QED BY <2>1, <2>2 DEF PublishedInv
<1>19. MoneyInv'
  <2>1. \A d : FinishedOf(d)' = FinishedOf(d) BY <1>1, <1>3 DEF FinishedOf
  <2>2. \A d : ReceivedOf(d)' = ReceivedOf(d) BY <1>1, <1>4, <2>1 DEF ReceivedOf
  <2>3. ScannedBalance' = ScannedBalance
    <3>0. unscanned' # <<>>
      <4>1. n \in DOMAIN unscanned' BY <1>2
      <4>2. DOMAIN <<>> = {} OBVIOUS
      <4> QED BY <4>1, <4>2
    <3>1. CASE unscanned = <<>>
      <4>1. n = 1 BY <1>n, <3>1
      <4> QED BY <1>2, <3>0, <3>1, <4>1 DEF ScannedBalance
    <3>2. CASE unscanned # <<>>
      <4>1. 1 \in DOMAIN unscanned BY <3>2 DEF ShapeInv
      <4> QED BY <1>2, <3>0, <3>2, <4>1 DEF ScannedBalance
    <3> QED BY <3>1, <3>2
  <2> QED BY <1>1, <2>1, <2>2, <2>3 DEF MoneyInv, Amount
<1> QED BY <1>2, <1>7, <1>8, <1>9, <1>10, <1>11, <1>13, <1>16, <1>18, <1>19, <1>21

-----------------------------------------------------------------------------
(* The scanner *)

\* Of withdrawal m, in the block that is scanned next.
SNow(m) == PSendings(m) \cap Next1
TNow(m) == PTransfers(m) \cap Next1
NNow(m) == PNotifies(m) \cap Next1
FNow(m) == {x \in Next1 : x.kind = "foreign" /\ x.memo = m}

\* What a scan leaves alone, and what it reads.
LEMMA ScanRest ==
    ASSUME IInv, ScanBlock
    PROVE  /\ unscanned # <<>> /\ unscanned' = Tail(unscanned) /\ scanTime' = unscanned[1].time
           /\ UNCHANGED <<lastMemo, ppc, tasks, taken, memos, until, epc, syncedAt>>
           /\ UNCHANGED <<sent, asked, proxied, moved, balance, draft, chainTime, incomes, now>>
           /\ UNCHANGED <<foreign, claimed>>
           /\ ~BlockError(unscanned[1])
           /\ lastIncome' = [d \in Deposits |-> Max({lastIncome[d]} \cup IncomeLts(unscanned[1], d))]
           /\ income' = [d \in Deposits |-> income[d] + IncomeAmount(unscanned[1], d)]
           /\ internalIncome' = [d \in Deposits |-> internalIncome[d] + HotIncome(unscanned[1], d)]
           /\ rows' = [m \in Memos |-> Failed(Finished(Confirmed(rows[m], Sendings(unscanned[1], m)),
                                                       Transfers(unscanned[1], m)),
                                              Foreign(unscanned[1], m))]
           /\ RowMemos' = RowMemos
<1>1. unscanned # <<>> /\ unscanned \in Seq(Blocks) BY DEF ScanBlock, IInv, ShapeInv
<1>2. Head(unscanned) = unscanned[1] BY <1>1
<1> QED BY <1>1, <1>2 DEF ScanBlock, procVars, expVars, RowMemos

\* The transactions that remain, and those of the block.
LEMMA ScanSets ==
    ASSUME IInv, ScanBlock
    PROVE  /\ Next1 \subseteq InBlocks /\ Next1 \subseteq Pending /\ Next1 \subseteq Transactions
           /\ InBlocks' = InBlocks \ Next1 /\ InDraft' = InDraft /\ Pending' = Pending \ Next1
           /\ \A x \in Next1, y \in Pending : y \notin Next1 => x.lt < y.lt
           /\ \A x, y \in Pending : x.lt < y.lt /\ y \in Next1 => x \in Next1
           /\ \A x \in Pending : x.lt \in Nat
           /\ \A x \in Next1 : x.lt <= 2 * scanTime' + 1 /\ x.lt > 0
           /\ \A m : /\ PSendings(m)' = PSendings(m) \ Next1 /\ PTransfers(m)' = PTransfers(m) \ Next1
                     /\ PNotifies(m)' = PNotifies(m) \ Next1
                     /\ Sendings(unscanned[1], m) = SNow(m) /\ Transfers(unscanned[1], m) = TNow(m)
                     /\ Foreign(unscanned[1], m) = FNow(m)
<1>1. /\ unscanned # <<>> /\ unscanned' = Tail(unscanned) /\ scanTime' = unscanned[1].time
      /\ chainTime' = chainTime /\ draft' = draft /\ now' = now
  BY ScanRest
<1>2. /\ Next1 \subseteq InBlocks /\ InDraft' = InDraft
      /\ InBlocks' = InBlocks \ Next1 /\ Pending' = Pending \ Next1
      /\ \A x \in Next1, y \in Pending' : x.lt < y.lt
      /\ \A x \in Next1 : x.lt <= 2 * scanTime' + 1 /\ x.lt > 0
  BY <1>1, ScanFacts
<1>3. Next1 \subseteq Pending /\ Next1 \subseteq Transactions
  BY <1>2, BlockFacts DEF Pending, IInv
<1>4. \A m : /\ PSendings(m)' = PSendings(m) \ Next1 /\ PTransfers(m)' = PTransfers(m) \ Next1
             /\ PNotifies(m)' = PNotifies(m) \ Next1
  BY <1>2 DEF PSendings, PTransfers, PNotifies
<1>5. \A m : /\ Sendings(unscanned[1], m) = SNow(m) /\ Transfers(unscanned[1], m) = TNow(m)
             /\ Foreign(unscanned[1], m) = FNow(m)
  BY <1>3 DEF Sendings, Transfers, Foreign, Txs, Next1, SNow, TNow, FNow, PSendings, PTransfers
<1>6. \A x \in Pending : x.lt \in Nat BY BlockFacts, TxFacts DEF IInv
<1>7. ASSUME NEW x \in Pending, NEW y \in Pending, x.lt < y.lt, y \in Next1 PROVE x \in Next1
  <2> SUFFICES ASSUME x \notin Next1 PROVE FALSE OBVIOUS
  <2>1. y.lt < x.lt /\ x.lt \in Nat /\ y.lt \in Nat BY <1>2, <1>6, <1>7
  <2> QED BY <1>7, <2>1
<1> QED BY <1>2, <1>3, <1>4, <1>5, <1>6, <1>7

\* applySendingConfirmations on a row that is sent at most once.
LEMMA ConfirmedFacts ==
    ASSUME NEW row \in Row, NEW xs, \A x \in xs : x.lt \in Nat, \A x, y \in xs : x = y
    PROVE  /\ xs = {} => Confirmed(row, xs) = row
           /\ Confirmed(row, xs) \in Row
           /\ Confirmed(row, xs).from = row.from /\ Confirmed(row, xs).sinceLt = row.sinceLt
           /\ Confirmed(row, xs).expiredAt = row.expiredAt /\ Confirmed(row, xs).failed = row.failed
           /\ Confirmed(row, xs).finishLt = row.finishLt /\ Confirmed(row, xs).amount = row.amount
           /\ \A x \in xs : Confirmed(row, xs).sendingLt = x.lt
<1>1. CASE xs = {} BY <1>1 DEF Confirmed
<1>2. CASE xs # {}
  <2>1. PICK x \in xs : xs = {x} BY <1>2
  <2>2. x.lt \in Nat /\ {y.lt : y \in xs} = {x.lt} BY <2>1
  <2>3. Max({y.lt : y \in xs}) = x.lt BY <2>2, MaxOne
  <2>4. Confirmed(row, xs) = [row EXCEPT !.sendingLt = x.lt] BY <1>2, <2>3 DEF Confirmed
  <2> QED BY <1>2, <2>1, <2>2, <2>4 DEF Row
<1> QED BY <1>1, <1>2

\* updateInternalWithdrawal on a row with at most one transfer.
LEMMA FinishedFacts ==
    ASSUME NEW row \in Row, NEW xs, \A x \in xs : x.lt \in Nat /\ asked[x.memo] \in Nat,
           \A x, y \in xs : x = y
    PROVE  LET r == Finished(row, xs)
           IN  /\ xs = {} => r = row
               /\ r \in Row /\ r.from = row.from /\ r.sinceLt = row.sinceLt
               /\ r.expiredAt = row.expiredAt /\ r.sendingLt = row.sendingLt
               /\ \A x \in xs : IF x.success
                                THEN /\ r.failed = row.failed /\ r.finishLt = x.lt
                                     /\ r.amount = row.amount + asked[x.memo]
                                ELSE /\ r.failed /\ r.finishLt = row.finishLt
                                     /\ r.amount = row.amount
<1> DEFINE r == Finished(row, xs)
<1>1. CASE xs = {} BY <1>1 DEF Finished
<1>2. CASE xs # {}
  <2>1. PICK x \in xs : xs = {x} BY <1>2
  <2>2. (CHOOSE y \in xs : TRUE) = x BY <2>1
  <2>3. x.lt \in Nat /\ asked[x.memo] \in Nat BY <2>1
  <2>4. CASE x.success
    <3>1. r = [row EXCEPT !.finishLt = x.lt, !.amount = @ + asked[x.memo]]
      BY <1>2, <2>2, <2>4 DEF Finished
    <3>2. row.amount + asked[x.memo] \in Nat BY <2>3 DEF Row
    <3>3. /\ r \in Row /\ r.from = row.from /\ r.sinceLt = row.sinceLt
          /\ r.expiredAt = row.expiredAt /\ r.sendingLt = row.sendingLt /\ r.failed = row.failed
          /\ r.finishLt = x.lt /\ r.amount = row.amount + asked[x.memo]
      BY <2>3, <3>1, <3>2 DEF Row
    <3> HIDE DEF r
    <3>4. /\ xs = {} => r = row
          /\ r \in Row /\ r.from = row.from /\ r.sinceLt = row.sinceLt
          /\ r.expiredAt = row.expiredAt /\ r.sendingLt = row.sendingLt
          /\ \A y \in xs : IF y.success
                           THEN /\ r.failed = row.failed /\ r.finishLt = y.lt
                                /\ r.amount = row.amount + asked[y.memo]
                           ELSE /\ r.failed /\ r.finishLt = row.finishLt
                                /\ r.amount = row.amount
      BY <1>2, <2>1, <2>4, <3>3
    <3> QED BY <3>4 DEF r
  <2>5. CASE ~x.success
    <3>1. r = [row EXCEPT !.failed = TRUE] BY <1>2, <2>2, <2>5 DEF Finished
    <3>2. /\ r \in Row /\ r.from = row.from /\ r.sinceLt = row.sinceLt
          /\ r.expiredAt = row.expiredAt /\ r.sendingLt = row.sendingLt /\ r.failed
          /\ r.finishLt = row.finishLt /\ r.amount = row.amount
      BY <3>1 DEF Row
    <3> HIDE DEF r
    <3>3. /\ xs = {} => r = row
          /\ r \in Row /\ r.from = row.from /\ r.sinceLt = row.sinceLt
          /\ r.expiredAt = row.expiredAt /\ r.sendingLt = row.sendingLt
          /\ \A y \in xs : IF y.success
                           THEN /\ r.failed = row.failed /\ r.finishLt = y.lt
                                /\ r.amount = row.amount + asked[y.memo]
                           ELSE /\ r.failed /\ r.finishLt = row.finishLt
                                /\ r.amount = row.amount
      BY <1>2, <2>1, <2>5, <3>2
    <3> QED BY <3>3 DEF r
  <2> QED BY <2>4, <2>5
<1> QED BY <1>1, <1>2

\* updateInternalWithdrawal for refused transfers.
LEMMA FailedFacts ==
    ASSUME NEW row \in Row, NEW xs
    PROVE  /\ xs = {} => Failed(row, xs) = row
           /\ xs # {} => Failed(row, xs).failed
           /\ Failed(row, xs) \in Row
           /\ Failed(row, xs).from = row.from /\ Failed(row, xs).sinceLt = row.sinceLt
           /\ Failed(row, xs).expiredAt = row.expiredAt /\ Failed(row, xs).sendingLt = row.sendingLt
           /\ Failed(row, xs).finishLt = row.finishLt /\ Failed(row, xs).amount = row.amount
           /\ row.failed => Failed(row, xs).failed
<1>1. CASE xs = {} BY <1>1 DEF Failed
<1>2. CASE xs # {}
  <2>1. Failed(row, xs) = [row EXCEPT !.failed = TRUE] BY <1>2 DEF Failed
  <2> QED BY <1>2, <2>1 DEF Row
<1> QED BY <1>1, <1>2

\* A row after the scan.
LEMMA ScanRow ==
    ASSUME IInv, ScanBlock, NEW m \in RowMemos
    PROVE  /\ rows'[m] \in Row /\ rows'[m].from = rows[m].from /\ rows'[m].sinceLt = rows[m].sinceLt
           /\ rows'[m].expiredAt = rows[m].expiredAt
           /\ SNow(m) = {} /\ TNow(m) = {} /\ FNow(m) = {} => rows'[m] = rows[m]
           /\ rows'[m].sendingLt # Null <=> rows[m].sendingLt # Null \/ SNow(m) # {}
           /\ TNow(m) = {} => /\ rows'[m].finishLt = rows[m].finishLt
                              /\ rows'[m].amount = rows[m].amount
                              /\ FNow(m) = {} => rows'[m].failed = rows[m].failed
           /\ FNow(m) # {} => rows'[m].failed /\ rows'[m].sendingLt # Null /\ m \in claimed
           /\ \A x \in TNow(m) :
                 /\ Live(m) /\ PTransfers(m) = {x} /\ rows'[m].sendingLt # Null
                 /\ rows[m].finishLt = Null /\ ~rows[m].failed /\ rows[m].amount = 0
                 /\ IF x.success
                    THEN /\ FNow(m) = {} => ~rows'[m].failed
                         /\ rows'[m].finishLt # Null /\ rows'[m].amount = asked[m]
                    ELSE rows'[m].failed /\ rows'[m].finishLt = Null /\ rows'[m].amount = 0
           /\ rows[m].failed => SNow(m) = {} /\ TNow(m) = {} /\ FNow(m) = {}
<1> USE DEF IInv
<1>1. rows[m] \in Row /\ m \in Memos /\ asked[m] \in Nat BY RowFacts DEF ShapeInv
<1> DEFINE c == Confirmed(rows[m], SNow(m))
<1> DEFINE g == Finished(c, TNow(m))
<1>2. rows'[m] = Failed(g, FNow(m)) BY <1>1, ScanRest, ScanSets
<1>3. Flow(m) BY DEF FlowInv, Flow
<1>4. /\ \A x \in SNow(m) : x.lt \in Nat /\ x.lt > 0
      /\ \A x, y \in SNow(m) : x = y
  <2>1. \A x \in SNow(m) : x \in Next1 /\ x \in Pending BY ScanSets DEF SNow
  <2> QED BY <1>3, <2>1, ScanSets DEF SNow, Flow, SendingOK
<1>5. /\ \A x \in TNow(m) : /\ x.lt \in Nat /\ x.lt > 0 /\ x.memo = m /\ x.kind = "transfer"
                            /\ x.success \in BOOLEAN /\ PTransfers(m) = {x}
                            /\ rows[m].finishLt = Null
      /\ \A x, y \in TNow(m) : x = y
  <2>1. \A x \in TNow(m) : x \in Next1 /\ x \in Pending /\ x.memo = m /\ x.kind = "transfer"
                           /\ x \in Transactions
    BY ScanSets DEF TNow, PTransfers
  <2>2. \A x \in TNow(m) : x.success \in BOOLEAN BY <2>1, TxFacts
  <2>3. \A x \in TNow(m) : PTransfers(m) = {x} /\ rows[m].finishLt = Null
    BY <1>3 DEF TNow, Flow, TransferOK
  <2> QED BY <2>1, <2>2, <2>3, ScanSets
<1>6. /\ SNow(m) = {} => c = rows[m]
      /\ c \in Row /\ c.from = rows[m].from /\ c.sinceLt = rows[m].sinceLt
      /\ c.expiredAt = rows[m].expiredAt /\ c.failed = rows[m].failed
      /\ c.finishLt = rows[m].finishLt /\ c.amount = rows[m].amount
      /\ \A x \in SNow(m) : c.sendingLt = x.lt
  BY <1>1, <1>4, ConfirmedFacts
<1>7. \A x \in TNow(m) : x.lt \in Nat /\ asked[x.memo] \in Nat BY <1>1, <1>5
<1> HIDE DEF c
<1>8. /\ TNow(m) = {} => g = c
      /\ g \in Row /\ g.from = c.from /\ g.sinceLt = c.sinceLt
      /\ g.expiredAt = c.expiredAt /\ g.sendingLt = c.sendingLt
      /\ \A x \in TNow(m) : IF x.success
                            THEN /\ g.failed = c.failed /\ g.finishLt = x.lt
                                 /\ g.amount = c.amount + asked[x.memo]
                            ELSE /\ g.failed /\ g.finishLt = c.finishLt
                                 /\ g.amount = c.amount
  BY <1>5, <1>6, <1>7, FinishedFacts
<1> HIDE DEF g
<1>15. /\ FNow(m) = {} => rows'[m] = g
       /\ FNow(m) # {} => rows'[m].failed
       /\ rows'[m] \in Row /\ rows'[m].from = g.from /\ rows'[m].sinceLt = g.sinceLt
       /\ rows'[m].expiredAt = g.expiredAt /\ rows'[m].sendingLt = g.sendingLt
       /\ rows'[m].finishLt = g.finishLt /\ rows'[m].amount = g.amount
       /\ g.failed => rows'[m].failed
  BY <1>2, <1>8, FailedFacts
<1>9. rows'[m].sendingLt # Null <=> rows[m].sendingLt # Null \/ SNow(m) # {}
  <2>1. CASE SNow(m) = {} BY <1>6, <1>8, <1>15, <2>1
  <2>2. CASE SNow(m) # {}
    <3>1. PICK x \in SNow(m) : TRUE BY <2>2
    <3>2. rows'[m].sendingLt = x.lt /\ x.lt \in Nat /\ x.lt > 0 BY <1>4, <1>6, <1>8, <1>15
    <3> QED BY <2>2, <3>2 DEF Null
  <2> QED BY <2>1, <2>2
<1>16. /\ rows[m].failed => SNow(m) = {} /\ TNow(m) = {} /\ FNow(m) = {}
       /\ TNow(m) \cup FNow(m) # {} => rows[m].sendingLt # Null \/ SNow(m) # {}
  <2>1. /\ Sendings(unscanned[1], m) = SNow(m) /\ Transfers(unscanned[1], m) = TNow(m)
        /\ Foreign(unscanned[1], m) = FNow(m)
    BY ScanSets
  <2>2. ~Refused(unscanned[1], m) BY ScanRest DEF BlockError
  <2> QED BY <2>1, <2>2 DEF Refused
<1>10. rows[m].failed => SNow(m) = {} /\ TNow(m) = {} /\ FNow(m) = {} BY <1>16
<1>11. ASSUME NEW x \in TNow(m)
       PROVE  /\ Live(m) /\ PTransfers(m) = {x} /\ rows'[m].sendingLt # Null
              /\ rows[m].finishLt = Null /\ ~rows[m].failed /\ rows[m].amount = 0
              /\ IF x.success
                 THEN /\ FNow(m) = {} => ~rows'[m].failed
                      /\ rows'[m].finishLt # Null /\ rows'[m].amount = asked[m]
                 ELSE rows'[m].failed /\ rows'[m].finishLt = Null /\ rows'[m].amount = 0
  <2>1. ~rows[m].failed BY <1>10
  <2>2. rows[m].finishLt = Null /\ PTransfers(m) = {x} BY <1>5
  <2>3. rows[m].amount = 0 BY <1>3, <2>2 DEF Flow, FinishOK
  <2>4. Live(m) BY <2>1, <2>2 DEF Live
  <2>5. rows'[m].sendingLt # Null BY <1>9, <1>16
  <2>6. CASE x.success
    <3>1. /\ rows'[m].finishLt = x.lt /\ rows'[m].amount = 0 + asked[m]
          /\ FNow(m) = {} => rows'[m].failed = rows[m].failed
      BY <1>5, <1>6, <1>8, <1>15, <2>3, <2>6
    <3>2. x.lt # Null /\ 0 + asked[m] = asked[m] BY <1>1, <1>5 DEF Null
    <3> QED BY <2>1, <2>2, <2>3, <2>4, <2>5, <2>6, <3>1, <3>2
  <2>7. CASE ~x.success
    <3>1. rows'[m].failed /\ rows'[m].finishLt = Null /\ rows'[m].amount = 0
      BY <1>6, <1>8, <1>15, <2>2, <2>3, <2>7
    <3> QED BY <2>1, <2>2, <2>3, <2>4, <2>5, <2>7, <3>1
  <2> QED BY <2>6, <2>7
<1>12. TNow(m) = {} => /\ rows'[m].finishLt = rows[m].finishLt
                       /\ rows'[m].amount = rows[m].amount
                       /\ FNow(m) = {} => rows'[m].failed = rows[m].failed
  BY <1>6, <1>8, <1>15
<1>13. SNow(m) = {} /\ TNow(m) = {} /\ FNow(m) = {} => rows'[m] = rows[m] BY <1>6, <1>8, <1>15
<1>14. /\ rows'[m] \in Row /\ rows'[m].from = rows[m].from /\ rows'[m].sinceLt = rows[m].sinceLt
       /\ rows'[m].expiredAt = rows[m].expiredAt
  BY <1>6, <1>8, <1>15
<1>17. FNow(m) # {} => rows'[m].failed /\ rows'[m].sendingLt # Null /\ m \in claimed
  <2>1. FNow(m) # {} => m \in claimed BY ScanSets DEF FNow, NamedInv
  <2> QED BY <1>9, <1>15, <1>16, <2>1
<1> QED BY <1>9, <1>10, <1>11, <1>12, <1>13, <1>14, <1>17

\* The block's transfers and notifications add up over the withdrawals they are of.
LEMMA ScanSums ==
    ASSUME IInv, ScanBlock, NEW d \in Deposits
    PROVE  /\ Withdrawn(unscanned[1], d) = Amount(TakenIn(Next1, d))
           /\ HotIncome(unscanned[1], d) = Amount(ArrivedIn(Next1, d))
           /\ Amount(TakenIn(Next1, d)) \in Nat /\ Amount(ArrivedIn(Next1, d)) \in Nat
           /\ TakenIn(Next1, d) \subseteq Memos /\ ArrivedIn(Next1, d) \subseteq Memos
<1> USE DEF IInv
<1>0. IsFiniteSet(Next1) /\ asked \in [Memos -> Nat]
  <2>1. 1 \in DOMAIN unscanned BY ScanRest DEF ShapeInv
  <2> QED BY <2>1, BlockFacts DEF Next1, ShapeInv
<1>1. /\ \A x \in Next1 : x.kind \in {"transfer", "notify"} => x.memo \in RowMemos /\ x.memo \in Memos
      /\ Next1 \subseteq Pending
  BY ScanSets, RowFacts DEF NamedInv
<1>2. TakenIn(Next1, d) \subseteq Memos /\ ArrivedIn(Next1, d) \subseteq Memos
  BY RowFacts DEF TakenIn, ArrivedIn
<1>3. Amount(TakenIn(Next1, d)) \in Nat /\ Amount(ArrivedIn(Next1, d)) \in Nat
  BY <1>0, <1>2, AmountFacts
<1>4. Withdrawn(unscanned[1], d) = Amount(TakenIn(Next1, d))
  <2> DEFINE S == {x \in Txs(unscanned[1], "transfer") : rows[x.memo].from = d /\ x.success}
             h == [x \in S |-> x.memo]
             g == [x \in S |-> asked[x.memo]]
  <2>1. S \subseteq Next1 /\ \A x \in S : x.kind = "transfer" /\ x.memo \in RowMemos /\ x.memo \in Memos
    BY <1>1 DEF Txs, Next1
  <2>2. IsFiniteSet(S) BY <1>0, <2>1, FS_Subset
  <2>3. \A x \in S : h[x] = x.memo /\ g[x] = asked[h[x]] /\ g[x] \in Int
    BY <1>0, <2>1
  <2>4. ASSUME NEW x \in S, NEW y \in S, h[x] = h[y] PROVE x = y
    <3>1. x.memo = y.memo BY <2>3, <2>4
    <3>2. x \in PTransfers(x.memo) /\ y \in PTransfers(x.memo) BY <1>1, <2>1, <3>1 DEF PTransfers
    <3> QED BY <2>1, <3>2 DEF FlowInv, TransferOK
  <2>5. {h[x] : x \in S} = TakenIn(Next1, d)
    <3>1. \A x \in S : h[x] \in TakenIn(Next1, d) BY <2>1, <2>3 DEF TakenIn, RowsOf
    <3>2. ASSUME NEW m \in TakenIn(Next1, d) PROVE \E x \in S : h[x] = m
      <4>1. PICK x \in Next1 : x.kind = "transfer" /\ x.memo = m /\ x.success /\ rows[m].from = d
        BY DEF TakenIn, RowsOf
      <4>2. x \in S BY <4>1 DEF Txs, Next1
      <4> QED BY <2>3, <4>1, <4>2
    <3> QED BY <3>1, <3>2
  <2>6. Withdrawn(unscanned[1], d) = SumFunctionOnSet(g, S)
    BY DEF Withdrawn, SumFunction, SumFunctionOnSet, FoldFunction
  <2> HIDE DEF S, h, g, IInv
  <2>7. SumFunctionOnSet(g, S) = SumFunctionOnSet(asked, {h[x] : x \in S})
    BY <2>2, <2>3, <2>4, SumReindex
  <2> QED BY <2>5, <2>6, <2>7 DEF Amount
<1>5. HotIncome(unscanned[1], d) = Amount(ArrivedIn(Next1, d))
  <2> DEFINE S == {x \in Txs(unscanned[1], "notify") : rows[x.memo].from = d}
             h == [x \in S |-> x.memo]
             g == [x \in S |-> asked[x.memo]]
  <2>1. S \subseteq Next1 /\ \A x \in S : x.kind = "notify" /\ x.memo \in RowMemos /\ x.memo \in Memos
    BY <1>1 DEF Txs, Next1
  <2>2. IsFiniteSet(S) BY <1>0, <2>1, FS_Subset
  <2>3. \A x \in S : h[x] = x.memo /\ g[x] = asked[h[x]] /\ g[x] \in Int
    BY <1>0, <2>1
  <2>4. ASSUME NEW x \in S, NEW y \in S, h[x] = h[y] PROVE x = y
    <3>1. x.memo = y.memo BY <2>3, <2>4
    <3>2. x \in PNotifies(x.memo) /\ y \in PNotifies(x.memo) BY <1>1, <2>1, <3>1 DEF PNotifies
    <3> QED BY <2>1, <3>2 DEF FlowInv, NotifyOK
  <2>5. {h[x] : x \in S} = ArrivedIn(Next1, d)
    <3>1. \A x \in S : h[x] \in ArrivedIn(Next1, d) BY <2>1, <2>3 DEF ArrivedIn, RowsOf
    <3>2. ASSUME NEW m \in ArrivedIn(Next1, d) PROVE \E x \in S : h[x] = m
      <4>1. PICK x \in Next1 : x.kind = "notify" /\ x.memo = m /\ rows[m].from = d
        BY DEF ArrivedIn, RowsOf
      <4>2. x \in S BY <4>1 DEF Txs, Next1
      <4> QED BY <2>3, <4>1, <4>2
    <3> QED BY <3>1, <3>2
  <2>6. HotIncome(unscanned[1], d) = SumFunctionOnSet(g, S)
    BY DEF HotIncome, SumFunction, SumFunctionOnSet, FoldFunction
  <2> HIDE DEF S, h, g, IInv
  <2>7. SumFunctionOnSet(g, S) = SumFunctionOnSet(asked, {h[x] : x \in S})
    BY <2>2, <2>3, <2>4, SumReindex
  <2> QED BY <2>5, <2>6, <2>7 DEF Amount
<1> QED BY <1>2, <1>3, <1>4, <1>5

\* calculateJettonAmounts counts every income of the block, with or without a
\* notification, and notes a logical time not before any of them.
LEMMA ScanIncomes ==
    ASSUME IInv, ScanBlock, NEW d \in Deposits
    PROVE  /\ income'[d] = income[d] + Cardinality(IncomesIn(Next1, d))
           /\ Cardinality(IncomesIn(Next1, d)) \in Nat
           /\ unscanned[1].after[d] = unscanned[1].before[d] + Cardinality(IncomesIn(Next1, d))
                                                            - Amount(TakenIn(Next1, d))
           /\ unscanned[1].after[d] \in Nat /\ unscanned[1].before[d] \in Nat
           /\ lastIncome'[d] \in Nat /\ lastIncome[d] <= lastIncome'[d]
           /\ \A x \in IncomesIn(Next1, d) : x.lt <= lastIncome'[d]
           /\ lastIncome'[d] = lastIncome[d] \/ lastIncome'[d] <= 2 * scanTime' + 1
<1> USE DEF IInv
<1> DEFINE I == IncomesIn(Next1, d)
           K == KnownIncomes(unscanned[1], d)
           U == UnknownIncome(unscanned[1], d)
           L == IncomeLts(unscanned[1], d)
<1>0. 1 \in DOMAIN unscanned BY ScanRest DEF ShapeInv
<1>1. IsFiniteSet(Next1) /\ Next1 \subseteq Transactions BY <1>0, BlockFacts DEF Next1
<1>2. I \subseteq Next1 /\ K \subseteq I BY DEF IncomesIn, KnownIncomes, Txs, Next1
<1>3. IsFiniteSet(I) /\ IsFiniteSet(K) BY <1>1, <1>2, FS_Subset
<1>4. /\ Cardinality(I) \in Nat /\ Cardinality(K) \in Nat /\ Cardinality(K) <= Cardinality(I)
      /\ Cardinality(K) = Cardinality(I) => K = I
  <2> HIDE DEF I, K
  <2> QED BY <1>2, <1>3, FS_CardinalityType, FS_Subset
<1>5. unscanned[1].after[d] = unscanned[1].before[d] + Cardinality(I) - Amount(TakenIn(Next1, d))
  BY <1>0 DEF BalanceInv, Explained, Next1
<1>6. unscanned[1].after[d] \in Nat /\ unscanned[1].before[d] \in Nat BY <1>0, BlockFacts DEF Balances
<1>7. U = Cardinality(I) - Cardinality(K)
  <2>1. U = (unscanned[1].after[d] - unscanned[1].before[d]) + Amount(TakenIn(Next1, d)) - Cardinality(K)
    BY ScanSums DEF UnknownIncome
  <2>2. Amount(TakenIn(Next1, d)) \in Nat BY ScanSums
  <2> HIDE DEF U, I, K
  <2> QED BY <1>4, <1>5, <1>6, <2>1, <2>2
<1>8. IncomeAmount(unscanned[1], d) = Cardinality(I)
  <2>0. IncomeAmount(unscanned[1], d) = Cardinality(K) + Max({U, 0}) BY DEF IncomeAmount
  <2> HIDE DEF U, I, K
  <2>1. U \in Int /\ 0 <= U /\ 0 \in Int BY <1>4, <1>7
  <2>2. Max({0} \cup {U}) = U BY <2>1, MaxTwo
  <2>3. {U, 0} = {0} \cup {U} OBVIOUS
  <2>4. IncomeAmount(unscanned[1], d) = Cardinality(K) + U BY <2>0, <2>2, <2>3
  <2> QED BY <1>4, <1>7, <2>4
<1>9. income'[d] = income[d] + Cardinality(I) BY <1>8, ScanRest
<1>10. \A x \in I : x.lt \in L
  <2>1. CASE U > 0 BY <2>1 DEF IncomeLts, DepositTxs, IncomesIn, Txs, Next1
  <2>2. CASE ~(U > 0)
    <3>1. K = I
      <4> HIDE DEF U, I, K
      <4>1. Cardinality(K) = Cardinality(I) BY <1>4, <1>7, <2>2
      <4> QED BY <1>4, <4>1
    <3>2. L = {x.lt : x \in K} BY <2>2 DEF IncomeLts
    <3> QED BY <3>1, <3>2
  <2> QED BY <2>1, <2>2
<1>11. L \subseteq {x.lt : x \in Next1}
  <2>1. DepositTxs(unscanned[1], d) \subseteq Next1 BY DEF DepositTxs, Txs, Next1
  <2> QED BY <1>2, <2>1 DEF IncomeLts
<1>12. IsFiniteSet({lastIncome[d]} \cup L)
  <2> DEFINE f == [x \in Next1 |-> x.lt]
  <2>1. {f[x] : x \in Next1} = {x.lt : x \in Next1} OBVIOUS
  <2> HIDE DEF f, L
  <2>2. IsFiniteSet({f[x] : x \in Next1}) BY <1>1, FiniteImage
  <2>3. IsFiniteSet(L) BY <1>11, <2>1, <2>2, FS_Subset
  <2> QED BY <2>3, FS_Singleton, FS_Union
<1>13. \A x \in Next1 : x.lt \in Nat /\ x.lt <= 2 * scanTime' + 1 BY ScanSets
<1>14. lastIncome[d] \in Nat /\ lastIncome'[d] = Max({lastIncome[d]} \cup L) BY ScanRest DEF TypeOK
<1> HIDE DEF L
<1>15. {lastIncome[d]} \cup L \in SUBSET Int /\ {lastIncome[d]} \cup L # {} BY <1>11, <1>13, <1>14
<1>16. lastIncome'[d] \in {lastIncome[d]} \cup L /\ \A z \in {lastIncome[d]} \cup L : z <= lastIncome'[d]
  BY <1>12, <1>14, <1>15, MaxExists
<1>17. lastIncome'[d] \in Nat /\ (lastIncome'[d] = lastIncome[d] \/ lastIncome'[d] <= 2 * scanTime' + 1)
  BY <1>11, <1>13, <1>14, <1>16
<1> QED BY <1>4, <1>5, <1>6, <1>9, <1>10, <1>16, <1>17

\* The scan finds the transactions of a withdrawal in their order.
LEMMA ScanFlow ==
    ASSUME IInv, ScanBlock, NEW m \in RowMemos
    PROVE  Flow(m)' /\ (Gone(m)' <=> Gone(m)) /\ (Started(m)' <=> Started(m))
<1> USE DEF IInv
<1>1. Flow(m) BY DEF FlowInv, Flow
<1>2. /\ UNCHANGED <<asked, proxied, moved, claimed>>
      /\ PSendings(m)' = PSendings(m) \ Next1 /\ PTransfers(m)' = PTransfers(m) \ Next1
      /\ PNotifies(m)' = PNotifies(m) \ Next1
  BY ScanRest, ScanSets
<1>3. /\ rows'[m].expiredAt = rows[m].expiredAt
      /\ rows'[m].sendingLt # Null <=> rows[m].sendingLt # Null \/ SNow(m) # {}
      /\ TNow(m) = {} => /\ rows'[m].finishLt = rows[m].finishLt
                         /\ rows'[m].amount = rows[m].amount
                         /\ m \notin claimed => rows'[m].failed = rows[m].failed
      /\ \A x \in TNow(m) :
            /\ PTransfers(m) = {x} /\ rows'[m].sendingLt # Null
            /\ rows[m].finishLt = Null
            /\ IF x.success
               THEN rows'[m].finishLt # Null /\ rows'[m].amount = asked[m]
               ELSE rows'[m].failed /\ rows'[m].finishLt = Null /\ rows'[m].amount = 0
      /\ rows[m].failed => SNow(m) = {} /\ TNow(m) = {}
  BY ScanRow
<1>4. /\ PSendings(m) \subseteq Pending /\ PTransfers(m) \subseteq Pending /\ PNotifies(m) \subseteq Pending
      /\ \A x, y \in Pending : x.lt < y.lt /\ y \in Next1 => x \in Next1
  BY ScanSets DEF PSendings, PTransfers, PNotifies
<1>5. Started(m)' <=> Started(m)
  <2>1. PSendings(m)' # {} => PSendings(m) # {} BY <1>2
  <2>2. PSendings(m) # {} => PSendings(m)' # {} \/ SNow(m) # {} BY <1>2 DEF SNow
  <2>3. SNow(m) # {} => PSendings(m) # {} BY DEF SNow
  <2> QED BY <1>3, <2>1, <2>2, <2>3 DEF Started
<1>6. Gone(m)' <=> Gone(m)
  <2>1. CASE TNow(m) = {}
    <3>1. PTransfers(m)' = PTransfers(m) BY <1>2, <2>1 DEF TNow
    <3> QED BY <1>3, <2>1, <3>1 DEF Gone
  <2>2. CASE TNow(m) # {}
    <3>1. PICK x \in TNow(m) : TRUE BY <2>2
    <3>2. PTransfers(m) = {x} /\ PTransfers(m)' = {} /\ rows[m].finishLt = Null
      BY <1>2, <1>3, <3>1 DEF TNow
    <3>3. rows'[m].finishLt # Null <=> x.success BY <1>3, <3>1
    <3> QED BY <3>2, <3>3 DEF Gone
  <2> QED BY <2>1, <2>2
<1>7. SendingOK(m)' 
  <2>1. SNow(m) # {} => PSendings(m)' = {} BY <1>1, <1>2 DEF SNow, Flow, SendingOK
  <2>2. rows'[m].sendingLt # Null => PSendings(m)' = {} BY <1>1, <1>2, <1>3, <2>1 DEF Flow, SendingOK
  <2>3. \A x \in PSendings(m)' : /\ x.lt <= 2 * rows'[m].expiredAt + 1
                                 /\ \A y \in PSendings(m)' : y = x
    BY <1>1, <1>2, <1>3 DEF Flow, SendingOK
  <2> QED BY <2>2, <2>3 DEF SendingOK
<1>8. TransferOK(m)'
  <2>1. m \in proxied' => /\ Started(m)' /\ ~Gone(m)' /\ PTransfers(m)' = {}
                          /\ m \notin moved' /\ PNotifies(m)' = {}
    BY <1>1, <1>2, <1>5, <1>6 DEF Flow, TransferOK
  <2>2. ASSUME NEW x \in PTransfers(m)'
        PROVE  /\ Started(m)' /\ rows'[m].finishLt = Null
               /\ \A y \in PSendings(m)' : y.lt < x.lt
               /\ \A y \in PTransfers(m)' : y = x
               /\ x.success <=> m \in moved' \/ PNotifies(m)' # {}
    <3>1. x \in PTransfers(m) /\ x \notin Next1 /\ x \in Pending BY <1>2, <1>4
    <3>2. /\ Started(m) /\ rows[m].finishLt = Null
          /\ \A y \in PSendings(m) : y.lt < x.lt
          /\ \A y \in PTransfers(m) : y = x
          /\ x.success <=> m \in moved \/ PNotifies(m) # {}
      BY <1>1, <3>1 DEF Flow, TransferOK
    <3>3. TNow(m) = {} BY <3>1, <3>2 DEF TNow
    <3>4. PNotifies(m)' = PNotifies(m)
      <4>1. \A y \in PNotifies(m) : x.lt < y.lt BY <1>1, <3>1 DEF Flow, NotifyOK
      <4> QED BY <1>2, <1>4, <3>1, <4>1
    <3> QED BY <1>2, <1>3, <1>5, <3>2, <3>3, <3>4
  <2> QED BY <2>1, <2>2 DEF TransferOK
<1>9. NotifyOK(m)' BY <1>1, <1>2, <1>6 DEF Flow, NotifyOK
<1>10. FinishOK(m)'
  <2>1. CASE TNow(m) = {}
    <3>1. FinishOK(m) BY <1>1 DEF Flow
    <3> QED BY <1>2, <1>3, <2>1, <3>1 DEF FinishOK
  <2>2. CASE TNow(m) # {}
    <3>1. PICK x \in TNow(m) : TRUE BY <2>2
    <3>2. PTransfers(m)' = {} /\ rows'[m].sendingLt # Null BY <1>2, <1>3, <3>1 DEF TNow
    <3>3. CASE x.success BY <1>2, <1>3, <3>1, <3>2, <3>3 DEF FinishOK
    <3>4. CASE ~x.success BY <1>2, <1>3, <3>1, <3>2, <3>4 DEF FinishOK
    <3> QED BY <3>3, <3>4
  <2> QED BY <2>1, <2>2
<1>11. FailedOK(m)'
  <2> SUFFICES ASSUME rows'[m].failed, m \notin claimed,
                      PSendings(m)' # {} \/ m \in proxied' \/ PTransfers(m)' # {}
               PROVE  \E x \in InBlocks' : x.kind = "sending" /\ m \in x.memos
    BY <1>2 DEF FailedOK
  <2>1. CASE TNow(m) = {}
    <3>1. rows[m].failed BY <1>3, <2>1
    <3>2. PICK x \in InBlocks : x.kind = "sending" /\ m \in x.memos
      BY <1>1, <1>2, <3>1 DEF Flow, FailedOK
    <3>3. SNow(m) = {} BY <1>3, <3>1
    <3>4. x \notin Next1 BY <3>2, <3>3 DEF SNow, PSendings, Pending
    <3> QED BY <3>2, <3>4, ScanSets
  <2>2. CASE TNow(m) # {}
    <3>1. PICK x \in TNow(m) : TRUE BY <2>2
    <3>2. x \in PTransfers(m) /\ x \in Next1 /\ x \in Pending /\ PTransfers(m) = {x}
      BY <1>3, <1>4, <3>1 DEF TNow
    <3>3. PTransfers(m)' = {} BY <1>2, <3>2
    <3>4. m \notin proxied' BY <1>1, <1>2, <3>2 DEF Flow, TransferOK
    <3>5. PSendings(m)' = {}
      <4>1. \A y \in PSendings(m) : y.lt < x.lt BY <1>1, <3>2 DEF Flow, TransferOK
      <4> QED BY <1>2, <1>4, <3>2, <4>1
    <3> QED BY <3>3, <3>4, <3>5
  <2> QED BY <2>1, <2>2
<1>12. Flow(m)' BY <1>7, <1>8, <1>9, <1>10, <1>11 DEF Flow
<1> QED BY <1>5, <1>6, <1>12

\* The withdrawals that the scan finishes, and those that it sees arrive.
LEMMA ScanFinished ==
    ASSUME IInv, ScanBlock, NEW d \in Deposits
    PROVE  /\ FinishedOf(d)' = FinishedOf(d) \cup TakenIn(Next1, d)
           /\ FinishedOf(d) \cap TakenIn(Next1, d) = {}
           /\ ReceivedOf(d)' = ReceivedOf(d) \cup ArrivedIn(Next1, d)
           /\ ReceivedOf(d) \cap ArrivedIn(Next1, d) = {}
           /\ FinishedOf(d) \subseteq Memos /\ ReceivedOf(d) \subseteq Memos
<1> USE DEF IInv
<1>1. RowMemos' = RowMemos /\ moved' = moved BY ScanRest
<1>2. RowsOf(d)' = RowsOf(d) /\ RowsOf(d) \subseteq RowMemos BY <1>1, ScanRow DEF RowsOf
<1>3. ASSUME NEW m \in RowMemos
      PROVE  /\ TNow(m) = {} => rows'[m].finishLt = rows[m].finishLt
             /\ \A x \in TNow(m) : /\ PTransfers(m) = {x} /\ rows[m].finishLt = Null
                                   /\ rows'[m].finishLt # Null <=> x.success
             /\ Flow(m)
  BY ScanRow DEF FlowInv, Flow
<1>4. \A m \in RowsOf(d) : m \in TakenIn(Next1, d) <=> \E x \in TNow(m) : x.success
  BY ScanSets DEF TakenIn, TNow, PTransfers
<1>5. \A m \in RowsOf(d) : m \in ArrivedIn(Next1, d) <=> NNow(m) # {}
  BY ScanSets DEF ArrivedIn, NNow, PNotifies
<1>6. TakenIn(Next1, d) \subseteq RowsOf(d) /\ ArrivedIn(Next1, d) \subseteq RowsOf(d)
  BY DEF TakenIn, ArrivedIn
<1>7. \A m \in RowsOf(d) : rows'[m].finishLt # Null
                             <=> rows[m].finishLt # Null \/ m \in TakenIn(Next1, d)
  <2> SUFFICES ASSUME NEW m \in RowsOf(d)
               PROVE  rows'[m].finishLt # Null <=> rows[m].finishLt # Null \/ m \in TakenIn(Next1, d)
    OBVIOUS
  <2>1. m \in RowMemos BY <1>2
  <2>2. CASE TNow(m) = {} BY <1>3, <1>4, <2>1, <2>2
  <2>3. CASE TNow(m) # {}
    <3>1. PICK x \in TNow(m) : TRUE BY <2>3
    <3>2. TNow(m) = {x} BY <1>3, <2>1, <3>1 DEF TNow
    <3> QED BY <1>3, <1>4, <2>1, <3>2
  <2> QED BY <2>2, <2>3
<1>8. FinishedOf(d)' = FinishedOf(d) \cup TakenIn(Next1, d) BY <1>2, <1>6, <1>7 DEF FinishedOf
<1>9. FinishedOf(d) \cap TakenIn(Next1, d) = {} BY <1>2, <1>3, <1>4 DEF FinishedOf
<1>10. \A m : PNotifies(m)' = PNotifies(m) \ Next1 BY ScanSets
<1>11. ASSUME NEW m \in ArrivedIn(Next1, d) PROVE m \in ReceivedOf(d)' /\ m \notin ReceivedOf(d)
  <2>1. m \in RowsOf(d) /\ m \in RowMemos BY <1>2, <1>6
  <2>2. PICK x \in NNow(m) : TRUE BY <1>5, <2>1
  <2>3. x \in PNotifies(m) /\ x \in Next1 /\ x \in Pending BY DEF NNow, PNotifies
  <2>4. m \notin moved /\ PNotifies(m) = {x} /\ Gone(m) /\ \A y \in PTransfers(m) : y.lt < x.lt
    BY <1>3, <2>1, <2>3 DEF Flow, NotifyOK
  <2>5. PNotifies(m)' = {} BY <1>10, <2>3, <2>4
  <2>6. \A y \in PTransfers(m) : y \in TNow(m)
    BY <2>3, <2>4, ScanSets DEF PTransfers, TNow
  <2>7. rows[m].finishLt # Null \/ m \in TakenIn(Next1, d) BY <1>4, <2>1, <2>4, <2>6 DEF Gone
  <2>8. m \in FinishedOf(d)' BY <1>2, <1>7, <2>1, <2>7 DEF FinishedOf
  <2> QED BY <1>1, <2>3, <2>4, <2>5, <2>8 DEF ReceivedOf
<1>12. \A m \in ReceivedOf(d) : m \in ReceivedOf(d)' BY <1>1, <1>8, <1>10 DEF ReceivedOf
<1>13. ASSUME NEW m \in ReceivedOf(d)', m \notin ArrivedIn(Next1, d) PROVE m \in ReceivedOf(d)
  <2>1. m \in FinishedOf(d)' /\ m \notin moved /\ PNotifies(m)' = {} BY <1>1 DEF ReceivedOf
  <2>2. m \in FinishedOf(d) \cup TakenIn(Next1, d) /\ m \in RowsOf(d) /\ m \in RowMemos
    BY <1>2, <1>6, <1>8, <2>1 DEF FinishedOf
  <2>3. PNotifies(m) = {} BY <1>5, <1>10, <1>13, <2>1, <2>2 DEF NNow
  <2>4. m \notin TakenIn(Next1, d)
    <3> SUFFICES ASSUME NEW x \in TNow(m), x.success PROVE FALSE BY <1>4, <2>2
    <3> QED BY <1>3, <2>1, <2>2, <2>3 DEF Flow, TransferOK, TNow
  <2> QED BY <2>1, <2>2, <2>3, <2>4 DEF ReceivedOf
<1>14. ReceivedOf(d)' = ReceivedOf(d) \cup ArrivedIn(Next1, d)
       /\ ReceivedOf(d) \cap ArrivedIn(Next1, d) = {}
  BY <1>11, <1>12, <1>13
<1>15. FinishedOf(d) \subseteq Memos /\ ReceivedOf(d) \subseteq Memos
  BY <1>2, RowFacts DEF FinishedOf, ReceivedOf
<1> QED BY <1>8, <1>9, <1>14, <1>15

LEMMA ScanBlockStep ==
    ASSUME IInv, ScanBlock PROVE IInv'
<1> USE DEF IInv
<1>1. /\ unscanned # <<>> /\ unscanned' = Tail(unscanned) /\ scanTime' = unscanned[1].time
      /\ UNCHANGED <<lastMemo, ppc, tasks, taken, memos, until, epc, syncedAt>>
      /\ UNCHANGED <<sent, asked, proxied, moved, balance, draft, chainTime, incomes, now>>
      /\ UNCHANGED <<foreign, claimed>>
      /\ RowMemos' = RowMemos
      /\ lastIncome' = [d \in Deposits |-> lastIncome'[d]]
      /\ income' = [d \in Deposits |-> income'[d]]
      /\ internalIncome' = [d \in Deposits |-> internalIncome[d] + HotIncome(unscanned[1], d)]
      /\ rows' = [m \in Memos |-> rows'[m]]
  BY ScanRest
<1>2. /\ InBlocks' = InBlocks \ Next1 /\ InDraft' = InDraft /\ Pending' = Pending \ Next1
      /\ Next1 \subseteq Pending
      /\ \A m : /\ PSendings(m)' = PSendings(m) \ Next1 /\ PTransfers(m)' = PTransfers(m) \ Next1
                /\ PNotifies(m)' = PNotifies(m) \ Next1
  BY ScanSets
<1>3. /\ 1 \in DOMAIN unscanned
      /\ Len(unscanned') \in Nat /\ Len(unscanned) = Len(unscanned') + 1
      /\ DOMAIN unscanned' = 1..Len(unscanned')
      /\ \A i \in DOMAIN unscanned' : i + 1 \in DOMAIN unscanned /\ unscanned'[i] = unscanned[i + 1]
      /\ unscanned' \in Seq(Blocks)
      /\ scanTime < scanTime'
      /\ OrderInv'
  BY <1>1, ScanFacts
<1>4. scanTime' \in Nat /\ scanTime \in Nat BY <1>1, <1>3, BlockFacts DEF TypeOK
<1>5. ASSUME NEW m \in RowMemos
      PROVE  /\ rows'[m] \in Row /\ rows'[m].from = rows[m].from /\ rows'[m].sinceLt = rows[m].sinceLt
             /\ rows'[m].expiredAt = rows[m].expiredAt
             /\ Live(m)' => Live(m)
             /\ rows'[m].finishLt # Null => (rows[m].finishLt # Null \/ Live(m))
             /\ rows'[m].failed /\ m \notin claimed => rows'[m].finishLt = Null /\ rows'[m].amount = 0
             /\ Unsent(m) => rows'[m] = rows[m]
             /\ rows[m].failed => rows'[m] = rows[m]
  <2>1. /\ rows'[m] \in Row /\ rows'[m].from = rows[m].from /\ rows'[m].sinceLt = rows[m].sinceLt
        /\ rows'[m].expiredAt = rows[m].expiredAt
        /\ SNow(m) = {} /\ TNow(m) = {} /\ FNow(m) = {} => rows'[m] = rows[m]
        /\ rows[m].failed => SNow(m) = {} /\ TNow(m) = {} /\ FNow(m) = {}
        /\ FNow(m) # {} => rows'[m].failed /\ rows'[m].sendingLt # Null /\ m \in claimed
        /\ rows'[m].sendingLt # Null <=> rows[m].sendingLt # Null \/ SNow(m) # {}
    BY ScanRow
  <2>2. Unsent(m) => SNow(m) = {} /\ TNow(m) = {} /\ FNow(m) = {} BY <2>1 DEF Unsent, SNow, TNow
  <2>3. /\ Unsent(m) => rows'[m] = rows[m]
        /\ rows[m].failed => rows'[m] = rows[m]
    BY <2>1, <2>2
  <2>4. CASE TNow(m) = {}
    <3>1. /\ rows'[m].finishLt = rows[m].finishLt /\ rows'[m].amount = rows[m].amount
          /\ FNow(m) = {} => rows'[m].failed = rows[m].failed
      BY <2>4, ScanRow
    <3>2. rows[m].failed /\ m \notin claimed => rows[m].finishLt = Null /\ rows[m].amount = 0
      BY DEF TypeOK
    <3>3. Live(m)' => Live(m) BY <2>1, <3>1 DEF Live
    <3> QED BY <2>1, <2>3, <3>1, <3>2, <3>3
  <2>5. CASE TNow(m) # {}
    <3>1. PICK x \in TNow(m) : TRUE BY <2>5
    <3>2. /\ Live(m)
          /\ IF x.success THEN FNow(m) = {} => ~rows'[m].failed
                          ELSE rows'[m].finishLt = Null /\ rows'[m].amount = 0
      BY <3>1, ScanRow
    <3>3. rows'[m].failed /\ m \notin claimed => rows'[m].finishLt = Null /\ rows'[m].amount = 0
      BY <2>1, <3>2
    <3> QED BY <2>1, <2>3, <3>2, <3>3
  <2> QED BY <2>4, <2>5
<1>6. \A d : RowsOf(d)' = RowsOf(d) /\ RowsOf(d) \subseteq RowMemos BY <1>1, <1>5 DEF RowsOf
<1>7. SameRows BY <1>1, <1>5 DEF SameRows
<1>8. TypeOK'
  <2>1. lastIncome' \in [Deposits -> Nat]
    <3>1. \A d \in Deposits : lastIncome'[d] \in Nat BY ScanIncomes
    <3> QED BY <1>1, <3>1
  <2>2. income' \in [Deposits -> Nat]
    <3>1. \A d \in Deposits : income'[d] \in Nat
      <4> SUFFICES ASSUME NEW d \in Deposits PROVE income'[d] \in Nat OBVIOUS
      <4>1. income'[d] = income[d] + Cardinality(IncomesIn(Next1, d)) /\ income[d] \in Nat
            /\ Cardinality(IncomesIn(Next1, d)) \in Nat
        BY ScanIncomes DEF TypeOK
      <4> QED BY <4>1
    <3> QED BY <1>1, <3>1
  <2>3. internalIncome' \in [Deposits -> Nat]
    <3>1. \A d \in Deposits : HotIncome(unscanned[1], d) \in Nat BY ScanSums
    <3>2. \A d \in Deposits : internalIncome[d] \in Nat BY DEF TypeOK
    <3> QED BY <1>1, <3>1, <3>2
  <2>4. \A m \in RowMemos' : /\ rows'[m] \in Row
                             /\ rows'[m].failed /\ m \notin claimed'
                                   => rows'[m].finishLt = Null /\ rows'[m].amount = 0
    BY <1>1, <1>5
  <2> QED BY <1>1, <1>4, <2>1, <2>2, <2>3, <2>4 DEF TypeOK, Row
<1>9. ShapeInv' BY <1>1, <1>3 DEF ShapeInv
<1>10. LoopInv' BY <1>1 DEF LoopInv
<1>11. NamedInv' BY <1>1, <1>2 DEF NamedInv
<1>12. BalanceInv'
  <2>1. ASSUME NEW i \in DOMAIN unscanned'
        PROVE  /\ i + 1 \in DOMAIN unscanned' => unscanned'[i + 1].before = unscanned'[i].after
               /\ i = Len(unscanned') => unscanned'[i].after = balance'
               /\ Explained(Range(unscanned[i].txs), unscanned[i].before, unscanned[i].after)'
    <3>1. i + 1 \in DOMAIN unscanned /\ unscanned'[i] = unscanned[i + 1] /\ i \in Nat BY <1>3
    <3>2. i + 1 \in DOMAIN unscanned' => unscanned'[i + 1].before = unscanned'[i].after
      <4> SUFFICES ASSUME i + 1 \in DOMAIN unscanned' PROVE unscanned'[i + 1].before = unscanned'[i].after
        OBVIOUS
      <4>1. (i + 1) + 1 \in DOMAIN unscanned /\ unscanned'[i + 1] = unscanned[(i + 1) + 1] BY <1>3
      <4> QED BY <3>1, <4>1 DEF BalanceInv
    <3>3. i = Len(unscanned') => unscanned'[i].after = balance'
      <4>1. i = Len(unscanned') => i + 1 = Len(unscanned) BY <1>3
      <4> QED BY <1>1, <3>1, <4>1 DEF BalanceInv
    <3>4. PICK X, p, q : /\ X = Range(unscanned[i + 1].txs) /\ p = unscanned[i + 1].before
                         /\ q = unscanned[i + 1].after
      OBVIOUS
    <3>5. Named(X) /\ Explained(X, p, q)
      BY <3>1, <3>4 DEF BalanceInv, NamedInv, Named, Pending, InBlocks
    <3>6. Explained(X, p, q)' BY <1>7, <3>5, ExplainedSame
    <3>7. X = Range(unscanned'[i].txs) /\ p = unscanned'[i].before /\ q = unscanned'[i].after
      BY <3>1, <3>4
    <3>8. Explained(Range(unscanned[i].txs), unscanned[i].before, unscanned[i].after)'
      BY <3>6, <3>7 DEF Explained, TakenIn, IncomesIn, Amount
    <3> QED BY <3>2, <3>3, <3>8
  <2>2. Explained(InDraft, balance, draft.balance)'
    <3>1. PICK X, p, q : X = InDraft /\ p = balance /\ q = draft.balance OBVIOUS
    <3>2. Named(X) /\ Explained(X, p, q) BY <3>1 DEF BalanceInv, NamedInv, Named, Pending
    <3>3. Explained(X, p, q)' BY <1>7, <3>2, ExplainedSame
    <3>4. InDraft' = X /\ balance' = p /\ draft'.balance = q BY <1>1, <1>2, <3>1
    <3> QED BY <3>3, <3>4 DEF Explained, TakenIn, IncomesIn, Amount
  <2> QED BY <2>1, <2>2 DEF BalanceInv
<1>13. \A z \in Nat : z <= 2 * scanTime + 1 => z <= 2 * scanTime' + 1
  <2>1. PICK k \in Nat, l \in Nat : k = scanTime /\ l = scanTime' BY <1>4
  <2>2. k < l BY <1>3, <2>1
  <2>3. \A z \in Nat : z <= 2 * k + 1 => z <= 2 * l + 1 BY <2>2
  <2> QED BY <2>1, <2>3
<1>14. TableInv'
  <2>1. ASSUME NEW d \in Deposits PROVE lastIncome'[d] <= 2 * scanTime' + 1
    <3>1. lastIncome[d] \in Nat /\ lastIncome[d] <= 2 * scanTime + 1 BY DEF TypeOK, TableInv
    <3>2. lastIncome'[d] = lastIncome[d] \/ lastIncome'[d] <= 2 * scanTime' + 1 BY ScanIncomes
    <3> QED BY <1>13, <3>1, <3>2
  <2>2. ASSUME NEW m \in RowMemos PROVE rows'[m].sinceLt <= 2 * scanTime' + 1
    <3>1. rows[m].sinceLt \in Nat /\ rows[m].sinceLt <= 2 * scanTime + 1 BY RowFacts DEF TableInv
    <3> QED BY <1>5, <1>13, <3>1
  <2> QED BY <1>1, <2>1, <2>2 DEF TableInv
<1>24. \A d : TakenBack(d) => TakenBack(d)' BY <1>5, <1>6 DEF TakenBack
<1>15. TaskInv'
  <2>1. ASSUME NEW a \in tasks \cup taken
        PROVE  /\ a.lt <= 2 * scanTime' + 1
               /\ ~TakenBack(a.from)' =>
                     \A m \in RowsOf(a.from) :
                         ~Live(m)' /\ (rows'[m].finishLt # Null => rows'[m].sinceLt < a.lt)
    <3>1. a.lt \in Nat BY DEF ShapeInv
    <3>2. a.lt <= 2 * scanTime' + 1 BY <1>13, <3>1 DEF TaskInv
    <3>3. ASSUME ~TakenBack(a.from)', NEW m \in RowsOf(a.from)
          PROVE  ~Live(m)' /\ (rows'[m].finishLt # Null => rows'[m].sinceLt < a.lt)
      <4>1. m \in RowMemos BY <1>6
      <4>2. ~Live(m) /\ (rows[m].finishLt # Null => rows[m].sinceLt < a.lt) BY <1>24, <3>3 DEF TaskInv
      <4> QED BY <1>5, <4>1, <4>2
    <3> QED BY <3>2, <3>3
  <2> QED BY <1>1, <1>6, <2>1 DEF TaskInv
<1>16. OneLivePerDeposit'
  <2> SUFFICES ASSUME NEW d \in Deposits, ~TakenBack(d)', NEW m \in RowsOf(d)', NEW n \in RowsOf(d)',
                      Live(m)', Live(n)'
               PROVE  m = n
    BY DEF OneLivePerDeposit
  <2>1. m \in RowsOf(d) /\ n \in RowsOf(d) /\ Live(m) /\ Live(n) /\ ~TakenBack(d)
    BY <1>5, <1>6, <1>24
  <2> QED BY <2>1 DEF OneLivePerDeposit
<1>17. AgeInv'
  <2> SUFFICES ASSUME NEW m \in RowMemos, NEW n \in RowMemos,
                      rows'[m].from = rows'[n].from, rows'[m].finishLt # Null, Live(n)',
                      ~TakenBack(rows[n].from)'
               PROVE  rows'[m].sinceLt < rows'[n].sinceLt
    BY <1>1 DEF AgeInv
  <2>4. PICK d : d = rows'[n].from OBVIOUS
  <2>5. ~TakenBack(d)' BY <2>4 DEF TakenBack, RowsOf
  <2>1. rows[m].from = rows[n].from /\ Live(n) /\ rows[n].from \in Deposits /\ ~TakenBack(rows[n].from)
    BY <1>5, <1>24, <2>4, <2>5, RowFacts
  <2>2. CASE rows[m].finishLt # Null BY <1>5, <2>1, <2>2 DEF AgeInv
  <2>3. CASE Live(m)
    <3>1. m = n BY <2>1, <2>3 DEF OneLivePerDeposit, RowsOf
    <3> QED BY <3>1 DEF Live
  <2> QED BY <1>5, <2>2, <2>3
<1>18. ASSUME NEW S, NEW t, InMessage(S, t), NEW m \in S
       PROVE  /\ m \in RowMemos' /\ Unsent(m)' /\ rows'[m].expiredAt = t
              /\ rows'[m].failed => t < now'
  <2>1. m \in RowMemos /\ Unsent(m) /\ rows[m].expiredAt = t /\ (rows[m].failed => t < now)
    BY <1>18 DEF InMessage
  <2>2. rows'[m] = rows[m] BY <1>5, <2>1
  <2>3. Unsent(m)' BY <1>1, <1>2, <2>1, <2>2 DEF Unsent
  <2> QED BY <1>1, <2>1, <2>2, <2>3
<1>19. MessageInv'
  <2>1. InMessage(memos, until) /\ \A g \in sent : InMessage(g.memos, g.until) BY DEF MessageInv
  <2>2. InMessage(memos, until)'
    <3> SUFFICES ASSUME NEW m \in memos'
                 PROVE  /\ m \in RowMemos' /\ Unsent(m)' /\ rows'[m].expiredAt = until'
                        /\ rows'[m].failed => until' < now'
      BY DEF InMessage
    <3>1. m \in memos /\ until' = until BY <1>1
    <3>2. /\ m \in RowMemos' /\ Unsent(m)' /\ rows'[m].expiredAt = until
          /\ rows'[m].failed => until < now'
      BY <1>18, <2>1, <3>1
    <3> QED BY <3>1, <3>2
  <2>3. \A g \in sent' : InMessage(g.memos, g.until)' BY <1>1, <1>18, <2>1 DEF InMessage
  <2> QED BY <1>1, <2>2, <2>3 DEF MessageInv
<1>20. FlowInv' BY <1>1, ScanFlow DEF FlowInv, Flow
<1>21. ASSUME NEW d \in Deposits, NEW lt \in Nat, Newer(d, lt) PROVE Newer(d, lt)'
  <2>1. /\ lastIncome'[d] \in Nat /\ lastIncome[d] <= lastIncome'[d] /\ lastIncome[d] \in Nat
        /\ \A x \in IncomesIn(Next1, d) : x.lt <= lastIncome'[d]
    BY ScanIncomes DEF TypeOK
  <2>2. CASE lastIncome[d] > lt
    <3>1. lastIncome'[d] > lt BY <2>1, <2>2
    <3> QED BY <3>1 DEF Newer
  <2>3. CASE \E x \in InBlocks : x.kind = "income" /\ x.deposit = d /\ x.lt > lt
    <3>1. PICK x \in InBlocks : x.kind = "income" /\ x.deposit = d /\ x.lt > lt BY <2>3
    <3>2. CASE x \in Next1
      <4>1. x.lt <= lastIncome'[d] /\ x.lt \in Nat BY <2>1, <3>1, <3>2, ScanSets DEF IncomesIn
      <4>2. lastIncome'[d] > lt BY <2>1, <3>1, <4>1
      <4> QED BY <4>2 DEF Newer
    <3>3. CASE x \notin Next1 BY <1>2, <3>1, <3>3 DEF Newer
    <3> QED BY <3>2, <3>3
  <2> QED BY <1>21, <2>2, <2>3 DEF Newer
<1>22. HeldInv'
  <2>1. \A d : Left(d)' = Left(d)
    <3>1. Named(InDraft) BY DEF NamedInv, Named, Pending
    <3>2. \A d : Amount(TakenIn(InDraft, d))' = Amount(TakenIn(InDraft, d))
      BY <1>1, <1>2, <1>6 DEF TakenIn, Amount
    <3> QED BY <1>1, <3>2 DEF Left
  <2>3. ASSUME NEW m \in RowMemos', Left(rows[m].from)' > (IF Gone(m)' THEN 0 ELSE asked'[m])
        PROVE  Newer(rows[m].from, rows[m].sinceLt)'
    <3>1. m \in RowMemos /\ asked' = asked /\ (Gone(m)' <=> Gone(m)) BY <1>1, ScanFlow
    <3>2. PICK d \in Deposits, lt \in Nat : d = rows[m].from /\ lt = rows[m].sinceLt BY <3>1, RowFacts
    <3>3. d = rows'[m].from /\ lt = rows'[m].sinceLt BY <1>5, <3>1, <3>2
    <3>4. Left(d) > (IF Gone(m) THEN 0 ELSE asked[m]) BY <2>1, <2>3, <3>1, <3>3
    <3>5. Newer(d, lt) BY <3>1, <3>2, <3>4 DEF HeldInv
    <3>6. Newer(d, lt)' BY <1>21, <3>5
    <3> QED BY <3>3, <3>6
  <2>4. ASSUME NEW v \in taken', Left(v.from)' > v.amount PROVE Newer(v.from, v.lt)'
    <3>1. v \in taken /\ v.from \in Deposits /\ v.lt \in Nat BY <1>1 DEF ShapeInv
    <3>2. Newer(v.from, v.lt) BY <2>1, <2>4, <3>1 DEF HeldInv
    <3> QED BY <1>21, <3>1, <3>2
  <2> QED BY <2>3, <2>4 DEF HeldInv
<1>25. PublishedInv'
  <2>1. ASSUME NEW d \in Deposits, balance'[d] > 0 PROVE Newer(d, Null)'
    <3>1. Newer(d, 0) BY <1>1, <2>1 DEF PublishedInv, Null
    <3> QED BY <1>21, <3>1 DEF Null
  <2>2. ASSUME NEW m \in RowMemos', Paid(m)', balance'[rows'[m].from] > 0
        PROVE  Newer(rows[m].from, rows[m].sinceLt)'
    <3>1. PICK d \in Deposits, lt \in Nat : d = rows[m].from /\ lt = rows[m].sinceLt
      BY <1>1, RowFacts
    <3>2. m \in RowMemos /\ d = rows'[m].from /\ lt = rows'[m].sinceLt BY <1>1, <1>5, <3>1
    <3>3. Paid(m)
      <4>1. CASE rows'[m].finishLt # Null
        <5>1. CASE TNow(m) = {}
          <6>1. rows'[m].finishLt = rows[m].finishLt BY <3>2, <5>1, ScanRow
          <6> QED BY <4>1, <6>1 DEF Paid
        <5>2. CASE TNow(m) # {}
          <6>1. PICK x \in TNow(m) : TRUE BY <5>2
          <6>2. x.success BY <3>2, <4>1, <6>1, ScanRow
          <6>3. x \in InBlocks /\ x.kind = "transfer" /\ x.memo = m
            BY <6>1, ScanSets DEF TNow, PTransfers
          <6> QED BY <6>2, <6>3 DEF Paid
        <5> QED BY <5>1, <5>2
      <4>2. CASE rows'[m].finishLt = Null
        <5>1. \E x \in InBlocks' : x.kind = "transfer" /\ x.memo = m /\ x.success
          BY <2>2, <4>2 DEF Paid
        <5> QED BY <1>2, <5>1 DEF Paid
      <4> QED BY <4>1, <4>2
    <3>4. Newer(d, lt) BY <1>1, <2>2, <3>1, <3>2, <3>3 DEF PublishedInv
    <3>5. Newer(d, lt)' BY <1>21, <3>4
    <3> QED BY <3>2, <3>5
  <2> QED BY <2>1, <2>2 DEF PublishedInv
<1>23. MoneyInv'
  <2> SUFFICES ASSUME NEW d \in Deposits
               PROVE  /\ income'[d] = ScannedBalance'[d] + Amount(FinishedOf(d))'
                      /\ internalIncome'[d] = Amount(ReceivedOf(d))'
    BY DEF MoneyInv
  <2>1. /\ FinishedOf(d)' = FinishedOf(d) \cup TakenIn(Next1, d)
        /\ FinishedOf(d) \cap TakenIn(Next1, d) = {}
        /\ ReceivedOf(d)' = ReceivedOf(d) \cup ArrivedIn(Next1, d)
        /\ ReceivedOf(d) \cap ArrivedIn(Next1, d) = {}
        /\ FinishedOf(d) \subseteq Memos /\ ReceivedOf(d) \subseteq Memos
    BY ScanFinished
  <2>2. /\ HotIncome(unscanned[1], d) = Amount(ArrivedIn(Next1, d))
        /\ Amount(TakenIn(Next1, d)) \in Nat /\ Amount(ArrivedIn(Next1, d)) \in Nat
        /\ TakenIn(Next1, d) \subseteq Memos /\ ArrivedIn(Next1, d) \subseteq Memos
    BY ScanSums
  <2>3. asked \in [Memos -> Nat] /\ asked' = asked BY <1>1 DEF ShapeInv
  <2>4. /\ Amount(FinishedOf(d) \cup TakenIn(Next1, d)) = Amount(FinishedOf(d)) + Amount(TakenIn(Next1, d))
        /\ Amount(ReceivedOf(d) \cup ArrivedIn(Next1, d)) = Amount(ReceivedOf(d)) + Amount(ArrivedIn(Next1, d))
        /\ Amount(FinishedOf(d)) \in Nat /\ Amount(ReceivedOf(d)) \in Nat
    BY <2>1, <2>2, <2>3, AmountFacts
  <2>5. /\ Amount(FinishedOf(d))' = Amount(FinishedOf(d)) + Amount(TakenIn(Next1, d))
        /\ Amount(ReceivedOf(d))' = Amount(ReceivedOf(d)) + Amount(ArrivedIn(Next1, d))
    BY <2>1, <2>3, <2>4 DEF Amount
  <2>6. ScannedBalance' = unscanned[1].after
    <3>1. CASE unscanned' = <<>>
      <4>1. Len(unscanned') = 0 BY <3>1
      <4>2. 1 = Len(unscanned) BY <1>3, <4>1
      <4>3. unscanned[1].after = balance BY <1>3, <4>2 DEF BalanceInv
      <4> QED BY <1>1, <3>1, <4>3 DEF ScannedBalance
    <3>2. CASE unscanned' # <<>>
      <4>1. Len(unscanned') # 0 BY <1>3, <3>2
      <4>2. 1 \in DOMAIN unscanned' BY <1>3, <4>1
      <4>3. 1 + 1 \in DOMAIN unscanned /\ unscanned'[1] = unscanned[1 + 1] BY <1>3, <4>2
      <4>4. unscanned[1 + 1].before = unscanned[1].after BY <1>3, <4>3 DEF BalanceInv
      <4> QED BY <3>2, <4>3, <4>4 DEF ScannedBalance
    <3> QED BY <3>1, <3>2
  <2>7. ScannedBalance = unscanned[1].before BY <1>1 DEF ScannedBalance
  <2>8. income[d] = ScannedBalance[d] + Amount(FinishedOf(d)) /\ internalIncome[d] = Amount(ReceivedOf(d))
    BY DEF MoneyInv
  <2>9. /\ income'[d] = income[d] + Cardinality(IncomesIn(Next1, d))
        /\ Cardinality(IncomesIn(Next1, d)) \in Nat
        /\ unscanned[1].after[d] = unscanned[1].before[d] + Cardinality(IncomesIn(Next1, d))
                                                         - Amount(TakenIn(Next1, d))
        /\ unscanned[1].after[d] \in Nat /\ unscanned[1].before[d] \in Nat
    BY ScanIncomes
  <2>10. income'[d] = ScannedBalance'[d] + Amount(FinishedOf(d))'
    BY <2>2, <2>4, <2>5, <2>6, <2>7, <2>8, <2>9
  <2>11. internalIncome'[d] = Amount(ReceivedOf(d))' BY <1>1, <2>2, <2>5, <2>8
  <2> QED BY <2>10, <2>11
<1> QED BY <1>3, <1>8, <1>9, <1>10, <1>11, <1>12, <1>14, <1>15, <1>16, <1>17, <1>19, <1>20, <1>22, <1>23,
          <1>25

-----------------------------------------------------------------------------
(* The invariant and what follows from it *)

LEMMA InitInv ==
    ASSUME Init PROVE IInv
<1> USE DEF Init
<1>1. /\ lastMemo = 0 /\ RowMemos = {} /\ unscanned = <<>> /\ draft.txs = <<>>
      /\ claimed = {} /\ foreign = 0 /\ tasks = {} /\ taken = {} /\ memos = {} /\ sent = {} /\ proxied = {} /\ moved = {}
  BY DEF RowMemos
<1>2. DOMAIN unscanned = {} /\ Len(draft.txs) = 0 /\ Len(unscanned) = 0 BY <1>1
<1>3. InBlocks = {} /\ InDraft = {} /\ Pending = {}
  <2>1. InBlocks = {} BY <1>2 DEF InBlocks
  <2>2. InDraft = {} BY <1>1 DEF InDraft, Range
  <2> QED BY <2>1, <2>2 DEF Pending
<1>4. Zero \in [Deposits -> Nat] /\ \A d \in Deposits : Zero[d] = 0 BY DEF Zero
<1>5. TypeOK BY <1>1, <1>4, ConstantsAssumption DEF TypeOK, Null
<1>6. ShapeInv
  <2>1. rows = [m \in Memos |-> rows[m]] /\ asked \in [Memos -> Nat] OBVIOUS
  <2>2. unscanned \in Seq(Blocks) OBVIOUS
  <2>3. draft \in [txs : Seq(Transactions), balance : Balances] BY <1>4 DEF Balances
  <2> QED BY <1>1, <2>1, <2>2, <2>3 DEF ShapeInv, Null
<1>7. LoopInv /\ TaskInv /\ AgeInv /\ NamedInv /\ FlowInv
  BY <1>1, <1>3 DEF LoopInv, TaskInv, AgeInv, NamedInv, FlowInv
<1>8. OneLivePerDeposit BY <1>1 DEF OneLivePerDeposit, RowsOf
<1>9. MessageInv BY <1>1 DEF MessageInv, InMessage
<1>10. OrderInv BY <1>1, <1>2, <1>3 DEF OrderInv, Null
<1>11. TableInv BY <1>1 DEF TableInv, Null
<1>12. \A d : /\ Amount(TakenIn(InDraft, d)) = 0 /\ Cardinality(IncomesIn(InDraft, d)) = 0
              /\ Amount(FinishedOf(d)) = 0 /\ Amount(ReceivedOf(d)) = 0
  <2>1. Amount({}) = 0 /\ Cardinality({}) = 0 BY SumEmpty, FS_EmptySet DEF Amount
  <2>2. \A d : TakenIn(InDraft, d) = {} /\ IncomesIn(InDraft, d) = {} BY <1>3 DEF TakenIn, IncomesIn
  <2>3. \A d : FinishedOf(d) = {} /\ ReceivedOf(d) = {} BY <1>1 DEF FinishedOf, ReceivedOf, RowsOf
  <2> QED BY <2>1, <2>2, <2>3
<1>13. balance = Zero /\ draft.balance = Zero /\ income = Zero /\ internalIncome = Zero OBVIOUS
<1>14. BalanceInv
  <2>1. Explained(InDraft, balance, draft.balance) BY <1>4, <1>12, <1>13 DEF Explained
  <2> QED BY <1>2, <2>1 DEF BalanceInv
<1>15. HeldInv /\ PublishedInv BY <1>1, <1>4, <1>13 DEF HeldInv, PublishedInv
<1>16. MoneyInv
  <2>1. ScannedBalance = Zero BY <1>1, <1>13 DEF ScannedBalance
  <2> QED BY <1>4, <1>12, <1>13, <2>1 DEF MoneyInv
<1> QED BY <1>5, <1>6, <1>7, <1>8, <1>9, <1>10, <1>11, <1>14, <1>15, <1>16 DEF IInv

LEMMA StutterStep ==
    ASSUME IInv, UNCHANGED vars PROVE IInv'
<1> USE DEF IInv
<1>1. /\ UNCHANGED <<CoreVars, incomes, foreign, now>>
      /\ UNCHANGED <<ppc, tasks, taken, memos, until, epc, syncedAt, sent>>
  BY DEF vars, dbVars, procVars, expVars, chainVars, CoreVars
<1>2. LoopInv' BY <1>1 DEF LoopInv
<1>3. now' \in Nat /\ now <= now' BY <1>1 DEF TypeOK
<1>4. MessageInv' BY <1>1, <1>3, MessagesKept
<1>5. TaskInv' /\ HeldInv' BY <1>1, TaskShrink
<1> QED BY <1>1, <1>2, <1>4, <1>5, QuietStep DEF ShapeInv, TypeOK

LEMMA InvStep ==
    ASSUME IInv, [Next]_vars PROVE IInv'
<1>1. CASE ProcessorSynced BY <1>1, ProcessorSyncedStep
<1>2. CASE \E S \in SUBSET JettonTasks : GetTasks(S) BY <1>2, GetTasksStep
<1>3. CASE \E task \in tasks : ReadBalance(task) BY <1>3, ReadBalanceStep
<1>4. CASE BuildMessage BY <1>4, BuildMessageStep
<1>5. CASE \E w \in taken : SaveInternalWithdrawalTask(w) BY <1>5, SaveStep
<1>6. CASE SendMessage BY <1>6, SendMessageStep
<1>7. CASE ExpirationSynced BY <1>7, ExpirationSyncedStep
<1>8. CASE SetExpired BY <1>8, SetExpiredStep
<1>9. CASE ScanBlock BY <1>9, ScanBlockStep
<1>10. CASE Restart BY <1>10, RestartStep
<1>11. CASE \E d \in Deposits, n \in BOOLEAN : Income(d, n) BY <1>11, IncomeStep
<1>12. CASE \E msg \in sent : \E D \in SUBSET msg.memos : Execute(msg, D) BY <1>12, ExecuteStep
<1>13. CASE \E m \in proxied, ok \in BOOLEAN : Transfer(m, ok) BY <1>13, TransferStep
<1>14. CASE \E m \in moved : Notify(m) BY <1>14, NotifyStep
<1>15. CASE NewBlock BY <1>15, NewBlockStep
<1>16. CASE Tick BY <1>16, TickStep
<1>17. CASE UNCHANGED vars BY <1>17, StutterStep
<1>18. CASE \E d \in Deposits, m \in RowMemos \cup {Null}, back \in BOOLEAN : ForeignTransfer(d, m, back)
  BY <1>18, ForeignTransferStep
<1> QED BY <1>1, <1>2, <1>3, <1>4, <1>5, <1>6, <1>7, <1>8, <1>9, <1>10, <1>11, <1>12, <1>13, <1>14,
           <1>15, <1>16, <1>17, <1>18 DEF Next

\* The invariant holds in every state of every behaviour.
THEOREM Invariance == Spec => []IInv
<1>1. Init => IInv BY InitInv
<1>2. IInv /\ [Next]_vars => IInv' BY InvStep
<1> QED BY <1>1, <1>2, PTL DEF Spec

\* Incomes are never negative, and a withdrawal that failed (SetExpired, or a
\* bounced transfer) brought nothing and is not finished, unless somebody else's
\* refused transfer named it.
THEOREM TypeInvariance == Spec => []TypeOK
<1>1. IInv => TypeOK BY DEF IInv
<1> QED BY <1>1, Invariance, PTL

\* A deposit has at most one withdrawal under way, whatever is lost, delayed,
\* retried, interrupted or named by others: GetJettonInternalWithdrawalTasks hides it
\* until its row is finished or failed.  Only a finished row that was failed
\* afterwards can break this, and the theorem excludes the deposits that have one.
THEOREM OneWithdrawalUnderWay == Spec => []OneLivePerDeposit
<1>1. IInv => OneLivePerDeposit BY DEF IInv
<1> QED BY <1>1, Invariance, PTL

\* Jettons on a deposit are never forgotten: once the blocks are read and no
\* withdrawal of it is under way, a deposit above the cutoff is a task.
THEOREM NoDepositForgotten == Spec => []NoStrandedDeposit
<1>1. ASSUME IInv PROVE NoStrandedDeposit
  <2> USE <1>1 DEF IInv
  <2> SUFFICES ASSUME NEW d \in Deposits, unscanned = <<>>, balance[d] > Cutoff,
                      \A m \in RowsOf(d) : ~Live(m)
               PROVE  d \in JettonTasks
    BY DEF NoStrandedDeposit
  <2>1. InBlocks = {}
    <3>1. DOMAIN unscanned = {} OBVIOUS
    <3> QED BY <3>1 DEF InBlocks
  <2>2. balance[d] > 0 /\ Cutoff \in Nat
    <3>1. balance[d] \in Nat /\ Cutoff \in Nat BY ConstantsAssumption DEF TypeOK
    <3> QED BY <3>1
  <2>4. \A lt : Newer(d, lt) => lastIncome[d] > lt BY <2>1 DEF Newer
  <2>5. lastIncome[d] # Null
    <3>1. Newer(d, Null) BY <2>2 DEF PublishedInv
    <3>2. lastIncome[d] > 0 /\ lastIncome[d] \in Nat BY <2>4, <3>1 DEF Null, TypeOK
    <3> QED BY <3>2 DEF Null
  <2>6. CASE LatestRows(d) = {} BY <2>5, <2>6 DEF JettonTasks
  <2>7. CASE LatestRows(d) # {}
    <3>1. \E n \in RowsOf(d) : ~rows[n].failed BY <2>7 DEF LatestRows
    <3>2. PICK m \in LatestRows(d) : ~rows[m].failed BY <3>1, LatestFacts
    <3>3. m \in RowsOf(d) /\ m \in RowMemos /\ rows[m].from = d BY <3>2, LatestFacts DEF RowsOf
    <3>4. rows[m].finishLt # Null BY <3>2, <3>3 DEF Live
    <3>5. Paid(m) BY <3>4 DEF Paid
    <3>6. Newer(d, rows[m].sinceLt) BY <2>2, <3>3, <3>5 DEF PublishedInv
    <3> QED BY <2>4, <2>5, <3>2, <3>4, <3>6 DEF JettonTasks
  <2> QED BY <2>6, <2>7
<1> QED BY <1>1, Invariance, PTL

\* The books of a deposit balance once the blocks are read: what it received is what
\* is on it and what its finished withdrawals took, and the hot wallet has received
\* this but for what is on its way.
THEOREM NothingLost == Spec => []AmountsBalance
<1>1. ASSUME IInv PROVE AmountsBalance
  <2> USE <1>1 DEF IInv
  <2> SUFFICES ASSUME unscanned = <<>>, draft.txs = <<>>, NEW d \in Deposits
               PROVE  LET out == SumFunction([m \in RowsOf(d) |-> rows[m].amount])
                          way == SumFunction([m \in {n \in moved : rows[n].from = d} |-> asked[m]])
                      IN  income[d] = balance[d] + out /\ out = internalIncome[d] + way
    BY DEF AmountsBalance
  <2> DEFINE R == RowsOf(d)
             F == FinishedOf(d)
             W == {n \in moved : rows[n].from = d}
             f == [m \in R |-> rows[m].amount]
             g == [m \in W |-> asked[m]]
  <2>1. Pending = {}
    <3>1. DOMAIN unscanned = {} OBVIOUS
    <3>2. InBlocks = {} BY <3>1 DEF InBlocks
    <3>3. InDraft = {} BY DEF InDraft, Range
    <3> QED BY <3>2, <3>3 DEF Pending
  <2>2. \A m : PTransfers(m) = {} /\ PNotifies(m) = {} BY <2>1 DEF PTransfers, PNotifies
  <2>3. /\ R \subseteq RowMemos /\ R \subseteq Memos /\ F \subseteq R /\ W \subseteq R
        /\ IsFiniteSet(Memos) /\ asked \in [Memos -> Nat]
    BY RowFacts DEF RowsOf, FinishedOf, TypeOK, ShapeInv
  <2>4. IsFiniteSet(R) /\ IsFiniteSet(F) /\ IsFiniteSet(W)
    <3> HIDE DEF R, F, W
    <3>1. IsFiniteSet(R) BY <2>3, FS_Subset
    <3> QED BY <2>3, <3>1, FS_Subset
  <2>5. \A m \in R : f[m] \in Int /\ f[m] = IF m \in F THEN asked[m] ELSE 0
    BY <2>3, RowFacts DEF FlowInv, FinishOK, FinishedOf
  <2>6. \A m \in W : g[m] = asked[m] OBVIOUS
  <2>7. W \subseteq F /\ ReceivedOf(d) = F \ W
    <3>1. \A m \in W : m \in RowMemos /\ Gone(m) BY <2>3 DEF FlowInv, NotifyOK
    <3>2. W \subseteq F BY <2>2, <2>3, <3>1 DEF Gone, FinishedOf
    <3>3. \A m \in F : rows[m].from = d BY DEF FinishedOf, RowsOf
    <3> QED BY <2>2, <3>2, <3>3 DEF ReceivedOf
  <2>8. SumFunction(f) = SumFunctionOnSet(f, R) /\ SumFunction(g) = SumFunctionOnSet(g, W)
    BY DEF SumFunction, SumFunctionOnSet, FoldFunction
  <2> HIDE DEF R, F, W, f, g
  <2>9. SumFunctionOnSet(f, R) = Amount(F)
    <3>1. SumFunctionOnSet(f, R) = SumFunctionOnSet(f, F) BY <2>3, <2>4, <2>5, SumOnly
    <3>2. \A m \in F : f[m] = asked[m] BY <2>3, <2>5
    <3>3. SumFunctionOnSet(f, F) = SumFunctionOnSet(asked, F) BY <2>4, <3>2, SumSame
    <3> QED BY <3>1, <3>3 DEF Amount
  <2>10. SumFunctionOnSet(g, W) = Amount(W) BY <2>4, <2>6, SumSame DEF Amount
  <2>11. Amount(F) = Amount(F \ W) + Amount(W) /\ Amount(F) \in Nat /\ Amount(W) \in Nat
         /\ Amount(F \ W) \in Nat
    <3>1. F \in SUBSET Memos /\ F \ W \in SUBSET Memos /\ W \in SUBSET Memos
          /\ (F \ W) \cap W = {} /\ (F \ W) \cup W = F
      BY <2>3, <2>7
    <3>2. Amount((F \ W) \cup W) = Amount(F \ W) + Amount(W) BY <2>3, <3>1, AmountFacts
    <3> QED BY <2>3, <3>1, <3>2, AmountFacts
  <2>12. income[d] = balance[d] + Amount(F) /\ internalIncome[d] = Amount(F \ W)
    BY <2>7 DEF MoneyInv, ScannedBalance, F
  <2>13. income[d] = balance[d] + SumFunction(f) /\ SumFunction(f) = internalIncome[d] + SumFunction(g)
    BY <2>8, <2>9, <2>10, <2>11, <2>12
  <2> QED BY <2>13 DEF R, W, f, g
<1> QED BY <1>1, Invariance, PTL

-----------------------------------------------------------------------------
(* No block is refused *)

\* What happened before a transaction of the next block is in it or was scanned.
LEMMA EarlierInBlock ==
    ASSUME IInv, unscanned # <<>>, NEW x \in Next1, NEW y \in Pending, y.lt < x.lt
    PROVE  y \in Next1
<1> USE DEF IInv
<1>1. 1 \in DOMAIN unscanned BY DEF ShapeInv
<1>2. PICK t \in Nat : t = unscanned[1].time /\ t <= chainTime /\ x.lt \in {2 * t, 2 * t + 1}
  BY <1>1, BlockFacts DEF OrderInv, Next1
<1>3. y.lt \in Nat /\ chainTime \in Nat /\ now \in Nat BY BlockFacts, TxFacts DEF TypeOK, ShapeInv
<1>4. CASE y \in InDraft
  <2>1. draft.txs # <<>> BY <1>4, BlockFacts, RangeFacts DEF InDraft
  <2>2. chainTime < now /\ 2 * now <= y.lt BY <1>4, <2>1 DEF OrderInv
  <2>3. FALSE BY <1>2, <1>3, <2>2
  <2> QED BY <2>3
<1>5. CASE y \in InBlocks
  <2>1. PICK j \in DOMAIN unscanned : y \in Range(unscanned[j].txs) BY <1>5 DEF InBlocks
  <2>2. CASE j = 1 BY <2>1, <2>2 DEF Next1
  <2>3. CASE j # 1
    <3>1. 1 < j BY <2>1, <2>3, BlockFacts
    <3>2. PICK u \in Nat : t < u /\ y.lt \in {2 * u, 2 * u + 1}
      BY <1>1, <1>2, <2>1, <3>1, BlockFacts DEF OrderInv
    <3>3. FALSE BY <1>2, <1>3, <3>2
    <3> QED BY <3>3
  <2> QED BY <2>2, <2>3
<1> QED BY <1>4, <1>5 DEF Pending

\* Steps that neither give rows up nor execute messages.
LEMMA TimeSame ==
    ASSUME IInv, TimeInv,
           epc' = "waitSync" \/ UNCHANGED <<epc, syncedAt, scanTime>>,
           \A x \in Pending' : x.kind = "sending" => x \in Pending,
           \A m \in RowMemos : rows'[m].failed = rows[m].failed
    PROVE  TimeInv'
<1>1. epc' = "expire" => syncedAt' < scanTime' + Lag BY DEF TimeInv
<1>2. \A x \in Pending' : x.kind = "sending" => \A m \in x.memos : m \in RowMemos /\ ~rows[m].failed
  BY DEF TimeInv, IInv, NamedInv
<1>3. \A x \in Pending' : x.kind = "sending" => \A m \in x.memos : ~rows'[m].failed BY <1>2
<1> QED BY <1>1, <1>3 DEF TimeInv

\* SetExpired comes within two block times of a moment when the scanner was at most
\* the allowed lag behind, so a row it gives up has no message in unread blocks.
LEMMA SetExpiredTime ==
    ASSUME IInv, TimeInv, PromptExpiry, SetExpired PROVE TimeInv'
<1> USE DEF IInv
<1>1. /\ epc = "expire" /\ now <= syncedAt + ExpireDelay /\ epc' = "waitSync"
      /\ rows' = [m \in Memos |-> IF m \in Expired THEN [rows[m] EXCEPT !.failed = TRUE] ELSE rows[m]]
      /\ UNCHANGED <<draft, unscanned>>
  BY DEF SetExpired, chainVars
<1>2. Pending' = Pending BY <1>1, PendingSame
<1>3. ASSUME NEW x \in Pending, x.kind = "sending", NEW m \in x.memos PROVE ~rows'[m].failed
  <2>1. m \in RowMemos /\ ~rows[m].failed /\ m \in Memos BY <1>3, RowFacts DEF TimeInv, NamedInv
  <2>2. m \notin Expired
    <3> SUFFICES ASSUME m \in Expired PROVE FALSE OBVIOUS
    <3>1. x \in PSendings(m) BY <1>3 DEF PSendings
    <3>2. PICK e \in Nat : e = rows[m].expiredAt BY <2>1, RowFacts
    <3>3. e + Lag < now BY <3>2 DEF Expired
    <3>4. x.lt <= 2 * e + 1 /\ x.lt \in Nat
      BY <1>3, <2>1, <3>1, <3>2, BlockFacts, TxFacts DEF FlowInv, SendingOK
    <3>5. /\ now \in Nat /\ scanTime \in Nat /\ syncedAt \in Nat /\ Lag \in Nat /\ ExpireDelay \in Nat
          /\ ExpireDelay <= 2 /\ syncedAt < scanTime + Lag
      BY <1>1, ConstantsAssumption DEF TypeOK, ShapeInv, TimeInv, PromptExpiry
    <3>6. e <= scanTime BY <1>1, <3>3, <3>5
    <3>7. CASE x \in InDraft
      <4>1. 2 * now <= x.lt BY <3>7 DEF OrderInv
      <4> QED BY <3>3, <3>4, <3>5, <4>1
    <3>8. CASE x \in InBlocks
      <4>1. PICK i \in DOMAIN unscanned : x \in Range(unscanned[i].txs) BY <3>8 DEF InBlocks
      <4>2. PICK t \in Nat : scanTime < t /\ x.lt \in {2 * t, 2 * t + 1}
        BY <4>1, BlockFacts DEF OrderInv
      <4> QED BY <3>4, <3>5, <3>6, <4>2
    <3> QED BY <1>3, <3>7, <3>8 DEF Pending
  <2>3. rows'[m] = rows[m] BY <1>1, <2>1, <2>2
  <2> QED BY <2>1, <2>3
<1> QED BY <1>1, <1>2, <1>3 DEF TimeInv

\* A transfer fails only after its sending was scanned, or with it, and so does a row
\* that somebody else names.
LEMMA ScanBlockTime ==
    ASSUME IInv, TimeInv, ScanBlock PROVE TimeInv'
<1> USE DEF IInv
<1>1. UNCHANGED <<epc, syncedAt>> /\ unscanned # <<>> BY ScanRest
<1>2. epc' = "expire" => syncedAt' < scanTime' + Lag
  <2>1. scanTime < scanTime' BY ScanRest, ScanFacts
  <2>2. scanTime' \in Nat
    <3>1. 1 \in DOMAIN unscanned BY <1>1 DEF ShapeInv
    <3> QED BY <3>1, ScanRest, BlockFacts
  <2>3. scanTime \in Nat /\ syncedAt \in Nat /\ Lag \in Nat BY ConstantsAssumption DEF TypeOK, ShapeInv
  <2>4. epc = "expire" => syncedAt < scanTime + Lag BY DEF TimeInv
  <2>5. syncedAt < scanTime + Lag => syncedAt < scanTime' + Lag
    <3>1. PICK k \in Nat, l \in Nat, a \in Nat, g \in Nat :
               k = scanTime /\ l = scanTime' /\ a = syncedAt /\ g = Lag BY <2>2, <2>3
    <3>2. k < l BY <2>1, <3>1
    <3>3. a < k + g => a < l + g BY <3>2
    <3> QED BY <3>1, <3>3
  <2> QED BY <1>1, <2>4, <2>5
<1>3. ASSUME NEW x \in Pending', x.kind = "sending", NEW m \in x.memos PROVE ~rows'[m].failed
  <2>1. x \in Pending /\ x \notin Next1 BY ScanSets
  <2>2. m \in RowMemos /\ ~rows[m].failed BY <1>3, <2>1 DEF TimeInv, NamedInv
  <2>3. x \in PSendings(m) BY <1>3, <2>1 DEF PSendings
  <2>4. TNow(m) = {}
    <3> SUFFICES ASSUME NEW y \in TNow(m) PROVE FALSE OBVIOUS
    <3>1. y \in PTransfers(m) /\ y \in Next1 /\ y \in Pending BY DEF TNow, PTransfers
    <3>2. x.lt < y.lt BY <2>2, <2>3, <3>1 DEF FlowInv, TransferOK
    <3> QED BY <1>1, <2>1, <3>1, <3>2, EarlierInBlock
  <2>5. FNow(m) = {}
    <3> SUFFICES ASSUME FNow(m) # {} PROVE FALSE OBVIOUS
    <3>1. rows[m].sendingLt # Null \/ SNow(m) # {} BY <2>2, ScanRow
    <3>2. rows[m].sendingLt = Null /\ \A y \in PSendings(m) : y = x
      BY <2>2, <2>3 DEF FlowInv, SendingOK
    <3>3. PICK y \in SNow(m) : y \in PSendings(m) /\ y \in Next1 BY <3>1, <3>2 DEF SNow
    <3> QED BY <2>1, <3>2, <3>3
  <2>6. rows'[m].failed = rows[m].failed BY <2>2, <2>4, <2>5, ScanRow
  <2> QED BY <2>2, <2>6
<1> QED BY <1>2, <1>3 DEF TimeInv

\* An executed message names no row that was given up.
LEMMA ExecuteTime ==
    ASSUME IInv, TimeInv, NEW msg \in sent, NEW D \in SUBSET msg.memos, Execute(msg, D) PROVE TimeInv'
<1> USE DEF IInv
<1>0. \A m \in D : m \in RowMemos /\ m \in Nat /\ ~rows[m].failed
  <2>1. \A m \in D : m \in RowMemos /\ (rows[m].failed => msg.until < now) BY DEF MessageInv, InMessage
  <2>2. now <= msg.until /\ msg.until \in Nat /\ now \in Nat BY DEF Execute, ShapeInv, TypeOK
  <2>3. ~(msg.until < now) BY <2>2
  <2> QED BY <2>1, <2>3, RowFacts
<1>1. PICK x \in Transactions : x = [kind |-> "sending", memos |-> D, lt |-> NextLt]
  BY <1>0, NextLtNat DEF Transactions, SendingTxs
<1>2. PICK bal : bal = draft.balance OBVIOUS
<1>3. Transact(x, bal) /\ x.lt = NextLt /\ x.memos = D BY <1>1, <1>2 DEF Execute
<1>4. Pending' = Pending \cup {x} /\ UNCHANGED <<rows, epc, syncedAt, scanTime>>
  BY <1>3, TransactFacts, TransactRest
<1>5. ASSUME NEW y \in Pending', y.kind = "sending", NEW m \in y.memos PROVE ~rows'[m].failed
  <2>1. CASE y = x BY <1>0, <1>3, <1>4, <1>5, <2>1
  <2>2. CASE y \in Pending BY <1>4, <1>5, <2>2 DEF TimeInv
  <2> QED BY <1>4, <2>1, <2>2
<1> QED BY <1>4, <1>5 DEF TimeInv

\* Transactions of another kind.
LEMMA TransactTime ==
    ASSUME IInv, TimeInv, NEW x \in Transactions, NEW bal, Transact(x, bal), x.lt = NextLt,
           x.kind # "sending"
    PROVE  TimeInv'
<1>1. Pending' = Pending \cup {x} /\ UNCHANGED <<rows, epc, syncedAt, scanTime>>
  BY TransactFacts, TransactRest
<1> QED BY <1>1, TimeSame

LEMMA TimeStep ==
    ASSUME IInv, TimeInv, PromptExpiry, [Next]_vars PROVE TimeInv'
<1> USE DEF IInv
<1>1. ASSUME UNCHANGED <<draft, unscanned, rows>>,
             epc' = "waitSync" \/ UNCHANGED <<epc, syncedAt, scanTime>>
      PROVE  TimeInv'
  <2>1. Pending' = Pending BY <1>1, PendingSame
  <2> QED BY <1>1, <2>1, TimeSame
<1>2. CASE \/ ProcessorSynced
           \/ \E S \in SUBSET JettonTasks : GetTasks(S)
           \/ \E task \in tasks : ReadBalance(task)
           \/ BuildMessage \/ SendMessage \/ Restart \/ Tick
           \/ UNCHANGED vars
  <2>1. CASE ProcessorSynced
    BY <1>1, <2>1 DEF ProcessorSynced, dbVars, expVars, chainVars
  <2>2. CASE \E S \in SUBSET JettonTasks : GetTasks(S)
    BY <1>1, <2>2 DEF GetTasks, dbVars, expVars, chainVars
  <2>3. CASE \E task \in tasks : ReadBalance(task)
    BY <1>1, <2>3 DEF ReadBalance, dbVars, expVars, chainVars
  <2>4. CASE BuildMessage BY <1>1, <2>4 DEF BuildMessage, dbVars, expVars, chainVars
  <2>5. CASE SendMessage BY <1>1, <2>5 DEF SendMessage, dbVars, expVars
  <2>6. CASE Restart BY <1>1, <2>6 DEF Restart, dbVars, chainVars
  <2>7. CASE Tick BY <1>1, <2>7 DEF Tick, dbVars, expVars, chainVars
  <2>8. CASE UNCHANGED vars BY <1>1, <2>8 DEF vars, dbVars, expVars, chainVars
  <2> QED BY <1>2, <2>1, <2>2, <2>3, <2>4, <2>5, <2>6, <2>7, <2>8
<1>3. ASSUME NEW w \in taken, SaveInternalWithdrawalTask(w) PROVE TimeInv'
  <2>1. /\ UNCHANGED <<draft, unscanned, epc, syncedAt, scanTime>>
        /\ rows' = [rows EXCEPT ![lastMemo + 1] = rows'[lastMemo + 1]]
    <3>1. UNCHANGED <<draft, unscanned, epc, syncedAt, scanTime>>
      BY <1>3 DEF SaveInternalWithdrawalTask, expVars
    <3>2. rows = [m \in Memos |-> rows[m]] BY DEF ShapeInv
    <3>3. PICK r : rows' = [rows EXCEPT ![lastMemo + 1] = r] BY <1>3 DEF SaveInternalWithdrawalTask
    <3>4. lastMemo + 1 \in Memos
      BY <1>3, ConstantsAssumption DEF SaveInternalWithdrawalTask, TypeOK, Memos
    <3>5. rows'[lastMemo + 1] = r BY <3>2, <3>3, <3>4
    <3> QED BY <3>1, <3>3, <3>5
  <2>2. \A m \in RowMemos : m # lastMemo + 1 /\ m \in Memos BY RowFacts DEF TypeOK, RowMemos
  <2>3. rows = [m \in Memos |-> rows[m]] BY DEF ShapeInv
  <2>4. \A m \in RowMemos : rows'[m] = rows[m] BY <2>1, <2>2, <2>3
  <2>5. Pending' = Pending BY <2>1, PendingSame
  <2> QED BY <2>1, <2>4, <2>5, TimeSame
<1>4. ASSUME ExpirationSynced PROVE TimeInv'
  <2>1. /\ syncedAt' = now /\ now < scanTime + Lag /\ UNCHANGED <<draft, unscanned, rows, scanTime>>
    BY <1>4 DEF ExpirationSynced, Synced, dbVars, chainVars
  <2>2. Pending' = Pending BY <2>1, PendingSame
  <2> QED BY <2>1, <2>2 DEF TimeInv
<1>5. ASSUME NEW d \in Deposits, NEW n \in BOOLEAN, Income(d, n) PROVE TimeInv'
  <2>1. PICK x \in Transactions :
           x = [kind |-> "income", deposit |-> d, notification |-> n, lt |-> NextLt]
    BY NextLtNat DEF Transactions, IncomeTxs
  <2>2. PICK bal : Transact(x, bal) BY <1>5, <2>1 DEF Income
  <2> QED BY <2>1, <2>2, TransactTime
<1>6. ASSUME NEW m \in proxied, NEW ok \in BOOLEAN, Transfer(m, ok) PROVE TimeInv'
  <2>1. m \in Nat BY RowFacts DEF TypeOK
  <2>2. PICK x \in Transactions :
           x = [kind |-> "transfer", memo |-> m, success |-> ok, lt |-> NextLt]
    BY <2>1, NextLtNat DEF Transactions, TransferTxs
  <2>3. PICK bal : Transact(x, bal) BY <1>6, <2>2 DEF Transfer
  <2> QED BY <2>2, <2>3, TransactTime
<1>7. ASSUME NEW m \in moved, Notify(m) PROVE TimeInv'
  <2>1. m \in Nat BY RowFacts DEF TypeOK
  <2>2. PICK x \in Transactions : x = [kind |-> "notify", memo |-> m, lt |-> NextLt]
    BY <2>1, NextLtNat DEF Transactions, NotifyTxs
  <2>3. PICK bal : Transact(x, bal) BY <1>7, <2>2 DEF Notify
  <2> QED BY <2>2, <2>3, TransactTime
<1>8. ASSUME NewBlock PROVE TimeInv'
  <2>1. Pending' = Pending BY <1>8, NewBlockFacts
  <2>2. UNCHANGED <<rows, epc, syncedAt, scanTime>> BY <1>8 DEF NewBlock, dbVars, expVars
  <2> QED BY <2>1, <2>2, TimeSame
<1>9. ASSUME NEW d \in Deposits, NEW m \in RowMemos \cup {Null}, NEW back \in BOOLEAN,
             ForeignTransfer(d, m, back)
      PROVE  TimeInv'
  <2>1. m \in Nat BY RowFacts DEF Null
  <2>2. PICK x \in Transactions :
           x = [kind |-> "foreign", deposit |-> d, memo |-> m, bounced |-> back, lt |-> NextLt]
    BY <2>1, NextLtNat DEF Transactions, ForeignTxs
  <2>3. PICK bal : Transact(x, bal) BY <1>9, <2>2 DEF ForeignTransfer
  <2> QED BY <2>2, <2>3, TransactTime
<1> QED BY <1>2, <1>3, <1>4, <1>5, <1>6, <1>7, <1>8, <1>9, SetExpiredTime, ScanBlockTime, ExecuteTime
        DEF Next

\* Nothing that the service does makes a block that the scanner refuses: it never
\* meets a withdrawal that was given up, nor a transfer before its sending ("invalid
\* event order"), either of which would end the process at every restart: SetExpired
\* waits for the lag after the TTL, and reads its clock at once.  What is refused is
\* refused for a comment that somebody else sent.
THEOREM ScannerNeverRefuses ==
    ASSUME PromptExpiry
    PROVE  Spec => []NoBlockRefused
<1>1. Init => IInv /\ TimeInv
  <2> SUFFICES ASSUME Init PROVE IInv /\ TimeInv OBVIOUS
  <2>1. Pending = {}
    <3>1. unscanned = <<>> /\ draft.txs = <<>> BY DEF Init
    <3>2. DOMAIN unscanned = {} BY <3>1
    <3> QED BY <3>1, <3>2 DEF Pending, InBlocks, InDraft, Range
  <2>2. TimeInv BY <2>1 DEF TimeInv, Init
  <2> QED BY <2>2, InitInv
<1>2. IInv /\ TimeInv /\ [Next]_vars => (IInv /\ TimeInv)' BY InvStep, TimeStep
<1>3. ASSUME IInv, TimeInv PROVE NoBlockRefused
  <2> USE <1>3 DEF IInv
  <2> SUFFICES ASSUME unscanned # <<>>, NEW m \in RowMemos \cup {Null}, m \notin claimed,
                      Refused(unscanned[1], m)
               PROVE  FALSE
    <3>1. unscanned # <<>> => Head(unscanned) = unscanned[1] BY DEF ShapeInv
    <3> QED BY <3>1 DEF NoBlockRefused
  <2>1. 1 \in DOMAIN unscanned BY DEF ShapeInv
  <2>2. Next1 \subseteq Pending BY <2>1 DEF Next1, Pending, InBlocks
  <2>3. \A k : \A x \in Txs(unscanned[1], k) : x \in Next1 /\ x.kind = k BY DEF Txs, Next1
  <2>4. Foreign(unscanned[1], m) = {} BY <2>2, <2>3 DEF Foreign, NamedInv
  <2>5. \A x \in Transfers(unscanned[1], m) : /\ m \in RowMemos /\ x \in PTransfers(m)
                                              /\ x \in Next1
    <3> SUFFICES ASSUME NEW x \in Transfers(unscanned[1], m)
                 PROVE  m \in RowMemos /\ x \in PTransfers(m) /\ x \in Next1
      OBVIOUS
    <3>1. x \in Next1 /\ x.kind = "transfer" /\ x.memo = m BY <2>3 DEF Transfers
    <3> QED BY <2>2, <3>1 DEF NamedInv, PTransfers
  <2>6. m \in RowMemos BY <2>4, <2>5 DEF Refused
  <2>7. ASSUME rows[m].failed PROVE Sendings(unscanned[1], m) = {} /\ Transfers(unscanned[1], m) = {}
    <3>1. \A y \in Pending : y.kind = "sending" => m \notin y.memos BY <2>7 DEF TimeInv
    <3>2. Sendings(unscanned[1], m) = {} BY <2>2, <2>3, <3>1 DEF Sendings
    <3>3. Transfers(unscanned[1], m) = {}
      BY <2>5, <2>6, <2>7, <3>1 DEF FlowInv, FailedOK, Pending
    <3> QED BY <3>2, <3>3
  <2>8. ASSUME rows[m].sendingLt = Null, NEW x \in Transfers(unscanned[1], m)
        PROVE  Sendings(unscanned[1], m) # {}
    <3>1. PSendings(m) # {} /\ \A y \in PSendings(m) : y.lt < x.lt
      BY <2>5, <2>6, <2>8 DEF FlowInv, TransferOK, Started
    <3>2. PICK y \in PSendings(m) : y.lt < x.lt BY <3>1
    <3>3. y \in Pending /\ y.kind = "sending" /\ m \in y.memos BY DEF PSendings
    <3>4. y \in Next1 BY <2>5, <3>2, <3>3, EarlierInBlock
    <3> QED BY <3>3, <3>4 DEF Sendings, Txs, Next1
  <2> QED BY <2>4, <2>6, <2>7, <2>8 DEF Refused
<1> QED BY <1>1, <1>2, <1>3, PTL DEF Spec

-----------------------------------------------------------------------------
(* Refinement of InternalWithdrawalLifecycle *)

\* A withdrawal asks for something: the balance it was made for is above the cutoff.
AskedInv ==
    /\ \A w \in taken : w.amount > 0
    /\ \A m \in RowMemos : asked[m] > 0

LEMMA AskedStep ==
    ASSUME IInv, AskedInv, [Next]_vars PROVE AskedInv'
<1> USE DEF IInv
<1>1. ASSUME UNCHANGED <<lastMemo, asked>>, taken' \in SUBSET taken PROVE AskedInv'
  BY <1>1 DEF AskedInv, RowMemos
<1>2. CASE \E task \in tasks : ReadBalance(task)
  <2>1. PICK task \in tasks : ReadBalance(task) BY <1>2
  <2>2. UNCHANGED <<lastMemo, asked>> BY <2>1 DEF ReadBalance, dbVars, chainVars
  <2>3. CASE balance[task.from] > Cutoff
    <3>1. PICK w : w = [from |-> task.from, lt |-> task.lt, amount |-> balance[task.from]] OBVIOUS
    <3>2. taken' = taken \cup {w} /\ w.amount = balance[task.from] BY <2>1, <2>3, <3>1 DEF ReadBalance
    <3>3. balance[task.from] \in Nat /\ Cutoff \in Nat
      BY ConstantsAssumption DEF TypeOK, ShapeInv
    <3>4. w.amount > 0 BY <2>3, <3>2, <3>3
    <3> QED BY <2>2, <3>2, <3>4 DEF AskedInv, RowMemos
  <2>4. CASE ~(balance[task.from] > Cutoff) BY <1>1, <2>1, <2>2, <2>4 DEF ReadBalance
  <2> QED BY <2>3, <2>4
<1>3. CASE \E w \in taken : SaveInternalWithdrawalTask(w)
  <2>1. PICK w \in taken : SaveInternalWithdrawalTask(w) BY <1>3
  <2>2. PICK k \in Nat : k = lastMemo + 1 BY DEF TypeOK
  <2>3. /\ lastMemo < MaxMemos /\ lastMemo' = k /\ asked' = [asked EXCEPT ![k] = w.amount]
        /\ taken' \subseteq taken
    BY <2>1, <2>2 DEF SaveInternalWithdrawalTask
  <2>4. lastMemo \in 0..MaxMemos /\ MaxMemos \in Nat BY ConstantsAssumption DEF TypeOK
  <2>5. RowMemos' = RowMemos \cup {k} /\ RowMemos' \subseteq Memos BY <2>2, <2>3, <2>4 DEF RowMemos, Memos
  <2>6. asked \in [Memos -> Nat] BY DEF ShapeInv
  <2>7. \A m \in RowMemos' : asked'[m] > 0 BY <2>3, <2>5, <2>6 DEF AskedInv
  <2> QED BY <2>3, <2>7 DEF AskedInv
<1>4. CASE \/ ProcessorSynced
           \/ \E S \in SUBSET JettonTasks : GetTasks(S)
           \/ BuildMessage \/ SendMessage \/ ExpirationSynced \/ SetExpired \/ Restart \/ Tick
           \/ NewBlock \/ ScanBlock \/ UNCHANGED vars
  BY <1>1, <1>4 DEF ProcessorSynced, GetTasks, BuildMessage, SendMessage, ExpirationSynced, SetExpired,
     Restart, Tick, NewBlock, ScanBlock, vars, dbVars, procVars, expVars, chainVars
<1>5. CASE \/ \E d \in Deposits, n \in BOOLEAN : Income(d, n)
           \/ \E d \in Deposits, m \in RowMemos \cup {Null}, back \in BOOLEAN :
                 ForeignTransfer(d, m, back)
           \/ \E msg \in sent : \E D \in SUBSET msg.memos : Execute(msg, D)
           \/ \E m \in proxied, ok \in BOOLEAN : Transfer(m, ok)
           \/ \E m \in moved : Notify(m)
  <2>1. PICK x, bal : Transact(x, bal) BY <1>5 DEF Income, ForeignTransfer, Execute, Transfer, Notify
  <2> QED BY <1>1, <2>1 DEF Transact, dbVars, procVars
<1> QED BY <1>2, <1>3, <1>4, <1>5 DEF Next

\* What is on its way, by the transactions that the scanner has not read.
LEMMA WayIs ==
    \A m : WayOf(m) = IF \E x \in PTransfers(m) : x.success THEN asked[m] ELSE 0
<1> SUFFICES ASSUME NEW m PROVE OnTheWay(m) <=> \E x \in PTransfers(m) : x.success BY DEF WayOf
<1>1. ASSUME NEW b
      PROVE  Took(b, m) <=> \E x \in Range(b.txs) : x.kind = "transfer" /\ x.memo = m /\ x.success
  BY DEF Took, Range
<1>2. ASSUME OnTheWay(m) PROVE \E x \in PTransfers(m) : x.success
  <2>1. CASE Took(draft, m) BY <1>1, <2>1 DEF PTransfers, Pending, InDraft
  <2>2. CASE \E i \in DOMAIN unscanned : Took(unscanned[i], m)
    BY <1>1, <2>2 DEF PTransfers, Pending, InBlocks
  <2> QED BY <1>2, <2>1, <2>2 DEF OnTheWay
<1>3. ASSUME NEW x \in PTransfers(m), x.success PROVE OnTheWay(m)
  <2>1. x \in Pending /\ x.kind = "transfer" /\ x.memo = m BY DEF PTransfers
  <2>2. CASE x \in InDraft BY <1>1, <1>3, <2>1, <2>2 DEF InDraft, OnTheWay
  <2>3. CASE x \in InBlocks
    <3>1. PICK i \in DOMAIN unscanned : x \in Range(unscanned[i].txs) BY <2>3 DEF InBlocks
    <3> QED BY <1>1, <1>3, <2>1, <3>1 DEF OnTheWay
  <2> QED BY <2>1, <2>2, <2>3 DEF Pending
<1> QED BY <1>2, <1>3

\* The same fact after a step.
LEMMA WayWillBe ==
    \A m : WayOf(m)' = IF \E x \in PTransfers(m)' : x.success THEN asked'[m] ELSE 0
<1>1. (\A m : WayOf(m) = IF \E x \in PTransfers(m) : x.success THEN asked[m] ELSE 0)' BY WayIs, PTL
<1> QED BY <1>1

\* Nothing that the lifecycle shows changes.
LEMMA SimSame ==
    ASSUME UNCHANGED <<rows, lastMemo, asked, claimed>>, draft'.balance = draft.balance,
           \A m : \A x : x.success => (x \in PTransfers(m)' <=> x \in PTransfers(m))
    PROVE  UNCHANGED Lifecycle!vars
<1>1. RowMemos' = RowMemos BY DEF RowMemos
<1>2. \A m : StageOf(m)' = StageOf(m) /\ FromOf(m)' = FromOf(m) /\ BroughtOf(m)' = BroughtOf(m)
  BY <1>1 DEF StageOf, FromOf, BroughtOf
<1>3. ASSUME NEW m PROVE WayOf(m)' = WayOf(m)
  <2>1. (\E x \in PTransfers(m)' : x.success) <=> \E x \in PTransfers(m) : x.success OBVIOUS
  <2> QED BY <2>1, WayIs, WayWillBe
<1> QED BY <1>2, <1>3 DEF Lifecycle!vars

LEMMA SimUnchanged ==
    ASSUME UNCHANGED <<rows, lastMemo, asked, draft, unscanned, claimed>>
    PROVE  UNCHANGED Lifecycle!vars
<1>1. \A m : PTransfers(m)' = PTransfers(m) BY PendingSame
<1> QED BY <1>1, SimSame

\* A step books the withdrawals S with got and gives up those of G.
Reports(S, got, G) ==
    /\ got \in [S -> UNION {1..WayOf(m) : m \in S}]
    /\ \A m \in S : StageOf(m) \in {"open", "finished"} /\ got[m] <= WayOf(m)
    /\ \A m \in G : \/ StageOf(m) = "open" /\ WayOf(m) = 0
                    \/ StageOf(m) \in {"open", "finished"} /\ m \in claimed \ {Null}
    /\ \A m \in Memos : /\ FromOf(m)' = FromOf(m)
                        /\ StageOf(m)' = IF m \in G THEN "failed"
                                         ELSE IF m \in S THEN "finished" ELSE StageOf(m)
                        /\ WayOf(m)' = IF m \in S THEN WayOf(m) - got[m] ELSE WayOf(m)
                        /\ BroughtOf(m)' = IF m \in S THEN BroughtOf(m) + got[m] ELSE BroughtOf(m)
    /\ draft'.balance = draft.balance /\ UNCHANGED claimed

LEMMA SimReport ==
    ASSUME NEW S \in SUBSET Memos, NEW G \in SUBSET Memos, NEW got, Reports(S, got, G)
    PROVE  Lifecycle!Next
<1> USE DEF Reports
<1>1. Lifecycle!Report(S, got, G) BY DEF Lifecycle!Report
<1>2. got \in [S -> UNION {1..([n \in Memos |-> WayOf(n)])[m] : m \in S}]
  <2>1. \A m \in S : ([n \in Memos |-> WayOf(n)])[m] = WayOf(m) OBVIOUS
  <2>2. UNION {1..([n \in Memos |-> WayOf(n)])[m] : m \in S} = UNION {1..WayOf(m) : m \in S} BY <2>1
  <2> QED BY <2>2
<1> QED BY <1>1, <1>2 DEF Lifecycle!Next

\* SaveInternalWithdrawalTask starts a withdrawal of a deposit that has none under way,
\* or one of whose finished withdrawals others failed.
LEMMA SimSave ==
    ASSUME IInv, AskedInv, NEW w \in taken, SaveInternalWithdrawalTask(w) PROVE Lifecycle!Next
<1> USE DEF IInv
<1>0. PICK k \in Nat : k = lastMemo + 1 BY DEF TypeOK
<1>1. PICK r : r = [from |-> w.from, sinceLt |-> w.lt, expiredAt |-> until, failed |-> FALSE,
                    sendingLt |-> 0, finishLt |-> 0, amount |-> 0]
  OBVIOUS
<1>2. /\ lastMemo < MaxMemos /\ lastMemo' = k /\ rows' = [rows EXCEPT ![k] = r]
      /\ asked' = [asked EXCEPT ![k] = w.amount] /\ UNCHANGED <<draft, unscanned, claimed>>
  BY <1>0, <1>1 DEF SaveInternalWithdrawalTask, Null
<1>3. r.from = w.from /\ r.failed = FALSE /\ r.finishLt = 0 /\ r.amount = 0 BY <1>1
<1>4. w.from \in Deposits BY DEF ShapeInv
<1>5. k \in Memos /\ k \notin RowMemos /\ RowMemos' = RowMemos \cup {k}
  <2>1. lastMemo \in 0..MaxMemos /\ MaxMemos \in Nat BY ConstantsAssumption DEF TypeOK
  <2> QED BY <1>0, <1>2, <2>1 DEF Memos, RowMemos
<1>6. /\ rows'[k] = r
      /\ \A m \in Memos : m # k => rows'[m] = rows[m] /\ asked'[m] = asked[m]
  <2>1. rows = [m \in Memos |-> rows[m]] /\ asked \in [Memos -> Nat] BY DEF ShapeInv
  <2> QED BY <1>2, <1>5, <2>1
<1>7. StageOf(k) = "none" /\ StageOf(k)' = "open" /\ FromOf(k)' = w.from
  BY <1>3, <1>5, <1>6 DEF StageOf, FromOf, Null
<1>8. ASSUME NEW m \in Memos, m # k
      PROVE  StageOf(m)' = StageOf(m) /\ FromOf(m)' = FromOf(m) /\ BroughtOf(m)' = BroughtOf(m)
  BY <1>5, <1>6, <1>8 DEF StageOf, FromOf, BroughtOf
<1>9. BroughtOf(k)' = BroughtOf(k) BY <1>3, <1>5, <1>6 DEF BroughtOf
<1>10. ASSUME NEW m \in Memos PROVE WayOf(m)' = WayOf(m)
  <2>1. PTransfers(m)' = PTransfers(m) BY <1>2, PendingSame
  <2>2. m = k => PTransfers(m) = {} BY <1>5 DEF NamedInv, PTransfers
  <2> QED BY <1>6, <2>1, <2>2, WayIs, WayWillBe
<1>11. ASSUME ~TakenBack(w.from) PROVE \A n \in Memos : FromOf(n) = w.from => StageOf(n) # "open"
  <2> SUFFICES ASSUME NEW n \in RowMemos, rows[n].from = w.from, StageOf(n) = "open" PROVE FALSE
    BY DEF StageOf, FromOf
  <2>1. n \in RowsOf(w.from) BY DEF RowsOf
  <2>2. ~Live(n) BY <1>11, <2>1 DEF TaskInv
  <2> QED BY <2>2 DEF Live, StageOf
<1>t. ASSUME TakenBack(w.from) PROVE Lifecycle!TakenBack(w.from)
  <2>1. PICK n \in RowsOf(w.from) : rows[n].failed /\ rows[n].finishLt # Null
    BY <1>t DEF TakenBack
  <2>2. n \in RowMemos /\ n \in Memos /\ rows[n].from = w.from BY RowFacts DEF RowsOf
  <2>3. n \in claimed BY <2>1, <2>2 DEF TypeOK
  <2>4. n # Null BY <2>2 DEF RowMemos, Null, TypeOK
  <2>5. rows[n].amount > 0 BY <2>1, <2>2 DEF FlowInv, FinishOK, AskedInv
  <2>6. StageOf(n) = "failed" /\ FromOf(n) = w.from /\ BroughtOf(n) > 0
    BY <2>1, <2>2, <2>5 DEF StageOf, FromOf, BroughtOf
  <2> QED BY <2>2, <2>3, <2>4, <2>6 DEF Lifecycle!TakenBack
<1>12. [m \in Memos |-> StageOf(m)'] = [[m \in Memos |-> StageOf(m)] EXCEPT ![k] = "open"]
  BY <1>5, <1>7, <1>8
<1>13. [m \in Memos |-> FromOf(m)'] = [[m \in Memos |-> FromOf(m)] EXCEPT ![k] = w.from]
  BY <1>5, <1>7, <1>8
<1>14. [m \in Memos |-> BroughtOf(m)'] = [m \in Memos |-> BroughtOf(m)] BY <1>8, <1>9
<1>15. Lifecycle!Start(k, w.from)
  BY <1>2, <1>5, <1>7, <1>10, <1>11, <1>t, <1>12, <1>13, <1>14 DEF Lifecycle!Start
<1> QED BY <1>4, <1>5, <1>15 DEF Lifecycle!Next

\* SetExpired gives up withdrawals of which nothing is on its way.
LEMMA SimExpired ==
    ASSUME IInv, TimeInv, TimeInv', SetExpired PROVE Lifecycle!Next
<1> USE DEF IInv
<1>1. /\ rows' = [m \in Memos |-> IF m \in Expired THEN [rows[m] EXCEPT !.failed = TRUE] ELSE rows[m]]
      /\ UNCHANGED <<lastMemo, asked, draft, unscanned, claimed>>
  BY DEF SetExpired, chainVars
<1>2. PICK G \in SUBSET Memos : G = Expired BY RowFacts DEF Expired
<1>3. RowMemos' = RowMemos BY <1>1 DEF RowMemos
<1>4. ASSUME NEW m \in Memos
      PROVE  /\ WayOf(m)' = WayOf(m) /\ FromOf(m)' = FromOf(m) /\ BroughtOf(m)' = BroughtOf(m)
             /\ StageOf(m)' = IF m \in G THEN "failed" ELSE StageOf(m)
  <2>1. PTransfers(m)' = PTransfers(m) BY <1>1, PendingSame
  <2>2. WayOf(m)' = WayOf(m) BY <1>1, <2>1, WayIs, WayWillBe
  <2>3. CASE m \in G
    <3>1. m \in RowMemos /\ rows'[m] = [rows[m] EXCEPT !.failed = TRUE] /\ rows[m] \in Row
      BY <1>1, <1>2, <2>3, RowFacts DEF Expired
    <3>2. rows'[m].failed /\ rows'[m].from = rows[m].from /\ rows'[m].amount = rows[m].amount
      BY <3>1 DEF Row
    <3> QED BY <1>3, <2>2, <2>3, <3>1, <3>2 DEF StageOf, FromOf, BroughtOf
  <2>4. CASE m \notin G
    <3>1. rows'[m] = rows[m] BY <1>1, <1>2, <2>4
    <3> QED BY <1>3, <2>2, <2>4, <3>1 DEF StageOf, FromOf, BroughtOf
  <2> QED BY <2>3, <2>4
<1>5. ASSUME NEW m \in G PROVE StageOf(m) = "open" /\ WayOf(m) = 0
  <2>1. m \in RowMemos /\ ~rows[m].failed /\ rows[m].sendingLt = Null BY <1>2 DEF Expired
  <2>2. SendingOK(m) /\ TransferOK(m) /\ FinishOK(m) BY <2>1 DEF FlowInv
  <2>3. rows[m].finishLt = Null BY <2>1, <2>2 DEF FinishOK
  <2>4. PSendings(m) = {}
    <3> SUFFICES ASSUME NEW x \in PSendings(m) PROVE FALSE OBVIOUS
    <3>1. x \in Pending' /\ x.kind = "sending" /\ m \in x.memos BY <1>1, PendingSame DEF PSendings
    <3>2. ~rows'[m].failed BY <3>1 DEF TimeInv
    <3>3. rows'[m] = [rows[m] EXCEPT !.failed = TRUE] /\ rows[m] \in Row
      BY <1>1, <1>2, <2>1, RowFacts
    <3> QED BY <3>2, <3>3 DEF Row
  <2>5. PTransfers(m) = {} BY <2>1, <2>2, <2>4 DEF TransferOK, Started
  <2> QED BY <2>1, <2>3, <2>5, WayIs DEF StageOf
<1>6. PICK S \in SUBSET Memos : S = {} OBVIOUS
<1>7. PICK got : got \in [S -> UNION {1..WayOf(m) : m \in S}]
  <2>1. [m \in S |-> 0] \in [S -> UNION {1..WayOf(m) : m \in S}] BY <1>6
  <2> QED BY <2>1
<1>8. draft'.balance = draft.balance BY <1>1
<1>9. \A m : m \notin S BY <1>6
<1>10. \A m \in Memos :
          /\ FromOf(m)' = FromOf(m)
          /\ StageOf(m)' = IF m \in G THEN "failed" ELSE IF m \in S THEN "finished" ELSE StageOf(m)
          /\ WayOf(m)' = IF m \in S THEN WayOf(m) - got[m] ELSE WayOf(m)
          /\ BroughtOf(m)' = IF m \in S THEN BroughtOf(m) + got[m] ELSE BroughtOf(m)
  BY <1>4, <1>9
<1>11. \A m \in S : StageOf(m) \in {"open", "finished"} /\ got[m] <= WayOf(m) BY <1>9
<1>12. Reports(S, got, G) BY <1>1, <1>5, <1>7, <1>8, <1>10, <1>11 DEF Reports
<1> HIDE DEF IInv
<1> QED BY <1>12, SimReport

\* A scan books the successful transfers of the block and gives up the failed ones,
\* and those that others name.
LEMMA SimScan ==
    ASSUME IInv, AskedInv, ScanBlock PROVE Lifecycle!Next
<1> USE DEF IInv
<1>1. UNCHANGED <<lastMemo, asked, draft, claimed>> /\ RowMemos' = RowMemos BY ScanRest
<1>2. RowMemos \subseteq Memos /\ asked \in [Memos -> Nat] BY RowFacts DEF ShapeInv
<1>3. PICK S \in SUBSET Memos : S = {m \in RowMemos : \E x \in TNow(m) : x.success} BY <1>2
<1>4. PICK G \in SUBSET Memos :
         G = {m \in RowMemos : FNow(m) # {} \/ \E x \in TNow(m) : ~x.success}
  BY <1>2
<1>5. PICK got : got = [m \in S |-> asked[m]] OBVIOUS
<1>6. ASSUME NEW m \in RowMemos
      PROVE  /\ rows'[m].from = rows[m].from /\ PTransfers(m)' = PTransfers(m) \ Next1
             /\ TNow(m) = PTransfers(m) \cap Next1
             /\ TNow(m) = {} => /\ rows'[m].finishLt = rows[m].finishLt
                                /\ rows'[m].amount = rows[m].amount
                                /\ FNow(m) = {} => rows'[m].failed = rows[m].failed
             /\ FNow(m) # {} => rows'[m].failed /\ ~rows[m].failed /\ m \in claimed
             /\ \A x \in TNow(m) :
                   /\ PTransfers(m) = {x} /\ rows[m].finishLt = Null /\ ~rows[m].failed
                   /\ rows[m].amount = 0
                   /\ IF x.success
                      THEN /\ FNow(m) = {} => ~rows'[m].failed
                           /\ rows'[m].finishLt # Null /\ rows'[m].amount = asked[m]
                      ELSE rows'[m].failed /\ rows'[m].finishLt = Null /\ rows'[m].amount = 0
  BY ScanRow, ScanSets DEF TNow
<1>7. ASSUME NEW m \in S
      PROVE  /\ m \in RowMemos /\ StageOf(m) = "open" /\ (m \notin G => StageOf(m)' = "finished")
             /\ WayOf(m) = asked[m] /\ WayOf(m)' = 0 /\ asked[m] > 0 /\ asked[m] \in Nat
             /\ BroughtOf(m) = 0 /\ BroughtOf(m)' = asked[m]
  <2>1. m \in RowMemos BY <1>3
  <2>2. PICK x \in TNow(m) : x.success BY <1>3
  <2>3. /\ PTransfers(m) = {x} /\ TNow(m) = {x} /\ PTransfers(m)' = {} BY <1>6, <2>1, <2>2
  <2>4. m \notin G => FNow(m) = {} BY <1>4, <2>1
  <2>5. /\ StageOf(m) = "open" /\ (m \notin G => StageOf(m)' = "finished")
        /\ BroughtOf(m) = 0 /\ BroughtOf(m)' = asked[m]
    BY <1>1, <1>6, <2>1, <2>2, <2>4 DEF StageOf, BroughtOf
  <2>6. WayOf(m) = asked[m] BY <2>2, <2>3, WayIs
  <2>7. WayOf(m)' = 0 BY <2>3, WayWillBe
  <2> QED BY <1>2, <2>1, <2>5, <2>6, <2>7 DEF AskedInv
<1>8. ASSUME NEW m \in G
      PROVE  /\ m \in RowMemos /\ StageOf(m)' = "failed"
             /\ \/ StageOf(m) = "open" /\ WayOf(m) = 0
                \/ StageOf(m) \in {"open", "finished"} /\ m \in claimed \ {Null}
             /\ m \notin S => WayOf(m)' = WayOf(m) /\ BroughtOf(m)' = BroughtOf(m)
  <2>1. m \in RowMemos /\ m # Null
    <3>1. m \in RowMemos BY <1>4
    <3> QED BY <3>1 DEF RowMemos, Null, TypeOK
  <2>2. CASE \E x \in TNow(m) : ~x.success
    <3>1. PICK x \in TNow(m) : ~x.success BY <2>2
    <3>2. /\ PTransfers(m) = {x} /\ TNow(m) = {x} /\ PTransfers(m)' = {} BY <1>6, <2>1, <3>1
    <3>3. StageOf(m) = "open" /\ StageOf(m)' = "failed" /\ BroughtOf(m)' = BroughtOf(m)
      BY <1>1, <1>6, <2>1, <3>1 DEF StageOf, BroughtOf
    <3>4. WayOf(m) = 0 BY <3>1, <3>2, WayIs
    <3>5. WayOf(m)' = 0 BY <3>2, WayWillBe
    <3> QED BY <2>1, <3>3, <3>4, <3>5
  <2>3. CASE FNow(m) # {} /\ ~\E x \in TNow(m) : ~x.success
    <3>1. StageOf(m)' = "failed" BY <1>1, <1>6, <2>1, <2>3 DEF StageOf
    <3>2. StageOf(m) \in {"open", "finished"} /\ m \in claimed \ {Null}
      BY <1>6, <2>1, <2>3 DEF StageOf
    <3>3. ASSUME m \notin S PROVE WayOf(m)' = WayOf(m) /\ BroughtOf(m)' = BroughtOf(m)
      <4>1. TNow(m) = {} BY <1>3, <2>1, <2>3, <3>3
      <4>2. PTransfers(m)' = PTransfers(m) BY <1>6, <2>1, <4>1
      <4>3. WayOf(m)' = WayOf(m) BY <1>1, <4>2, WayIs, WayWillBe
      <4> QED BY <1>1, <1>6, <2>1, <4>1, <4>3 DEF BroughtOf
    <3> QED BY <2>1, <3>1, <3>2, <3>3
  <2> QED BY <1>4, <2>2, <2>3
<1>9. ASSUME NEW m \in Memos, m \notin S, m \notin G
      PROVE  StageOf(m)' = StageOf(m) /\ WayOf(m)' = WayOf(m) /\ BroughtOf(m)' = BroughtOf(m)
  <2>1. CASE m \in RowMemos
    <3>1. TNow(m) = {} /\ FNow(m) = {} BY <1>3, <1>4, <1>9, <2>1
    <3>2. PTransfers(m)' = PTransfers(m) BY <1>6, <2>1, <3>1
    <3>3. WayOf(m)' = WayOf(m) BY <1>1, <3>2, WayIs, WayWillBe
    <3> QED BY <1>1, <1>6, <2>1, <3>1, <3>3 DEF StageOf, BroughtOf
  <2>2. CASE m \notin RowMemos
    <3>1. PTransfers(m) = {} BY <2>2 DEF NamedInv, PTransfers
    <3>2. PTransfers(m)' = {} BY <3>1, ScanSets
    <3>3. WayOf(m)' = WayOf(m) BY <3>1, <3>2, WayIs, WayWillBe
    <3> QED BY <1>1, <2>2, <3>3 DEF StageOf, BroughtOf
  <2> QED BY <2>1, <2>2
<1>10. \A m \in Memos : FromOf(m)' = FromOf(m) BY <1>1, <1>6 DEF FromOf
<1>11. got \in [S -> UNION {1..WayOf(m) : m \in S}]
  <2>1. ASSUME NEW m \in S PROVE asked[m] \in UNION {1..WayOf(n) : n \in S}
    <3>1. asked[m] \in 1..WayOf(m) BY <1>7
    <3> QED BY <3>1
  <2> QED BY <1>5, <2>1
<1>12. \A m \in S : got[m] = asked[m] BY <1>5
<1>13. \A m \in S : /\ WayOf(m)' = WayOf(m) - got[m] /\ BroughtOf(m)' = BroughtOf(m) + got[m]
                    /\ got[m] <= WayOf(m)
  BY <1>7, <1>12
<1>14. draft'.balance = draft.balance BY <1>1
<1>15. \A m \in Memos :
          /\ FromOf(m)' = FromOf(m)
          /\ StageOf(m)' = IF m \in G THEN "failed" ELSE IF m \in S THEN "finished" ELSE StageOf(m)
          /\ WayOf(m)' = IF m \in S THEN WayOf(m) - got[m] ELSE WayOf(m)
          /\ BroughtOf(m)' = IF m \in S THEN BroughtOf(m) + got[m] ELSE BroughtOf(m)
  BY <1>7, <1>8, <1>9, <1>10, <1>13
<1>16. \A m \in S : StageOf(m) \in {"open", "finished"} /\ got[m] <= WayOf(m) BY <1>7, <1>13
<1> HIDE DEF IInv
<1>17. \A m \in G : \/ StageOf(m) = "open" /\ WayOf(m) = 0
                    \/ StageOf(m) \in {"open", "finished"} /\ m \in claimed \ {Null}
  BY <1>8
<1>18. Reports(S, got, G) BY <1>1, <1>11, <1>14, <1>15, <1>16, <1>17 DEF Reports
<1> QED BY <1>18, SimReport

\* A payer pays.
LEMMA SimIncome ==
    ASSUME IInv, NEW d \in Deposits, NEW n \in BOOLEAN, Income(d, n) PROVE Lifecycle!Next
<1> USE DEF IInv
<1>1. draft.balance \in [Deposits -> Nat] /\ NextLt \in Nat BY NextLtNat, BlockFacts DEF Balances
<1>2. PICK x \in Transactions :
         x = [kind |-> "income", deposit |-> d, notification |-> n, lt |-> NextLt]
  BY <1>1 DEF Transactions, IncomeTxs
<1>3. PICK bal : bal = [draft.balance EXCEPT ![d] = @ + 1] OBVIOUS
<1>4. Transact(x, bal) /\ x.lt = NextLt /\ x.kind = "income" /\ UNCHANGED claimed
  BY <1>2, <1>3 DEF Income
<1>5. UNCHANGED <<rows, lastMemo, asked>> /\ \A m : PTransfers(m)' = PTransfers(m)
  BY <1>4, TransactRest
<1>6. draft'.balance = bal BY <1>4 DEF Transact
<1>7. RowMemos' = RowMemos BY <1>5 DEF RowMemos
<1>8. \A m : StageOf(m)' = StageOf(m) /\ FromOf(m)' = FromOf(m) /\ BroughtOf(m)' = BroughtOf(m)
  BY <1>5, <1>7 DEF StageOf, FromOf, BroughtOf
<1>9. \A m : WayOf(m)' = WayOf(m) BY <1>5, WayIs, WayWillBe
<1>10. Lifecycle!Pay(d) BY <1>3, <1>4, <1>6, <1>8, <1>9 DEF Lifecycle!Pay
<1> QED BY <1>10 DEF Lifecycle!Next

\* A transfer takes what was asked from the deposit of a withdrawal under way, or
\* fails and takes nothing.
LEMMA SimTransfer ==
    ASSUME IInv, TimeInv, AskedInv, NEW m \in proxied, NEW ok \in BOOLEAN, Transfer(m, ok)
    PROVE  Lifecycle!Next \/ UNCHANGED Lifecycle!vars
<1> USE DEF IInv
<1>0. m \in RowMemos /\ m \in Nat /\ m \in Memos /\ rows[m].from \in Deposits /\ asked[m] \in Nat
  BY RowFacts DEF TypeOK, ShapeInv
<1>1. draft.balance \in [Deposits -> Nat] /\ NextLt \in Nat BY NextLtNat, BlockFacts DEF Balances
<1>d. PICK d \in Deposits : d = rows[m].from BY <1>0
<1>2. PICK x \in Transactions :
         x = [kind |-> "transfer", memo |-> m, success |-> ok, lt |-> NextLt]
  BY <1>0, <1>1 DEF Transactions, TransferTxs
<1>3. PICK bal : bal = IF ok THEN [draft.balance EXCEPT ![d] = @ - asked[m]] ELSE draft.balance OBVIOUS
<1>4. Transact(x, bal) /\ (ok => draft.balance[d] >= asked[m]) /\ UNCHANGED claimed
  BY <1>2, <1>3, <1>d DEF Transfer
<1>5. x.kind = "transfer" /\ x.memo = m /\ x.success = ok /\ x.lt = NextLt BY <1>2
<1>6. /\ UNCHANGED <<rows, lastMemo, asked>>
      /\ \A k : k # m => PTransfers(k)' = PTransfers(k)
      /\ PTransfers(m)' = PTransfers(m) \cup {x}
  BY <1>4, <1>5, TransactRest
<1>7. draft'.balance = bal BY <1>4 DEF Transact
<1>8. PTransfers(m) = {} /\ rows[m].finishLt = Null /\ rows[m].amount = 0 /\ m # Null
  <2>1. PTransfers(m) = {} /\ rows[m].finishLt = Null BY <1>0 DEF FlowInv, TransferOK, Gone
  <2> QED BY <1>0, <2>1 DEF FlowInv, FinishOK, Memos, Null
<1>9. rows[m].failed => m \in claimed
  <2> SUFFICES ASSUME rows[m].failed, m \notin claimed PROVE FALSE OBVIOUS
  <2>1. PICK y \in InBlocks : y.kind = "sending" /\ m \in y.memos BY <1>0 DEF FlowInv, FailedOK
  <2> QED BY <2>1 DEF TimeInv, Pending
<1>10. /\ StageOf(m) = "open" \/ (StageOf(m) = "failed" /\ m \in claimed \ {Null})
       /\ FromOf(m) = d /\ WayOf(m) = 0 /\ BroughtOf(m) = 0
  BY <1>0, <1>d, <1>8, <1>9, WayIs DEF StageOf, FromOf, BroughtOf
<1>11. CASE ~ok
  <2>1. draft'.balance = draft.balance BY <1>3, <1>7, <1>11
  <2>2. \A k : \A y : y.success => (y \in PTransfers(k)' <=> y \in PTransfers(k))
    BY <1>5, <1>6, <1>11
  <2> QED BY <1>4, <1>6, <2>1, <2>2, SimSame
<1>12. CASE ok
  <2>1. RowMemos' = RowMemos BY <1>6 DEF RowMemos
  <2>2. \A k : StageOf(k)' = StageOf(k) /\ FromOf(k)' = FromOf(k) /\ BroughtOf(k)' = BroughtOf(k)
    BY <1>6, <2>1 DEF StageOf, FromOf, BroughtOf
  <2>3. \A k : k # m => WayOf(k)' = WayOf(k) BY <1>6, WayIs, WayWillBe
  <2>4. WayOf(m)' = asked[m]
    <3>1. x \in PTransfers(m)' /\ x.success BY <1>5, <1>6, <1>12
    <3> QED BY <1>6, <3>1, WayWillBe
  <2>5. PICK a \in Nat, h \in Nat : a = asked[m] /\ h = draft.balance[d] BY <1>0, <1>1
  <2>6. a \in 1..(h + 0) /\ a > 0
    <3>1. a > 0 BY <1>0, <2>5 DEF AskedInv
    <3>2. h >= a BY <1>4, <1>12, <2>5
    <3> QED BY <3>1, <3>2
  <2>7. draft'.balance = [draft.balance EXCEPT ![d] = @ + 0 - a]
    <3>1. h + 0 - a = h - a OBVIOUS
    <3>2. draft'.balance = [draft.balance EXCEPT ![d] = h - a] BY <1>1, <1>3, <1>7, <1>12, <2>5
    <3> QED BY <1>1, <2>5, <3>1, <3>2
  <2>8. [k \in Memos |-> WayOf(k)'] = [[k \in Memos |-> WayOf(k)] EXCEPT ![m] = @ + a]
    <3>1. WayOf(m)' = WayOf(m) + a BY <1>10, <2>4, <2>5
    <3> QED BY <1>0, <2>3, <3>1
  <2>9. Lifecycle!MayTake(m) BY <1>0, <1>10 DEF Lifecycle!MayTake
  <2>10. Lifecycle!Take(m, d, 0, a) BY <1>0, <1>4, <1>10, <2>2, <2>7, <2>8, <2>9 DEF Lifecycle!Take
  <2>11. \E p \in {0, 1} : \E b \in 1..(draft.balance[d] + p) : Lifecycle!Take(m, d, p, b)
    BY <2>5, <2>6, <2>10
  <2> QED BY <1>0, <2>11 DEF Lifecycle!Next
<1> QED BY <1>11, <1>12

\* Transactions that move nothing.
LEMMA SimTransact ==
    ASSUME IInv, NEW x \in Transactions, NEW bal, Transact(x, bal), x.lt = NextLt,
           x.kind # "transfer", bal = draft.balance, UNCHANGED claimed
    PROVE  UNCHANGED Lifecycle!vars
<1>1. UNCHANGED <<rows, lastMemo, asked>> /\ \A m : PTransfers(m)' = PTransfers(m) BY TransactRest
<1>2. draft'.balance = draft.balance BY DEF Transact
<1> QED BY <1>1, <1>2, SimSame

\* Somebody else names a withdrawal, or none.
LEMMA SimForeign ==
    ASSUME IInv, NEW d \in Deposits, NEW m \in RowMemos \cup {Null}, NEW back \in BOOLEAN,
           ForeignTransfer(d, m, back)
    PROVE  Lifecycle!Next \/ UNCHANGED Lifecycle!vars
<1> USE DEF IInv
<1>1. m \in Nat /\ (m # Null => m \in Memos) BY RowFacts DEF Null
<1>2. PICK x \in Transactions :
         x = [kind |-> "foreign", deposit |-> d, memo |-> m, bounced |-> back, lt |-> NextLt]
  BY <1>1, NextLtNat DEF Transactions, ForeignTxs
<1>3. PICK bal : bal = draft.balance OBVIOUS
<1>4. Transact(x, bal) /\ claimed' = claimed \cup {m} /\ x.kind = "foreign" /\ x.lt = NextLt
  BY <1>2, <1>3 DEF ForeignTransfer
<1>5. UNCHANGED <<rows, lastMemo, asked>> /\ \A k : PTransfers(k)' = PTransfers(k) BY <1>4, TransactRest
<1>6. draft'.balance = draft.balance BY <1>3, <1>4 DEF Transact
<1>7. RowMemos' = RowMemos BY <1>5 DEF RowMemos
<1>8. \A k : StageOf(k)' = StageOf(k) /\ FromOf(k)' = FromOf(k) /\ BroughtOf(k)' = BroughtOf(k)
  BY <1>5, <1>7 DEF StageOf, FromOf, BroughtOf
<1>9. \A k : WayOf(k)' = WayOf(k) BY <1>5, WayIs, WayWillBe
<1>10. CASE m = Null
  <2>1. (claimed \ {Null})' = claimed \ {Null} BY <1>4, <1>10
  <2> QED BY <1>6, <1>8, <1>9, <2>1 DEF Lifecycle!vars
<1>11. CASE m # Null
  <2>1. (claimed \ {Null})' = (claimed \ {Null}) \cup {m} BY <1>4, <1>11
  <2>2. Lifecycle!Claim(m) BY <1>6, <1>8, <1>9, <2>1 DEF Lifecycle!Claim
  <2> QED BY <1>1, <1>11, <2>2 DEF Lifecycle!Next
<1> QED BY <1>10, <1>11

LEMMA SimStep ==
    ASSUME IInv, TimeInv, TimeInv', AskedInv, [Next]_vars
    PROVE  Lifecycle!Next \/ UNCHANGED Lifecycle!vars
<1> USE DEF IInv
<1>1. CASE \/ ProcessorSynced
           \/ \E S \in SUBSET JettonTasks : GetTasks(S)
           \/ \E task \in tasks : ReadBalance(task)
           \/ BuildMessage \/ SendMessage \/ ExpirationSynced \/ Restart \/ Tick
           \/ UNCHANGED vars
  <2>1. UNCHANGED <<rows, lastMemo, asked, draft, unscanned, claimed>>
    BY <1>1 DEF ProcessorSynced, GetTasks, ReadBalance, BuildMessage, SendMessage, ExpirationSynced,
       Restart, Tick, vars, dbVars, chainVars
  <2> QED BY <2>1, SimUnchanged
<1>2. ASSUME NEW msg \in sent, NEW D \in SUBSET msg.memos, Execute(msg, D)
      PROVE  UNCHANGED Lifecycle!vars
  <2>1. \A m \in D : m \in Nat BY RowFacts DEF MessageInv, InMessage
  <2>2. PICK x \in Transactions : x = [kind |-> "sending", memos |-> D, lt |-> NextLt]
    BY <2>1, NextLtNat DEF Transactions, SendingTxs
  <2>3. PICK bal : bal = draft.balance OBVIOUS
  <2>4. Transact(x, bal) /\ UNCHANGED claimed BY <1>2, <2>2, <2>3 DEF Execute
  <2> QED BY <2>2, <2>3, <2>4, SimTransact
<1>3. ASSUME NEW m \in moved, Notify(m) PROVE UNCHANGED Lifecycle!vars
  <2>1. m \in Nat BY RowFacts DEF TypeOK
  <2>2. PICK x \in Transactions : x = [kind |-> "notify", memo |-> m, lt |-> NextLt]
    BY <2>1, NextLtNat DEF Transactions, NotifyTxs
  <2>3. PICK bal : bal = draft.balance OBVIOUS
  <2>4. Transact(x, bal) /\ UNCHANGED claimed BY <1>3, <2>2, <2>3 DEF Notify
  <2> QED BY <2>2, <2>3, <2>4, SimTransact
<1>4. ASSUME NewBlock PROVE UNCHANGED Lifecycle!vars
  <2>1. Pending' = Pending BY <1>4, NewBlockFacts
  <2>2. UNCHANGED <<rows, lastMemo, asked, claimed>> /\ draft'.balance = draft.balance
    BY <1>4 DEF NewBlock, dbVars
  <2>3. \A m : PTransfers(m)' = PTransfers(m) BY <2>1 DEF PTransfers
  <2> QED BY <2>2, <2>3, SimSame
<1> QED BY <1>1, <1>2, <1>3, <1>4, SimSave, SimExpired, SimScan, SimIncome, SimForeign, SimTransfer DEF Next

\* Internal withdrawals of Jettons implement InternalWithdrawalLifecycle: each takes
\* from its deposit once, while it is under way and the only one of the deposit; all
\* that it took is booked; and SetExpired and failed transfers give up only what has
\* taken nothing and will take nothing.  Only a withdrawal that somebody else has named
\* in a refused transfer may be given up although it took or will take something.
THEOREM Refinement ==
    ASSUME PromptExpiry
    PROVE  Spec => ImplementsLifecycle
<1> DEFINE LInv == IInv /\ TimeInv /\ AskedInv
<1>1. Init => LInv /\ Lifecycle!Init
  <2> SUFFICES ASSUME Init PROVE LInv /\ Lifecycle!Init OBVIOUS
  <2>1. Pending = {}
    <3>1. unscanned = <<>> /\ draft.txs = <<>> BY DEF Init
    <3>2. DOMAIN unscanned = {} BY <3>1
    <3> QED BY <3>1, <3>2 DEF Pending, InBlocks, InDraft, Range
  <2>2. RowMemos = {} BY DEF Init, RowMemos
  <2>3. TimeInv /\ AskedInv BY <2>1, <2>2 DEF TimeInv, AskedInv, Init
  <2>4. \A m : WayOf(m) = 0 BY <2>1, WayIs DEF PTransfers
  <2>5. draft.balance = [d \in Deposits |-> 0] BY DEF Init, Zero
  <2>6. \A m \in Memos : StageOf(m) = "none" /\ FromOf(m) = Null /\ BroughtOf(m) = 0
    BY <2>2 DEF StageOf, FromOf, BroughtOf
  <2>7. claimed \ {Null} = {} BY DEF Init
  <2>8. Lifecycle!Init BY <2>4, <2>5, <2>6, <2>7 DEF Lifecycle!Init
  <2> QED BY <2>3, <2>8, InitInv
<1>2. LInv /\ [Next]_vars => LInv' BY InvStep, TimeStep, AskedStep
<1>3. LInv /\ LInv' /\ [Next]_vars => [Lifecycle!Next]_(Lifecycle!vars) BY SimStep
<1> QED BY <1>1, <1>2, <1>3, PTL DEF Spec, ImplementsLifecycle, Lifecycle!Spec

\* A step takes nothing back: a failed withdrawal stays failed, a finished one
\* finished unless somebody else has named it, what is booked never shrinks, and for
\* a failed one nothing is booked any more.
NothingTakenBack ==
    \A m \in Memos :
        /\ StageOf(m) = "finished" /\ m \notin claimed => StageOf(m)' = "finished"
        /\ StageOf(m) = "failed" => StageOf(m)' = "failed"
        /\ BroughtOf(m) <= BroughtOf(m)'
        /\ StageOf(m) = "failed" => BroughtOf(m)' = BroughtOf(m)

\* The lifecycle takes nothing back.
LEMMA LifecycleStep ==
    ASSUME \A m \in Memos : BroughtOf(m) \in Nat /\ WayOf(m) \in Nat,
           [Lifecycle!Next]_(Lifecycle!vars)
    PROVE  NothingTakenBack
<1>1. \A m \in Memos : BroughtOf(m) <= BroughtOf(m) OBVIOUS
<1>2. ASSUME [m \in Memos |-> StageOf(m)'] = [m \in Memos |-> StageOf(m)],
             [m \in Memos |-> BroughtOf(m)'] = [m \in Memos |-> BroughtOf(m)]
      PROVE  NothingTakenBack
  <2>1. \A m \in Memos : StageOf(m)' = StageOf(m) /\ BroughtOf(m)' = BroughtOf(m) BY <1>2
  <2> QED BY <1>1, <2>1 DEF NothingTakenBack
<1>3. ASSUME NEW k \in Memos, NEW d \in Deposits, Lifecycle!Start(k, d) PROVE NothingTakenBack
  <2>1. /\ StageOf(k) = "none"
        /\ [m \in Memos |-> StageOf(m)'] = [[m \in Memos |-> StageOf(m)] EXCEPT ![k] = "open"]
        /\ [m \in Memos |-> BroughtOf(m)'] = [m \in Memos |-> BroughtOf(m)]
    BY <1>3 DEF Lifecycle!Start
  <2>2. \A m \in Memos : BroughtOf(m)' = BroughtOf(m) /\ (m # k => StageOf(m)' = StageOf(m)) BY <2>1
  <2> QED BY <1>1, <2>1, <2>2 DEF NothingTakenBack
<1>4. ASSUME NEW d \in Deposits, Lifecycle!Pay(d) PROVE NothingTakenBack
  BY <1>2, <1>4 DEF Lifecycle!Pay
<1>5. ASSUME NEW k, NEW d, NEW p, NEW a, Lifecycle!Take(k, d, p, a) PROVE NothingTakenBack
  BY <1>2, <1>5 DEF Lifecycle!Take
<1>6. ASSUME NEW S \in SUBSET Memos, NEW G \in SUBSET Memos,
             NEW got \in [S -> UNION {1..([n \in Memos |-> WayOf(n)])[m] : m \in S}],
             Lifecycle!Report(S, got, G)
      PROVE  NothingTakenBack
  <2> SUFFICES ASSUME NEW m \in Memos
               PROVE  /\ StageOf(m) = "finished" /\ m \notin claimed => StageOf(m)' = "finished"
                      /\ StageOf(m) = "failed" => StageOf(m)' = "failed"
                      /\ BroughtOf(m) <= BroughtOf(m)'
                      /\ StageOf(m) = "failed" => BroughtOf(m)' = BroughtOf(m)
    BY DEF NothingTakenBack
  <2>1. /\ m \in S => StageOf(m) \in {"open", "finished"}
        /\ m \in G => StageOf(m) = "open" \/ (StageOf(m) = "finished" /\ m \in claimed)
        /\ StageOf(m)' = IF m \in G THEN "failed" ELSE IF m \in S THEN "finished" ELSE StageOf(m)
        /\ BroughtOf(m)' = IF m \in S THEN BroughtOf(m) + got[m] ELSE BroughtOf(m)
    BY <1>6 DEF Lifecycle!Report
  <2>2. ASSUME m \in S PROVE got[m] \in Nat
    <3>1. got[m] \in UNION {1..([k \in Memos |-> WayOf(k)])[n] : n \in S} BY <2>2
    <3>2. PICK n \in S : got[m] \in 1..([k \in Memos |-> WayOf(k)])[n] BY <3>1
    <3>3. PICK w \in Nat : w = ([k \in Memos |-> WayOf(k)])[n] OBVIOUS
    <3>4. got[m] \in 1..w BY <3>2, <3>3
    <3> QED BY <3>4
  <2>3. PICK b \in Nat : b = BroughtOf(m) OBVIOUS
  <2>4. BroughtOf(m) <= BroughtOf(m)' BY <2>1, <2>2, <2>3
  <2> QED BY <2>1, <2>4
<1>7. CASE UNCHANGED Lifecycle!vars BY <1>2, <1>7 DEF Lifecycle!vars
<1>8. ASSUME NEW k \in Memos, Lifecycle!Claim(k) PROVE NothingTakenBack
  BY <1>2, <1>8 DEF Lifecycle!Claim
<1> QED BY <1>3, <1>4, <1>5, <1>6, <1>7, <1>8 DEF Lifecycle!Next

\* What the tables say of internal withdrawals of Jettons is final: SetExpired, the
\* scanner and a restart leave finished and given up withdrawals as they are, but for
\* finished ones that a refused transfer of somebody else names; no amount is taken
\* back even then, and nothing is booked for a withdrawal that failed.
THEOREM BookedForGood ==
    ASSUME PromptExpiry
    PROVE  Spec => [][NothingTakenBack]_vars
<1> DEFINE LInv == IInv /\ TimeInv /\ AskedInv
<1>1. Init => LInv
  <2> SUFFICES ASSUME Init PROVE LInv OBVIOUS
  <2>1. Pending = {}
    <3>1. unscanned = <<>> /\ draft.txs = <<>> BY DEF Init
    <3>2. DOMAIN unscanned = {} BY <3>1
    <3> QED BY <3>1, <3>2 DEF Pending, InBlocks, InDraft, Range
  <2>2. RowMemos = {} BY DEF Init, RowMemos
  <2>3. TimeInv /\ AskedInv BY <2>1, <2>2 DEF TimeInv, AskedInv, Init
  <2> QED BY <2>3, InitInv
<1>2. LInv /\ [Next]_vars => LInv' BY InvStep, TimeStep, AskedStep
<1>3. LInv /\ LInv' /\ [Next]_vars => [NothingTakenBack]_vars
  <2> SUFFICES ASSUME LInv, LInv', [Next]_vars PROVE NothingTakenBack OBVIOUS
  <2>1. [Lifecycle!Next]_(Lifecycle!vars) BY SimStep
  <2>2. \A m \in Memos : WayOf(m) \in Nat
    <3>1. asked \in [Memos -> Nat] BY DEF IInv, ShapeInv
    <3> QED BY <3>1 DEF WayOf
  <2>3. \A m \in Memos : BroughtOf(m) \in Nat BY RowFacts DEF BroughtOf, IInv
  <2> QED BY <2>1, <2>2, <2>3, LifecycleStep
<1> QED BY <1>1, <1>2, <1>3, PTL DEF Spec
=============================================================================
