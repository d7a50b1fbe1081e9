---------------------------- MODULE ServiceProofs ----------------------------
(***************************************************************************)
(* Theorems about ServiceWithdrawals for every value of its constants: any *)
(* number of addresses, Jettons, requests, payments, replayed messages,    *)
(* lost messages and restarts.                                             *)
(***************************************************************************)
EXTENDS ServiceWithdrawals, FiniteSetTheorems, TLAPS

Request == [from : Addresses \cup {NoJetton}, jetton : Jettons \cup {NoJetton},
            filled : BOOLEAN, processed : BOOLEAN, amount : Nat]
Messages == [memo : Memos, filled : BOOLEAN, amount : Nat]
Tasks == [memo : Memos, amount : Nat]
Txs == [kind : {"hotOut", "depositOut"}, memo : Memos] \cup
       [kind : {"depositIn"}, to : Deposits, from : {"hot", "payer", "jettonWallet"}, amount : Nat]

-----------------------------------------------------------------------------
(* The inductive invariant *)

ProcessorTypes ==
    /\ reqs \in [Memos -> Request] /\ lastMemo \in 0..MaxRequests
    /\ hpc \in {"waitSync", "build", "save", "send"} /\ ipc \in {"waitSync", "loop", "send"}
    /\ todo \subseteq Requested /\ batch \subseteq Messages /\ unsaved \subseteq batch
    /\ tasks \subseteq Tasks
    /\ hotMsgs \in [Memos -> Nat] /\ depositMsgs \in [Memos -> Nat]

ChainTypes ==
    /\ income \in [Deposits -> Nat] /\ paid \in [Deposits -> Nat] /\ bounced \in [Deposits -> Nat]
    /\ ton \in [Addresses -> Nat] /\ jettons \in [Addresses -> [Jettons -> Nat]]
    /\ mail \subseteq Messages /\ valid \subseteq Tasks /\ unscanned \in Seq(Txs)

\* A memo nobody has used yet.
NewInv ==
    \A m \in Memos : IF m \in Requested THEN reqs[m].from \in Addresses
                     ELSE ~reqs[m].filled /\ ~reqs[m].processed

Open(m) == ~reqs[m].processed /\ ~reqs[m].filled
Waiting(m) == ~reqs[m].processed /\ reqs[m].filled

\* A message of the hot wallet for m would not look like an internal withdrawal.
Harmless(m) == m \in Requested /\ ~(reqs[m].from \in Proxies /\ reqs[m].jetton = DepositJetton)

\* The withdrawals processor: what it builds is open, what it saved no longer is,
\* and none of it has been sent.
HotInv ==
    /\ \A m \in todo : Open(m)
    /\ \A w \in batch :
          /\ Harmless(w.memo) /\ w.memo \notin todo /\ hotMsgs[w.memo] = 0
          /\ w.filled <=> reqs[w.memo].from \in Deposits
          /\ w \in unsaved <=> Open(w.memo)
    /\ \A v, w \in batch : v.memo = w.memo => v = w
    /\ hpc # "build" => todo = {}
    /\ hpc \in {"waitSync", "send"} => unsaved = {}
    /\ hpc = "waitSync" => batch = {}
    /\ \A m \in Memos : hotMsgs[m] <= 1 /\ (hotMsgs[m] = 1 => ~Open(m))

\* The internal TON processor: its tasks are filled and wait, the one it sends is
\* processed, and none of them has been sent.
DepositInv ==
    /\ \A t \in tasks : /\ t.memo \in Requested /\ Waiting(t.memo)
                        /\ reqs[t.memo].from \in Deposits
                        /\ t.amount = reqs[t.memo].amount
    /\ ipc = "send" => /\ held \in Tasks /\ held.memo \in Requested /\ reqs[held.memo].processed
                       /\ reqs[held.memo].from \in Deposits /\ depositMsgs[held.memo] = 0
    /\ \A m \in Memos : depositMsgs[m] <= 1 /\ (depositMsgs[m] = 1 => reqs[m].processed)

\* Messages under way and what the scanner will read of them.
ChainInv ==
    /\ \A w \in mail : Harmless(w.memo) /\ (w.filled <=> reqs[w.memo].from \in Deposits)
    /\ \A t \in valid : t.memo \in Requested /\ reqs[t.memo].from \in Deposits
    /\ \A i \in 1..Len(unscanned) : unscanned[i].kind = "hotOut" => Harmless(unscanned[i].memo)

\* The running total of the incomes in q that start from low.
Ledger(q, d, low, high) ==
    \E s \in [0..Len(q) -> Nat] :
        /\ s[0] = low /\ s[Len(q)] = high
        /\ \A i \in 1..Len(q) : s[i] = s[i - 1] + Due(q[i], d)

\* What is recorded and what is still to be read is what was paid and bounced.
LedgerInv == \A d \in Deposits : Ledger(unscanned, d, income[d], paid[d] + bounced[d])

IInv ==
    /\ ProcessorTypes /\ ChainTypes
    /\ NewInv /\ HotInv /\ DepositInv /\ ChainInv /\ LedgerInv

-----------------------------------------------------------------------------
(* Transactions and running totals *)

LEMMA OutFacts ==
    \A m \in Memos : /\ HotOut(m) \in Txs /\ HotOut(m).kind = "hotOut" /\ HotOut(m).memo = m
                     /\ DepositOut(m) \in Txs /\ DepositOut(m).kind = "depositOut"
BY DEF HotOut, DepositOut, Txs

LEMMA InFacts ==
    ASSUME NEW d \in Deposits, NEW sender \in {"hot", "payer", "jettonWallet"}, NEW amt \in Nat
    PROVE  /\ DepositIn(d, sender, amt) \in Txs /\ DepositIn(d, sender, amt).kind = "depositIn"
           /\ DepositIn(d, sender, amt).from = sender /\ DepositIn(d, sender, amt).to = d
           /\ DepositIn(d, sender, amt).amount = amt
BY DEF DepositIn, Txs

LEMMA DueFacts ==
    ASSUME NEW x, NEW d
    PROVE  Due(x, d) = IF x.kind = "depositIn" /\ x.from # "hot" /\ x.to = d THEN x.amount ELSE 0
BY DEF Due, Incomes

LEMMA DueType ==
    ASSUME NEW x \in Txs, NEW d
    PROVE  Due(x, d) \in Nat
<1>1. x.kind = "depositIn" => x.amount \in Nat BY DEF Txs
<1> QED BY <1>1, DueFacts

LEMMA LedgerEmpty ==
    ASSUME NEW d, NEW n \in Nat
    PROVE  Ledger(<< >>, d, n, n)
<1> DEFINE s == [i \in 0..0 |-> n]
<1>1. s \in [0..Len(<< >>) -> Nat] /\ s[0] = n /\ Len(<< >>) = 0 OBVIOUS
<1> HIDE DEF s
<1> QED BY <1>1 DEF Ledger

LEMMA LedgerOfNothing ==
    ASSUME NEW d, NEW a, NEW b, Ledger(<< >>, d, a, b)
    PROVE  a = b
BY DEF Ledger

LEMMA LedgerAppend ==
    ASSUME NEW q \in Seq(Txs), NEW x \in Txs, NEW d, NEW a, NEW b, Ledger(q, d, a, b)
    PROVE  Ledger(Append(q, x), d, a, b + Due(x, d))
<1>1. PICK s \in [0..Len(q) -> Nat] :
         /\ s[0] = a /\ s[Len(q)] = b
         /\ \A i \in 1..Len(q) : s[i] = s[i - 1] + Due(q[i], d)
  BY DEF Ledger
<1> DEFINE r == Append(q, x)
           n == Len(q)
           u == [i \in 0..(n + 1) |-> IF i = n + 1 THEN s[n] + Due(x, d) ELSE s[i]]
<1>2. /\ n \in Nat /\ Len(r) = n + 1 /\ r[n + 1] = x
      /\ \A i \in 1..n : r[i] = q[i]
  OBVIOUS
<1>3. Due(x, d) \in Nat BY DueType
<1>4. u \in [0..Len(r) -> Nat] BY <1>2, <1>3
<1>5. u[0] = a /\ u[Len(r)] = b + Due(x, d) BY <1>1, <1>2
<1>6. ASSUME NEW i \in 1..Len(r) PROVE u[i] = u[i - 1] + Due(r[i], d)
  <2>1. CASE i = n + 1 BY <1>2, <2>1
  <2>2. CASE i # n + 1
    <3>1. i \in 1..n /\ i - 1 \in 0..n /\ i \in 0..(n + 1) /\ i - 1 \in 0..(n + 1)
      BY <1>2, <2>2
    <3>2. u[i] = s[i] /\ u[i - 1] = s[i - 1] BY <1>2, <3>1
    <3>3. s[i] = s[i - 1] + Due(q[i], d) BY <1>1, <3>1
    <3> QED BY <1>2, <3>1, <3>2, <3>3
  <2> QED BY <2>1, <2>2
<1> HIDE DEF u, r, n
<1>7. Ledger(r, d, a, b + Due(x, d)) BY <1>4, <1>5, <1>6 DEF Ledger
<1> QED BY <1>7 DEF r

LEMMA LedgerTail ==
    ASSUME NEW q \in Seq(Txs), q # << >>, NEW d, NEW a, NEW b, Ledger(q, d, a, b)
    PROVE  Ledger(Tail(q), d, a + Due(Head(q), d), b)
<1>1. PICK s \in [0..Len(q) -> Nat] :
         /\ s[0] = a /\ s[Len(q)] = b
         /\ \A i \in 1..Len(q) : s[i] = s[i - 1] + Due(q[i], d)
  BY DEF Ledger
<1> DEFINE r == Tail(q)
           n == Len(q) - 1
           u == [i \in 0..n |-> s[i + 1]]
<1>2. /\ n \in Nat /\ Len(q) = n + 1 /\ Len(r) = n /\ Head(q) = q[1]
      /\ \A i \in 1..n : r[i] = q[i + 1]
  OBVIOUS
<1>3. u \in [0..Len(r) -> Nat] BY <1>2
<1>4. s[1] = a + Due(Head(q), d)
  <2>1. 1 \in 1..Len(q) /\ 1 - 1 = 0 BY <1>2
  <2> QED BY <1>1, <1>2, <2>1
<1>5. u[0] = a + Due(Head(q), d) /\ u[Len(r)] = b BY <1>1, <1>2, <1>4
<1>6. ASSUME NEW i \in 1..Len(r) PROVE u[i] = u[i - 1] + Due(r[i], d)
  <2>1. i + 1 \in 1..Len(q) /\ (i + 1) - 1 = i /\ (i - 1) + 1 = i /\ i \in 0..n /\ i - 1 \in 0..n
    BY <1>2
  <2>2. s[i + 1] = s[i] + Due(q[i + 1], d) BY <1>1, <2>1
  <2> QED BY <1>2, <2>1, <2>2
<1> HIDE DEF u, r, n
<1>7. Ledger(r, d, a + Due(Head(q), d), b) BY <1>3, <1>5, <1>6 DEF Ledger
<1> QED BY <1>7 DEF r

LEMMA ConcatTwo ==
    ASSUME NEW q \in Seq(Txs), NEW x \in Txs, NEW y \in Txs
    PROVE  q \o <<x, y>> = Append(Append(q, x), y)
OBVIOUS

-----------------------------------------------------------------------------
(* Updates of a request *)

LEMMA UpdateFacts ==
    ASSUME reqs \in [Memos -> Request], NEW m \in Memos, NEW a \in Nat, NEW f \in BOOLEAN,
           UpdateServiceWithdrawalRequest(m, a, f)
    PROVE  /\ reqs' \in [Memos -> Request]
           /\ \A n \in Memos : n # m => reqs'[n] = reqs[n]
           /\ \A n \in Memos : reqs'[n].from = reqs[n].from /\ reqs'[n].jetton = reqs[n].jetton
           /\ reqs'[m].amount = a
           /\ reqs'[m].processed <=> ~f
           /\ reqs'[m].filled <=> f
<1> USE DEF UpdateServiceWithdrawalRequest, Request
<1>1. reqs' \in [Memos -> Request]
  <2>1. CASE f = TRUE BY <2>1
  <2>2. CASE f = FALSE BY <2>2
  <2> QED BY <2>1, <2>2
<1>2. \A n \in Memos : n # m => reqs'[n] = reqs[n] OBVIOUS
<1>3. reqs'[m].from = reqs[m].from /\ reqs'[m].jetton = reqs[m].jetton /\ reqs'[m].amount = a
  OBVIOUS
<1>4. reqs'[m].processed <=> ~f OBVIOUS
<1>5. reqs'[m].filled <=> f OBVIOUS
<1> QED BY <1>1, <1>2, <1>3, <1>4, <1>5

-----------------------------------------------------------------------------
(* What a step leaves alone *)

LEMMA SameRequests ==
    ASSUME reqs' = reqs, lastMemo' = lastMemo
    PROVE  /\ Requested' = Requested
           /\ \A m : /\ Harmless(m)' <=> Harmless(m)
                     /\ Open(m)' <=> Open(m)
                     /\ Waiting(m)' <=> Waiting(m)
BY DEF Requested, Harmless, Open, Waiting

LEMMA NewFrame ==
    ASSUME NewInv, reqs' = reqs, lastMemo' = lastMemo
    PROVE  NewInv'
BY SameRequests DEF NewInv

LEMMA HotFrame ==
    ASSUME HotInv, reqs' = reqs, lastMemo' = lastMemo, UNCHANGED <<hotVars, hotMsgs>>
    PROVE  HotInv'
BY SameRequests DEF HotInv, hotVars

LEMMA DepositFrame ==
    ASSUME DepositInv, reqs' = reqs, lastMemo' = lastMemo, UNCHANGED <<depositVars, depositMsgs>>
    PROVE  DepositInv'
BY SameRequests DEF DepositInv, depositVars

LEMMA ChainFrame ==
    ASSUME ChainInv, reqs' = reqs, lastMemo' = lastMemo, unscanned' = unscanned,
           mail' \subseteq mail, valid' \subseteq valid
    PROVE  ChainInv'
BY SameRequests DEF ChainInv

LEMMA LedgerFrame ==
    ASSUME LedgerInv, UNCHANGED <<unscanned, income, paid, bounced>>
    PROVE  LedgerInv'
BY DEF LedgerInv

\* The transactions of a step, appended to what the scanner has not read.
LEMMA TxAppended ==
    ASSUME ChainInv, unscanned \in Seq(Txs), NEW x \in Txs, unscanned' = Append(unscanned, x),
           reqs' = reqs, lastMemo' = lastMemo, mail' \subseteq mail, valid' \subseteq valid,
           x.kind = "hotOut" => Harmless(x.memo)
    PROVE  ChainInv' /\ unscanned' \in Seq(Txs)
<1>1. /\ Len(unscanned) \in Nat /\ Len(unscanned') = Len(unscanned) + 1
      /\ unscanned'[Len(unscanned) + 1] = x
      /\ \A i \in 1..Len(unscanned) : unscanned'[i] = unscanned[i]
  OBVIOUS
<1>2. \A i \in 1..Len(unscanned') : i \in 1..Len(unscanned) \/ i = Len(unscanned) + 1
  BY <1>1
<1>3. ASSUME NEW i \in 1..Len(unscanned'), unscanned'[i].kind = "hotOut"
      PROVE  Harmless(unscanned'[i].memo)
  BY <1>1, <1>2, <1>3 DEF ChainInv
<1>4. ASSUME NEW i \in 1..Len(unscanned'), unscanned'[i].kind = "hotOut"
      PROVE  Harmless(unscanned[i].memo)'
  <2>1. PICK m : m = unscanned'[i].memo OBVIOUS
  <2>2. Harmless(m) BY <1>3, <1>4, <2>1
  <2>3. Harmless(m)' BY <2>2, SameRequests
  <2> QED BY <2>1, <2>3 DEF Harmless
<1> QED BY <1>4, SameRequests DEF ChainInv

LEMMA TwoTxsAppended ==
    ASSUME ChainInv, unscanned \in Seq(Txs), NEW x \in Txs, NEW y \in Txs,
           unscanned' = unscanned \o <<x, y>>,
           reqs' = reqs, lastMemo' = lastMemo, mail' \subseteq mail, valid' \subseteq valid,
           x.kind = "hotOut" => Harmless(x.memo), y.kind = "depositIn"
    PROVE  ChainInv' /\ unscanned' \in Seq(Txs)
<1>1. /\ Len(unscanned) \in Nat /\ Len(unscanned') = Len(unscanned) + 2
      /\ unscanned'[Len(unscanned) + 1] = x /\ unscanned'[Len(unscanned) + 2] = y
      /\ \A i \in 1..Len(unscanned) : unscanned'[i] = unscanned[i]
  OBVIOUS
<1>2. \A i \in 1..Len(unscanned') :
         i \in 1..Len(unscanned) \/ i = Len(unscanned) + 1 \/ i = Len(unscanned) + 2
  BY <1>1
<1>3. ASSUME NEW i \in 1..Len(unscanned'), unscanned'[i].kind = "hotOut"
      PROVE  Harmless(unscanned'[i].memo)
  BY <1>1, <1>2, <1>3 DEF ChainInv
<1>4. ASSUME NEW i \in 1..Len(unscanned'), unscanned'[i].kind = "hotOut"
      PROVE  Harmless(unscanned[i].memo)'
  <2>1. PICK m : m = unscanned'[i].memo OBVIOUS
  <2>2. Harmless(m) BY <1>3, <1>4, <2>1
  <2>3. Harmless(m)' BY <2>2, SameRequests
  <2> QED BY <2>1, <2>3 DEF Harmless
<1> QED BY <1>4, SameRequests DEF ChainInv

-----------------------------------------------------------------------------
(* The chain and the scanner *)

LEMMA ChainStep ==
    ASSUME IInv, UNCHANGED <<reqs, lastMemo, hotVars, depositVars, sentVars>>,
           ChainTypes', ChainInv', LedgerInv'
    PROVE  IInv'
<1> USE DEF IInv
<1>1. ProcessorTypes' BY SameRequests DEF ProcessorTypes, hotVars, depositVars, sentVars
<1>2. NewInv' BY NewFrame
<1>3. HotInv' BY HotFrame DEF sentVars
<1>4. DepositInv' BY DepositFrame DEF sentVars
<1> QED BY <1>1, <1>2, <1>3, <1>4

LEMMA SkipMessageStep ==
    ASSUME IInv, NEW w \in mail, SkipMessage(w)
    PROVE  IInv'
<1> USE DEF IInv
<1>1. /\ mail' \subseteq mail
      /\ UNCHANGED <<reqs, lastMemo, income, hotVars, depositVars, ton, jettons, valid, unscanned,
                     sentVars, paid, bounced>>
  BY DEF SkipMessage, dbVars, payVars, execVars
<1>2. ChainTypes' BY <1>1 DEF ChainTypes
<1>3. ChainInv' /\ LedgerInv' BY <1>1, ChainFrame, LedgerFrame
<1> QED BY <1>1, <1>2, <1>3, ChainStep

LEMMA TooOldStep ==
    ASSUME IInv, NEW t \in valid, TooOld(t)
    PROVE  IInv'
<1> USE DEF IInv
<1>1. /\ valid' \subseteq valid
      /\ UNCHANGED <<reqs, lastMemo, income, hotVars, depositVars, ton, jettons, mail, unscanned,
                     sentVars, paid, bounced>>
  BY DEF TooOld, dbVars, payVars, execVars
<1>2. ChainTypes' BY <1>1 DEF ChainTypes
<1>3. ChainInv' /\ LedgerInv' BY <1>1, ChainFrame, LedgerFrame
<1> QED BY <1>1, <1>2, <1>3, ChainStep

LEMMA WithdrawTONsStep ==
    ASSUME IInv, NEW d \in Deposits, WithdrawTONs(d)
    PROVE  IInv'
<1> USE DEF IInv
<1>1. /\ ton' = [ton EXCEPT ![d] = 0]
      /\ UNCHANGED <<reqs, lastMemo, income, hotVars, depositVars, jettons, mail, valid, unscanned,
                     sentVars, paid, bounced>>
  BY DEF WithdrawTONs, payVars, execVars
<1>2. ChainTypes' BY <1>1 DEF ChainTypes
<1>3. ChainInv' /\ LedgerInv' BY <1>1, ChainFrame, LedgerFrame
<1> QED BY <1>1, <1>2, <1>3, ChainStep

LEMMA PayJettonStep ==
    ASSUME IInv, NEW a \in Addresses, NEW j \in Jettons, PayJetton(a, j)
    PROVE  IInv'
<1> USE DEF IInv
<1>1. /\ jettons' = [jettons EXCEPT ![a][j] = @ + 1]
      /\ UNCHANGED <<reqs, lastMemo, income, hotVars, depositVars, ton, mail, valid, unscanned,
                     sentVars, paid, bounced>>
  BY DEF PayJetton, dbVars, execVars
<1>2. ChainTypes' BY <1>1 DEF ChainTypes
<1>3. ChainInv' /\ LedgerInv' BY <1>1, ChainFrame, LedgerFrame
<1> QED BY <1>1, <1>2, <1>3, ChainStep

LEMMA PayTonStep ==
    ASSUME IInv, NEW a \in Addresses, PayTon(a)
    PROVE  IInv'
<1> USE DEF IInv
<1>1. /\ ton' = [ton EXCEPT ![a] = @ + 1]
      /\ IF a \in Deposits
         THEN /\ paid' = [paid EXCEPT ![a] = @ + 1]
              /\ unscanned' = Append(unscanned, DepositIn(a, "payer", 1))
         ELSE UNCHANGED <<paid, unscanned>>
      /\ UNCHANGED <<reqs, lastMemo, income, hotVars, depositVars, jettons, mail, valid,
                     sentVars, bounced>>
  BY DEF PayTon, dbVars, execVars
<1>2. ton' \in [Addresses -> Nat] BY <1>1 DEF ChainTypes
<1>3. CASE a \in Deposits
  <2> DEFINE x == DepositIn(a, "payer", 1)
  <2>1. x \in Txs /\ x.kind = "depositIn" /\ x.from = "payer" /\ x.to = a /\ x.amount = 1
    BY <1>3, InFacts
  <2> HIDE DEF x
  <2>2. unscanned' = Append(unscanned, x) /\ paid' = [paid EXCEPT ![a] = @ + 1]
    BY <1>1, <1>3 DEF x
  <2>3. ChainInv' /\ unscanned' \in Seq(Txs) BY <1>1, <2>1, <2>2, TxAppended DEF ChainTypes
  <2>4. ChainTypes' BY <1>1, <1>2, <2>2, <2>3 DEF ChainTypes
  <2>5. ASSUME NEW d \in Deposits
        PROVE  Ledger(unscanned', d, income'[d], paid'[d] + bounced'[d])
    <3>1. Ledger(unscanned', d, income[d], (paid[d] + bounced[d]) + Due(x, d))
      BY <2>1, <2>2, LedgerAppend DEF LedgerInv, ChainTypes
    <3>2. Due(x, d) = IF d = a THEN 1 ELSE 0 BY <2>1, DueFacts
    <3>3. paid'[d] + bounced'[d] = (paid[d] + bounced[d]) + Due(x, d)
      <4>1. paid \in [Deposits -> Nat] /\ bounced \in [Deposits -> Nat] BY DEF ChainTypes
      <4>2. paid'[d] = (IF d = a THEN paid[d] + 1 ELSE paid[d]) /\ bounced'[d] = bounced[d]
        BY <1>1, <1>3, <2>2, <4>1
      <4>3. paid[d] \in Nat /\ bounced[d] \in Nat BY <4>1
      <4> QED BY <3>2, <4>2, <4>3
    <3>4. income'[d] = income[d] BY <1>1
    <3> QED BY <3>1, <3>3, <3>4
  <2>6. LedgerInv' BY <2>5 DEF LedgerInv
  <2> QED BY <1>1, <2>3, <2>4, <2>6, ChainStep
<1>4. CASE a \notin Deposits
  <2>1. ChainTypes' BY <1>1, <1>2, <1>4 DEF ChainTypes
  <2>2. ChainInv' /\ LedgerInv' BY <1>1, <1>4, ChainFrame, LedgerFrame
  <2> QED BY <1>1, <2>1, <2>2, ChainStep
<1> QED BY <1>3, <1>4

\* A filling is not an income.
LEMMA FillDepositStep ==
    ASSUME IInv, NEW w \in mail, FillDeposit(w)
    PROVE  IInv'
<1> USE DEF IInv
<1>1. PICK d : d = reqs[w.memo].from OBVIOUS
<1>2. /\ w.filled /\ ton' = [ton EXCEPT ![d] = @ + 1] /\ mail' = mail \ {w}
      /\ unscanned' = unscanned \o <<HotOut(w.memo), DepositIn(d, "hot", 1)>>
      /\ UNCHANGED <<reqs, lastMemo, income, hotVars, depositVars, jettons, valid, sentVars, paid,
                     bounced>>
  BY <1>1 DEF FillDeposit, dbVars, payVars, execVars
<1>3. w.memo \in Memos /\ d \in Deposits /\ d \in Addresses /\ Harmless(w.memo)
  BY <1>1, <1>2 DEF ChainInv, ChainTypes, Messages, Addresses
<1> DEFINE x == HotOut(w.memo)
           y == DepositIn(d, "hot", 1)
<1>4. x \in Txs /\ x.kind = "hotOut" /\ x.memo = w.memo BY <1>3, OutFacts
<1>5. y \in Txs /\ y.kind = "depositIn" /\ y.from = "hot" BY <1>3, InFacts
<1> HIDE DEF x, y
<1>6. unscanned' = unscanned \o <<x, y>> /\ unscanned \in Seq(Txs) BY <1>2 DEF x, y, ChainTypes
<1>7. ChainInv' /\ unscanned' \in Seq(Txs)
  <2>1. mail' \subseteq mail /\ valid' \subseteq valid BY <1>2
  <2> QED BY <1>2, <1>3, <1>4, <1>5, <1>6, <2>1, TwoTxsAppended
<1>8. ChainTypes' BY <1>2, <1>3, <1>7 DEF ChainTypes
<1>9. ASSUME NEW e \in Deposits
      PROVE  Ledger(unscanned', e, income'[e], paid'[e] + bounced'[e])
  <2>1. Append(unscanned, x) \in Seq(Txs) BY <1>4, <1>6
  <2>2. Ledger(Append(unscanned, x), e, income[e], (paid[e] + bounced[e]) + Due(x, e))
    BY <1>4, <1>6, LedgerAppend DEF LedgerInv
  <2>3. Ledger(Append(Append(unscanned, x), y), e, income[e],
               ((paid[e] + bounced[e]) + Due(x, e)) + Due(y, e))
    BY <1>5, <2>1, <2>2, LedgerAppend
  <2>4. Due(x, e) = 0 /\ Due(y, e) = 0 BY <1>4, <1>5, DueFacts
  <2>5. ((paid[e] + bounced[e]) + Due(x, e)) + Due(y, e) = paid'[e] + bounced'[e]
    BY <1>2, <2>4 DEF ChainTypes
  <2>6. unscanned' = Append(Append(unscanned, x), y) BY <1>4, <1>5, <1>6, ConcatTwo
  <2>7. income'[e] = income[e] BY <1>2
  <2> QED BY <2>3, <2>5, <2>6, <2>7
<1>10. LedgerInv' BY <1>9 DEF LedgerInv
<1> QED BY <1>2, <1>7, <1>8, <1>10, ChainStep

LEMMA RequestedMemos == lastMemo \in 0..MaxRequests => Requested \subseteq Memos
BY ConstantsAssumption DEF Requested, Memos

LEMMA ProxyTransferStep ==
    ASSUME IInv, NEW w \in mail, ProxyTransfer(w)
    PROVE  IInv'
<1> USE DEF IInv
<1>1. PICK p, j : p = reqs[w.memo].from /\ j = reqs[w.memo].jetton OBVIOUS
<1>2. /\ \/ ton' = [ton EXCEPT ![p] = @ + 1] /\ jettons' = jettons
         \/ /\ ton' = [ton EXCEPT ![p] = 0]
            /\ \/ jettons' = jettons
               \/ /\ j # NoJetton /\ ~(jettons[p][j] < w.amount)
                  /\ jettons' = [jettons EXCEPT ![p][j] = @ - w.amount]
      /\ unscanned' = Append(unscanned, HotOut(w.memo)) /\ mail' = mail \ {w}
      /\ UNCHANGED <<reqs, lastMemo, income, hotVars, depositVars, valid, sentVars, paid, bounced>>
  BY <1>1 DEF ProxyTransfer, dbVars, payVars, execVars
<1>3. w.memo \in Memos /\ w.amount \in Nat /\ Harmless(w.memo) /\ w.memo \in Requested
  BY DEF ChainInv, ChainTypes, Messages, Harmless
<1>4. p \in Addresses BY <1>1, <1>3 DEF NewInv
<1>5. j \in Jettons \cup {NoJetton} BY <1>1, <1>3 DEF ProcessorTypes, Request
<1> DEFINE x == HotOut(w.memo)
<1>6. x \in Txs /\ x.kind = "hotOut" /\ x.memo = w.memo BY <1>3, OutFacts
<1> HIDE DEF x
<1>7. unscanned' = Append(unscanned, x) /\ unscanned \in Seq(Txs) BY <1>2 DEF x, ChainTypes
<1>8. ChainInv' /\ unscanned' \in Seq(Txs)
  <2>1. mail' \subseteq mail /\ valid' \subseteq valid BY <1>2
  <2> QED BY <1>2, <1>3, <1>6, <1>7, <2>1, TxAppended
<1>9. ChainTypes'
  <2>1. ton' \in [Addresses -> Nat]
    <3>1. ton \in [Addresses -> Nat] /\ ton[p] \in Nat BY <1>4 DEF ChainTypes
    <3>2. ton' = [ton EXCEPT ![p] = ton[p] + 1] \/ ton' = [ton EXCEPT ![p] = 0] BY <1>2
    <3> QED BY <3>1, <3>2
  <2>2. jettons' \in [Addresses -> [Jettons -> Nat]]
    <3>1. jettons \in [Addresses -> [Jettons -> Nat]] BY DEF ChainTypes
    <3>2. CASE /\ j # NoJetton /\ ~(jettons[p][j] < w.amount)
               /\ jettons' = [jettons EXCEPT ![p][j] = @ - w.amount]
      <4>1. j \in Jettons /\ jettons[p][j] \in Nat BY <1>4, <1>5, <3>1, <3>2
      <4>2. jettons[p][j] - w.amount \in Nat BY <1>3, <3>2, <4>1
      <4> QED BY <1>4, <3>1, <3>2, <4>1, <4>2
    <3> QED BY <1>2, <3>1, <3>2
  <2> QED BY <1>2, <1>8, <2>1, <2>2 DEF ChainTypes
<1>10. ASSUME NEW e \in Deposits
       PROVE  Ledger(unscanned', e, income'[e], paid'[e] + bounced'[e])
  <2>1. Ledger(unscanned', e, income[e], (paid[e] + bounced[e]) + Due(x, e))
    BY <1>6, <1>7, LedgerAppend DEF LedgerInv
  <2>2. Due(x, e) = 0 BY <1>6, DueFacts
  <2>3. (paid[e] + bounced[e]) + Due(x, e) = paid'[e] + bounced'[e] /\ income'[e] = income[e]
    BY <1>2, <2>2 DEF ChainTypes
  <2> QED BY <2>1, <2>3
<1>11. LedgerInv' BY <1>10 DEF LedgerInv
<1> QED BY <1>2, <1>8, <1>9, <1>11, ChainStep

\* TON that a Jetton wallet sends back is an income of the deposit, and is
\* counted as bounced.
LEMMA DepositTransferStep ==
    ASSUME IInv, NEW t \in valid, DepositTransfer(t)
    PROVE  IInv'
<1> USE DEF IInv
<1>1. PICK d, j : d = reqs[t.memo].from /\ j = reqs[t.memo].jetton OBVIOUS
<1>2. /\ IF jettons[d][j] < t.amount
         THEN /\ bounced' = [bounced EXCEPT ![d] = @ + ton[d]]
              /\ unscanned' = unscanned \o
                                <<DepositOut(t.memo), DepositIn(d, "jettonWallet", ton[d])>>
              /\ UNCHANGED <<ton, jettons>>
         ELSE /\ jettons' = [jettons EXCEPT ![d][j] = @ - t.amount]
              /\ ton' = [ton EXCEPT ![d] = 0]
              /\ unscanned' = Append(unscanned, DepositOut(t.memo))
              /\ UNCHANGED bounced
      /\ UNCHANGED <<reqs, lastMemo, income, hotVars, depositVars, mail, valid, sentVars, paid>>
  BY <1>1 DEF DepositTransfer, dbVars, payVars, execVars
<1>3. /\ t.memo \in Memos /\ t.amount \in Nat /\ d \in Deposits /\ d \in Addresses
      /\ mail' \subseteq mail /\ valid' \subseteq valid
  BY <1>1, <1>2 DEF ChainInv, ChainTypes, Tasks, Addresses
<1> DEFINE x == DepositOut(t.memo)
<1>4. x \in Txs /\ x.kind = "depositOut" BY <1>3, OutFacts
<1>5. \A e : Due(x, e) = 0 BY <1>4, DueFacts
<1> HIDE DEF x
<1>6. /\ unscanned \in Seq(Txs) /\ ton \in [Addresses -> Nat] /\ bounced \in [Deposits -> Nat]
      /\ paid \in [Deposits -> Nat] /\ jettons \in [Addresses -> [Jettons -> Nat]]
  BY DEF ChainTypes
<1>7. CASE jettons[d][j] < t.amount
  <2>0. PICK n : n = ton[d] OBVIOUS
  <2> DEFINE y == DepositIn(d, "jettonWallet", n)
  <2>1. n \in Nat BY <1>3, <1>6, <2>0
  <2>2. y \in Txs /\ y.kind = "depositIn" /\ y.from = "jettonWallet" /\ y.to = d /\ y.amount = n
    BY <1>3, <2>1, InFacts
  <2> HIDE DEF y
  <2>3. /\ unscanned' = unscanned \o <<x, y>> /\ bounced' = [bounced EXCEPT ![d] = @ + n]
        /\ ton' = ton /\ jettons' = jettons
    BY <1>2, <1>7, <2>0 DEF x, y
  <2>4. ChainInv' /\ unscanned' \in Seq(Txs)
    BY <1>2, <1>3, <1>4, <1>6, <2>2, <2>3, TwoTxsAppended
  <2>5. ChainTypes' BY <1>2, <1>3, <2>1, <2>3, <2>4 DEF ChainTypes
  <2>6. ASSUME NEW e \in Deposits
        PROVE  Ledger(unscanned', e, income'[e], paid'[e] + bounced'[e])
    <3>1. Append(unscanned, x) \in Seq(Txs) BY <1>4, <1>6
    <3>2. Ledger(Append(unscanned, x), e, income[e], (paid[e] + bounced[e]) + Due(x, e))
      BY <1>4, <1>6, LedgerAppend DEF LedgerInv
    <3>3. Ledger(Append(Append(unscanned, x), y), e, income[e],
                 ((paid[e] + bounced[e]) + Due(x, e)) + Due(y, e))
      BY <2>2, <3>1, <3>2, LedgerAppend
    <3>4. Due(y, e) = IF e = d THEN n ELSE 0 BY <2>2, DueFacts
    <3>5. /\ paid'[e] = paid[e] /\ bounced'[e] = (IF e = d THEN bounced[e] + n ELSE bounced[e])
          /\ paid[e] \in Nat /\ bounced[e] \in Nat
      BY <1>2, <1>6, <2>3
    <3>6. ((paid[e] + bounced[e]) + Due(x, e)) + Due(y, e) = paid'[e] + bounced'[e]
      BY <1>5, <2>1, <3>4, <3>5
    <3>7. unscanned' = Append(Append(unscanned, x), y) BY <1>4, <1>6, <2>2, <2>3, ConcatTwo
    <3>8. income'[e] = income[e] BY <1>2
    <3> QED BY <3>3, <3>6, <3>7, <3>8
  <2>7. LedgerInv' BY <2>6 DEF LedgerInv
  <2> QED BY <1>2, <2>4, <2>5, <2>7, ChainStep
<1>8. CASE ~(jettons[d][j] < t.amount)
  <2>1. unscanned' = Append(unscanned, x) /\ bounced' = bounced BY <1>2, <1>8 DEF x
  <2>2. ChainInv' /\ unscanned' \in Seq(Txs) BY <1>2, <1>3, <1>4, <1>6, <2>1, TxAppended
  <2>3. jettons' \in [Addresses -> [Jettons -> Nat]]
    <3>1. PICK k : k = jettons[d][j] - t.amount OBVIOUS
    <3>2. jettons' = [jettons EXCEPT ![d] = [jettons[d] EXCEPT ![j] = k]] BY <1>2, <1>8, <3>1
    <3>3. j \in Jettons => k \in Nat BY <1>3, <1>6, <1>8, <3>1
    <3>4. jettons[d] \in [Jettons -> Nat] BY <1>3, <1>6
    <3>5. [jettons[d] EXCEPT ![j] = k] \in [Jettons -> Nat] BY <3>3, <3>4
    <3> QED BY <1>6, <3>2, <3>5
  <2>4. ton' \in [Addresses -> Nat]
    <3>1. ton' = [ton EXCEPT ![d] = 0] BY <1>2, <1>8
    <3> QED BY <1>6, <3>1
  <2>5. ChainTypes' BY <1>2, <2>1, <2>2, <2>3, <2>4 DEF ChainTypes
  <2>6. ASSUME NEW e \in Deposits
        PROVE  Ledger(unscanned', e, income'[e], paid'[e] + bounced'[e])
    <3>1. Ledger(unscanned', e, income[e], (paid[e] + bounced[e]) + Due(x, e))
      BY <1>4, <1>6, <2>1, LedgerAppend DEF LedgerInv
    <3>2. paid[e] \in Nat /\ bounced[e] \in Nat BY <1>6
    <3>3. (paid[e] + bounced[e]) + Due(x, e) = paid'[e] + bounced'[e] /\ income'[e] = income[e]
      BY <1>2, <1>5, <2>1, <3>2
    <3> QED BY <3>1, <3>3
  <2>7. LedgerInv' BY <2>6 DEF LedgerInv
  <2> QED BY <1>2, <2>2, <2>5, <2>7, ChainStep
<1> QED BY <1>7, <1>8

LEMMA ScanStep ==
    ASSUME IInv, Scan
    PROVE  IInv'
<1> USE DEF IInv
<1>1. PICK x : x = Head(unscanned) OBVIOUS
<1>2. /\ unscanned # << >> /\ unscanned' = Tail(unscanned)
      /\ income' = [d \in Deposits |-> income[d] + Due(x, d)]
      /\ UNCHANGED <<reqs, lastMemo, hotVars, depositVars, ton, jettons, mail, valid, sentVars,
                     paid, bounced>>
  BY <1>1 DEF Scan, payVars, execVars
<1>3. unscanned \in Seq(Txs) BY DEF ChainTypes
<1>4. /\ x \in Txs /\ Tail(unscanned) \in Seq(Txs) /\ Len(unscanned) \in Nat
      /\ Len(Tail(unscanned)) = Len(unscanned) - 1
      /\ \A i \in 1..Len(Tail(unscanned)) : Tail(unscanned)[i] = unscanned[i + 1]
  BY <1>1, <1>2, <1>3
<1>5. ChainTypes'
  <2>1. income' \in [Deposits -> Nat] BY <1>2, <1>4, DueType DEF ChainTypes
  <2> QED BY <1>2, <1>4, <2>1 DEF ChainTypes
<1>6. ChainInv'
  <2>1. ASSUME NEW i \in 1..Len(unscanned'), unscanned'[i].kind = "hotOut"
        PROVE  Harmless(unscanned[i].memo)'
    <3>1. PICK m : m = unscanned'[i].memo OBVIOUS
    <3>2. i + 1 \in 1..Len(unscanned) /\ unscanned'[i] = unscanned[i + 1] BY <1>2, <1>4
    <3>3. Harmless(m) BY <2>1, <3>1, <3>2 DEF ChainInv
    <3>4. Harmless(m)' BY <1>2, <3>3, SameRequests
    <3> QED BY <3>1, <3>4 DEF Harmless
  <2> QED BY <1>2, <2>1, SameRequests DEF ChainInv
<1>7. ASSUME NEW d \in Deposits PROVE Ledger(unscanned', d, income'[d], paid'[d] + bounced'[d])
  <2>1. Ledger(Tail(unscanned), d, income[d] + Due(x, d), paid[d] + bounced[d])
    BY <1>1, <1>2, <1>3, LedgerTail DEF LedgerInv
  <2> QED BY <1>2, <2>1
<1>8. LedgerInv' BY <1>7 DEF LedgerInv
<1> QED BY <1>2, <1>5, <1>6, <1>8, ChainStep

-----------------------------------------------------------------------------
(* Requests and the two processors *)

LEMMA SameRequest ==
    ASSUME NEW m, reqs'[m] = reqs[m]
    PROVE  (Open(m)' <=> Open(m)) /\ (Waiting(m)' <=> Waiting(m))
BY DEF Open, Waiting

\* Nothing a processor does to the requests concerns the chain.
LEMMA ChainKept ==
    ASSUME IInv, Requested \subseteq Requested', UNCHANGED <<chainVars, income, paid, bounced>>,
           \A m \in Requested : reqs'[m].from = reqs[m].from /\ reqs'[m].jetton = reqs[m].jetton
    PROVE  /\ ChainTypes' /\ ChainInv' /\ LedgerInv'
           /\ \A m : Harmless(m) => Harmless(m)'
<1> USE DEF IInv, chainVars
<1>1. ChainTypes' BY DEF ChainTypes
<1>2. LedgerInv' BY LedgerFrame
<1>3. \A m : Harmless(m) => Harmless(m)' BY DEF Harmless
<1>4. \A w \in mail : w.memo \in Requested BY DEF ChainInv, Harmless
<1>5. ASSUME NEW i \in 1..Len(unscanned'), unscanned'[i].kind = "hotOut"
      PROVE  Harmless(unscanned[i].memo)'
  <2>1. PICK m : m = unscanned[i].memo OBVIOUS
  <2>2. Harmless(m)' BY <1>3, <1>5, <2>1 DEF ChainInv
  <2> QED BY <2>1, <2>2
<1>6. ChainInv' BY <1>3, <1>4, <1>5 DEF ChainInv
<1> QED BY <1>1, <1>2, <1>3, <1>6

LEMMA SaveRequestStep ==
    ASSUME IInv, NEW a \in Addresses, NEW j \in Jettons \cup {NoJetton},
           SaveServiceWithdrawalRequest(a, j)
    PROVE  IInv' /\ \A m \in Requested : reqs'[m] = reqs[m]
<1> USE DEF IInv
<1>1. PICK k : k = lastMemo + 1 OBVIOUS
<1>2. /\ lastMemo < MaxRequests /\ lastMemo' = k
      /\ reqs' = [reqs EXCEPT ![k].from = a, ![k].jetton = j]
      /\ UNCHANGED <<income, hotVars, depositVars, chainVars, sentVars, paid, bounced>>
  BY <1>1 DEF SaveServiceWithdrawalRequest, payVars, execVars
<1>3. /\ k \in Memos /\ k \notin Requested /\ Requested' = Requested \cup {k}
      /\ Requested \subseteq Memos /\ lastMemo' \in 0..MaxRequests
  BY <1>1, <1>2, ConstantsAssumption DEF Requested, Memos, ProcessorTypes
<1>4. /\ reqs' \in [Memos -> Request]
      /\ \A n \in Memos : n # k => reqs'[n] = reqs[n]
      /\ reqs'[k].from = a /\ reqs'[k].processed = reqs[k].processed
      /\ reqs'[k].filled = reqs[k].filled
  BY <1>2, <1>3 DEF ProcessorTypes, Request
<1>5. \A m \in Requested : m # k /\ m \in Memos /\ reqs'[m] = reqs[m] BY <1>3, <1>4
<1>6. /\ ChainTypes' /\ ChainInv' /\ LedgerInv' /\ \A m : Harmless(m) => Harmless(m)'
  BY <1>2, <1>3, <1>5, ChainKept
<1>7. \A m \in Memos : (Open(m)' <=> Open(m)) /\ (Waiting(m)' <=> Waiting(m))
  <2>1. (Open(k)' <=> Open(k)) /\ (Waiting(k)' <=> Waiting(k)) BY <1>4 DEF Open, Waiting
  <2> QED BY <1>4, <2>1, SameRequest
<1>8. ProcessorTypes'
  BY <1>2, <1>3, <1>4 DEF ProcessorTypes, hotVars, depositVars, sentVars
<1>9. NewInv' BY <1>3, <1>4, <1>5 DEF NewInv
<1>10. HotInv'
  <2>1. \A w \in batch : w.memo \in Requested BY DEF HotInv, Harmless
  <2> QED BY <1>2, <1>3, <1>5, <1>6, <1>7, <2>1 DEF HotInv, hotVars, sentVars, ProcessorTypes
<1>11. DepositInv'
  <2>1. \A m \in Memos : reqs'[m].processed = reqs[m].processed BY <1>4
  <2> QED BY <1>2, <1>3, <1>5, <1>7, <2>1 DEF DepositInv, depositVars, sentVars
<1> QED BY <1>5, <1>6, <1>8, <1>9, <1>10, <1>11

\* The steps of the processors that change no request.
LEMMA ProcessorStep ==
    ASSUME IInv, UNCHANGED <<reqs, lastMemo, income, paid, bounced>>, ProcessorTypes', HotInv',
           DepositInv', ChainTypes', ChainInv', unscanned' = unscanned
    PROVE  IInv'
<1>1. NewInv' BY NewFrame DEF IInv
<1>2. LedgerInv' BY LedgerFrame DEF IInv
<1> QED BY <1>1, <1>2 DEF IInv

LEMMA StartBatchStep ==
    ASSUME IInv, StartBatch
    PROVE  IInv'
<1> USE DEF IInv
<1>1. /\ hpc = "waitSync" /\ hpc' = "build" /\ todo' \in OnePerAddress(HotTasks, HotLimit)
      /\ UNCHANGED <<dbVars, batch, unsaved, depositVars, chainVars, sentVars, paid, bounced>>
  BY DEF StartBatch, payVars, execVars
<1>2. UNCHANGED <<reqs, lastMemo, income, unscanned, hotMsgs, depositMsgs>>
  BY <1>1 DEF dbVars, chainVars, sentVars
<1>3. todo' \subseteq Requested /\ \A m \in todo' : Open(m)
  BY <1>1 DEF OnePerAddress, HotTasks, Open
<1>4. batch = {} /\ unsaved = {} BY <1>1 DEF HotInv
<1>5. ProcessorTypes' BY <1>1, <1>2, <1>3, SameRequests DEF ProcessorTypes, depositVars
<1>6. HotInv' BY <1>1, <1>2, <1>3, <1>4, SameRequests DEF HotInv
<1>7. DepositInv' BY <1>1, <1>2, DepositFrame
<1>8. ChainTypes' /\ ChainInv' BY <1>1, <1>2, ChainKept, SameRequests
<1> QED BY <1>1, <1>2, <1>5, <1>6, <1>7, <1>8, ProcessorStep

\* One of several ways to leave the loop over the tasks.
LEMMA EndBuildFacts ==
    ASSUME EndBuild
    PROVE  /\ hpc' \in {"waitSync", "build", "save"}
           /\ hpc' # "build" => todo' = {}
           /\ hpc' = "waitSync" => batch' = {}
BY DEF EndBuild

\* An update of a request that is not processed yet.
LEMMA UpdateKept ==
    ASSUME IInv, NEW m \in Requested, NEW a \in Nat, NEW f \in BOOLEAN,
           UpdateServiceWithdrawalRequest(m, a, f), ~reqs[m].processed, lastMemo' = lastMemo,
           UNCHANGED <<chainVars, income, paid, bounced>>
    PROVE  /\ m \in Memos /\ reqs' \in [Memos -> Request] /\ Requested' = Requested
           /\ \A n \in Memos : n # m => /\ reqs'[n] = reqs[n] /\ (Open(n)' <=> Open(n))
                                        /\ (Waiting(n)' <=> Waiting(n))
           /\ \A n \in Memos : reqs'[n].from = reqs[n].from
           /\ ~Open(m)' /\ (reqs'[m].processed <=> ~f) /\ (Waiting(m)' <=> f)
           /\ reqs'[m].amount = a
           /\ \A n : Harmless(n) => Harmless(n)'
           /\ NewInv' /\ ChainTypes' /\ ChainInv' /\ LedgerInv'
           /\ \A n \in Requested : reqs[n].processed => reqs'[n] = reqs[n]
<1> USE DEF IInv
<1>1. Requested \subseteq Memos BY RequestedMemos DEF ProcessorTypes
<1>2. Requested' = Requested BY DEF Requested
<1>3. /\ reqs' \in [Memos -> Request]
      /\ \A n \in Memos : n # m => reqs'[n] = reqs[n]
      /\ \A n \in Memos : reqs'[n].from = reqs[n].from /\ reqs'[n].jetton = reqs[n].jetton
      /\ reqs'[m].amount = a
      /\ reqs'[m].processed <=> ~f
      /\ reqs'[m].filled <=> f
  BY <1>1, UpdateFacts DEF ProcessorTypes
<1>4. ~Open(m)' /\ (Waiting(m)' <=> f) BY <1>3 DEF Open, Waiting
<1>5. NewInv' BY <1>1, <1>2, <1>3 DEF NewInv
<1>6. ChainTypes' /\ ChainInv' /\ LedgerInv' /\ \A n : Harmless(n) => Harmless(n)'
  BY <1>1, <1>2, <1>3, ChainKept
<1>7. \A n \in Requested : reqs[n].processed => reqs'[n] = reqs[n] BY <1>1, <1>3
<1> QED BY <1>1, <1>2, <1>3, <1>4, <1>5, <1>6, <1>7, SameRequest

\* The withdrawals processor changes requests that the other one does not hold.
LEMMA DepositKept ==
    ASSUME IInv, NEW m \in Memos, Open(m),
           \A n \in Memos : n # m => reqs'[n] = reqs[n] /\ (Waiting(n)' <=> Waiting(n)),
           \A n \in Memos : reqs'[n].from = reqs[n].from,
           lastMemo' = lastMemo, UNCHANGED <<depositVars, depositMsgs>>
    PROVE  DepositInv'
<1> USE DEF IInv
<1>1. Requested \subseteq Memos /\ Requested' = Requested
  BY RequestedMemos DEF ProcessorTypes, Requested
<1>2. \A t \in tasks : t.memo # m BY DEF DepositInv, Waiting, Open
<1>3. ipc = "send" => held.memo # m BY DEF DepositInv, Open
<1>4. depositMsgs[m] # 1 BY DEF DepositInv, Open
<1> QED BY <1>1, <1>2, <1>3, <1>4 DEF DepositInv, depositVars

LEMMA MessageFacts ==
    ASSUME IInv, NEW m \in Requested
    PROVE  /\ Message(m) \in Messages /\ Message(m).memo = m
           /\ Message(m).filled <=> reqs[m].from \in Deposits
<1> USE DEF IInv
<1>1. m \in Memos BY RequestedMemos DEF ProcessorTypes
<1>2. reqs[m].from \in Addresses /\ reqs[m].jetton \in Jettons \cup {NoJetton}
  BY <1>1 DEF NewInv, ProcessorTypes, Request
<1>3. Balance(m) \in Nat
  <2>1. CASE reqs[m].jetton = NoJetton BY <1>2, <2>1 DEF Balance, ChainTypes
  <2>2. CASE reqs[m].jetton # NoJetton
    <3>1. jettons[reqs[m].from] \in [Jettons -> Nat] BY <1>2 DEF ChainTypes
    <3> QED BY <1>2, <2>2, <3>1 DEF Balance
  <2> QED BY <2>1, <2>2
<1>4. PICK n : n = IF reqs[m].jetton = NoJetton THEN 0 ELSE Balance(m) OBVIOUS
<1>5. PICK f \in BOOLEAN : f <=> reqs[m].from \in Deposits OBVIOUS
<1>6. Message(m) = [memo |-> m, filled |-> f, amount |-> n] BY <1>4, <1>5 DEF Message
<1>7. n \in Nat BY <1>3, <1>4
<1>8. Message(m) \in Messages BY <1>1, <1>6, <1>7 DEF Messages
<1>9. Message(m).memo = m /\ (Message(m).filled <=> reqs[m].from \in Deposits)
  BY <1>5, <1>6
<1> QED BY <1>8, <1>9

LEMMA BuildMessageStep ==
    ASSUME IInv, NEW m \in todo, BuildMessage(m)
    PROVE  IInv' /\ \A n \in Requested : reqs[n].processed => reqs'[n] = reqs[n]
<1> USE DEF IInv
<1>1. /\ hpc = "build" /\ todo' = todo \ {m} /\ EndBuild /\ lastMemo' = lastMemo
      /\ \/ UNCHANGED <<reqs, batch, unsaved>>
         \/ UpdateServiceWithdrawalRequest(m, 0, FALSE) /\ UNCHANGED <<batch, unsaved>>
         \/ /\ ~Rejected(m) /\ reqs' = reqs
            /\ batch' = batch \cup {Message(m)} /\ unsaved' = unsaved \cup {Message(m)}
      /\ UNCHANGED <<income, depositVars, chainVars, hotMsgs, depositMsgs, paid, bounced>>
  BY DEF BuildMessage, sentVars, payVars, execVars
<1>2. /\ m \in Requested /\ m \in Memos /\ Open(m) /\ todo \subseteq Requested
      /\ \A w \in batch : w.memo # m /\ w.memo \in Memos
  BY RequestedMemos DEF HotInv, ProcessorTypes, Messages
<1>3. Requested' = Requested BY <1>1 DEF Requested
<1>4. /\ hpc' \in {"waitSync", "build", "save"} /\ (hpc' # "build" => todo' = {})
      /\ hpc' = "waitSync" => batch' = {}
  BY <1>1, EndBuildFacts
<1>5. CASE UNCHANGED <<reqs, batch, unsaved>>
  <2>1. ProcessorTypes' BY <1>1, <1>2, <1>3, <1>4, <1>5 DEF ProcessorTypes, depositVars
  <2>2. HotInv'
    <3>1. hpc' \in {"waitSync", "send"} => unsaved' = {} BY <1>4, <2>1 DEF ProcessorTypes
    <3> QED BY <1>1, <1>4, <1>5, <3>1, SameRequests DEF HotInv
  <2>3. DepositInv' BY <1>1, <1>5, DepositFrame
  <2>4. ChainTypes' /\ ChainInv' BY <1>1, <1>3, <1>5, ChainKept
  <2> QED BY <1>1, <1>5, <2>1, <2>2, <2>3, <2>4, ProcessorStep DEF chainVars
<1>6. CASE UpdateServiceWithdrawalRequest(m, 0, FALSE) /\ UNCHANGED <<batch, unsaved>>
  <2>1. ~reqs[m].processed BY <1>2 DEF Open
  <2>2. /\ reqs' \in [Memos -> Request]
        /\ \A n \in Memos : n # m => /\ reqs'[n] = reqs[n] /\ (Open(n)' <=> Open(n))
                                     /\ (Waiting(n)' <=> Waiting(n))
        /\ \A n \in Memos : reqs'[n].from = reqs[n].from
        /\ ~Open(m)' /\ \A n : Harmless(n) => Harmless(n)'
        /\ NewInv' /\ ChainTypes' /\ ChainInv' /\ LedgerInv'
        /\ \A n \in Requested : reqs[n].processed => reqs'[n] = reqs[n]
    BY <1>1, <1>2, <1>6, <2>1, UpdateKept
  <2>3. ProcessorTypes' BY <1>1, <1>2, <1>3, <1>4, <1>6, <2>2 DEF ProcessorTypes, depositVars
  <2>4. HotInv'
    <3>1. hpc' \in {"waitSync", "send"} => unsaved' = {} BY <1>4, <2>3 DEF ProcessorTypes
    <3>2. todo' \subseteq Memos BY <1>1, <1>2, RequestedMemos DEF ProcessorTypes
    <3> QED BY <1>1, <1>2, <1>4, <1>6, <2>2, <3>1, <3>2 DEF HotInv
  <2>5. DepositInv' BY <1>1, <1>2, <2>2, DepositKept
  <2> QED BY <2>2, <2>3, <2>4, <2>5
<1>7. CASE /\ ~Rejected(m) /\ reqs' = reqs
           /\ batch' = batch \cup {Message(m)} /\ unsaved' = unsaved \cup {Message(m)}
  <2>1. PICK w : w = Message(m) OBVIOUS
  <2>2. w \in Messages /\ w.memo = m /\ (w.filled <=> reqs[m].from \in Deposits)
    BY <1>2, <2>1, MessageFacts
  <2>3. batch' = batch \cup {w} /\ unsaved' = unsaved \cup {w} BY <1>7, <2>1
  <2>4. Harmless(m) BY <1>2, <1>7 DEF Rejected, Harmless
  <2>5. hotMsgs[m] = 0 BY <1>2 DEF HotInv, ProcessorTypes
  <2>6. ProcessorTypes' BY <1>1, <1>2, <1>3, <1>4, <1>7, <2>2, <2>3 DEF ProcessorTypes, depositVars
  <2>7. HotInv'
    <3>1. /\ \A n : (Harmless(n)' <=> Harmless(n)) /\ (Open(n)' <=> Open(n))
      BY <1>1, <1>7, SameRequests
    <3>2. hpc' \in {"build", "save"} BY <1>4, <2>3
    <3>3. ASSUME NEW v \in batch'
          PROVE  /\ Harmless(v.memo) /\ v.memo \notin todo' /\ hotMsgs[v.memo] = 0
                 /\ v.filled <=> reqs[v.memo].from \in Deposits
                 /\ v \in unsaved' <=> Open(v.memo)
      <4>1. CASE v = w BY <1>1, <1>2, <2>2, <2>3, <2>4, <2>5, <4>1
      <4>2. CASE v \in batch /\ v # w BY <1>1, <2>3, <4>2 DEF HotInv
      <4> QED BY <2>3, <4>1, <4>2
    <3>4. \A v, u \in batch' : v.memo = u.memo => v = u BY <1>2, <2>2, <2>3 DEF HotInv
    <3>5. \A n \in todo' : Open(n) BY <1>1 DEF HotInv
    <3>6. \A n \in Memos : hotMsgs[n] <= 1 /\ (hotMsgs[n] = 1 => ~Open(n)) BY DEF HotInv
    <3> HIDE DEF IInv
    <3> QED BY <1>1, <1>4, <1>7, <3>1, <3>2, <3>3, <3>4, <3>5, <3>6 DEF HotInv
  <2>8. DepositInv' BY <1>1, <1>7, DepositFrame
  <2>9. ChainTypes' /\ ChainInv' BY <1>1, <1>3, <1>7, ChainKept
  <2> QED BY <1>1, <1>7, <2>6, <2>7, <2>8, <2>9, ProcessorStep DEF chainVars
<1> QED BY <1>1, <1>5, <1>6, <1>7

LEMMA SaveMessageStep ==
    ASSUME IInv, NEW w \in unsaved, SaveMessage(w)
    PROVE  IInv' /\ \A n \in Requested : reqs[n].processed => reqs'[n] = reqs[n]
<1> USE DEF IInv
<1>1. PICK m, a, f : m = w.memo /\ a = w.amount /\ f = w.filled OBVIOUS
<1>2. /\ hpc = "save" /\ UpdateServiceWithdrawalRequest(m, a, f) /\ unsaved' = unsaved \ {w}
      /\ hpc' = (IF unsaved' = {} THEN "send" ELSE "save") /\ lastMemo' = lastMemo
      /\ UNCHANGED <<income, todo, batch, depositVars, chainVars, hotMsgs, depositMsgs, paid,
                     bounced>>
  BY <1>1 DEF SaveMessage, sentVars, payVars, execVars
<1>3. /\ w \in batch /\ m \in Requested /\ Open(m) /\ a \in Nat /\ f \in BOOLEAN
      /\ \A v \in batch : (v.memo = m => v = w) /\ v.memo \in Memos
      /\ todo = {}
  BY <1>1, <1>2 DEF HotInv, Harmless, ProcessorTypes, Messages
<1>4. ~reqs[m].processed BY <1>3 DEF Open
<1>5. /\ m \in Memos /\ reqs' \in [Memos -> Request] /\ Requested' = Requested
      /\ \A n \in Memos : n # m => /\ reqs'[n] = reqs[n] /\ (Open(n)' <=> Open(n))
                                   /\ (Waiting(n)' <=> Waiting(n))
      /\ \A n \in Memos : reqs'[n].from = reqs[n].from
      /\ ~Open(m)' /\ \A n : Harmless(n) => Harmless(n)'
      /\ NewInv' /\ ChainTypes' /\ ChainInv' /\ LedgerInv'
      /\ \A n \in Requested : reqs[n].processed => reqs'[n] = reqs[n]
  BY <1>2, <1>3, <1>4, UpdateKept
<1>6. ProcessorTypes' BY <1>2, <1>5 DEF ProcessorTypes, depositVars
<1>7. HotInv'
  <2>1. ASSUME NEW v \in batch
        PROVE  /\ Harmless(v.memo)' /\ v.memo \notin todo' /\ hotMsgs'[v.memo] = 0
               /\ v.filled <=> reqs'[v.memo].from \in Deposits
               /\ v \in unsaved' <=> Open(v.memo)'
    <3>1. /\ Harmless(v.memo)' /\ v.memo \notin todo' /\ hotMsgs'[v.memo] = 0
          /\ v.filled <=> reqs'[v.memo].from \in Deposits
      BY <1>2, <1>3, <1>5 DEF HotInv
    <3>2. CASE v = w BY <1>1, <1>2, <1>5, <3>1, <3>2
    <3>3. CASE v # w
      <4>1. v.memo # m BY <1>3, <3>3
      <4>2. v \in unsaved <=> Open(v.memo) BY DEF HotInv
      <4> QED BY <1>2, <1>3, <1>5, <3>1, <3>3, <4>1, <4>2
    <3> QED BY <3>2, <3>3
  <2>2. \A v, u \in batch : v.memo = u.memo => v = u BY DEF HotInv
  <2>3. \A n \in Memos : hotMsgs'[n] <= 1 /\ (hotMsgs'[n] = 1 => ~Open(n)')
    BY <1>2, <1>5 DEF HotInv
  <2>4. hpc' \in {"send", "save"} /\ (hpc' = "send" => unsaved' = {}) BY <1>2
  <2> HIDE DEF IInv
  <2> QED BY <1>2, <1>3, <2>1, <2>2, <2>3, <2>4 DEF HotInv
<1>8. DepositInv' BY <1>2, <1>3, <1>5, DepositKept
<1> QED BY <1>5, <1>6, <1>7, <1>8

LEMMA SendBatchStep ==
    ASSUME IInv, SendBatch
    PROVE  IInv'
<1> USE DEF IInv
<1>1. /\ hpc = "send" /\ hpc' = "waitSync" /\ batch' = {}
      /\ \/ /\ mail' = mail \cup batch
            /\ hotMsgs' = [m \in Memos |-> hotMsgs[m] + Cardinality({w \in batch : w.memo = m})]
         \/ mail' = mail /\ hotMsgs' = hotMsgs
      /\ UNCHANGED <<reqs, lastMemo, income, todo, unsaved, depositVars, ton, jettons, valid,
                     unscanned, depositMsgs, paid, bounced>>
  BY DEF SendBatch, dbVars, payVars, execVars
<1>2. todo = {} /\ unsaved = {} BY <1>1 DEF HotInv
<1>3. \A w \in batch : ~Open(w.memo) BY <1>2 DEF HotInv
<1>4. hotMsgs' \in [Memos -> Nat]
      /\ \A m \in Memos : hotMsgs'[m] <= 1 /\ (hotMsgs'[m] = 1 => ~Open(m))
  <2>1. ASSUME NEW m \in Memos
        PROVE  \/ Cardinality({w \in batch : w.memo = m}) = 0
               \/ /\ Cardinality({w \in batch : w.memo = m}) = 1
                  /\ hotMsgs[m] = 0 /\ ~Open(m)
    <3>1. CASE {w \in batch : w.memo = m} = {}
      BY <3>1, FS_EmptySet
    <3>2. CASE {w \in batch : w.memo = m} # {}
      <4>1. PICK v \in batch : v.memo = m BY <3>2
      <4>2. {w \in batch : w.memo = m} = {v} BY <4>1 DEF HotInv
      <4>3. Cardinality({v}) = 1 BY FS_Singleton
      <4> QED BY <1>3, <4>1, <4>2, <4>3 DEF HotInv
    <3> QED BY <3>1, <3>2
  <2>2. hotMsgs \in [Memos -> Nat] /\ \A m \in Memos : hotMsgs[m] <= 1 /\ (hotMsgs[m] = 1 => ~Open(m))
    BY DEF ProcessorTypes, HotInv
  <2>3. CASE hotMsgs' = hotMsgs BY <2>2, <2>3
  <2>4. CASE hotMsgs' = [m \in Memos |-> hotMsgs[m] + Cardinality({w \in batch : w.memo = m})]
    <3>1. ASSUME NEW m \in Memos
          PROVE  /\ hotMsgs'[m] \in Nat /\ hotMsgs'[m] <= 1
                 /\ hotMsgs'[m] = 1 => ~Open(m)
      <4>1. hotMsgs'[m] = hotMsgs[m] + Cardinality({w \in batch : w.memo = m}) BY <2>4
      <4> QED BY <2>1, <2>2, <4>1
    <3> QED BY <2>4, <3>1
  <2> QED BY <1>1, <2>3, <2>4
<1>5. ProcessorTypes' BY <1>1, <1>2, <1>4, SameRequests DEF ProcessorTypes, depositVars
<1>6. HotInv' BY <1>1, <1>2, <1>4, SameRequests DEF HotInv
<1>7. DepositInv' BY <1>1, DepositFrame
<1>8. ChainTypes' BY <1>1 DEF ChainTypes, ProcessorTypes
<1>9. ChainInv'
  <2>1. \A w \in mail' : Harmless(w.memo) /\ (w.filled <=> reqs[w.memo].from \in Deposits)
    BY <1>1 DEF HotInv, ChainInv
  <2> QED BY <1>1, <2>1, SameRequests DEF ChainInv
<1> QED BY <1>1, <1>5, <1>6, <1>7, <1>8, <1>9, ProcessorStep

LEMMA GetDepositTasksStep ==
    ASSUME IInv, GetDepositTasks
    PROVE  IInv'
<1> USE DEF IInv
<1>1. /\ ipc' = "loop"
      /\ \E T \in OnePerAddress(DepositTasks, DepositLimit) :
            tasks' = {[memo |-> m, amount |-> reqs[m].amount] : m \in T}
      /\ UNCHANGED <<reqs, lastMemo, income, hotVars, chainVars, sentVars, paid, bounced>>
  BY DEF GetDepositTasks, dbVars, payVars, execVars
<1>2. PICK T \in SUBSET DepositTasks : tasks' = {[memo |-> m, amount |-> reqs[m].amount] : m \in T}
  BY <1>1 DEF OnePerAddress
<1>3. \A m \in T : /\ m \in Requested /\ m \in Memos /\ Waiting(m) /\ reqs[m].from \in Deposits
                   /\ reqs[m].amount \in Nat
  <2>1. \A m \in T : m \in Requested /\ Waiting(m) /\ reqs[m].from \in Deposits
    BY DEF DepositTasks, Waiting
  <2> QED BY <2>1, RequestedMemos DEF ProcessorTypes, Request
<1>4. \A t \in tasks' : /\ t \in Tasks /\ t.memo \in Requested /\ Waiting(t.memo)
                        /\ reqs[t.memo].from \in Deposits /\ t.amount = reqs[t.memo].amount
  BY <1>2, <1>3 DEF Tasks
<1>5. ProcessorTypes' BY <1>1, <1>4, SameRequests DEF ProcessorTypes, hotVars, sentVars
<1>6. HotInv' BY <1>1, HotFrame DEF sentVars
<1>7. DepositInv' BY <1>1, <1>4, SameRequests DEF DepositInv, sentVars
<1>8. ChainTypes' /\ ChainInv' BY <1>1, ChainKept, SameRequests
<1> QED BY <1>1, <1>5, <1>6, <1>7, <1>8, ProcessorStep DEF chainVars

LEMMA SkipDepositStep ==
    ASSUME IInv, NEW t \in tasks, SkipDeposit(t)
    PROVE  IInv'
<1> USE DEF IInv
<1>1. /\ tasks' = tasks \ {t} /\ ipc' \in {"waitSync", "loop"}
      /\ UNCHANGED <<reqs, lastMemo, income, hotVars, chainVars, sentVars, paid, bounced>>
  BY DEF SkipDeposit, dbVars, payVars, execVars
<1>2. ProcessorTypes' BY <1>1, SameRequests DEF ProcessorTypes, hotVars, sentVars
<1>3. HotInv' BY <1>1, HotFrame DEF sentVars
<1>4. DepositInv' BY <1>1, SameRequests DEF DepositInv, sentVars
<1>5. ChainTypes' /\ ChainInv' BY <1>1, ChainKept, SameRequests
<1> QED BY <1>1, <1>2, <1>3, <1>4, <1>5, ProcessorStep DEF chainVars

LEMMA UpdateDepositRequestStep ==
    ASSUME IInv, NEW t \in tasks, UpdateDepositRequest(t)
    PROVE  IInv' /\ \A n \in Requested : reqs[n].processed => reqs'[n] = reqs[n]
<1> USE DEF IInv
<1>1. PICK m, a : m = t.memo /\ a = t.amount OBVIOUS
<1>2. /\ UpdateServiceWithdrawalRequest(m, a, FALSE) /\ tasks' = tasks \ {t} /\ held' = t
      /\ ipc' = "send" /\ lastMemo' = lastMemo
      /\ UNCHANGED <<income, hotVars, chainVars, hotMsgs, depositMsgs, paid, bounced>>
  BY <1>1 DEF UpdateDepositRequest, sentVars, payVars, execVars
<1>3. /\ t \in Tasks /\ m \in Requested /\ a \in Nat /\ Waiting(m) /\ reqs[m].from \in Deposits
      /\ a = reqs[m].amount
  BY <1>1 DEF DepositInv, ProcessorTypes, Tasks
<1>4. ~reqs[m].processed /\ ~Open(m) BY <1>3 DEF Waiting, Open
<1>5. /\ m \in Memos /\ reqs' \in [Memos -> Request] /\ Requested' = Requested
      /\ \A n \in Memos : n # m => /\ reqs'[n] = reqs[n] /\ (Open(n)' <=> Open(n))
                                   /\ (Waiting(n)' <=> Waiting(n))
      /\ \A n \in Memos : reqs'[n].from = reqs[n].from
      /\ ~Open(m)' /\ reqs'[m].processed /\ \A n : Harmless(n) => Harmless(n)'
      /\ NewInv' /\ ChainTypes' /\ ChainInv' /\ LedgerInv'
      /\ \A n \in Requested : reqs[n].processed => reqs'[n] = reqs[n]
  BY <1>2, <1>3, <1>4, UpdateKept
<1>6. ProcessorTypes' BY <1>2, <1>5 DEF ProcessorTypes, hotVars
<1>7. HotInv'
  <2>1. \A n \in Memos : Open(n)' <=> Open(n) BY <1>4, <1>5
  <2>2. /\ \A w \in batch : w.memo \in Memos
        /\ todo \subseteq Memos
    BY RequestedMemos DEF ProcessorTypes, Messages
  <2> QED BY <1>2, <1>5, <2>1, <2>2 DEF HotInv, hotVars
<1>8. DepositInv'
  <2>1. \A u \in tasks' : u.memo # m /\ u.memo \in Memos
    <3> SUFFICES ASSUME NEW u \in tasks, u.memo = m PROVE u = t
      BY <1>2 DEF ProcessorTypes, Tasks
    <3>1. u \in Tasks /\ u.amount = a BY <1>3 DEF DepositInv, ProcessorTypes
    <3>2. u = [memo |-> u.memo, amount |-> u.amount] BY <3>1 DEF Tasks
    <3>3. t = [memo |-> t.memo, amount |-> t.amount] BY <1>3 DEF Tasks
    <3> QED BY <1>1, <3>1, <3>2, <3>3
  <2>2. depositMsgs[m] = 0
    <3>1. depositMsgs[m] \in Nat /\ depositMsgs[m] <= 1 BY <1>5 DEF DepositInv, ProcessorTypes
    <3>2. depositMsgs[m] # 1 BY <1>4, <1>5 DEF DepositInv
    <3> QED BY <3>1, <3>2
  <2>3. \A n \in Memos : depositMsgs'[n] <= 1 /\ (depositMsgs'[n] = 1 => reqs'[n].processed)
    BY <1>2, <1>5 DEF DepositInv
  <2>4. \A u \in tasks' : /\ u.memo \in Requested' /\ Waiting(u.memo)'
                          /\ reqs'[u.memo].from \in Deposits
                          /\ u.amount = reqs'[u.memo].amount
    BY <1>2, <1>5, <2>1 DEF DepositInv
  <2>5. /\ held' \in Tasks /\ held'.memo \in Requested' /\ reqs'[held'.memo].processed
        /\ reqs'[held'.memo].from \in Deposits /\ depositMsgs'[held'.memo] = 0
    BY <1>1, <1>2, <1>3, <1>5, <2>2
  <2> HIDE DEF IInv
  <2> QED BY <2>3, <2>4, <2>5 DEF DepositInv
<1> QED BY <1>5, <1>6, <1>7, <1>8

LEMMA WithdrawJettonsStep ==
    ASSUME IInv, WithdrawJettons
    PROVE  IInv'
<1> USE DEF IInv
<1>1. /\ ipc = "send" /\ ipc' \in {"waitSync", "loop"}
      /\ \/ valid' = valid \cup {held} /\ depositMsgs' = [depositMsgs EXCEPT ![held.memo] = @ + 1]
         \/ valid' = valid /\ depositMsgs' = depositMsgs
      /\ UNCHANGED <<reqs, lastMemo, income, hotVars, tasks, ton, jettons, mail, unscanned,
                     hotMsgs, paid, bounced>>
  BY DEF WithdrawJettons, dbVars, payVars, execVars
<1>2. /\ held \in Tasks /\ held.memo \in Requested /\ reqs[held.memo].processed
      /\ reqs[held.memo].from \in Deposits /\ depositMsgs[held.memo] = 0 /\ held.memo \in Memos
  BY <1>1 DEF DepositInv, Tasks
<1>3. /\ depositMsgs' \in [Memos -> Nat]
      /\ \A m \in Memos : depositMsgs'[m] <= 1 /\ (depositMsgs'[m] = 1 => reqs[m].processed)
  BY <1>1, <1>2 DEF DepositInv, ProcessorTypes
<1>4. ProcessorTypes' BY <1>1, <1>3, SameRequests DEF ProcessorTypes, hotVars
<1>5. HotInv' BY <1>1, HotFrame
<1>6. DepositInv' BY <1>1, <1>3, SameRequests DEF DepositInv
<1>7. ChainTypes' BY <1>1, <1>2 DEF ChainTypes
<1>8. ChainInv' BY <1>1, <1>2, SameRequests DEF ChainInv
<1> QED BY <1>1, <1>4, <1>5, <1>6, <1>7, <1>8, ProcessorStep

\* The end of the process, by a crash or by an error of the building.
LEMMA EndStep ==
    ASSUME IInv, EndProcess, UNCHANGED <<dbVars, chainVars, sentVars, payVars, execVars>>
    PROVE  IInv'
<1> USE DEF IInv
<1>1. /\ hpc' = "waitSync" /\ todo' = {} /\ batch' = {} /\ unsaved' = {}
      /\ ipc' = "waitSync" /\ tasks' = {}
      /\ UNCHANGED <<reqs, lastMemo, income, chainVars, hotMsgs, depositMsgs, paid, bounced>>
  BY DEF EndProcess, dbVars, sentVars, payVars, execVars
<1>2. ProcessorTypes' BY <1>1, SameRequests DEF ProcessorTypes
<1>3. HotInv' BY <1>1, SameRequests DEF HotInv
<1>4. DepositInv' BY <1>1, SameRequests DEF DepositInv
<1>5. ChainTypes' /\ ChainInv' BY <1>1, ChainKept, SameRequests
<1> QED BY <1>1, <1>2, <1>3, <1>4, <1>5, ProcessorStep DEF chainVars

-----------------------------------------------------------------------------
(* The invariant, and what it implies *)

LEMMA InitHolds == Init => IInv
<1> SUFFICES ASSUME Init PROVE IInv OBVIOUS
<1> USE DEF Init
<1>1. lastMemo \in 0..MaxRequests BY ConstantsAssumption
<1>2. Requested = {} BY DEF Requested
<1>3. reqs \in [Memos -> Request] BY DEF Request
<1>4. ProcessorTypes BY <1>1, <1>2, <1>3 DEF ProcessorTypes
<1>5. ChainTypes BY DEF ChainTypes
<1>6. NewInv BY <1>2 DEF NewInv
<1>7. HotInv BY DEF HotInv
<1>8. DepositInv BY DEF DepositInv
<1>9. ChainInv BY DEF ChainInv
<1>10. LedgerInv BY LedgerEmpty DEF LedgerInv
<1> QED BY <1>4, <1>5, <1>6, <1>7, <1>8, <1>9, <1>10 DEF IInv

LEMMA WalletPairs == \A w \in JettonWallets : w[1] \in Addresses /\ w[2] \in Jettons
BY ConstantsAssumption DEF Addresses

\* A step leaves the requests that are processed alone.
Final == \A m \in Requested : reqs[m].processed => reqs'[m] = reqs[m]

LEMMA OperatorStep ==
    ASSUME IInv, Operator
    PROVE  IInv' /\ Final
<1>1. CASE \E a \in Addresses : ServiceTonWithdrawal(a)
  <2>1. PICK a \in Addresses : SaveServiceWithdrawalRequest(a, NoJetton)
    BY <1>1 DEF ServiceTonWithdrawal
  <2> QED BY <2>1, SaveRequestStep DEF Final
<1>2. CASE \E w \in JettonWallets : ServiceJettonWithdrawal(w[1], w[2])
  <2>1. PICK w \in JettonWallets : SaveServiceWithdrawalRequest(w[1], w[2])
    BY <1>2 DEF ServiceJettonWithdrawal
  <2>2. w[1] \in Addresses /\ w[2] \in Jettons \cup {NoJetton} BY WalletPairs
  <2> QED BY <2>1, <2>2, SaveRequestStep DEF Final
<1> QED BY <1>1, <1>2 DEF Operator

LEMMA PayerStep ==
    ASSUME IInv, Payer
    PROVE  IInv' /\ Final
<1>1. CASE \E a \in TonPayees : PayTon(a)
  BY <1>1, ConstantsAssumption, PayTonStep DEF Addresses, Final, PayTon, dbVars
<1>2. CASE \E w \in JettonWallets : PayJetton(w[1], w[2])
  BY <1>2, WalletPairs, PayJettonStep DEF Final, PayJetton, dbVars
<1> QED BY <1>1, <1>2 DEF Payer

LEMMA WithdrawalsProcessorStep ==
    ASSUME IInv, WithdrawalsProcessor
    PROVE  IInv' /\ Final
<1>1. CASE StartBatch BY <1>1, StartBatchStep DEF Final, StartBatch, dbVars
<1>2. CASE \E m \in todo : BuildMessage(m) BY <1>2, BuildMessageStep DEF Final
<1>3. CASE \E w \in unsaved : SaveMessage(w) BY <1>3, SaveMessageStep DEF Final
<1>4. CASE SendBatch BY <1>4, SendBatchStep DEF Final, SendBatch, dbVars
<1>5. CASE \E m \in todo : BuildFails(m) BY <1>5, EndStep DEF Final, BuildFails, dbVars
<1> QED BY <1>1, <1>2, <1>3, <1>4, <1>5 DEF WithdrawalsProcessor

LEMMA InternalTonProcessorStep ==
    ASSUME IInv, InternalTonProcessor
    PROVE  IInv' /\ Final
<1>1. CASE GetDepositTasks BY <1>1, GetDepositTasksStep DEF Final, GetDepositTasks, dbVars
<1>2. ASSUME NEW t \in tasks, SkipDeposit(t) PROVE IInv' /\ Final
  BY <1>2, SkipDepositStep DEF Final, SkipDeposit, dbVars
<1>3. ASSUME NEW t \in tasks, UpdateDepositRequest(t) PROVE IInv' /\ Final
  BY <1>3, UpdateDepositRequestStep DEF Final
<1>4. CASE WithdrawJettons BY <1>4, WithdrawJettonsStep DEF Final, WithdrawJettons, dbVars
<1> QED BY <1>1, <1>2, <1>3, <1>4 DEF InternalTonProcessor

LEMMA HotWalletStep ==
    ASSUME IInv, HotWallet
    PROVE  IInv' /\ Final
<1>1. PICK w \in mail : SkipMessage(w) \/ FillDeposit(w) \/ ProxyTransfer(w) BY DEF HotWallet
<1>2. IInv' BY <1>1, SkipMessageStep, FillDepositStep, ProxyTransferStep
<1>3. reqs' = reqs BY <1>1 DEF SkipMessage, FillDeposit, ProxyTransfer, dbVars
<1> QED BY <1>2, <1>3 DEF Final

LEMMA NextHolds == IInv /\ [Next]_vars => IInv' /\ Final
<1> SUFFICES ASSUME IInv, [Next]_vars PROVE IInv' /\ Final OBVIOUS
<1>1. ASSUME NEW t \in valid, DepositTransfer(t) PROVE IInv' /\ Final
  BY <1>1, DepositTransferStep DEF Final, DepositTransfer, dbVars
<1>2. ASSUME NEW t \in valid, TooOld(t) PROVE IInv' /\ Final
  BY <1>2, TooOldStep DEF Final, TooOld, dbVars
<1>3. ASSUME NEW d \in Deposits, WithdrawTONs(d) PROVE IInv' /\ Final
  BY <1>3, WithdrawTONsStep DEF Final, WithdrawTONs
<1>4. CASE Scan BY <1>4, ScanStep DEF Final, Scan
<1>5. CASE Restart BY <1>5, EndStep DEF Final, Restart, dbVars
<1>6. CASE UNCHANGED vars
  <2>1. /\ UNCHANGED <<reqs, lastMemo, hotVars, depositVars, sentVars, unscanned, mail, valid,
                       income, paid, bounced, ton, jettons>>
    BY <1>6 DEF vars, dbVars, chainVars, payVars, execVars
  <2>2. ChainTypes' BY <2>1 DEF IInv, ChainTypes
  <2>3. ChainInv' /\ LedgerInv' BY <2>1, ChainFrame, LedgerFrame DEF IInv
  <2> QED BY <2>1, <2>2, <2>3, ChainStep DEF Final
<1> QED
  BY <1>1, <1>2, <1>3, <1>4, <1>5, <1>6, OperatorStep, PayerStep, WithdrawalsProcessorStep,
     InternalTonProcessorStep, HotWalletStep
  DEF Next

LEMMA IInvHolds == Spec => []IInv
<1>1. IInv /\ [Next]_vars => IInv' BY NextHolds
<1> QED BY <1>1, InitHolds, PTL DEF Spec

\* A service request is worth one message of the hot wallet and one of the
\* deposit, whatever is lost and wherever the process ends.
THEOREM OneMessageEach == Spec => []SentAtMostOnce
<1>1. IInv => SentAtMostOnce BY DEF IInv, HotInv, DepositInv, SentAtMostOnce
<1> QED BY <1>1, IInvHolds, PTL

\* UpdateServiceWithdrawalRequest never rewrites a row that is processed, though
\* two processors call it with what they read before.
THEOREM ProcessedStays == Spec => ProcessedIsFinal
<1>1. IInv /\ [Next]_vars => [\A m \in Requested : reqs[m].processed => reqs[m]' = reqs[m]]_vars
  BY NextHolds DEF Final
<1> QED BY <1>1, IInvHolds, PTL DEF Spec, ProcessedIsFinal

\* What saveExternalIncome has added up for a TON deposit, once all is scanned, is
\* what payers sent and what bounced: fillings of the hot wallet never count.
THEOREM IncomesAddUp == Spec => []IncomeAccountedFor
<1>1. ASSUME IInv PROVE IncomeAccountedFor
  BY <1>1, LedgerOfNothing DEF IInv, LedgerInv, IncomeAccountedFor
<1> QED BY <1>1, IInvHolds, PTL

\* No transaction of a service withdrawal makes the scanner look for an internal
\* withdrawal with its memo.
THEOREM ServiceBlocksAccepted == Spec => []NoBlockRefused
<1>1. ASSUME IInv PROVE NoBlockRefused
  BY <1>1 DEF IInv, ChainInv, Harmless, NoBlockRefused, Refused, Confirmations
<1> QED BY <1>1, IInvHolds, PTL
=============================================================================
