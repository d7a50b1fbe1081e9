------------------------ MODULE HotWalletBatchProofs ------------------------
(***************************************************************************)
(* Theorems about HotWalletBatch for every value of its constants: any     *)
(* number of requests, Jettons, addresses and messages of a batch, any     *)
(* amounts, thresholds and limits.                                         *)
(***************************************************************************)
EXTENDS HotWalletBatch, FiniteSums, TLAPS

Requests == [dest : Outside \cup Internal, cur : Currencies, amount : Nat \ {0},
             internal : BOOLEAN, processing : BOOLEAN, processed : BOOLEAN]
Messages == [dest : Outside \cup Internal, cur : Currencies, amount : Nat, ton : Nat, query : Nat]

-----------------------------------------------------------------------------
(* The inductive invariant *)

SeqInv == requests \in Seq(Requests) /\ messages \in Seq(Messages)

\* While a batch is built, the balances the round works with and what the
\* messages take do not exceed what the hot wallet holds.
BudgetInv ==
    /\ phase \in {"sleep", "build"} => messages = <<>>
    /\ phase \in {"service", "internal", "external"} =>
          \A c \in Currencies : budget[c] + Taken(c) <= balance[c]

\* What is left to do never has the address of a message already made.
TaskInv ==
    /\ phase = "service" => /\ todo \subseteq Internal \ usedAddresses
                            /\ \A i \in DOMAIN messages : messages[i].dest \in usedAddresses
    /\ phase = "internal" => /\ todo \subseteq Internal
                             /\ \A i \in DOMAIN messages : messages[i].dest \in Internal \ todo
    /\ phase = "external" =>
          /\ todo \subseteq DOMAIN requests
          /\ \A p, q \in todo : requests[p].dest = requests[q].dest => p = q
          /\ \A i \in DOMAIN messages, q \in todo :
                messages[i].dest = requests[q].dest => messages[i].dest \in Internal

\* The service loop does not look at the limit, but its tasks are limited.
LimitInv ==
    phase = "service" => /\ IsFiniteSet(todo)
                         /\ Len(messages) + Cardinality(todo) <= MsgLimit

IInv ==
    /\ TypeOK /\ SeqInv
    /\ BudgetInv /\ Affordable
    /\ TaskInv /\ DistinctDests
    /\ LimitInv /\ BatchFits
    /\ OneColdPerCurrency

-----------------------------------------------------------------------------
(* Sequences and sums *)

\* What Append does, as the provers use it.
LEMMA AppendFacts ==
    ASSUME NEW S, NEW s \in Seq(S), NEW x \in S
    PROVE  /\ Append(s, x) \in Seq(S)
           /\ Len(Append(s, x)) = Len(s) + 1
           /\ DOMAIN Append(s, x) = (DOMAIN s) \cup {Len(s) + 1}
           /\ Len(s) + 1 \notin DOMAIN s
           /\ \A i \in DOMAIN s : Append(s, x)[i] = s[i]
           /\ Append(s, x)[Len(s) + 1] = x
OBVIOUS

\* A message takes a natural number of a currency.
LEMMA TakeNat == \A m \in Messages, c \in Currencies : Take(m, c) \in Nat
<1> SUFFICES ASSUME NEW m \in Messages, NEW c \in Currencies PROVE Take(m, c) \in Nat
  OBVIOUS
<1>1. m.amount \in Nat /\ m.ton \in Nat BY DEF Messages
<1> QED BY <1>1 DEF Take

\* The messages take a natural number of every currency.
LEMMA TakenType == messages \in Seq(Messages) => \A c \in Currencies : Taken(c) \in Nat
<1> SUFFICES ASSUME messages \in Seq(Messages), NEW c \in Currencies PROVE Taken(c) \in Nat
  OBVIOUS
<1> DEFINE f == [i \in DOMAIN messages |-> Take(messages[i], c)]
<1>1. \A i \in DOMAIN messages : f[i] \in Nat BY TakeNat
<1>2. IsFiniteSet(DOMAIN messages)
  <2>1. DOMAIN messages = 1..Len(messages) /\ Len(messages) \in Nat OBVIOUS
  <2> QED BY <2>1, FS_Interval
<1>3. DOMAIN f = DOMAIN messages OBVIOUS
<1> HIDE DEF f
<1>4. SumFunctionOnSet(f, DOMAIN messages) \in Nat BY <1>1, <1>2, SumNat
<1> QED BY <1>3, <1>4 DEF Taken, SumFunction, f

\* No message takes nothing.
LEMMA TakenNothing == messages = <<>> => \A c \in Currencies : Taken(c) = 0
<1> SUFFICES ASSUME messages = <<>>, NEW c \in Currencies PROVE Taken(c) = 0
  OBVIOUS
<1>1. DOMAIN [i \in DOMAIN messages |-> Take(messages[i], c)] = {} OBVIOUS
<1> QED BY <1>1, SumEmpty DEF Taken, SumFunction

\* One message more takes what it says in addition.
LEMMA TakenAppend ==
    ASSUME messages \in Seq(Messages), NEW m \in Messages, messages' = Append(messages, m),
           NEW c \in Currencies
    PROVE  Taken(c)' = Taken(c) + Take(m, c)
<1> DEFINE D == DOMAIN messages
           n == Len(messages) + 1
           f == [i \in DOMAIN messages |-> Take(messages[i], c)]
           g == [i \in DOMAIN messages' |-> Take(messages'[i], c)]
<1>1. /\ DOMAIN messages' = D \cup {n} /\ n \notin D
      /\ \A i \in D : messages'[i] = messages[i] /\ messages[i] \in Messages
      /\ messages'[n] = m
  BY AppendFacts
<1>2. IsFiniteSet(D)
  <2>1. D = 1..Len(messages) /\ Len(messages) \in Nat OBVIOUS
  <2> QED BY <2>1, FS_Interval
<1>3. \A i \in D : f[i] = g[i] /\ g[i] \in Int BY <1>1, TakeNat
<1>4. g[n] = Take(m, c) /\ g[n] \in Int BY <1>1, TakeNat
<1>5. DOMAIN f = D /\ DOMAIN g = D \cup {n} BY <1>1
<1>6. Taken(c) = SumFunctionOnSet(f, D) BY <1>5 DEF Taken, SumFunction
<1>7. Taken(c)' = SumFunctionOnSet(g, D \cup {n}) BY <1>5 DEF Taken, SumFunction
<1> HIDE DEF D, n, f, g
<1>8. SumFunctionOnSet(f, D) = SumFunctionOnSet(g, D) BY <1>2, <1>3, SumSame
<1>9. SumFunctionOnSet(g, D \cup {n}) = g[n] + SumFunctionOnSet(g, D)
  BY <1>1, <1>2, <1>3, <1>4, SumAdd
<1>10. SumFunctionOnSet(g, D) \in Int BY <1>2, <1>3, SumType
<1> QED BY <1>4, <1>6, <1>7, <1>8, <1>9, <1>10

\* Unchanged messages take what they took.
LEMMA TakenSame == messages' = messages => \A c \in Currencies : Taken(c)' = Taken(c)
BY DEF Taken, Take

-----------------------------------------------------------------------------
(* Every step keeps the invariant *)

LEMMA InitInv == Init => IInv
<1> SUFFICES ASSUME Init PROVE IInv OBVIOUS
<1> USE ConstantsAssumption DEF Init
<1>1. TypeOK BY DEF TypeOK, Nothing
<1>2. SeqInv BY DEF SeqInv
<1>3. BudgetInv /\ Affordable
  <2>1. \A c \in Currencies : Taken(c) = 0 BY TakenNothing
  <2> QED BY <2>1 DEF BudgetInv, Affordable
<1>4. TaskInv /\ DistinctDests BY DEF TaskInv, DistinctDests
<1>5. LimitInv /\ BatchFits BY DEF LimitInv, BatchFits
<1>6. OneColdPerCurrency BY DEF OneColdPerCurrency
<1> QED BY <1>1, <1>2, <1>3, <1>4, <1>5, <1>6 DEF IInv

\* New or changed requests that keep the destination of the old ones.
LEMMA RowsKept ==
    ASSUME IInv, UNCHANGED <<balance, roundVars>>, requests' \in Seq(Requests),
           DOMAIN requests \subseteq DOMAIN requests',
           \A q \in DOMAIN requests : requests'[q].dest = requests[q].dest,
           OneColdPerCurrency'
    PROVE  IInv'
<1> USE DEF IInv, roundVars
<1>1. TypeOK'
  <2>1. \A q \in DOMAIN requests' : requests'[q] \in Requests OBVIOUS
  <2> QED BY <2>1 DEF TypeOK, Requests
<1>2. SeqInv' BY DEF SeqInv
<1>3. BudgetInv' /\ Affordable' BY TakenSame DEF BudgetInv, Affordable
<1>4. TaskInv'
  <2>1. CASE phase = "external" BY <2>1 DEF TaskInv
  <2>2. CASE phase # "external" BY <2>2 DEF TaskInv
  <2> QED BY <2>1, <2>2
<1>5. DistinctDests' /\ LimitInv' /\ BatchFits' BY DEF DistinctDests, LimitInv, BatchFits
<1> QED BY <1>1, <1>2, <1>3, <1>4, <1>5

\* A new request of the API touches no row that a task refers to.
LEMMA SaveStep ==
    ASSUME IInv, NEW d \in Outside \cup Internal, NEW c \in Currencies, NEW a \in 1..MaxAmount,
           SaveWithdrawalRequest(d, c, a)
    PROVE  IInv'
<1> DEFINE r == Request(d, c, a, FALSE)
<1>1. r \in Requests BY ConstantsAssumption DEF Request, Requests
<1>2. /\ requests \in Seq(Requests) /\ requests' = Append(requests, r)
      /\ UNCHANGED <<balance, roundVars>>
  BY DEF IInv, SeqInv, SaveWithdrawalRequest
<1>3. ~r.internal BY DEF Request
<1> HIDE DEF r
<1>4. /\ requests' \in Seq(Requests)
      /\ DOMAIN requests' = (DOMAIN requests) \cup {Len(requests) + 1}
      /\ \A q \in DOMAIN requests : requests'[q] = requests[q]
      /\ requests'[Len(requests) + 1] = r
  BY <1>1, <1>2, AppendFacts
<1>5. OneColdPerCurrency' BY <1>3, <1>4 DEF OneColdPerCurrency, IInv
<1> QED BY <1>2, <1>4, <1>5, RowsKept

\* More money on the hot wallet can only help.
LEMMA IncomeStep ==
    ASSUME IInv, NEW c \in Currencies, Income(c)
    PROVE  IInv'
<1> USE ConstantsAssumption DEF IInv, Income, roundVars
<1>1. /\ balance' \in [Currencies -> Nat]
      /\ \A e \in Currencies : balance[e] <= balance'[e] /\ balance[e] \in Nat
  BY DEF TypeOK
<1>2. TypeOK' BY <1>1 DEF TypeOK
<1>3. BudgetInv' /\ Affordable'
  <2>1. \A e \in Currencies : Taken(e) \in Nat /\ Taken(e)' = Taken(e) /\ budget[e] \in Nat
    BY TakenType, TakenSame DEF SeqInv, TypeOK
  <2> QED BY <1>1, <2>1 DEF BudgetInv, Affordable
<1>4. SeqInv' /\ TaskInv' /\ DistinctDests' /\ LimitInv' /\ BatchFits' /\ OneColdPerCurrency'
  BY DEF SeqInv, TaskInv, DistinctDests, LimitInv, BatchFits, OneColdPerCurrency
<1> QED BY <1>2, <1>3, <1>4

\* What concatenation does, as the provers use it.
LEMMA ConcatFacts ==
    ASSUME NEW S, NEW s \in Seq(S), NEW u \in Seq(S)
    PROVE  /\ s \o u \in Seq(S)
           /\ Len(s \o u) = Len(s) + Len(u)
           /\ \A i \in 1..Len(s) : (s \o u)[i] = s[i]
           /\ \A i \in (Len(s) + 1)..(Len(s) + Len(u)) : (s \o u)[i] = u[i - Len(s)]
OBVIOUS

\* Requests to the cold wallet are for currencies with none under way, one each.
LEMMA ColdStep ==
    ASSUME IInv, MakeColdWalletWithdrawals
    PROVE  IInv'
<1> USE ConstantsAssumption
<1>1. PICK order \in SetToSeqs(ColdJettons) :
          requests' = requests
                      \o [i \in DOMAIN order |-> ColdRequest(order[i], balance[order[i]])]
                      \o IF ~InProgress(Ton) /\ TonLeft > HotWalletMax[Ton]
                         THEN <<ColdRequest(Ton, TonLeft)>> ELSE <<>>
  BY DEF MakeColdWalletWithdrawals
<1>2. /\ phase = "sleep" /\ phase' = "build"
      /\ UNCHANGED <<balance, budget, todo, usedAddresses, messages>>
  BY DEF MakeColdWalletWithdrawals
<1> DEFINE n == Cardinality(ColdJettons)
           A == [i \in 1..n |-> ColdRequest(order[i], balance[order[i]])]
           WithTon == ~InProgress(Ton) /\ TonLeft > HotWalletMax[Ton]
           B == IF WithTon THEN <<ColdRequest(Ton, TonLeft)>> ELSE <<>>
           L == Len(requests)
<1>3. IsFiniteSet(ColdJettons) /\ n \in Nat
  <2>1. ColdJettons \subseteq Jettons BY DEF ColdJettons
  <2>2. IsFiniteSet(ColdJettons) BY <2>1, FS_Subset
  <2> QED BY <2>2, FS_CardinalityType
<1>4. /\ order \in [1..n -> ColdJettons]
      /\ \A i, j \in 1..n : i # j => order[i] # order[j]
  BY DEF SetToSeqs
<1>5. requests' = (requests \o A) \o B BY <1>1, <1>4
<1>6. \A j \in ColdJettons : /\ j \in Jettons /\ j \in Currencies /\ j # Ton
                             /\ ~InProgress(j) /\ balance[j] > HotWalletMax[j]
  BY DEF ColdJettons, Currencies
<1>7. \A c \in Currencies : /\ balance[c] \in Nat /\ HotWalletMax[c] \in Nat
                            /\ HotWalletResidual[c] \in Nat
                            /\ HotWalletResidual[c] < HotWalletMax[c]
  BY DEF IInv, TypeOK
<1>8. \A c \in Currencies, have \in Int :
         have > HotWalletMax[c] => /\ ColdRequest(c, have) \in Requests
                                   /\ ColdRequest(c, have).cur = c
  <2> SUFFICES ASSUME NEW c \in Currencies, NEW have \in Int, have > HotWalletMax[c]
               PROVE  ColdRequest(c, have) \in Requests /\ ColdRequest(c, have).cur = c
    OBVIOUS
  <2>1. have - HotWalletResidual[c] \in Nat \ {0} BY <1>7
  <2> QED BY <2>1 DEF ColdRequest, Request, Requests
<1>9. \A i \in 1..n : A[i] \in Requests /\ A[i].cur = order[i]
  <2> SUFFICES ASSUME NEW i \in 1..n PROVE A[i] \in Requests /\ A[i].cur = order[i]
    OBVIOUS
  <2>1. order[i] \in ColdJettons BY <1>4
  <2>2. order[i] \in Currencies /\ balance[order[i]] > HotWalletMax[order[i]]
        /\ balance[order[i]] \in Int
    BY <2>1, <1>6, <1>7
  <2>3. A[i] = ColdRequest(order[i], balance[order[i]]) OBVIOUS
  <2> QED BY <2>2, <2>3, <1>8
<1>10. A \in Seq(Requests) /\ Len(A) = n
  <2> HIDE DEF n
  <2> QED BY <1>3, <1>9
<1>11. /\ B \in Seq(Requests) /\ Len(B) \in {0, 1}
       /\ Len(B) = 1 => WithTon /\ B[1].cur = Ton
  <2>1. Ton \in Currencies BY DEF Currencies
  <2>2. CASE WithTon
    <3>1. TonLeft \in Int BY <1>3, <1>7, <2>1 DEF TonLeft
    <3>2. ColdRequest(Ton, TonLeft) \in Requests /\ ColdRequest(Ton, TonLeft).cur = Ton
      BY <1>8, <2>1, <2>2, <3>1
    <3>3. B = <<ColdRequest(Ton, TonLeft)>> BY <2>2
    <3> QED BY <2>2, <3>2, <3>3
  <2>3. CASE ~WithTon BY <2>3
  <2> QED BY <2>2, <2>3
<1>12. requests \in Seq(Requests) /\ L \in Nat BY DEF IInv, SeqInv
<1> HIDE DEF n, A, B, L, WithTon
<1>13. /\ requests \o A \in Seq(Requests) /\ Len(requests \o A) = L + n
       /\ \A i \in 1..L : (requests \o A)[i] = requests[i]
       /\ \A i \in (L + 1)..(L + n) : (requests \o A)[i] = A[i - L]
  BY <1>10, <1>12, ConcatFacts DEF L
<1>14. /\ requests' \in Seq(Requests) /\ Len(requests') = L + n + Len(B)
       /\ \A i \in 1..(L + n) : requests'[i] = (requests \o A)[i]
       /\ \A i \in (L + n + 1)..(L + n + Len(B)) : requests'[i] = B[i - (L + n)]
  <2> DEFINE C == requests \o A
  <2>1. Len(C) = L + n /\ requests' = C \o B BY <1>5, <1>13
  <2>2. C \in Seq(Requests) /\ B \in Seq(Requests) BY <1>11, <1>13
  <2> HIDE DEF C
  <2>3. /\ C \o B \in Seq(Requests) /\ Len(C \o B) = Len(C) + Len(B)
        /\ \A i \in 1..Len(C) : (C \o B)[i] = C[i]
        /\ \A i \in (Len(C) + 1)..(Len(C) + Len(B)) : (C \o B)[i] = B[i - Len(C)]
    BY <2>2, ConcatFacts
  <2>4. /\ requests' \in Seq(Requests) /\ Len(requests') = L + n + Len(B)
        /\ \A i \in 1..(L + n) : requests'[i] = C[i]
        /\ \A i \in (L + n + 1)..(L + n + Len(B)) : requests'[i] = B[i - (L + n)]
    BY <2>1, <2>3
  <2> QED BY <2>4 DEF C
<1>15. ASSUME NEW k \in DOMAIN requests'
       PROVE  \/ k \in 1..L /\ requests'[k] = requests[k]
              \/ k - L \in 1..n /\ requests'[k].cur = order[k - L]
              \/ k = L + n + 1 /\ requests'[k].cur = Ton /\ WithTon
  <2>1. k \in 1..(L + n + Len(B)) BY <1>14
  <2>2. CASE k \in 1..L BY <2>2, <1>3, <1>12, <1>13, <1>14
  <2>3. CASE k \in (L + 1)..(L + n)
    <3>1. k - L \in 1..n /\ k \in 1..(L + n) BY <2>3, <1>3, <1>12
    <3>2. requests'[k] = (requests \o A)[k] BY <1>14, <3>1
    <3>3. (requests \o A)[k] = A[k - L] BY <1>13, <2>3
    <3> QED BY <3>1, <3>2, <3>3, <1>9
  <2>4. CASE k \in (L + n + 1)..(L + n + Len(B))
    <3>1. k = L + n + 1 /\ Len(B) = 1 /\ requests'[k] = B[1]
      BY <2>4, <1>3, <1>11, <1>12, <1>14
    <3> QED BY <3>1, <1>11
  <2> QED BY <2>1, <2>2, <2>3, <2>4, <1>3, <1>11, <1>12
<1>16. OneColdPerCurrency'
  <2> SUFFICES ASSUME NEW p \in DOMAIN requests', NEW q \in DOMAIN requests',
                      requests'[p].internal, ~requests'[p].processed,
                      requests'[q].internal, ~requests'[q].processed,
                      requests'[p].cur = requests'[q].cur
               PROVE  p = q
    BY DEF OneColdPerCurrency
  <2>1. \A k \in 1..L : /\ k \in DOMAIN requests
                        /\ requests[k].internal /\ ~requests[k].processed
                              => InProgress(requests[k].cur)
    BY <1>12 DEF InProgress, L
  <2>2. \A i \in 1..n : ~InProgress(order[i]) /\ order[i] # Ton BY <1>4, <1>6
  <2>3. WithTon => ~InProgress(Ton) BY DEF WithTon
  <2>4. CASE p \in 1..L /\ requests'[p] = requests[p]
    <3>1. InProgress(requests'[p].cur) BY <2>1, <2>4
    <3>2. q \in 1..L /\ requests'[q] = requests[q] BY <1>15, <2>2, <2>3, <3>1
    <3> QED BY <2>1, <2>4, <3>2 DEF OneColdPerCurrency, IInv
  <2>5. CASE p - L \in 1..n /\ requests'[p].cur = order[p - L]
    <3>1. ~InProgress(requests'[q].cur) /\ requests'[q].cur # Ton BY <2>2, <2>5
    <3>2. q - L \in 1..n /\ requests'[q].cur = order[q - L] BY <1>15, <2>1, <3>1
    <3>3. p - L = q - L BY <1>4, <2>5, <3>2
    <3>4. p \in Nat /\ q \in Nat BY <1>14
    <3> QED BY <3>3, <3>4, <1>12
  <2>6. CASE p = L + n + 1 /\ requests'[p].cur = Ton /\ WithTon
    <3>1. ~InProgress(requests'[q].cur) /\ requests'[q].cur = Ton BY <2>3, <2>6
    <3>2. q = L + n + 1 BY <1>15, <2>1, <2>2, <3>1
    <3> QED BY <2>6, <3>2
  <2> QED BY <1>15, <2>4, <2>5, <2>6
<1>17. messages = <<>> /\ messages' = <<>> BY <1>2 DEF IInv, BudgetInv
<1>18. TypeOK'
  <2>1. \A q \in DOMAIN requests' : requests'[q] \in Requests BY <1>14
  <2> QED BY <1>2, <2>1 DEF IInv, TypeOK, Requests
<1>19. SeqInv' BY <1>14, <1>17 DEF SeqInv
<1>20. BudgetInv' /\ Affordable'
  BY <1>2, <1>17, TakenSame DEF IInv, BudgetInv, Affordable
<1>21. TaskInv' /\ DistinctDests' /\ LimitInv' /\ BatchFits'
  BY <1>2, <1>17 DEF TaskInv, DistinctDests, LimitInv, BatchFits
<1> QED BY <1>16, <1>18, <1>19, <1>20, <1>21 DEF IInv

\* The end of a round: nothing is kept but the balances and the requests.
LEMMA EndRoundStep ==
    ASSUME IInv, EndRound, balance' \in [Currencies -> Nat], requests' \in Seq(Requests),
           OneColdPerCurrency'
    PROVE  IInv'
<1> USE ConstantsAssumption DEF EndRound
<1>1. TypeOK'
  <2>1. \A q \in DOMAIN requests' : requests'[q] \in Requests OBVIOUS
  <2>2. budget' \in [Currencies -> Nat] BY DEF Nothing
  <2> QED BY <2>1, <2>2 DEF TypeOK, Requests
<1>2. messages' = <<>> /\ phase' = "sleep" OBVIOUS
<1>3. SeqInv' BY <1>2 DEF SeqInv
<1>4. BudgetInv' /\ Affordable'
  <2>1. \A c \in Currencies : Taken(c)' = 0
    <3> SUFFICES ASSUME NEW c \in Currencies PROVE Taken(c)' = 0 OBVIOUS
    <3>1. DOMAIN [i \in DOMAIN messages' |-> Take(messages'[i], c)] = {} BY <1>2
    <3> QED BY <3>1, SumEmpty DEF Taken, SumFunction
  <2>2. \A c \in Currencies : balance'[c] \in Nat OBVIOUS
  <2> QED BY <1>2, <2>1, <2>2 DEF BudgetInv, Affordable
<1>5. TaskInv' /\ DistinctDests' /\ LimitInv' /\ BatchFits'
  BY <1>2 DEF TaskInv, DistinctDests, LimitInv, BatchFits
<1> QED BY <1>1, <1>3, <1>4, <1>5 DEF IInv

\* A round starts with the balances of the hot wallet.
LEMMA GetServiceStep ==
    ASSUME IInv, NEW S \in SUBSET Internal, GetServiceTasks(S)
    PROVE  IInv'
<1> USE ConstantsAssumption DEF IInv, GetServiceTasks
<1>1. TypeOK' /\ OneColdPerCurrency' BY DEF TypeOK, OneColdPerCurrency
<1>2. messages = <<>> /\ messages' = <<>> BY DEF BudgetInv
<1>3. SeqInv' BY <1>2 DEF SeqInv
<1>4. BudgetInv' /\ Affordable'
  <2>1. \A c \in Currencies : Taken(c)' = 0 BY <1>2, TakenSame, TakenNothing
  <2>2. \A c \in Currencies : balance[c] \in Nat BY DEF TypeOK
  <2> QED BY <2>1, <2>2 DEF BudgetInv, Affordable
<1>5. TaskInv' /\ DistinctDests' BY <1>2 DEF TaskInv, DistinctDests
<1>6. LimitInv' /\ BatchFits'
  <2>1. IsFiniteSet(S) BY FS_Subset
  <2>2. Cardinality(S) \in Nat BY <2>1, FS_CardinalityType
  <2> QED BY <1>2, <2>1, <2>2 DEF LimitInv, BatchFits
<1> QED BY <1>1, <1>3, <1>4, <1>5, <1>6

\* decreaseBalances takes off what the message takes, and never too much.
LEMMA DecreaseFacts ==
    ASSUME budget \in [Currencies -> Nat], NEW c \in Currencies, NEW a \in Nat, ~Short(c, a)
    PROVE  /\ Decrease(c, a) \in [Currencies -> Nat]
           /\ Decrease(c, a)[c] = budget[c] - a
           /\ c # Ton => Decrease(c, a)[Ton] = budget[Ton] - JettonTon
           /\ \A e \in Currencies \ {c, Ton} : Decrease(c, a)[e] = budget[e]
           /\ \A e \in Currencies : Decrease(c, a)[e] <= budget[e]
<1> USE ConstantsAssumption
<1>1. Ton \in Currencies BY DEF Currencies
<1>2. budget[c] \in Nat /\ budget[c] >= a /\ (c # Ton => budget[Ton] >= JettonTon)
  BY <1>1 DEF Short
<1>3. \A e \in Currencies : Decrease(c, a)[e] = IF e = c THEN budget[e] - a
                          ELSE IF e = Ton THEN budget[e] - JettonTon
                          ELSE budget[e]
  BY DEF Decrease
<1>4. \A e \in Currencies : Decrease(c, a)[e] \in Nat /\ Decrease(c, a)[e] <= budget[e]
  <2> SUFFICES ASSUME NEW e \in Currencies
               PROVE  Decrease(c, a)[e] \in Nat /\ Decrease(c, a)[e] <= budget[e]
    OBVIOUS
  <2>1. budget[e] \in Nat OBVIOUS
  <2>2. CASE e = c BY <1>2, <1>3, <2>2
  <2>3. CASE e # c /\ e = Ton BY <1>2, <1>3, <2>1, <2>3
  <2>4. CASE e # c /\ e # Ton BY <1>3, <2>1, <2>4
  <2> QED BY <2>2, <2>3, <2>4
<1>5. Decrease(c, a) \in [Currencies -> Nat] BY <1>4 DEF Decrease
<1> QED BY <1>1, <1>3, <1>4, <1>5

\* A message that is paid for from the balances of the round.
LEMMA PaidMessage ==
    ASSUME IInv, phase \in {"service", "internal", "external"},
           UNCHANGED <<balance, requests, phase>>,
           NEW m \in Messages, messages' = Append(messages, m),
           budget' \in [Currencies -> Nat],
           \A e \in Currencies : budget'[e] + Take(m, e) <= budget[e]
    PROVE  SeqInv' /\ BudgetInv' /\ Affordable'
<1>1. SeqInv' BY AppendFacts DEF IInv, SeqInv
<1>2. \A e \in Currencies : /\ Taken(e)' = Taken(e) + Take(m, e)
                            /\ Taken(e) \in Nat /\ Take(m, e) \in Nat
                            /\ budget[e] \in Nat /\ budget'[e] \in Nat /\ balance[e] \in Nat
  BY TakenAppend, TakenType, TakeNat DEF IInv, SeqInv, TypeOK
<1>3. \A e \in Currencies : budget[e] + Taken(e) <= balance[e] BY DEF IInv, BudgetInv
<1>4. \A e \in Currencies : /\ budget'[e] + Taken(e)' <= balance'[e]
                            /\ Taken(e)' <= balance'[e]
  BY <1>2, <1>3
<1> QED BY <1>1, <1>4 DEF BudgetInv, Affordable

\* No message, and balances that are at most lower.
LEMMA NoMessage ==
    ASSUME IInv, phase \in {"service", "internal", "external"},
           UNCHANGED <<balance, requests, phase, messages>>,
           budget' \in [Currencies -> Nat],
           \A e \in Currencies : budget'[e] <= budget[e]
    PROVE  SeqInv' /\ BudgetInv' /\ Affordable'
<1>1. \A e \in Currencies : /\ Taken(e)' = Taken(e) /\ Taken(e) \in Nat
                            /\ budget[e] \in Nat /\ budget'[e] \in Nat /\ balance[e] \in Nat
  BY TakenSame, TakenType DEF IInv, SeqInv, TypeOK
<1>2. \A e \in Currencies : budget[e] + Taken(e) <= balance[e] BY DEF IInv, BudgetInv
<1>3. \A e \in Currencies : /\ budget'[e] + Taken(e)' <= balance'[e]
                            /\ Taken(e)' <= balance'[e]
  BY <1>1, <1>2
<1> QED BY <1>3 DEF IInv, SeqInv, BudgetInv, Affordable

\* A message to an address that no other has.
LEMMA NewDest ==
    ASSUME IInv, NEW m \in Messages, messages' = Append(messages, m),
           \A i \in DOMAIN messages : messages[i].dest # m.dest
    PROVE  DistinctDests'
<1>1. /\ DOMAIN messages' = (DOMAIN messages) \cup {Len(messages) + 1}
      /\ \A i \in DOMAIN messages : messages'[i] = messages[i]
      /\ messages'[Len(messages) + 1] = m
  BY AppendFacts DEF IInv, SeqInv
<1> QED BY <1>1 DEF IInv, DistinctDests

\* A transfer from an address of the service is a message, and costs its TON.
LEMMA TransferFacts ==
    ASSUME IInv, NEW t \in Internal, ~Short(Ton, JettonTon)
    PROVE  /\ TransferMsg(t) \in Messages /\ TransferMsg(t).dest = t
           /\ Decrease(Ton, JettonTon) \in [Currencies -> Nat]
           /\ \A e \in Currencies : /\ Decrease(Ton, JettonTon)[e] <= budget[e]
                                    /\ Decrease(Ton, JettonTon)[e] + Take(TransferMsg(t), e)
                                         <= budget[e]
<1> USE ConstantsAssumption
<1>1. Ton \in Currencies BY DEF Currencies
<1>2. TransferMsg(t) \in Messages /\ TransferMsg(t).dest = t BY <1>1 DEF TransferMsg, Messages
<1>3. budget \in [Currencies -> Nat] BY DEF IInv, TypeOK
<1>4. /\ Decrease(Ton, JettonTon) \in [Currencies -> Nat]
      /\ Decrease(Ton, JettonTon)[Ton] = budget[Ton] - JettonTon
      /\ \A e \in Currencies \ {Ton} : Decrease(Ton, JettonTon)[e] = budget[e]
      /\ \A e \in Currencies : Decrease(Ton, JettonTon)[e] <= budget[e]
  BY <1>1, <1>3, DecreaseFacts
<1>5. Take(TransferMsg(t), Ton) = JettonTon BY DEF Take, TransferMsg
<1>6. \A e \in Currencies \ {Ton} : Take(TransferMsg(t), e) = 0 BY DEF Take, TransferMsg
<1>7. \A e \in Currencies : budget[e] \in Nat BY <1>3
<1>8. \A e \in Currencies : Decrease(Ton, JettonTon)[e] + Take(TransferMsg(t), e) <= budget[e]
  <2> SUFFICES ASSUME NEW e \in Currencies
               PROVE  Decrease(Ton, JettonTon)[e] + Take(TransferMsg(t), e) <= budget[e]
    OBVIOUS
  <2>1. CASE e = Ton BY <1>4, <1>5, <1>7, <2>1
  <2>2. CASE e # Ton BY <1>4, <1>6, <1>7, <2>2
  <2> QED BY <2>1, <2>2
<1> QED BY <1>2, <1>4, <1>8

\* A service task leaves the tasks, and only its own address is used.
LEMMA ServiceStep ==
    ASSUME IInv, NEW t \in todo, ServiceTask(t)
    PROVE  IInv'
<1> USE ConstantsAssumption
<1> DEFINE m == TransferMsg(t)
<1>1. /\ phase = "service" /\ phase' = "service" /\ todo' = todo \ {t}
      /\ UNCHANGED <<balance, requests, phase>>
  BY DEF ServiceTask
<1>2. /\ todo \subseteq Internal \ usedAddresses /\ t \in Internal /\ t \notin usedAddresses
      /\ \A i \in DOMAIN messages : messages[i].dest \in usedAddresses
      /\ usedAddresses \subseteq Internal
  BY <1>1 DEF IInv, TaskInv, TypeOK
<1>3. budget \in [Currencies -> Nat] /\ \A e \in Currencies : budget[e] \in Nat
  BY DEF IInv, TypeOK
<1>4. /\ IsFiniteSet(todo) /\ Cardinality(todo) \in Nat /\ IsFiniteSet(todo')
      /\ Cardinality(todo') = Cardinality(todo) - 1
      /\ Len(messages) \in Nat /\ Len(messages) + Cardinality(todo) <= MsgLimit
  <2>1. IsFiniteSet(todo) /\ Len(messages) + Cardinality(todo) <= MsgLimit
    BY <1>1 DEF IInv, LimitInv
  <2>2. Cardinality(todo) \in Nat BY <2>1, FS_CardinalityType
  <2>3. IsFiniteSet(todo \ {t}) /\ Cardinality(todo \ {t}) = Cardinality(todo) - 1
    BY <2>1, FS_RemoveElement
  <2> QED BY <1>1, <2>1, <2>2, <2>3 DEF IInv, SeqInv
<1>5. CASE UNCHANGED <<usedAddresses, messages>> /\ budget' \in [Currencies -> Nat]
           /\ \A e \in Currencies : budget'[e] <= budget[e]
  <2>1. SeqInv' /\ BudgetInv' /\ Affordable' BY <1>1, <1>5, NoMessage
  <2>2. TypeOK' /\ OneColdPerCurrency' BY <1>1, <1>5 DEF IInv, TypeOK, OneColdPerCurrency
  <2>3. TaskInv' /\ DistinctDests' BY <1>1, <1>2, <1>5 DEF IInv, TaskInv, DistinctDests
  <2>4. LimitInv' /\ BatchFits' BY <1>1, <1>4, <1>5 DEF IInv, LimitInv, BatchFits
  <2> QED BY <2>1, <2>2, <2>3, <2>4 DEF IInv
<1>6. CASE /\ ~Short(Ton, JettonTon) /\ budget' = Decrease(Ton, JettonTon)
           /\ usedAddresses' = usedAddresses \cup {t} /\ messages' = Append(messages, m)
  <2>1. /\ m \in Messages /\ m.dest = t /\ budget' \in [Currencies -> Nat]
        /\ \A e \in Currencies : budget'[e] + Take(m, e) <= budget[e]
    BY <1>2, <1>6, TransferFacts
  <2> HIDE DEF m
  <2>2. SeqInv' /\ BudgetInv' /\ Affordable' BY <1>1, <1>6, <2>1, PaidMessage
  <2>3. TypeOK' /\ OneColdPerCurrency'
    BY <1>1, <1>2, <1>6, <2>1 DEF IInv, TypeOK, OneColdPerCurrency
  <2>4. DistinctDests' BY <1>2, <1>6, <2>1, NewDest
  <2>5. /\ DOMAIN messages' = (DOMAIN messages) \cup {Len(messages) + 1}
        /\ \A i \in DOMAIN messages : messages'[i] = messages[i]
        /\ messages'[Len(messages) + 1] = m /\ Len(messages') = Len(messages) + 1
    BY <1>6, <2>1, AppendFacts DEF IInv, SeqInv
  <2>6. \A i \in DOMAIN messages' : messages'[i].dest \in usedAddresses'
    BY <1>2, <1>6, <2>1, <2>5
  <2>7. TaskInv' BY <1>1, <1>2, <1>6, <2>6 DEF TaskInv
  <2>8. LimitInv' /\ BatchFits' BY <1>1, <1>4, <2>5 DEF LimitInv, BatchFits
  <2> QED BY <2>2, <2>3, <2>4, <2>7, <2>8 DEF IInv
<1>7. CASE Short(Ton, JettonTon) /\ UNCHANGED <<budget, usedAddresses, messages>>
  BY <1>3, <1>5, <1>7
<1>8. CASE /\ ~Short(Ton, JettonTon) /\ budget' = Decrease(Ton, JettonTon)
           /\ UNCHANGED <<usedAddresses, messages>>
  <2>1. /\ budget' \in [Currencies -> Nat]
        /\ \A e \in Currencies : budget'[e] <= budget[e]
    BY <1>2, <1>8, TransferFacts
  <2> QED BY <1>5, <1>8, <2>1
<1> QED BY <1>6, <1>7, <1>8 DEF ServiceTask

\* The proxies of internal withdrawals are not among the used addresses.
LEMMA GetInternalStep ==
    ASSUME IInv, NEW S \in SUBSET Internal, GetInternalTasks(S)
    PROVE  IInv'
<1> USE ConstantsAssumption DEF IInv, GetInternalTasks
<1>1. TypeOK' /\ SeqInv' /\ OneColdPerCurrency' BY DEF TypeOK, SeqInv, OneColdPerCurrency
<1>2. BudgetInv' /\ Affordable' BY TakenSame DEF BudgetInv, Affordable
<1>3. TaskInv' /\ DistinctDests' BY DEF TaskInv, DistinctDests, TypeOK
<1>4. LimitInv' /\ BatchFits' BY DEF LimitInv, BatchFits
<1> QED BY <1>1, <1>2, <1>3, <1>4

\* An internal withdrawal leaves the tasks, and only its own proxy gets a message.
LEMMA InternalStep ==
    ASSUME IInv, NEW t \in todo, InternalTask(t)
    PROVE  IInv'
<1> USE ConstantsAssumption
<1> DEFINE m == TransferMsg(t)
<1>1. /\ phase = "internal" /\ phase' = "internal" /\ todo' = todo \ {t}
      /\ UNCHANGED <<balance, requests, phase, usedAddresses>> /\ ~Full
  BY DEF InternalTask
<1>2. /\ todo \subseteq Internal /\ t \in Internal
      /\ \A i \in DOMAIN messages : messages[i].dest \in Internal \ todo
  BY <1>1 DEF IInv, TaskInv
<1>3. budget \in [Currencies -> Nat] /\ \A e \in Currencies : budget[e] \in Nat
  BY DEF IInv, TypeOK
<1>4. CASE messages' = messages /\ budget' \in [Currencies -> Nat]
           /\ \A e \in Currencies : budget'[e] <= budget[e]
  <2>1. SeqInv' /\ BudgetInv' /\ Affordable' BY <1>1, <1>4, NoMessage
  <2>2. TypeOK' /\ OneColdPerCurrency' BY <1>1, <1>4 DEF IInv, TypeOK, OneColdPerCurrency
  <2>3. TaskInv' /\ DistinctDests' BY <1>1, <1>2, <1>4 DEF IInv, TaskInv, DistinctDests
  <2>4. LimitInv' /\ BatchFits' BY <1>1, <1>4 DEF IInv, LimitInv, BatchFits
  <2> QED BY <2>1, <2>2, <2>3, <2>4 DEF IInv
<1>5. CASE /\ ~Short(Ton, JettonTon) /\ budget' = Decrease(Ton, JettonTon)
           /\ messages' = Append(messages, m)
  <2>1. /\ m \in Messages /\ m.dest = t /\ budget' \in [Currencies -> Nat]
        /\ \A e \in Currencies : budget'[e] + Take(m, e) <= budget[e]
    BY <1>2, <1>5, TransferFacts
  <2> HIDE DEF m
  <2>2. SeqInv' /\ BudgetInv' /\ Affordable' BY <1>1, <1>5, <2>1, PaidMessage
  <2>3. TypeOK' /\ OneColdPerCurrency'
    BY <1>1, <1>5, <2>1 DEF IInv, TypeOK, OneColdPerCurrency
  <2>4. DistinctDests' BY <1>2, <1>5, <2>1, NewDest
  <2>5. /\ DOMAIN messages' = (DOMAIN messages) \cup {Len(messages) + 1}
        /\ \A i \in DOMAIN messages : messages'[i] = messages[i]
        /\ messages'[Len(messages) + 1] = m /\ Len(messages') = Len(messages) + 1
        /\ Len(messages) \in Nat
    BY <1>5, <2>1, AppendFacts DEF IInv, SeqInv
  <2>6. \A i \in DOMAIN messages' : messages'[i].dest \in Internal \ todo'
    BY <1>1, <1>2, <2>1, <2>5
  <2>7. TaskInv' BY <1>1, <1>2, <2>6 DEF TaskInv
  <2>8. LimitInv' /\ BatchFits' BY <1>1, <2>5 DEF LimitInv, BatchFits, Full
  <2> QED BY <2>2, <2>3, <2>4, <2>7, <2>8 DEF IInv
<1>6. CASE Short(Ton, JettonTon) /\ UNCHANGED <<budget, messages>>
  BY <1>3, <1>4, <1>6
<1>7. CASE /\ ~Short(Ton, JettonTon) /\ budget' = Decrease(Ton, JettonTon)
           /\ messages' = messages
  <2>1. /\ budget' \in [Currencies -> Nat]
        /\ \A e \in Currencies : budget'[e] <= budget[e]
    BY <1>2, <1>7, TransferFacts
  <2> QED BY <1>4, <1>7, <2>1
<1> QED BY <1>5, <1>6, <1>7 DEF InternalTask

\* External tasks have distinct destinations: the oldest of each.
LEMMA GetExternalStep ==
    ASSUME IInv, NEW S \in SUBSET ExternalTasks, GetExternalTasks(S)
    PROVE  IInv'
<1>1. /\ phase = "internal" /\ phase' = "external" /\ todo' = S
      /\ UNCHANGED <<balance, requests, budget, usedAddresses, messages>>
  BY DEF GetExternalTasks
<1>2. TypeOK' /\ SeqInv' /\ OneColdPerCurrency'
  BY <1>1 DEF IInv, TypeOK, SeqInv, OneColdPerCurrency
<1>3. BudgetInv' /\ Affordable' BY <1>1, TakenSame DEF IInv, BudgetInv, Affordable
<1>4. \A p, q \in S : requests[p].dest = requests[q].dest => p = q
  <2> SUFFICES ASSUME NEW p \in S, NEW q \in S, requests[p].dest = requests[q].dest, p # q
               PROVE  FALSE
    OBVIOUS
  <2>1. DOMAIN requests = 1..Len(requests) /\ Len(requests) \in Nat BY DEF IInv, SeqInv
  <2>2. p \in Nat /\ q \in Nat /\ p >= 1 /\ q >= 1 BY <2>1 DEF ExternalTasks
  <2>3. CASE p < q
    <3>1. p \in 1..(q - 1) BY <2>2, <2>3
    <3> QED BY <3>1 DEF ExternalTasks
  <2>4. CASE q < p
    <3>1. q \in 1..(p - 1) BY <2>2, <2>4
    <3> QED BY <3>1 DEF ExternalTasks
  <2> QED BY <2>2, <2>3, <2>4
<1>5. S \subseteq DOMAIN requests BY DEF ExternalTasks
<1>6. TaskInv' BY <1>1, <1>4, <1>5 DEF IInv, TaskInv
<1>7. DistinctDests' /\ LimitInv' /\ BatchFits'
  BY <1>1 DEF IInv, DistinctDests, LimitInv, BatchFits
<1> QED BY <1>2, <1>3, <1>6, <1>7 DEF IInv

\* An external withdrawal costs what its message takes.
LEMMA WithdrawalFacts ==
    ASSUME IInv, NEW q \in DOMAIN requests, ~Short(requests[q].cur, requests[q].amount)
    PROVE  LET m == WithdrawalMsg(q)
               b == Decrease(requests[q].cur, requests[q].amount)
           IN  /\ m \in Messages /\ m.dest = requests[q].dest
               /\ b \in [Currencies -> Nat]
               /\ \A e \in Currencies : b[e] + Take(m, e) <= budget[e]
<1> USE ConstantsAssumption
<1> DEFINE c == requests[q].cur
           a == requests[q].amount
           m == WithdrawalMsg(q)
           b == Decrease(c, a)
<1>1. Ton \in Currencies BY DEF Currencies
<1>2. requests[q] \in Requests /\ q \in Nat BY DEF IInv, SeqInv
<1>3. c \in Currencies /\ a \in Nat /\ requests[q].dest \in Outside \cup Internal
  BY <1>2 DEF Requests
<1>4. /\ m.dest = requests[q].dest /\ m.cur = c /\ m.amount = a /\ m.query = q
      /\ m.ton = (IF c = Ton THEN 0 ELSE JettonTon)
      /\ m = [dest |-> m.dest, cur |-> m.cur, amount |-> m.amount, query |-> m.query,
              ton |-> m.ton]
  BY DEF WithdrawalMsg
<1>5. m \in Messages
  <2>1. m.ton \in Nat BY <1>4
  <2> QED BY <1>2, <1>3, <1>4, <2>1 DEF Messages
<1>6. budget \in [Currencies -> Nat] BY DEF IInv, TypeOK
<1>7. ~Short(c, a) OBVIOUS
<1> HIDE DEF c, a
<1>8. /\ b \in [Currencies -> Nat] /\ b[c] = budget[c] - a
      /\ c # Ton => b[Ton] = budget[Ton] - JettonTon
      /\ \A e \in Currencies \ {c, Ton} : b[e] = budget[e]
  BY <1>3, <1>6, <1>7, DecreaseFacts
<1>9. \A e \in Currencies : budget[e] \in Nat BY <1>6
<1> HIDE DEF b, m
<1>10. \A e \in Currencies : b[e] + Take(m, e) <= budget[e]
  <2> SUFFICES ASSUME NEW e \in Currencies PROVE b[e] + Take(m, e) <= budget[e]
    OBVIOUS
  <2>1. CASE e = c /\ c = Ton BY <1>3, <1>4, <1>8, <1>9, <2>1 DEF Take
  <2>2. CASE e = c /\ c # Ton BY <1>3, <1>4, <1>8, <1>9, <2>2 DEF Take
  <2>3. CASE e # c /\ e = Ton BY <1>3, <1>4, <1>8, <1>9, <2>3 DEF Take
  <2>4. CASE e # c /\ e # Ton BY <1>3, <1>4, <1>8, <1>9, <2>4 DEF Take
  <2> QED BY <2>1, <2>2, <2>3, <2>4
<1> QED BY <1>4, <1>5, <1>8, <1>10 DEF m, b, c, a

\* An external withdrawal goes to an address that no message of the batch has.
LEMMA ExternalStep ==
    ASSUME IInv, NEW q \in todo, ExternalTask(q)
    PROVE  IInv'
<1> DEFINE m == WithdrawalMsg(q)
<1>1. /\ phase = "external" /\ phase' = "external" /\ todo' = todo \ {q}
      /\ UNCHANGED <<balance, requests, phase, usedAddresses>> /\ ~Full
  BY DEF ExternalTask
<1>2. /\ todo \subseteq DOMAIN requests /\ q \in DOMAIN requests
      /\ \A p \in todo : requests[p].dest = requests[q].dest => p = q
      /\ \A i \in DOMAIN messages, p \in todo :
            messages[i].dest = requests[p].dest => messages[i].dest \in Internal
  BY <1>1 DEF IInv, TaskInv
<1>3. CASE UNCHANGED <<budget, messages>>
  <2>1. /\ budget' \in [Currencies -> Nat]
        /\ \A e \in Currencies : budget'[e] <= budget[e]
    <3>1. budget \in [Currencies -> Nat] /\ \A e \in Currencies : budget[e] \in Nat
      BY DEF IInv, TypeOK
    <3> QED BY <1>3, <3>1
  <2>2. SeqInv' /\ BudgetInv' /\ Affordable' BY <1>1, <1>3, <2>1, NoMessage
  <2>3. TypeOK' /\ OneColdPerCurrency' BY <1>1, <1>3 DEF IInv, TypeOK, OneColdPerCurrency
  <2>4. TaskInv' /\ DistinctDests' BY <1>1, <1>3 DEF IInv, TaskInv, DistinctDests
  <2>5. LimitInv' /\ BatchFits' BY <1>1, <1>3 DEF IInv, LimitInv, BatchFits
  <2> QED BY <2>2, <2>3, <2>4, <2>5 DEF IInv
<1>4. CASE /\ requests[q].dest \notin Internal
           /\ ~Short(requests[q].cur, requests[q].amount)
           /\ budget' = Decrease(requests[q].cur, requests[q].amount)
           /\ messages' = Append(messages, m)
  <2>1. /\ m \in Messages /\ m.dest = requests[q].dest /\ budget' \in [Currencies -> Nat]
        /\ \A e \in Currencies : budget'[e] + Take(m, e) <= budget[e]
    BY <1>2, <1>4, WithdrawalFacts
  <2> HIDE DEF m
  <2>2. SeqInv' /\ BudgetInv' /\ Affordable' BY <1>1, <1>4, <2>1, PaidMessage
  <2>3. TypeOK' /\ OneColdPerCurrency'
    BY <1>1, <1>4, <2>1 DEF IInv, TypeOK, OneColdPerCurrency
  <2>4. DistinctDests' BY <1>2, <1>4, <2>1, NewDest
  <2>5. /\ DOMAIN messages' = (DOMAIN messages) \cup {Len(messages) + 1}
        /\ \A i \in DOMAIN messages : messages'[i] = messages[i]
        /\ messages'[Len(messages) + 1] = m /\ Len(messages') = Len(messages) + 1
        /\ Len(messages) \in Nat
    BY <1>4, <2>1, AppendFacts DEF IInv, SeqInv
  <2>6. \A i \in DOMAIN messages', p \in todo' :
            messages'[i].dest = requests'[p].dest => messages'[i].dest \in Internal
    BY <1>1, <1>2, <2>1, <2>5
  <2>7. \A p, r \in todo' : requests'[p].dest = requests'[r].dest => p = r
    BY <1>1 DEF IInv, TaskInv
  <2>8. TaskInv' BY <1>1, <1>2, <2>6, <2>7 DEF TaskInv
  <2>9. LimitInv' /\ BatchFits'
    BY <1>1, <2>5, ConstantsAssumption DEF LimitInv, BatchFits, Full
  <2> QED BY <2>2, <2>3, <2>4, <2>8, <2>9 DEF IInv
<1> QED BY <1>3, <1>4 DEF ExternalTask

\* Requests that are marked stay requests; a processed one never returns.
LEMMA MarkFacts ==
    ASSUME IInv
    PROVE  /\ MarkProcessing \in Seq(Requests) /\ MarkProcessed \in Seq(Requests)
           /\ \A q \in DOMAIN requests :
                 /\ MarkProcessing[q].internal = requests[q].internal
                 /\ MarkProcessing[q].cur = requests[q].cur
                 /\ MarkProcessing[q].processed = requests[q].processed
                 /\ MarkProcessed[q].internal = requests[q].internal
                 /\ MarkProcessed[q].cur = requests[q].cur
                 /\ requests[q].processed => MarkProcessed[q].processed
           /\ DOMAIN MarkProcessing = DOMAIN requests
           /\ DOMAIN MarkProcessed = DOMAIN requests
<1>1. /\ DOMAIN requests = 1..Len(requests) /\ Len(requests) \in Nat
      /\ \A q \in DOMAIN requests : requests[q] \in Requests
  BY DEF IInv, SeqInv
<1>2. DOMAIN MarkProcessing = DOMAIN requests /\ DOMAIN MarkProcessed = DOMAIN requests
  BY DEF MarkProcessing, MarkProcessed
<1>3. ASSUME NEW q \in DOMAIN requests
      PROVE  /\ MarkProcessing[q] \in Requests /\ MarkProcessed[q] \in Requests
             /\ MarkProcessing[q].internal = requests[q].internal
             /\ MarkProcessing[q].cur = requests[q].cur
             /\ MarkProcessing[q].processed = requests[q].processed
             /\ MarkProcessed[q].internal = requests[q].internal
             /\ MarkProcessed[q].cur = requests[q].cur
             /\ requests[q].processed => MarkProcessed[q].processed
  <2> HIDE DEF Batch
  <2>1. CASE q \in Batch BY <1>1, <2>1 DEF MarkProcessing, MarkProcessed, Requests
  <2>2. CASE q \notin Batch BY <1>1, <2>2 DEF MarkProcessing, MarkProcessed
  <2> QED BY <2>1, <2>2
<1>4. MarkProcessing = [q \in 1..Len(requests) |-> MarkProcessing[q]]
      /\ MarkProcessed = [q \in 1..Len(requests) |-> MarkProcessed[q]]
  BY <1>1 DEF MarkProcessing, MarkProcessed
<1>5. MarkProcessing \in Seq(Requests) /\ MarkProcessed \in Seq(Requests)
  BY <1>1, <1>3, <1>4
<1> QED BY <1>2, <1>3, <1>5

\* The batch is saved: its requests are in processing.
LEMMA SendStep ==
    ASSUME IInv, SendBatch
    PROVE  IInv'
<1>1. /\ requests' = MarkProcessing /\ phase' = "sent" /\ todo' = {} /\ usedAddresses' = {}
      /\ budget' = Nothing /\ UNCHANGED <<balance, messages>>
  BY DEF SendBatch
<1>2. /\ requests' \in Seq(Requests) /\ DOMAIN requests' = DOMAIN requests
      /\ \A q \in DOMAIN requests : /\ requests'[q].internal = requests[q].internal
                                    /\ requests'[q].cur = requests[q].cur
                                    /\ requests'[q].processed = requests[q].processed
  BY <1>1, MarkFacts
<1>3. TypeOK'
  <2>1. \A q \in DOMAIN requests' : requests'[q] \in Requests BY <1>2
  <2>2. budget' \in [Currencies -> Nat] BY <1>1 DEF Nothing
  <2> QED BY <1>1, <2>1, <2>2 DEF IInv, TypeOK, Requests
<1>4. SeqInv' BY <1>1, <1>2 DEF IInv, SeqInv
<1>5. BudgetInv' /\ Affordable' BY <1>1, TakenSame DEF IInv, BudgetInv, Affordable
<1>6. TaskInv' /\ DistinctDests' /\ LimitInv' /\ BatchFits'
  BY <1>1 DEF IInv, TaskInv, DistinctDests, LimitInv, BatchFits
<1>7. OneColdPerCurrency' BY <1>2 DEF IInv, OneColdPerCurrency
<1> QED BY <1>3, <1>4, <1>5, <1>6, <1>7 DEF IInv

\* The batch is executed: the hot wallet can pay it.
LEMMA ExecutedStep ==
    ASSUME IInv, Executed
    PROVE  IInv'
<1>1. /\ balance' = [c \in Currencies |-> balance[c] - Taken(c)]
      /\ requests' = MarkProcessed /\ EndRound
  BY DEF Executed
<1>2. balance' \in [Currencies -> Nat]
  <2>1. \A c \in Currencies : balance[c] \in Nat /\ Taken(c) \in Nat /\ Taken(c) <= balance[c]
    BY TakenType DEF IInv, TypeOK, SeqInv, Affordable
  <2>2. \A c \in Currencies : balance[c] - Taken(c) \in Nat BY <2>1
  <2> QED BY <1>1, <2>2
<1>3. /\ requests' \in Seq(Requests) /\ DOMAIN requests' = DOMAIN requests
      /\ \A q \in DOMAIN requests : /\ requests'[q].internal = requests[q].internal
                                    /\ requests'[q].cur = requests[q].cur
                                    /\ requests[q].processed => requests'[q].processed
  BY <1>1, MarkFacts
<1>4. OneColdPerCurrency' BY <1>3 DEF IInv, OneColdPerCurrency
<1> QED BY <1>1, <1>2, <1>3, <1>4, EndRoundStep

\* A round that sends nothing, a lost batch and a restart lose only the round.
LEMMA AbandonStep ==
    ASSUME IInv, EndRound, UNCHANGED <<balance, requests>>
    PROVE  IInv'
<1>1. balance' \in [Currencies -> Nat] /\ requests' \in Seq(Requests) /\ OneColdPerCurrency'
  BY DEF IInv, TypeOK, SeqInv, OneColdPerCurrency
<1> QED BY <1>1, EndRoundStep

\* Expired requests are given back with everything but the mark.
LEMMA ExpiredStep ==
    ASSUME IInv, NEW S \in SUBSET LostRequests, SetExpired(S)
    PROVE  IInv'
<1>1. UNCHANGED <<balance, roundVars>> BY DEF SetExpired
<1>2. /\ DOMAIN requests = 1..Len(requests) /\ Len(requests) \in Nat
      /\ \A q \in DOMAIN requests : requests[q] \in Requests
  BY DEF IInv, SeqInv
<1>3. requests' = [q \in 1..Len(requests) |->
                      IF q \in S THEN [requests[q] EXCEPT !.processing = FALSE] ELSE requests[q]]
  BY <1>2 DEF SetExpired
<1>4. \A q \in DOMAIN requests : /\ requests'[q] \in Requests
                                 /\ requests'[q].dest = requests[q].dest
                                 /\ requests'[q].internal = requests[q].internal
                                 /\ requests'[q].cur = requests[q].cur
                                 /\ requests'[q].processed = requests[q].processed
  BY <1>2, <1>3 DEF Requests
<1>5. requests' \in Seq(Requests) /\ DOMAIN requests' = DOMAIN requests BY <1>2, <1>3, <1>4
<1>6. OneColdPerCurrency' BY <1>4, <1>5 DEF IInv, OneColdPerCurrency
<1> QED BY <1>1, <1>4, <1>5, <1>6, RowsKept

LEMMA StutterStep ==
    ASSUME IInv, UNCHANGED vars
    PROVE  IInv'
<1>1. UNCHANGED <<balance, roundVars>> /\ requests' = requests BY DEF vars
<1>2. requests' \in Seq(Requests) /\ OneColdPerCurrency'
  BY <1>1 DEF IInv, SeqInv, OneColdPerCurrency
<1> QED BY <1>1, <1>2, RowsKept

LEMMA InvStep == IInv /\ [Next]_vars => IInv'
<1> SUFFICES ASSUME IInv, [Next]_vars PROVE IInv' OBVIOUS
<1>1. ASSUME NEW d \in Outside \cup Internal, NEW c \in Currencies, NEW a \in 1..MaxAmount,
             SaveWithdrawalRequest(d, c, a)
      PROVE  IInv'
  BY <1>1, SaveStep
<1>2. ASSUME NEW c \in Currencies, Income(c) PROVE IInv' BY <1>2, IncomeStep
<1>3. CASE MakeColdWalletWithdrawals BY <1>3, ColdStep
<1>4. ASSUME NEW S \in SUBSET Internal, GetServiceTasks(S) PROVE IInv' BY <1>4, GetServiceStep
<1>5. ASSUME NEW t \in todo, ServiceTask(t) PROVE IInv' BY <1>5, ServiceStep
<1>6. ASSUME NEW S \in SUBSET Internal, GetInternalTasks(S) PROVE IInv' BY <1>6, GetInternalStep
<1>7. ASSUME NEW t \in todo, InternalTask(t) PROVE IInv' BY <1>7, InternalStep
<1>8. ASSUME NEW S \in SUBSET ExternalTasks, GetExternalTasks(S) PROVE IInv'
  BY <1>8, GetExternalStep
<1>9. ASSUME NEW q \in todo, ExternalTask(q) PROVE IInv' BY <1>9, ExternalStep
<1>10. CASE NothingToSend BY <1>10, AbandonStep DEF NothingToSend
<1>11. CASE SendBatch BY <1>11, SendStep
<1>12. CASE Executed BY <1>12, ExecutedStep
<1>13. CASE Lost BY <1>13, AbandonStep DEF Lost
<1>14. ASSUME NEW S \in SUBSET LostRequests, SetExpired(S) PROVE IInv' BY <1>14, ExpiredStep
<1>15. CASE Restart BY <1>15, AbandonStep DEF Restart
<1>16. CASE UNCHANGED vars BY <1>16, StutterStep
<1> QED BY <1>1, <1>2, <1>3, <1>4, <1>5, <1>6, <1>7, <1>8, <1>9, <1>10, <1>11, <1>12, <1>13,
           <1>14, <1>15, <1>16 DEF Next

LEMMA Invariance == Spec => []IInv
<1>1. Init => IInv BY InitInv
<1>2. IInv /\ [Next]_vars => IInv' BY InvStep
<1> QED BY <1>1, <1>2, PTL DEF Spec

-----------------------------------------------------------------------------
(* Theorems *)

\* Every request asks for something, cold wallet withdrawals too, and neither
\* the hot wallet nor the balances of a round (decreaseBalances) ever go below
\* zero.
THEOREM TypeInvariance == Spec => []TypeOK
<1>1. IInv => TypeOK BY DEF IInv
<1> QED BY <1>1, Invariance, PTL

\* buildWithdrawalMessages never makes a batch that the hot wallet cannot pay,
\* whatever arrives, expires or restarts while it is built and sent.
THEOREM BatchIsAffordable == Spec => []Affordable
<1>1. IInv => Affordable BY DEF IInv
<1> QED BY <1>1, Invariance, PTL

\* Service, internal and external withdrawals of a batch never share an address,
\* which is what parseExternalMessage tells them apart by.
THEOREM DestinationsAreDistinct == Spec => []DistinctDests
<1>1. IInv => DistinctDests BY DEF IInv
<1> QED BY <1>1, Invariance, PTL

\* Three queries, each with the limit of a batch, make at most one message more
\* than the limit.
THEOREM BatchesFit == Spec => []BatchFits
<1>1. IInv => BatchFits BY DEF IInv
<1> QED BY <1>1, Invariance, PTL

\* makeColdWalletWithdrawals never has two withdrawals of a currency under way.
THEOREM ColdWithdrawalIsUnique == Spec => []OneColdPerCurrency
<1>1. IInv => OneColdPerCurrency BY DEF IInv
<1> QED BY <1>1, Invariance, PTL
=============================================================================
