-------------------------- MODULE AddressBookProofs --------------------------
(***************************************************************************)
(* Theorems about AddressBook for every value of its constants: any number *)
(* of handlers, users, configurations, restarts and failing database calls, *)
(* any set of addresses in the shard.                                      *)
(***************************************************************************)
EXTENDS AddressBook, FiniteSums, TLAPS

Queries == {w[2] : w \in Withdrawals}
Currencies == {Ton} \cup UNION {DOMAIN c : c \in Configs}
Critical == {"generate", "save", "putOwner", "putWallet", "reply"}
Pcs == {"idle", "lock", "insert"} \cup Critical
HandlerStates == [pc : Pcs, user : Users \cup {NoUser}, currency : Currencies,
                  id : Nat \cup Queries]

-----------------------------------------------------------------------------
(* The inductive invariant *)

TypeInv ==
    /\ hs \in [Handlers -> HandlerStates]
    /\ phase \in {"down", "init", "up"}
    /\ requests \in [Withdrawals -> Nat]
    /\ jettons \in Configs \cup {<< >>}
    /\ IsFiniteSet(tonWallets)

TonRowOK(r) ==
    /\ r.id \in Nat /\ r.id < MaxUint32
    /\ \/ r.type = "tonHot" /\ r.id = DefaultId /\ r.user = NoUser /\ r.address = HotAddress
       \/ r.type = "tonDeposit" /\ r.user \in Users /\ r.address = TonAddress(r.id)
       \/ r.type = "jettonOwner" /\ r.user \in Users /\ r.address = ProxyAddress(r.id)

\* s is the row that LoadAddressBook joins to the Jetton wallet r.
IsOwner(s, r) ==
    /\ s.id = r.id
    /\ r.type = "jettonDeposit" => s.type = "jettonOwner" /\ s.user = r.user

JettonRowOK(r) ==
    /\ r.address = JettonAddress(r.id, r.address.master)
    /\ \/ r.type = "jettonHot" /\ r.id = DefaultId /\ r.user = NoUser
       \/ r.type = "jettonDeposit" /\ r.user \in Users
    /\ \E s \in tonWallets : IsOwner(s, r)

\* Subwallet numbers are taken once, and the hot wallet came first.
TonInv ==
    /\ \A r \in tonWallets : TonRowOK(r)
    /\ \A r, s \in tonWallets : r.id = s.id => r = s
    /\ tonWallets # {} => \E r \in tonWallets : r.type = "tonHot"

JettonInv ==
    /\ \A r \in jettonWallets : JettonRowOK(r)
    /\ \A r, s \in jettonWallets : r.address = s.address => r = s

\* A hot wallet of the same master and currency was saved before any Jetton
\* deposit.
CurrencyInv ==
    \A r \in jettonWallets :
        \E s \in jettonWallets : /\ s.address = JettonAddress(DefaultId, r.address.master)
                                 /\ s.currency = r.currency

\* Requests are served only when the hot wallets are there, under the configured
\* currencies.
ServeInv ==
    /\ phase = "up" =>
          /\ tonWallets # {}
          /\ \A c \in DOMAIN jettons :
                \E s \in jettonWallets : /\ s.address = JettonAddress(DefaultId, jettons[c])
                                         /\ s.currency = c
    /\ phase # "up" => \A h \in Handlers : hs[h].pc = "idle"
    /\ phase = "down" => DOMAIN book = {}

\* One handler at a time is between Lock and Return.
LockInv == \A h \in Handlers : hs[h].pc \in Critical => mutex = h

OwnerRow(h) == TonRow(hs[h].id, "jettonOwner", hs[h].user, ProxyAddress(hs[h].id))
WalletRow(h) ==
    IF hs[h].currency = Ton THEN TonRow(hs[h].id, "tonDeposit", hs[h].user, TonAddress(hs[h].id))
    ELSE JettonRow(hs[h].id, hs[h].currency, "jettonDeposit", hs[h].user,
                   Account(hs[h].currency, hs[h].id))

\* The rows of the address that h generated are in the tables.
Stored(h) ==
    IF hs[h].currency = Ton THEN WalletRow(h) \in tonWallets
    ELSE OwnerRow(h) \in tonWallets /\ WalletRow(h) \in jettonWallets

OwnerInBook(h) == hs[h].currency # Ton => ProxyAddress(hs[h].id) \in DOMAIN book

HandlerOK(h) ==
    /\ hs[h].pc \in Critical \cup {"lock"} =>
          hs[h].user \in Users /\ hs[h].currency \in {Ton} \cup DOMAIN jettons
    /\ hs[h].pc = "save" => hs[h].id \in Nat /\ hs[h].id < MaxUint32
    /\ hs[h].pc \in {"putOwner", "putWallet", "reply"} => Stored(h)
    /\ hs[h].pc = "putOwner" => hs[h].currency # Ton
    /\ hs[h].pc = "putWallet" => OwnerInBook(h)
    /\ hs[h].pc = "reply" => Account(hs[h].currency, hs[h].id) \in DOMAIN book

HandlerInv == \A h \in Handlers : HandlerOK(h)

FromTon(a, r) == r.address = a /\ book[a] = Info(r.type, None, r.user)
FromJetton(a, r, s) ==
    /\ r.address = a /\ s.id = r.id /\ book[a] = Info(r.type, s.address, r.user)
    /\ r.type = "jettonDeposit" => s.address \in DOMAIN book

\* An entry of the book comes from one row, or from a Jetton wallet and its owner.
BookInv ==
    \A a \in DOMAIN book :
        \/ \E r \in tonWallets : FromTon(a, r)
        \/ \E r \in jettonWallets : \E s \in tonWallets : FromJetton(a, r, s)

\* What was handed out is in the tables for good, and in the book of every
\* process.
HandedInv ==
    \A d \in handed :
        /\ \E r \in tonWallets \cup jettonWallets :
              /\ r.type \in {"tonDeposit", "jettonDeposit"}
              /\ r.address = d.account /\ r.user = d.user
        /\ phase # "down" => d.account \in DOMAIN book

PaidInv == \A p \in unscanned : p.deposit \in handed

IInv ==
    /\ TypeInv /\ TonInv /\ JettonInv /\ CurrencyInv /\ ServeInv /\ LockInv /\ NoConflict
    /\ HandlerInv /\ BookInv /\ HandedInv /\ PaidInv /\ NewAddressesCredited
    /\ UniqueRequests

-----------------------------------------------------------------------------
(* Rows, addresses and the book *)

LEMMA RowFields ==
    /\ \A i, t, u, a : /\ TonRow(i, t, u, a).id = i /\ TonRow(i, t, u, a).type = t
                       /\ TonRow(i, t, u, a).user = u /\ TonRow(i, t, u, a).address = a
    /\ \A i, c, t, u, a :
          /\ JettonRow(i, c, t, u, a).id = i /\ JettonRow(i, c, t, u, a).currency = c
          /\ JettonRow(i, c, t, u, a).type = t /\ JettonRow(i, c, t, u, a).user = u
          /\ JettonRow(i, c, t, u, a).address = a
BY DEF TonRow, JettonRow

LEMMA AddressFields ==
    /\ \A i : /\ TonAddress(i).kind = "ton" /\ TonAddress(i).id = i
              /\ ProxyAddress(i).kind = "proxy" /\ ProxyAddress(i).id = i
    /\ \A i, m : /\ JettonAddress(i, m).kind = "jetton" /\ JettonAddress(i, m).id = i
                 /\ JettonAddress(i, m).master = m
    /\ HotAddress.kind = "hot" /\ HotAddress.id = DefaultId
BY DEF TonAddress, ProxyAddress, JettonAddress, HotAddress

LEMMA InfoFields ==
    \A t, o, u : Info(t, o, u).type = t /\ Info(t, o, u).owner = o /\ Info(t, o, u).user = u
BY DEF Info

\* A proxy is an owner, None is not.
LEMMA ProxyIsSomebody == \A i : ProxyAddress(i) # None
<1> SUFFICES ASSUME NEW i, ProxyAddress(i) = None PROVE FALSE OBVIOUS
<1>1. "kind" \in DOMAIN ProxyAddress(i) BY DEF ProxyAddress
<1>2. "kind" \notin DOMAIN None BY DEF None
<1> QED BY <1>1, <1>2

\* An address is in one row only, of one table.
LEMMA OneRowPerAddress ==
    ASSUME TonInv, JettonInv
    PROVE  /\ \A r, s \in tonWallets : r.address = s.address => r = s
           /\ \A r \in tonWallets : \A s \in jettonWallets : r.address # s.address
<1>1. \A r \in tonWallets : r.address.id = r.id /\ r.address.kind # "jetton"
  BY AddressFields DEF TonInv, TonRowOK
<1>2. \A s \in jettonWallets : s.address.kind = "jetton"
  BY AddressFields DEF JettonInv, JettonRowOK
<1> QED BY <1>1, <1>2 DEF TonInv

\* LoadAddressBook reads each row, and joins the owner of a Jetton wallet.
LEMMA LoadedFacts ==
    ASSUME TonInv, JettonInv
    PROVE  /\ DOMAIN Loaded = {r.address : r \in tonWallets \cup jettonWallets}
           /\ \A r \in tonWallets : Loaded[r.address] = Info(r.type, None, r.user)
           /\ \A r \in jettonWallets : \A s \in tonWallets :
                 s.id = r.id => Loaded[r.address] = Info(r.type, s.address, r.user)
<1>1. DOMAIN Loaded = {r.address : r \in tonWallets \cup jettonWallets} BY DEF Loaded
<1>2. ASSUME NEW r \in tonWallets PROVE Loaded[r.address] = Info(r.type, None, r.user)
  <2>1. ~\E s \in jettonWallets : s.address = r.address BY OneRowPerAddress
  <2>2. (CHOOSE s \in tonWallets : s.address = r.address) = r BY OneRowPerAddress
  <2>3. r.address \in {x.address : x \in tonWallets \cup jettonWallets} OBVIOUS
  <2> QED BY <2>1, <2>2, <2>3 DEF Loaded
<1>3. ASSUME NEW r \in jettonWallets, NEW s \in tonWallets, s.id = r.id
      PROVE  Loaded[r.address] = Info(r.type, s.address, r.user)
  <2>2. (CHOOSE x \in jettonWallets : x.address = r.address) = r BY DEF JettonInv
  <2>3. (CHOOSE x \in tonWallets : x.id = r.id) = s BY <1>3 DEF TonInv
  <2>4. r.address \in {x.address : x \in tonWallets \cup jettonWallets} OBVIOUS
  <2> QED BY <2>2, <2>3, <2>4 DEF Loaded
<1> QED BY <1>1, <1>2, <1>3

-----------------------------------------------------------------------------
(* What a step that only adds rows and entries leaves true *)

Grows ==
    /\ tonWallets \subseteq tonWallets' /\ jettonWallets \subseteq jettonWallets'
    /\ DOMAIN book \subseteq DOMAIN book'

LEMMA HandlerFrame ==
    ASSUME NEW g \in Handlers, HandlerOK(g), hs'[g] = hs[g], jettons' = jettons, Grows
    PROVE  HandlerOK(g)'
<1>1. Account(hs[g].currency, hs[g].id)' = Account(hs[g].currency, hs[g].id) BY DEF Account
<1>2. OwnerRow(g)' = OwnerRow(g) BY DEF OwnerRow
<1>3. WalletRow(g)' = WalletRow(g) BY <1>1 DEF WalletRow
<1>4. Stored(g) => Stored(g)' BY <1>2, <1>3 DEF Stored, Grows
<1>5. OwnerInBook(g) => OwnerInBook(g)' BY DEF OwnerInBook, Grows
<1> QED BY <1>1, <1>4, <1>5 DEF HandlerOK, Grows

LEMMA BookFrame ==
    ASSUME BookInv, book' = book, Grows
    PROVE  BookInv'
<1> SUFFICES ASSUME NEW a \in DOMAIN book
             PROVE  (\/ \E r \in tonWallets : FromTon(a, r)
                     \/ \E r \in jettonWallets : \E s \in tonWallets : FromJetton(a, r, s))'
  BY DEF BookInv
<1>1. \A r : FromTon(a, r) => FromTon(a, r)' BY DEF FromTon
<1>2. \A r, s : FromJetton(a, r, s) => FromJetton(a, r, s)' BY DEF FromJetton
<1> QED BY <1>1, <1>2 DEF BookInv, Grows

LEMMA HandedFrame ==
    ASSUME HandedInv, handed' = handed, Grows, phase' # "down" => phase # "down"
    PROVE  HandedInv'
BY DEF HandedInv, Grows

LEMMA SameTables ==
    ASSUME TonInv, JettonInv, CurrencyInv, UNCHANGED <<tonWallets, jettonWallets>>
    PROVE  TonInv' /\ JettonInv' /\ CurrencyInv'
<1>1. TonInv' BY DEF TonInv, TonRowOK
<1>2. JettonInv' BY DEF JettonInv, JettonRowOK
<1>3. CurrencyInv' BY DEF CurrencyInv
<1> QED BY <1>1, <1>2, <1>3

\* The actions of a handler that touch neither the tables nor the book.
LEMMA HandlerStep ==
    ASSUME IInv, NEW h \in Handlers, phase = "up",
           UNCHANGED <<tonWallets, jettonWallets, requests, procVars, scanVars>>,
           handed \subseteq handed', hs' \in [Handlers -> HandlerStates],
           \A g \in Handlers : g # h => hs'[g] = hs[g]
    PROVE  /\ TypeInv' /\ TonInv' /\ JettonInv' /\ CurrencyInv' /\ ServeInv' /\ BookInv'
           /\ PaidInv' /\ NewAddressesCredited' /\ UniqueRequests'
           /\ \A g \in Handlers : g # h => HandlerOK(g)'
<1> USE DEF IInv, procVars, scanVars
<1>0. Grows BY DEF Grows
<1>1. TypeInv' BY DEF TypeInv
<1>2. TonInv' /\ JettonInv' /\ CurrencyInv' BY SameTables
<1>3. ServeInv' BY DEF ServeInv
<1>4. BookInv' BY <1>0, BookFrame
<1>5. PaidInv' BY DEF PaidInv
<1>6. NewAddressesCredited' BY DEF NewAddressesCredited
<1>7. UniqueRequests' BY DEF UniqueRequests
<1>8. \A g \in Handlers : g # h => HandlerOK(g)' BY <1>0, HandlerFrame DEF HandlerInv
<1> QED BY <1>1, <1>2, <1>3, <1>4, <1>5, <1>6, <1>7, <1>8

LEMMA GotoFacts ==
    ASSUME TypeInv, NEW h \in Handlers, NEW q \in Pcs, Goto(h, q)
    PROVE  /\ hs' \in [Handlers -> HandlerStates]
           /\ \A g \in Handlers : g # h => hs'[g] = hs[g]
           /\ hs'[h].pc = q /\ hs'[h].user = hs[h].user /\ hs'[h].currency = hs[h].currency
           /\ hs'[h].id = hs[h].id
BY DEF Goto, TypeInv, HandlerStates

LEMMA IdleState == Idle \in HandlerStates /\ Idle.pc = "idle"
BY ConstantsAssumption DEF Idle, HandlerStates, Pcs, Currencies

LEMMA ReturnFacts ==
    ASSUME TypeInv, NEW h \in Handlers, Return(h)
    PROVE  /\ hs' \in [Handlers -> HandlerStates]
           /\ \A g \in Handlers : g # h => hs'[g] = hs[g]
           /\ hs'[h].pc = "idle"
BY IdleState DEF Return, TypeInv

\* A handler that is not in the critical section has nothing to show for.
LEMMA IdleOK ==
    ASSUME NEW h \in Handlers, hs'[h].pc \in {"idle", "insert"}
    PROVE  HandlerOK(h)'
BY DEF HandlerOK, Critical

-----------------------------------------------------------------------------
(* Requests *)

LEMMA ConfiguredCurrencies == TypeInv => {Ton} \cup DOMAIN jettons \subseteq Currencies
<1> SUFFICES ASSUME TypeInv, NEW c \in DOMAIN jettons PROVE c \in Currencies
  BY DEF Currencies
<1>1. DOMAIN << >> = {} OBVIOUS
<1>2. jettons \in Configs BY <1>1 DEF TypeInv
<1> QED BY <1>2 DEF Currencies

LEMMA NewAddressStep ==
    ASSUME IInv, NEW h \in Handlers, NEW user \in Users,
           NEW c \in {Ton} \cup DOMAIN jettons, NewAddress(h, user, c)
    PROVE  IInv'
<1> USE DEF IInv
<1>1. /\ phase = "up"
      /\ UNCHANGED <<tonWallets, jettonWallets, requests, procVars, scanVars, handed, mutex>>
      /\ hs' = [hs EXCEPT ![h] = [pc |-> "lock", user |-> user, currency |-> c, id |-> DefaultId]]
  BY DEF NewAddress, At, dbVars
<1>2. /\ hs' \in [Handlers -> HandlerStates]
      /\ \A g \in Handlers : g # h => hs'[g] = hs[g]
      /\ hs'[h].pc = "lock" /\ hs'[h].user = user /\ hs'[h].currency = c
  BY <1>1, ConfiguredCurrencies, ConstantsAssumption DEF TypeInv, HandlerStates, Pcs
<1>3. HandlerOK(h)' BY <1>1, <1>2 DEF HandlerOK, Critical, procVars
<1>4. HandlerInv' BY <1>1, <1>2, <1>3, HandlerStep DEF HandlerInv
<1>5. LockInv' BY <1>1, <1>2 DEF LockInv, Critical
<1>6. NoConflict' BY <1>1, <1>2 DEF NoConflict, Ids
<1>7. HandedInv' BY <1>1, HandedFrame DEF Grows, procVars
<1> QED BY <1>1, <1>2, <1>4, <1>5, <1>6, <1>7, HandlerStep

LEMMA LockStep ==
    ASSUME IInv, NEW h \in Handlers, Lock(h)
    PROVE  IInv'
<1> USE DEF IInv
<1>1. /\ phase = "up" /\ hs[h].pc = "lock" /\ mutex = Free /\ mutex' = h /\ Goto(h, "generate")
      /\ UNCHANGED <<tonWallets, jettonWallets, requests, procVars, scanVars, handed>>
  BY DEF Lock, At, dbVars
<1>2. "generate" \in Pcs BY DEF Pcs, Critical
<1>3. /\ hs' \in [Handlers -> HandlerStates]
      /\ \A g \in Handlers : g # h => hs'[g] = hs[g]
      /\ hs'[h].pc = "generate" /\ hs'[h].user = hs[h].user
      /\ hs'[h].currency = hs[h].currency
  BY <1>1, <1>2, GotoFacts
<1>4. HandlerOK(h)'
  <2>1. hs[h].user \in Users /\ hs[h].currency \in {Ton} \cup DOMAIN jettons
    BY <1>1 DEF HandlerInv, HandlerOK
  <2> QED BY <1>1, <1>3, <2>1 DEF HandlerOK, procVars
<1>5. HandlerInv' BY <1>1, <1>3, <1>4, HandlerStep DEF HandlerInv
<1>6. LockInv'
  <2>1. \A g \in Handlers : hs[g].pc \notin Critical
    BY <1>1, ConstantsAssumption DEF LockInv
  <2> QED BY <1>1, <1>3, <2>1 DEF LockInv
<1>7. NoConflict' BY <1>1, <1>3 DEF NoConflict, Ids
<1>8. HandedInv' BY <1>1, HandedFrame DEF Grows, procVars
<1> QED BY <1>1, <1>3, <1>5, <1>6, <1>7, <1>8, HandlerStep

LEMMA ModBelow == \A a, b \in Nat : a < b => a % b = a
OBVIOUS

LEMMA MinExists ==
    ASSUME NEW S \in SUBSET Nat, S # {}
    PROVE  Min(S) \in S
<1>1. \E n \in S : \A m \in S : n <= m BY LeastNatural
<1> QED BY <1>1 DEF Min

\* A generated number is greater than those in the table: the successor of the
\* last number does not wrap around.
LEMMA CandidatesAreNew ==
    ASSUME TypeInv, TonInv, NEW c, NEW i \in Candidates(c)
    PROVE  i \in Nat /\ i < MaxUint32 /\ i \notin Ids
<1> DEFINE S == {DefaultId} \cup Ids
<1>1. /\ MaxUint32 \in Nat /\ DefaultId \in Nat /\ DefaultId < MaxUint32
  BY ConstantsAssumption
<1>2. Ids \subseteq 0..(MaxUint32 - 1) BY <1>1 DEF Ids, TonInv, TonRowOK
<1>3. IsFiniteSet(S)
  <2>1. IsFiniteSet(0..(MaxUint32 - 1)) BY <1>1, FS_Interval
  <2>2. S \subseteq 0..(MaxUint32 - 1) BY <1>1, <1>2
  <2> QED BY <2>1, <2>2, FS_Subset
<1>4. S \in SUBSET Int /\ S # {} BY <1>1, <1>2
<1>5. GetLastSubwalletID \in S /\ \A x \in S : x <= GetLastSubwalletID
  <2> HIDE DEF S
  <2>1. Max(S) \in S /\ \A x \in S : x <= Max(S) BY <1>3, <1>4, MaxExists
  <2> QED BY <2>1 DEF S, GetLastSubwalletID
<1>6. GetLastSubwalletID \in 0..(MaxUint32 - 1) BY <1>1, <1>2, <1>5
<1>7. (GetLastSubwalletID + 1) % (MaxUint32 + 1) = GetLastSubwalletID + 1
  BY <1>1, <1>6, ModBelow
<1>8. i \in (GetLastSubwalletID + 1)..(MaxUint32 - 1) BY <1>7 DEF Candidates
<1> QED BY <1>1, <1>5, <1>6, <1>8

LEMMA GenerateFailsStep ==
    ASSUME IInv, NEW h \in Handlers, GenerateFails(h)
    PROVE  IInv'
<1> USE DEF IInv
<1>1. /\ phase = "up" /\ hs[h].pc = "generate" /\ Return(h)
      /\ UNCHANGED <<tonWallets, jettonWallets, requests, procVars, scanVars, handed>>
  BY DEF GenerateFails, At, dbVars
<1>2. /\ hs' \in [Handlers -> HandlerStates]
      /\ \A g \in Handlers : g # h => hs'[g] = hs[g]
      /\ hs'[h].pc = "idle"
  BY <1>1, ReturnFacts
<1>3. HandlerInv' BY <1>1, <1>2, IdleOK, HandlerStep DEF HandlerInv
<1>4. LockInv'
  <2>1. \A g \in Handlers : g # h => hs[g].pc \notin Critical
    BY <1>1 DEF LockInv, Critical
  <2> QED BY <1>2, <2>1 DEF LockInv, Critical
<1>5. NoConflict' BY <1>1, <1>2 DEF NoConflict, Ids
<1>6. HandedInv' BY <1>1, HandedFrame DEF Grows, procVars
<1> QED BY <1>1, <1>2, <1>3, <1>4, <1>5, <1>6, HandlerStep

LEMMA GenerateStep ==
    ASSUME IInv, NEW h \in Handlers, Generate(h)
    PROVE  IInv'
<1> USE DEF IInv
<1>1. PICK i : i = Min(Candidates(hs[h].currency)) OBVIOUS
<1>2. /\ phase = "up" /\ hs[h].pc = "generate" /\ Candidates(hs[h].currency) # {}
      /\ UNCHANGED <<tonWallets, jettonWallets, requests, procVars, scanVars, handed, mutex>>
      /\ hs' = [hs EXCEPT ![h].pc = "save", ![h].id = i]
  BY <1>1 DEF Generate, At, dbVars
<1>3. i \in Nat /\ i < MaxUint32 /\ i \notin Ids
  <2>1. Candidates(hs[h].currency) \in SUBSET Nat BY CandidatesAreNew
  <2>2. i \in Candidates(hs[h].currency) BY <1>1, <1>2, <2>1, MinExists
  <2> QED BY <2>2, CandidatesAreNew
<1>4. /\ hs' \in [Handlers -> HandlerStates]
      /\ \A g \in Handlers : g # h => hs'[g] = hs[g]
      /\ hs'[h].pc = "save" /\ hs'[h].user = hs[h].user /\ hs'[h].id = i
      /\ hs'[h].currency = hs[h].currency
  <2>1. "save" \in Pcs BY DEF Pcs, Critical
  <2> QED BY <1>2, <1>3, <2>1 DEF TypeInv, HandlerStates
<1>5. HandlerOK(h)'
  <2>1. hs[h].user \in Users /\ hs[h].currency \in {Ton} \cup DOMAIN jettons
    BY <1>2 DEF HandlerInv, HandlerOK, Critical
  <2> QED BY <1>2, <1>3, <1>4, <2>1 DEF HandlerOK, procVars
<1>6. HandlerInv' BY <1>2, <1>4, <1>5, HandlerStep DEF HandlerInv
<1>7. LockInv' BY <1>2, <1>4 DEF LockInv, Critical
<1>8. NoConflict' BY <1>2, <1>3, <1>4 DEF NoConflict, Ids
<1>9. HandedInv' BY <1>2, HandedFrame DEF Grows, procVars
<1> QED BY <1>2, <1>4, <1>6, <1>7, <1>8, <1>9, HandlerStep

LEMMA SendWithdrawalStep ==
    ASSUME IInv, NEW h \in Handlers, NEW w \in Withdrawals, SendWithdrawal(h, w[1], w[2])
    PROVE  IInv'
<1> USE DEF IInv
<1>1. PICK u, q : u = w[1] /\ q = w[2] OBVIOUS
<1>2. u \in Users /\ q \in Queries BY <1>1, ConstantsAssumption DEF Queries
<1>3. /\ phase = "up" 
      /\ UNCHANGED <<tonWallets, jettonWallets, requests, procVars, scanVars, handed, mutex>>
      /\ hs' = [hs EXCEPT ![h] = [Idle EXCEPT !.pc = "insert", !.user = u, !.id = q]]
  BY <1>1 DEF SendWithdrawal, At, dbVars
<1>4. /\ hs' \in [Handlers -> HandlerStates]
      /\ \A g \in Handlers : g # h => hs'[g] = hs[g]
      /\ hs'[h].pc = "insert"
  <2>1. "insert" \in Pcs BY DEF Pcs
  <2> QED BY <1>2, <1>3, <2>1, IdleState DEF TypeInv, HandlerStates
<1>5. HandlerInv' BY <1>3, <1>4, IdleOK, HandlerStep DEF HandlerInv
<1>6. LockInv' BY <1>3, <1>4 DEF LockInv, Critical
<1>7. NoConflict' BY <1>3, <1>4 DEF NoConflict, Ids
<1>8. HandedInv' BY <1>3, HandedFrame DEF Grows, procVars
<1> QED BY <1>3, <1>4, <1>5, <1>6, <1>7, <1>8, HandlerStep

\* The index lets one row in.
LEMMA SaveWithdrawalRequestStep ==
    ASSUME IInv, NEW h \in Handlers, SaveWithdrawalRequest(h)
    PROVE  IInv'
<1> USE DEF IInv
<1>1. /\ phase = "up" /\ hs[h].pc = "insert" /\ Return(h)
      /\ UNCHANGED <<tonWallets, jettonWallets, procVars, scanVars, handed, mutex>>
  BY DEF SaveWithdrawalRequest, At
<1>2. /\ hs' \in [Handlers -> HandlerStates]
      /\ \A g \in Handlers : g # h => hs'[g] = hs[g]
      /\ hs'[h].pc = "idle"
  BY <1>1, ReturnFacts
<1>3. requests' \in [Withdrawals -> Nat] /\ UniqueRequests'
  <2>1. PICK w : w = <<hs[h].user, hs[h].id>> OBVIOUS
  <2>2. \/ ~(requests[w] > 0) /\ requests' = [requests EXCEPT ![w] = @ + 1]
        \/ requests' = requests
    BY <2>1 DEF SaveWithdrawalRequest, InsertConflict
  <2> QED BY <2>2 DEF TypeInv, UniqueRequests
<1>4. Grows BY <1>1 DEF Grows, procVars
<1>5. TypeInv' BY <1>1, <1>2, <1>3 DEF TypeInv, procVars
<1>6. TonInv' /\ JettonInv' /\ CurrencyInv' BY <1>1, SameTables
<1>7. ServeInv' BY <1>1, <1>2 DEF ServeInv, procVars
<1>8. LockInv' BY <1>1, <1>2 DEF LockInv, Critical
<1>9. NoConflict' BY <1>1, <1>2 DEF NoConflict, Ids
<1>10. HandlerInv'
  <2>1. \A g \in Handlers : g # h => HandlerOK(g)'
    BY <1>1, <1>2, <1>4, HandlerFrame DEF HandlerInv, procVars
  <2> QED BY <1>2, <2>1, IdleOK DEF HandlerInv
<1>11. BookInv' BY <1>1, <1>4, BookFrame DEF procVars
<1>12. HandedInv' BY <1>1, <1>4, HandedFrame DEF procVars
<1>13. PaidInv' /\ NewAddressesCredited' BY <1>1 DEF PaidInv, NewAddressesCredited, scanVars
<1> QED BY <1>3, <1>5, <1>6, <1>7, <1>8, <1>9, <1>10, <1>11, <1>12, <1>13

\* What a client is told is in the tables and in the book.
LEMMA ReplyStep ==
    ASSUME IInv, NEW h \in Handlers, Reply(h)
    PROVE  IInv'
<1> USE DEF IInv
<1>1. PICK a, u : a = Account(hs[h].currency, hs[h].id) /\ u = hs[h].user OBVIOUS
<1>2. /\ phase = "up" /\ hs[h].pc = "reply" /\ Return(h)
      /\ handed' = handed \cup {Deposit(a, u)}
      /\ UNCHANGED <<tonWallets, jettonWallets, requests, procVars, scanVars>>
  BY <1>1 DEF Reply, At, dbVars
<1>3. /\ hs' \in [Handlers -> HandlerStates]
      /\ \A g \in Handlers : g # h => hs'[g] = hs[g]
      /\ hs'[h].pc = "idle"
  BY <1>2, ReturnFacts
<1>4. HandlerInv' BY <1>2, <1>3, IdleOK, HandlerStep DEF HandlerInv
<1>5. LockInv'
  <2>1. \A g \in Handlers : g # h => hs[g].pc \notin Critical
    BY <1>2 DEF LockInv, Critical
  <2> QED BY <1>3, <2>1 DEF LockInv, Critical
<1>6. NoConflict' BY <1>2, <1>3 DEF NoConflict, Ids
<1>7. HandedInv'
  <2>1. Deposit(a, u).account = a /\ Deposit(a, u).user = u BY DEF Deposit
  <2>2. Stored(h) /\ a \in DOMAIN book BY <1>1, <1>2 DEF HandlerInv, HandlerOK
  <2>3. \E r \in tonWallets \cup jettonWallets :
           r.type \in {"tonDeposit", "jettonDeposit"} /\ r.address = a /\ r.user = u
    <3>1. WalletRow(h) \in tonWallets \cup jettonWallets BY <2>2 DEF Stored
    <3>2. /\ WalletRow(h).type \in {"tonDeposit", "jettonDeposit"}
          /\ WalletRow(h).address = a /\ WalletRow(h).user = u
      BY <1>1, RowFields DEF WalletRow, Account
    <3> QED BY <3>1, <3>2
  <2> QED BY <1>2, <2>1, <2>2, <2>3 DEF HandedInv, procVars
<1> QED BY <1>2, <1>3, <1>4, <1>5, <1>6, <1>7, HandlerStep

-----------------------------------------------------------------------------
(* Steps that write the tables *)

LEMMA JettonRowFrame ==
    ASSUME tonWallets \subseteq tonWallets', NEW r, JettonRowOK(r)
    PROVE  JettonRowOK(r)'
BY DEF JettonRowOK

\* A row with a new number.
LEMMA TonRowAdded ==
    ASSUME TonInv, NEW r0, tonWallets' = tonWallets \cup {r0}, TonRowOK(r0), r0.id \notin Ids,
           r0.type = "tonHot" \/ tonWallets # {}
    PROVE  TonInv'
<1>1. \A r \in tonWallets' : TonRowOK(r)' BY DEF TonInv, TonRowOK
<1>2. \A r, s \in tonWallets' : r.id = s.id => r = s BY DEF TonInv, Ids
<1>3. \E r \in tonWallets' : r.type = "tonHot" BY DEF TonInv
<1> QED BY <1>1, <1>2, <1>3 DEF TonInv

LEMMA JettonRowAdded ==
    ASSUME JettonInv, CurrencyInv, tonWallets \subseteq tonWallets',
           NEW r0, jettonWallets' = jettonWallets \cup {r0}, JettonRowOK(r0)',
           \A r \in jettonWallets : r.address # r0.address,
           \E s \in jettonWallets' : /\ s.address = JettonAddress(DefaultId, r0.address.master)
                                     /\ s.currency = r0.currency
    PROVE  JettonInv' /\ CurrencyInv'
<1>1. \A r \in jettonWallets' : JettonRowOK(r)' BY JettonRowFrame DEF JettonInv
<1>2. \A r, s \in jettonWallets' : r.address = s.address => r = s BY DEF JettonInv
<1>3. JettonInv' BY <1>1, <1>2 DEF JettonInv
<1>4. CurrencyInv' BY DEF CurrencyInv
<1> QED BY <1>3, <1>4

\* A Jetton wallet belongs to a saved number.
LEMMA JettonIds ==
    ASSUME JettonInv, NEW r \in jettonWallets
    PROVE  r.id \in Ids /\ r.address.id = r.id
<1>1. JettonRowOK(r) BY DEF JettonInv
<1>2. PICK s \in tonWallets : IsOwner(s, r) BY <1>1 DEF JettonRowOK
<1>3. r.address.id = r.id BY <1>1, AddressFields DEF JettonRowOK
<1> QED BY <1>2, <1>3 DEF IsOwner, Ids

\* SaveTonWallet and SaveJettonWallet write rows that fit the others.
LEMMA InsertFacts ==
    ASSUME IInv, NEW h \in Handlers, phase = "up", hs[h].pc = "save", ~Conflict(h), Insert(h)
    PROVE  /\ TonInv' /\ JettonInv' /\ CurrencyInv' /\ IsFiniteSet(tonWallets')
           /\ tonWallets \subseteq tonWallets' /\ jettonWallets \subseteq jettonWallets'
           /\ IF hs[h].currency = Ton THEN WalletRow(h) \in tonWallets'
              ELSE OwnerRow(h) \in tonWallets' /\ WalletRow(h) \in jettonWallets'
<1> USE DEF IInv
<1>1. PICK i, u, c : i = hs[h].id /\ u = hs[h].user /\ c = hs[h].currency OBVIOUS
<1>2. /\ i \in Nat /\ i < MaxUint32 /\ i \notin Ids /\ u \in Users
      /\ c \in {Ton} \cup DOMAIN jettons
  BY <1>1 DEF HandlerInv, HandlerOK, Critical, Conflict
<1>3. tonWallets # {} BY DEF ServeInv
<1>4. ASSUME NEW r, tonWallets' = tonWallets \cup {r}, TonRowOK(r), r.id = i
      PROVE  TonInv' /\ IsFiniteSet(tonWallets')
  <2>1. TonInv' BY <1>2, <1>3, <1>4, TonRowAdded
  <2>2. IsFiniteSet(tonWallets') BY <1>4, FS_AddElement DEF TypeInv
  <2> QED BY <2>1, <2>2
<1>5. CASE c = Ton
  <2> DEFINE r == TonRow(i, "tonDeposit", u, TonAddress(i))
  <2>1. tonWallets' = tonWallets \cup {r} /\ jettonWallets' = jettonWallets
    BY <1>1, <1>5 DEF Insert
  <2>2. TonRowOK(r) /\ r.id = i BY <1>2, RowFields DEF TonRowOK
  <2>3. WalletRow(h) = r BY <1>1, <1>5 DEF WalletRow
  <2>4. TonInv' /\ IsFiniteSet(tonWallets') BY <1>4, <2>1, <2>2
  <2>5. JettonInv' BY <2>1, JettonRowFrame DEF JettonInv
  <2>6. CurrencyInv' BY <2>1 DEF CurrencyInv
  <2> QED BY <1>1, <1>5, <2>1, <2>3, <2>4, <2>5, <2>6
<1>6. CASE c # Ton
  <2>0. PICK m : m = jettons[c] OBVIOUS
  <2> DEFINE o == TonRow(i, "jettonOwner", u, ProxyAddress(i))
             a == JettonAddress(i, m)
             r == JettonRow(i, c, "jettonDeposit", u, a)
  <2>1. tonWallets' = tonWallets \cup {o} /\ jettonWallets' = jettonWallets \cup {r}
    BY <1>1, <1>6, <2>0 DEF Insert, Account
  <2>2. TonRowOK(o) /\ o.id = i BY <1>2, RowFields DEF TonRowOK
  <2>3. OwnerRow(h) = o /\ WalletRow(h) = r BY <1>1, <1>6, <2>0 DEF OwnerRow, WalletRow, Account
  <2>4. TonInv' /\ IsFiniteSet(tonWallets') BY <1>4, <2>1, <2>2
  <2>5. r.address = a /\ a.master = m /\ a.id = i /\ r.currency = c /\ r.id = i
    BY RowFields, AddressFields
  <2>6. JettonRowOK(r)'
    <3>1. IsOwner(o, r) BY RowFields DEF IsOwner
    <3>2. \E s \in tonWallets' : IsOwner(s, r) BY <2>1, <3>1
    <3>3. r.type = "jettonDeposit" /\ r.user = u BY RowFields
    <3>4. r.address = JettonAddress(r.id, r.address.master) BY <2>5
    <3> HIDE DEF r
    <3> QED BY <1>2, <3>2, <3>3, <3>4 DEF JettonRowOK
  <2>7. \A x \in jettonWallets : x.address # r.address BY <1>2, <2>5, JettonIds
  <2>8. PICK s \in jettonWallets : s.address = JettonAddress(DefaultId, m) /\ s.currency = c
    BY <1>2, <1>6, <2>0 DEF ServeInv
  <2>9. JettonInv' /\ CurrencyInv'
    <3> HIDE DEF r
    <3> QED BY <2>1, <2>5, <2>6, <2>7, <2>8, JettonRowAdded
  <2> QED BY <1>1, <1>6, <2>1, <2>3, <2>4, <2>9
<1> QED BY <1>5, <1>6

\* The handler's rows are in the tables: the rest of a step of Save or SaveFails.
LEMMA SaveFrame ==
    ASSUME IInv, NEW h \in Handlers, phase = "up", hs[h].pc = "save",
           UNCHANGED <<requests, procVars, handed, scanVars>>,
           TonInv' /\ JettonInv' /\ CurrencyInv' /\ IsFiniteSet(tonWallets'),
           tonWallets \subseteq tonWallets' /\ jettonWallets \subseteq jettonWallets',
           hs' \in [Handlers -> HandlerStates],
           \A g \in Handlers : g # h => hs'[g] = hs[g],
           HandlerOK(h)', hs'[h].pc # "save", hs'[h].pc \in Critical => mutex' = h
    PROVE  IInv'
<1> USE DEF IInv
<1>1. Grows BY DEF Grows, procVars
<1>2. \A g \in Handlers : g # h => hs[g].pc \notin Critical BY DEF LockInv, Critical
<1>3. TypeInv' BY DEF TypeInv, procVars
<1>4. ServeInv' BY DEF ServeInv, procVars
<1>5. LockInv' BY <1>2 DEF LockInv
<1>6. NoConflict' BY <1>2 DEF NoConflict, Critical
<1>7. HandlerInv' BY <1>1, HandlerFrame DEF HandlerInv, procVars
<1>8. BookInv' BY <1>1, BookFrame DEF procVars
<1>9. HandedInv' BY <1>1, HandedFrame DEF procVars
<1>10. PaidInv' /\ NewAddressesCredited' /\ UniqueRequests'
  BY DEF PaidInv, NewAddressesCredited, UniqueRequests, scanVars
<1> QED BY <1>3, <1>4, <1>5, <1>6, <1>7, <1>8, <1>9, <1>10

LEMMA SaveStep ==
    ASSUME IInv, NEW h \in Handlers, Save(h)
    PROVE  IInv'
<1> USE DEF IInv
<1>1. PICK q : q = IF hs[h].currency = Ton THEN "putWallet" ELSE "putOwner" OBVIOUS
<1>2. /\ phase = "up" /\ hs[h].pc = "save" /\ ~Conflict(h) /\ Insert(h) /\ Goto(h, q)
      /\ UNCHANGED <<requests, procVars, mutex, handed, scanVars>>
  BY <1>1 DEF Save, At
<1>3. q \in Pcs BY <1>1 DEF Pcs, Critical
<1>4. /\ hs' \in [Handlers -> HandlerStates]
      /\ \A g \in Handlers : g # h => hs'[g] = hs[g]
      /\ hs'[h].pc = q /\ hs'[h].user = hs[h].user /\ hs'[h].currency = hs[h].currency
      /\ hs'[h].id = hs[h].id
  BY <1>2, <1>3, GotoFacts
<1>5. HandlerOK(h)'
  <2>1. hs[h].user \in Users /\ hs[h].currency \in {Ton} \cup DOMAIN jettons
    BY <1>2 DEF HandlerInv, HandlerOK, Critical
  <2>2. WalletRow(h)' = WalletRow(h) /\ OwnerRow(h)' = OwnerRow(h)
    BY <1>2, <1>4 DEF WalletRow, OwnerRow, Account, procVars
  <2>3. Stored(h)' BY <1>2, <1>4, <2>2, InsertFacts DEF Stored
  <2>4. OwnerInBook(h)' \/ q = "putOwner" BY <1>1, <1>4 DEF OwnerInBook
  <2> QED BY <1>1, <1>2, <1>4, <2>1, <2>3, <2>4 DEF HandlerOK, procVars
<1>6. mutex' = h BY <1>2 DEF LockInv, Critical
<1> QED BY <1>1, <1>2, <1>4, <1>5, <1>6, InsertFacts, SaveFrame

\* A failed call leaves both rows or none.
LEMMA SaveFailsStep ==
    ASSUME IInv, NEW h \in Handlers, SaveFails(h)
    PROVE  IInv'
<1> USE DEF IInv
<1>1. /\ phase = "up" /\ hs[h].pc = "save" /\ Return(h)
      /\ UNCHANGED <<requests, procVars, handed, scanVars>>
      /\ UNCHANGED <<tonWallets, jettonWallets>> \/ (~Conflict(h) /\ Insert(h))
  BY DEF SaveFails, At
<1>2. /\ hs' \in [Handlers -> HandlerStates]
      /\ \A g \in Handlers : g # h => hs'[g] = hs[g]
      /\ hs'[h].pc = "idle"
  BY <1>1, ReturnFacts
<1>3. /\ TonInv' /\ JettonInv' /\ CurrencyInv' /\ IsFiniteSet(tonWallets')
      /\ tonWallets \subseteq tonWallets' /\ jettonWallets \subseteq jettonWallets'
  <2>1. CASE UNCHANGED <<tonWallets, jettonWallets>> BY <2>1, SameTables DEF TypeInv
  <2>2. CASE ~Conflict(h) /\ Insert(h) BY <1>1, <2>2, InsertFacts
  <2> QED BY <1>1, <2>1, <2>2
<1>4. HandlerOK(h)' BY <1>2, IdleOK
<1>5. hs'[h].pc \notin Critical BY <1>2 DEF Critical
<1> QED BY <1>1, <1>2, <1>3, <1>4, <1>5, SaveFrame

-----------------------------------------------------------------------------
(* Steps that write the book *)

\* The entry says what the rows say.
Entry(a, i) ==
    \/ \E r \in tonWallets : r.address = a /\ i = Info(r.type, None, r.user)
    \/ \E r \in jettonWallets : \E s \in tonWallets :
          /\ r.address = a /\ s.id = r.id /\ i = Info(r.type, s.address, r.user)
          /\ r.type = "jettonDeposit" => s.address \in DOMAIN book

LEMMA BookPut ==
    ASSUME BookInv, tonWallets \subseteq tonWallets', jettonWallets \subseteq jettonWallets',
           NEW a, NEW i, book' = Put(book, a, i), Entry(a, i)'
    PROVE  BookInv' /\ DOMAIN book' = DOMAIN book \cup {a}
<1>1. /\ DOMAIN book' = DOMAIN book \cup {a} /\ book'[a] = i
      /\ \A x \in DOMAIN book : x # a => book'[x] = book[x]
  BY DEF Put
<1> SUFFICES ASSUME NEW x \in DOMAIN book'
             PROVE  (\/ \E r \in tonWallets : FromTon(x, r)
                     \/ \E r \in jettonWallets : \E s \in tonWallets : FromJetton(x, r, s))'
  BY <1>1 DEF BookInv
<1>2. CASE x = a
  <2>1. CASE \E r \in tonWallets' : r.address = a /\ i = Info(r.type, None, r.user)
    BY <1>1, <1>2, <2>1 DEF FromTon
  <2>2. CASE \E r \in jettonWallets' : \E s \in tonWallets' :
               /\ r.address = a /\ s.id = r.id /\ i = Info(r.type, s.address, r.user)
               /\ r.type = "jettonDeposit" => s.address \in DOMAIN book'
    BY <1>1, <1>2, <2>2 DEF FromJetton
  <2> QED BY <2>1, <2>2 DEF Entry
<1>3. CASE x # a
  <2>1. x \in DOMAIN book /\ book'[x] = book[x] BY <1>1, <1>3
  <2>2. \A r : FromTon(x, r) => FromTon(x, r)' BY <2>1 DEF FromTon
  <2>3. \A r, s : FromJetton(x, r, s) => FromJetton(x, r, s)' BY <1>1, <2>1 DEF FromJetton
  <2> QED BY <2>1, <2>2, <2>3 DEF BookInv
<1> QED BY <1>2, <1>3

LEMMA PutStep ==
    ASSUME IInv, NEW h \in Handlers, phase = "up", hs[h].pc \in {"putOwner", "putWallet"},
           UNCHANGED <<dbVars, phase, jettons, mutex, handed, scanVars>>,
           NEW q \in {"putWallet", "reply"}, Goto(h, q),
           NEW a, NEW i, book' = Put(book, a, i), Entry(a, i)',
           q = "putWallet" /\ hs[h].currency # Ton => a = ProxyAddress(hs[h].id),
           q = "reply" => a = Account(hs[h].currency, hs[h].id)
    PROVE  IInv'
<1> USE DEF IInv, dbVars
<1>1. BookInv' /\ DOMAIN book' = DOMAIN book \cup {a} BY BookPut
<1>2. Grows BY <1>1 DEF Grows
<1>3. q \in Pcs BY DEF Pcs, Critical
<1>4. /\ hs' \in [Handlers -> HandlerStates]
      /\ \A g \in Handlers : g # h => hs'[g] = hs[g]
      /\ hs'[h].pc = q /\ hs'[h].user = hs[h].user /\ hs'[h].currency = hs[h].currency
      /\ hs'[h].id = hs[h].id
  BY <1>3, GotoFacts
<1>5. TypeInv' BY <1>4 DEF TypeInv
<1>6. TonInv' /\ JettonInv' /\ CurrencyInv' BY SameTables
<1>7. ServeInv' BY DEF ServeInv
<1>8. LockInv' BY <1>4 DEF LockInv, Critical
<1>9. NoConflict' BY <1>4 DEF NoConflict, Ids
<1>10. HandlerInv'
  <2>1. hs[h].user \in Users /\ hs[h].currency \in {Ton} \cup DOMAIN jettons /\ Stored(h)
    BY DEF HandlerInv, HandlerOK, Critical
  <2>2. /\ WalletRow(h)' = WalletRow(h) /\ OwnerRow(h)' = OwnerRow(h)
        /\ Account(hs[h].currency, hs[h].id)' = Account(hs[h].currency, hs[h].id)
    BY <1>4 DEF WalletRow, OwnerRow, Account
  <2>3. Stored(h)' BY <1>4, <2>1, <2>2 DEF Stored
  <2>4. q = "putWallet" => OwnerInBook(h)' BY <1>1, <1>4 DEF OwnerInBook
  <2>5. HandlerOK(h)' BY <1>1, <1>4, <2>1, <2>2, <2>3, <2>4 DEF HandlerOK
  <2> QED BY <1>2, <1>4, <2>5, HandlerFrame DEF HandlerInv
<1>11. HandedInv' BY <1>2, HandedFrame
<1>12. PaidInv' /\ NewAddressesCredited' /\ UniqueRequests'
  BY DEF PaidInv, NewAddressesCredited, UniqueRequests, scanVars
<1> QED BY <1>1, <1>5, <1>6, <1>7, <1>8, <1>9, <1>10, <1>11, <1>12

LEMMA PutOwnerStep ==
    ASSUME IInv, NEW h \in Handlers, PutOwner(h)
    PROVE  IInv'
<1> USE DEF IInv
<1>1. PICK a, i : a = ProxyAddress(hs[h].id) /\ i = Info("jettonOwner", None, hs[h].user) OBVIOUS
<1>2. /\ phase = "up" /\ hs[h].pc = "putOwner" /\ Goto(h, "putWallet")
      /\ book' = Put(book, a, i)
      /\ UNCHANGED <<dbVars, phase, jettons, mutex, handed, scanVars>>
  BY <1>1 DEF PutOwner, At
<1>3. OwnerRow(h) \in tonWallets BY <1>2 DEF HandlerInv, HandlerOK, Stored
<1>4. /\ OwnerRow(h).address = a /\ i = Info(OwnerRow(h).type, None, OwnerRow(h).user)
  BY <1>1, RowFields DEF OwnerRow
<1>5. Entry(a, i)' BY <1>2, <1>3, <1>4 DEF Entry, dbVars
<1> QED BY <1>1, <1>2, <1>5, PutStep

LEMMA PutWalletStep ==
    ASSUME IInv, NEW h \in Handlers, PutWallet(h)
    PROVE  IInv'
<1> USE DEF IInv
<1>1. PICK a, i : a = Account(hs[h].currency, hs[h].id) /\ i = WalletInfo(h) OBVIOUS
<1>2. /\ phase = "up" /\ hs[h].pc = "putWallet" /\ Goto(h, "reply")
      /\ book' = Put(book, a, i)
      /\ UNCHANGED <<dbVars, phase, jettons, mutex, handed, scanVars>>
  BY <1>1 DEF PutWallet, At
<1>3. Stored(h) /\ OwnerInBook(h) BY <1>2 DEF HandlerInv, HandlerOK
<1>4. Entry(a, i)'
  <2>1. CASE hs[h].currency = Ton
    <3>1. WalletRow(h) \in tonWallets' BY <1>2, <1>3, <2>1 DEF Stored, dbVars
    <3>2. WalletRow(h).address = a /\ i = Info(WalletRow(h).type, None, WalletRow(h).user)
      BY <1>1, <2>1, RowFields DEF WalletRow, WalletInfo, Account
    <3> QED BY <3>1, <3>2 DEF Entry
  <2>2. CASE hs[h].currency # Ton
    <3>1. WalletRow(h) \in jettonWallets' /\ OwnerRow(h) \in tonWallets'
      BY <1>2, <1>3, <2>2 DEF Stored, dbVars
    <3>2. /\ WalletRow(h).address = a /\ OwnerRow(h).id = WalletRow(h).id
          /\ i = Info(WalletRow(h).type, OwnerRow(h).address, WalletRow(h).user)
          /\ OwnerRow(h).address = ProxyAddress(hs[h].id)
      BY <1>1, <2>2, RowFields DEF WalletRow, OwnerRow, WalletInfo
    <3>3. OwnerRow(h).address \in DOMAIN book' BY <1>2, <1>3, <2>2, <3>2 DEF OwnerInBook, Put
    <3> QED BY <3>1, <3>2, <3>3 DEF Entry
  <2> QED BY <2>1, <2>2
<1> QED BY <1>1, <1>2, <1>4, PutStep

-----------------------------------------------------------------------------
(* Start and end of the process *)

\* LoadAddressBook finds everything that was handed out.
LEMMA StartStep ==
    ASSUME IInv, NEW config \in Configs, Start(config)
    PROVE  IInv'
<1> USE DEF IInv
<1>1. /\ phase = "down" /\ phase' = "init" /\ book' = Loaded /\ jettons' = config
      /\ UNCHANGED <<dbVars, hs, mutex, handed, scanVars>>
  BY DEF Start
<1>2. UNCHANGED <<tonWallets, jettonWallets, requests>> BY <1>1 DEF dbVars
<1>3. \A h \in Handlers : hs[h].pc = "idle" /\ hs'[h].pc = "idle" BY <1>1 DEF ServeInv
<1>4. TypeInv' BY <1>1, <1>2 DEF TypeInv
<1>5. TonInv' /\ JettonInv' /\ CurrencyInv' BY <1>2, SameTables
<1>6. ServeInv' BY <1>1, <1>3 DEF ServeInv
<1>7. LockInv' /\ NoConflict' BY <1>3 DEF LockInv, NoConflict, Critical
<1>8. HandlerInv' BY <1>3, IdleOK DEF HandlerInv
<1>9. DOMAIN book' = {r.address : r \in tonWallets \cup jettonWallets} BY <1>1, LoadedFacts
<1>10. BookInv'
  <2> SUFFICES ASSUME NEW a \in DOMAIN book'
               PROVE  (\/ \E r \in tonWallets : FromTon(a, r)
                       \/ \E r \in jettonWallets : \E s \in tonWallets : FromJetton(a, r, s))'
    BY DEF BookInv
  <2>1. CASE \E r \in tonWallets : r.address = a
    <3>1. PICK r \in tonWallets : r.address = a BY <2>1
    <3>2. FromTon(a, r)' BY <1>1, <3>1, LoadedFacts DEF FromTon
    <3> QED BY <1>2, <3>2
  <2>2. CASE \E r \in jettonWallets : r.address = a
    <3>1. PICK r \in jettonWallets : r.address = a BY <2>2
    <3>2. PICK s \in tonWallets : s.id = r.id BY DEF JettonInv, JettonRowOK, IsOwner
    <3>3. Loaded[a] = Info(r.type, s.address, r.user) BY <3>1, <3>2, LoadedFacts
    <3>4. FromJetton(a, r, s)' BY <1>1, <1>9, <3>1, <3>2, <3>3 DEF FromJetton
    <3> QED BY <1>2, <3>4
  <2> QED BY <1>9, <2>1, <2>2
<1>11. HandedInv' BY <1>1, <1>2, <1>9 DEF HandedInv
<1>12. PaidInv' /\ NewAddressesCredited' /\ UniqueRequests'
  BY <1>1, <1>2 DEF PaidInv, NewAddressesCredited, UniqueRequests, scanVars
<1> QED BY <1>4, <1>5, <1>6, <1>7, <1>8, <1>10, <1>11, <1>12

LEMMA EndStep ==
    ASSUME IInv, End
    PROVE  IInv'
<1> USE DEF IInv
<1>1. /\ phase' = "down" /\ DOMAIN book' = {} /\ jettons' = << >>
      /\ hs' = [h \in Handlers |-> Idle]
      /\ UNCHANGED <<tonWallets, jettonWallets, requests, handed, unscanned, credited, missed>>
  BY DEF End, dbVars, scanVars
<1>2. \A h \in Handlers : hs'[h].pc = "idle" BY <1>1, IdleState
<1>3. TypeInv' BY <1>1, IdleState DEF TypeInv
<1>4. TonInv' /\ JettonInv' /\ CurrencyInv' BY <1>1, SameTables
<1>5. ServeInv' BY <1>1, <1>2 DEF ServeInv
<1>6. LockInv' /\ NoConflict' BY <1>2 DEF LockInv, NoConflict, Critical
<1>7. HandlerInv' BY <1>2, IdleOK DEF HandlerInv
<1>8. BookInv' BY <1>1 DEF BookInv
<1>9. HandedInv' BY <1>1 DEF HandedInv
<1>10. PaidInv' /\ NewAddressesCredited' /\ UniqueRequests'
  BY <1>1 DEF PaidInv, NewAddressesCredited, UniqueRequests
<1> QED BY <1>3, <1>4, <1>5, <1>6, <1>7, <1>8, <1>9, <1>10

\* InitWallets ends only when each hot wallet is saved under its currency.
LEMMA ServeStep ==
    ASSUME IInv, Serve
    PROVE  IInv'
<1> USE DEF IInv
<1>1. /\ phase = "init" /\ phase' = "up" /\ tonWallets # {}
      /\ UNCHANGED <<tonWallets, jettonWallets, requests, book, jettons, hs, mutex, handed,
                     unscanned, credited, missed>>
  BY DEF Serve, dbVars, scanVars
<1>2. \A h \in Handlers : hs'[h].pc = "idle" BY <1>1 DEF ServeInv
<1>3. TypeInv' BY <1>1 DEF TypeInv
<1>4. TonInv' /\ JettonInv' /\ CurrencyInv' BY <1>1, SameTables
<1>5. ServeInv'
  <2>1. ASSUME NEW c \in DOMAIN jettons
        PROVE  \E s \in jettonWallets : /\ s.address = JettonAddress(DefaultId, jettons[c])
                                        /\ s.currency = c
    BY DEF Serve, HotJettonRows, WrongCurrency
  <2> QED BY <1>1, <2>1 DEF ServeInv
<1>6. LockInv' /\ NoConflict' BY <1>2 DEF LockInv, NoConflict, Critical
<1>7. HandlerInv' BY <1>2, IdleOK DEF HandlerInv
<1>8. Grows BY <1>1 DEF Grows
<1>9. BookInv' /\ HandedInv' BY <1>1, <1>8, BookFrame, HandedFrame
<1>10. PaidInv' /\ NewAddressesCredited' /\ UniqueRequests'
  BY <1>1 DEF PaidInv, NewAddressesCredited, UniqueRequests
<1> QED BY <1>3, <1>4, <1>5, <1>6, <1>7, <1>9, <1>10

\* What the two steps of InitWallets have in common.
LEMMA InitFrame ==
    ASSUME IInv, phase = "init", TonInv' /\ JettonInv' /\ CurrencyInv' /\ IsFiniteSet(tonWallets'),
           tonWallets \subseteq tonWallets', jettonWallets \subseteq jettonWallets',
           UNCHANGED <<requests, phase, jettons, hs, mutex, handed, scanVars>>,
           NEW a, NEW i, book' = Put(book, a, i), Entry(a, i)'
    PROVE  IInv'
<1> USE DEF IInv
<1>1. BookInv' /\ DOMAIN book' = DOMAIN book \cup {a} BY BookPut
<1>2. Grows BY <1>1 DEF Grows
<1>3. \A h \in Handlers : hs'[h].pc = "idle" BY DEF ServeInv
<1>4. TypeInv' BY DEF TypeInv
<1>5. ServeInv' BY <1>3 DEF ServeInv
<1>6. LockInv' /\ NoConflict' BY <1>3 DEF LockInv, NoConflict, Critical
<1>7. HandlerInv' BY <1>3, IdleOK DEF HandlerInv
<1>8. HandedInv' BY <1>2, HandedFrame
<1>9. PaidInv' /\ NewAddressesCredited' /\ UniqueRequests'
  BY DEF PaidInv, NewAddressesCredited, UniqueRequests, scanVars
<1> QED BY <1>1, <1>4, <1>5, <1>6, <1>7, <1>8, <1>9

LEMMA InitTonHotWalletStep ==
    ASSUME IInv, InitTonHotWallet
    PROVE  IInv'
<1> USE DEF IInv
<1> DEFINE r == TonRow(DefaultId, "tonHot", NoUser, HotAddress)
           i == Info("tonHot", None, NoUser)
<1>1. /\ phase = "init" /\ tonWallets' = tonWallets \cup {r}
      /\ book' = Put(book, HotAddress, i)
      /\ UNCHANGED <<jettonWallets, requests, phase, jettons, hs, mutex, handed, scanVars>>
  BY DEF InitTonHotWallet
<1>2. r.id = DefaultId /\ r.type = "tonHot" /\ r.user = NoUser /\ r.address = HotAddress
  BY RowFields
<1> HIDE DEF r, i
<1>3. TonRowOK(r) BY <1>2, ConstantsAssumption DEF TonRowOK
<1>4. tonWallets = {} BY DEF InitTonHotWallet, TonInv
<1>5. r.id \notin Ids BY <1>4 DEF Ids
<1>6. TonInv' BY <1>1, <1>2, <1>3, <1>5, TonRowAdded
<1>7. IsFiniteSet(tonWallets') BY <1>1, FS_AddElement DEF TypeInv
<1>8. JettonInv' BY <1>1, JettonRowFrame DEF JettonInv
<1>9. CurrencyInv' BY <1>1 DEF CurrencyInv
<1>10. Entry(HotAddress, i)' BY <1>1, <1>2 DEF Entry, i
<1> QED BY <1>1, <1>6, <1>7, <1>8, <1>9, <1>10, InitFrame

LEMMA InitJettonHotWalletStep ==
    ASSUME IInv, NEW c \in DOMAIN jettons, InitJettonHotWallet(c)
    PROVE  IInv'
<1> USE DEF IInv
<1>0. PICK m : m = jettons[c] OBVIOUS
<1> DEFINE a == JettonAddress(DefaultId, m)
           r == JettonRow(DefaultId, c, "jettonHot", NoUser, a)
           i == Info("jettonHot", HotAddress, NoUser)
<1>1. /\ phase = "init" /\ jettonWallets' = jettonWallets \cup {r}
      /\ book' = Put(book, a, i)
      /\ UNCHANGED <<tonWallets, requests, phase, jettons, hs, mutex, handed, scanVars>>
  BY <1>0 DEF InitJettonHotWallet
<1>2. /\ r.id = DefaultId /\ r.type = "jettonHot" /\ r.user = NoUser /\ r.address = a
      /\ r.currency = c /\ a.master = m
  BY RowFields, AddressFields
<1>3. \A x \in jettonWallets : x.address # a BY <1>0 DEF InitJettonHotWallet, HotJettonRows
<1>4. PICK s \in tonWallets : s.type = "tonHot" BY DEF InitJettonHotWallet
<1>5. s.id = DefaultId /\ s.address = HotAddress BY <1>4 DEF TonInv, TonRowOK
<1>6. r.address = JettonAddress(r.id, r.address.master) BY <1>2
<1>7. i = Info(r.type, s.address, r.user) BY <1>2, <1>5
<1> HIDE DEF r, i
<1>8. JettonRowOK(r)' BY <1>1, <1>2, <1>4, <1>5, <1>6 DEF JettonRowOK, IsOwner
<1>9. TonInv' BY <1>1 DEF TonInv, TonRowOK
<1>10. JettonInv' /\ CurrencyInv' BY <1>1, <1>2, <1>3, <1>8, JettonRowAdded
<1>11. IsFiniteSet(tonWallets') BY <1>1 DEF TypeInv
<1>12. Entry(a, i)' BY <1>1, <1>2, <1>4, <1>5, <1>7 DEF Entry
<1> QED BY <1>1, <1>9, <1>10, <1>11, <1>12, InitFrame

-----------------------------------------------------------------------------
(* Payers and the block scanner *)

\* What the payers and the scanner leave alone.
LEMMA ScanFrame ==
    ASSUME IInv, UNCHANGED <<dbVars, procVars, hs, mutex, handed>>
    PROVE  /\ TypeInv' /\ TonInv' /\ JettonInv' /\ CurrencyInv' /\ ServeInv' /\ LockInv'
           /\ NoConflict' /\ HandlerInv' /\ BookInv' /\ HandedInv' /\ UniqueRequests'
<1> USE DEF IInv, dbVars, procVars
<1>1. Grows BY DEF Grows
<1>2. TypeInv' BY DEF TypeInv
<1>3. TonInv' /\ JettonInv' /\ CurrencyInv' BY SameTables
<1>4. ServeInv' BY DEF ServeInv
<1>5. LockInv' BY DEF LockInv
<1>6. NoConflict' BY DEF NoConflict, Ids
<1>7. HandlerInv' BY <1>1, HandlerFrame DEF HandlerInv
<1>8. BookInv' /\ HandedInv' BY <1>1, BookFrame, HandedFrame
<1>9. UniqueRequests' BY DEF UniqueRequests
<1> QED BY <1>2, <1>3, <1>4, <1>5, <1>6, <1>7, <1>8, <1>9

LEMMA PayStep ==
    ASSUME IInv, NEW d \in handed, Pay(d)
    PROVE  IInv'
<1> USE DEF IInv
<1>1. PICK n : n = Cardinality(Payments) OBVIOUS
<1>2. /\ unscanned' = unscanned \cup {[n |-> n, deposit |-> d]}
      /\ UNCHANGED <<dbVars, procVars, hs, mutex, handed, credited, missed>>
  BY <1>1 DEF Pay
<1>3. PaidInv' BY <1>2 DEF PaidInv
<1>4. NewAddressesCredited' BY <1>2 DEF NewAddressesCredited
<1> QED BY <1>2, <1>3, <1>4, ScanFrame

\* The book names the user who was given the address: directly, or through the
\* owner of the Jetton wallet.
LEMMA UserOfDeposit ==
    ASSUME TonInv, JettonInv, BookInv, NEW d \in handed, HandedInv, phase # "down"
    PROVE  d.account \in DOMAIN book /\ UserOf(d.account) = d.user
<1>1. d.account \in DOMAIN book BY DEF HandedInv
<1>2. PICK r \in tonWallets \cup jettonWallets :
         r.type \in {"tonDeposit", "jettonDeposit"} /\ r.address = d.account /\ r.user = d.user
  BY DEF HandedInv
<1>3. CASE r \in tonWallets
  <2>1. PICK x \in tonWallets : FromTon(d.account, x)
    BY <1>1, <1>2, <1>3, OneRowPerAddress DEF BookInv, FromJetton
  <2>2. x = r BY <1>2, <1>3, <2>1, OneRowPerAddress DEF FromTon
  <2> QED BY <1>1, <1>2, <2>1, <2>2, InfoFields DEF FromTon, UserOf
<1>4. CASE r \in jettonWallets
  <2>1. PICK x \in jettonWallets : \E y \in tonWallets : FromJetton(d.account, x, y)
    BY <1>1, <1>2, <1>4, OneRowPerAddress DEF BookInv, FromTon
  <2>2. x = r BY <1>2, <1>4, <2>1 DEF JettonInv, FromJetton
  <2>3. PICK y \in tonWallets : FromJetton(d.account, r, y) BY <2>1, <2>2
  <2>4. JettonRowOK(r) BY <1>4 DEF JettonInv
  <2>5. r.type = "jettonDeposit"
    <3>1. r.user = d.user /\ r.type # "tonDeposit" BY <1>2, <2>4 DEF JettonRowOK
    <3> QED BY <1>2, <3>1
  <2>6. y.type = "jettonOwner" /\ y.user = r.user
    <3>1. PICK s \in tonWallets : IsOwner(s, r) BY <2>4 DEF JettonRowOK
    <3>2. s = y BY <2>3, <3>1 DEF IsOwner, FromJetton, TonInv
    <3> QED BY <2>5, <3>1, <3>2 DEF IsOwner
  <2>7. y.address = ProxyAddress(y.id) BY <2>6 DEF TonInv, TonRowOK
  <2>8. y.address # None BY <2>7, ProxyIsSomebody
  <2>9. book[d.account].owner = y.address BY <2>3, InfoFields DEF FromJetton
  <2>10. y.address \in DOMAIN book BY <2>3, <2>5 DEF FromJetton
  <2>11. book[y.address].user = y.user
    <3>1. PICK z \in tonWallets : FromTon(y.address, z)
      BY <2>10, OneRowPerAddress DEF BookInv, FromJetton
    <3>2. z = y BY <3>1, OneRowPerAddress DEF FromTon
    <3> QED BY <3>1, <3>2, InfoFields DEF FromTon
  <2> QED BY <1>1, <1>2, <2>6, <2>8, <2>9, <2>11 DEF UserOf
<1> QED BY <1>3, <1>4

LEMMA ScanPaymentStep ==
    ASSUME IInv, NEW p \in unscanned, ScanPayment(p)
    PROVE  IInv'
<1> USE DEF IInv
<1>1. PICK a, u : a = p.deposit.account /\ u = UserOf(p.deposit.account) OBVIOUS
<1>2. /\ phase = "up" /\ unscanned' = unscanned \ {p}
      /\ \/ a \notin DOMAIN book
         \/ credited' = credited \cup {[payment |-> p, user |-> u]} /\ missed' = missed
      /\ UNCHANGED <<dbVars, procVars, hs, mutex, handed>>
  BY <1>1 DEF ScanPayment
<1>3. p.deposit \in handed BY DEF PaidInv
<1>4. a \in DOMAIN book /\ u = p.deposit.user BY <1>1, <1>2, <1>3, UserOfDeposit
<1>5. PaidInv' BY <1>2 DEF PaidInv
<1>6. NewAddressesCredited' BY <1>2, <1>4 DEF NewAddressesCredited
<1> QED BY <1>2, <1>5, <1>6, ScanFrame

-----------------------------------------------------------------------------
(* The invariant, and what it implies *)

LEMMA InitHolds == Init => IInv
<1> SUFFICES ASSUME Init PROVE IInv OBVIOUS
<1> USE DEF Init
<1>1. \A h \in Handlers : hs[h].pc = "idle" BY IdleState
<1>2. TypeInv BY IdleState, FS_EmptySet DEF TypeInv
<1>3. TonInv /\ JettonInv /\ CurrencyInv BY DEF TonInv, JettonInv, CurrencyInv
<1>4. DOMAIN book = {} OBVIOUS
<1>5. ServeInv BY <1>1, <1>4 DEF ServeInv
<1>6. LockInv /\ NoConflict BY <1>1 DEF LockInv, NoConflict, Critical
<1>7. HandlerInv BY <1>1 DEF HandlerInv, HandlerOK, Critical
<1>8. BookInv BY <1>4 DEF BookInv
<1>9. HandedInv /\ PaidInv /\ NewAddressesCredited /\ UniqueRequests
  BY DEF HandedInv, PaidInv, NewAddressesCredited, UniqueRequests
<1> QED BY <1>2, <1>3, <1>5, <1>6, <1>7, <1>8, <1>9 DEF IInv

LEMMA NextHolds == IInv /\ [Next]_vars => IInv'
<1> SUFFICES ASSUME IInv, [Next]_vars PROVE IInv' OBVIOUS
<1>1. CASE Process
  BY <1>1, StartStep, InitTonHotWalletStep, InitJettonHotWalletStep, ServeStep, EndStep
  DEF Process
<1>2. ASSUME NEW h \in Handlers, Request(h) \/ Lock(h) \/ Handle(h) PROVE IInv'
  <2>1. CASE Request(h) BY <2>1, NewAddressStep, SendWithdrawalStep DEF Request
  <2>2. CASE Lock(h) BY <2>2, LockStep
  <2>3. CASE Handle(h)
    BY <2>3, GenerateFailsStep, GenerateStep, SaveStep, SaveFailsStep, PutOwnerStep,
       PutWalletStep, ReplyStep, SaveWithdrawalRequestStep
    DEF Handle
  <2> QED BY <1>2, <2>1, <2>2, <2>3
<1>3. ASSUME NEW d \in handed, Pay(d) PROVE IInv' BY <1>3, PayStep
<1>4. ASSUME NEW p \in unscanned, ScanPayment(p) PROVE IInv' BY <1>4, ScanPaymentStep
<1>5. CASE UNCHANGED vars
  <2>1. UNCHANGED <<dbVars, procVars, hs, mutex, handed, scanVars>> BY <1>5 DEF vars
  <2>2. PaidInv' /\ NewAddressesCredited'
    BY <2>1 DEF IInv, PaidInv, NewAddressesCredited, scanVars
  <2> QED BY <2>1, <2>2, ScanFrame DEF IInv
<1> QED BY <1>1, <1>2, <1>3, <1>4, <1>5 DEF Next

LEMMA IInvHolds == Spec => []IInv
BY InitHolds, NextHolds, PTL DEF Spec

\* A payment to an address that getNewAddress returned is credited to the user
\* who asked for it, through any restarts, failed saves and changes of the
\* configured Jettons: the scanner never drops it as unknown.
THEOREM PaymentsAreCredited == Spec => []NewAddressesCredited
<1>1. IInv => NewAddressesCredited BY DEF IInv
<1> QED BY <1>1, IInvHolds, PTL

\* What addressBook holds in memory is what LoadAddressBook would read from the
\* tables, with the owner of each Jetton deposit present for GetOwner.
THEOREM BookIsTheTables == Spec => []BookMatchesTables
<1>1. ASSUME IInv PROVE BookMatchesTables
  <2> USE <1>1 DEF IInv
  <2>1. ASSUME NEW a \in DOMAIN book PROVE a \in DOMAIN Loaded /\ book[a] = Loaded[a]
    <3>1. CASE \E r \in tonWallets : FromTon(a, r)
      <4>1. PICK r \in tonWallets : FromTon(a, r) BY <3>1
      <4>2. a \in DOMAIN Loaded BY <4>1, LoadedFacts DEF FromTon
      <4>3. book[a] = Loaded[a] BY <4>1, LoadedFacts DEF FromTon
      <4> QED BY <4>2, <4>3
    <3>2. CASE \E r \in jettonWallets : \E s \in tonWallets : FromJetton(a, r, s)
      <4>1. PICK r \in jettonWallets : \E s \in tonWallets : FromJetton(a, r, s) BY <3>2
      <4>2. PICK s \in tonWallets : FromJetton(a, r, s) BY <4>1
      <4>3. a \in DOMAIN Loaded BY <4>2, LoadedFacts DEF FromJetton
      <4>4. book[a] = Loaded[a] BY <4>2, LoadedFacts DEF FromJetton
      <4> QED BY <4>3, <4>4
    <3> QED BY <3>1, <3>2 DEF BookInv
  <2>2. ASSUME NEW a \in DOMAIN book, book[a].type = "jettonDeposit"
        PROVE  book[a].owner \in DOMAIN book /\ book[book[a].owner].user = book[a].user
    <3>1. \A r \in tonWallets : r.type # "jettonDeposit" BY DEF TonInv, TonRowOK
    <3>2. PICK r \in jettonWallets : \E s \in tonWallets : FromJetton(a, r, s)
      BY <2>2, <3>1, InfoFields DEF BookInv, FromTon
    <3>3. PICK s \in tonWallets : FromJetton(a, r, s) BY <3>2
    <3>4. r.type = "jettonDeposit" /\ book[a].owner = s.address /\ book[a].user = r.user
      BY <2>2, <3>3, InfoFields DEF FromJetton
    <3>5. s.address \in DOMAIN book BY <3>3, <3>4 DEF FromJetton
    <3>6. s.user = r.user
      <4>1. PICK y \in tonWallets : IsOwner(y, r) BY DEF JettonInv, JettonRowOK
      <4>2. y = s BY <3>3, <4>1 DEF IsOwner, FromJetton, TonInv
      <4> QED BY <3>4, <4>1, <4>2 DEF IsOwner
    <3>7. book[s.address].user = s.user
      <4>1. PICK z \in tonWallets : FromTon(s.address, z)
        BY <3>5, OneRowPerAddress DEF BookInv, FromJetton
      <4>2. z = s BY <4>1, OneRowPerAddress DEF FromTon
      <4> QED BY <4>1, <4>2, InfoFields DEF FromTon
    <3> QED BY <3>4, <3>5, <3>6, <3>7
  <2> QED BY <2>1, <2>2 DEF BookMatchesTables
<1> QED BY <1>1, IInvHolds, PTL

\* Handler.mutex and the search upward from the last subwallet_id make numbers
\* unique before the index of ton_wallets is asked, also when they run out.
THEOREM NumbersDoNotCollide == Spec => []NoConflict
<1>1. IInv => NoConflict BY DEF IInv
<1> QED BY <1>1, IInvHolds, PTL

\* However requests are repeated or overlap, withdrawal_requests has one row per
\* user and query.
THEOREM OneRowPerRequest == Spec => []UniqueRequests
<1>1. IInv => UniqueRequests BY DEF IInv
<1> QED BY <1>1, IInvHolds, PTL

\* jetton_wallets never has one master under two currencies, whatever is
\* configured at each start.
THEOREM CurrencyOfMaster == Spec => []OneCurrencyPerMaster
<1>1. ASSUME IInv PROVE OneCurrencyPerMaster
  <2> SUFFICES ASSUME NEW r \in jettonWallets, NEW s \in jettonWallets,
                      r.address.master = s.address.master
               PROVE  r.currency = s.currency
    BY DEF OneCurrencyPerMaster
  <2>1. PICK x \in jettonWallets : /\ x.address = JettonAddress(DefaultId, r.address.master)
                                   /\ x.currency = r.currency
    BY <1>1 DEF IInv, CurrencyInv
  <2>2. PICK y \in jettonWallets : /\ y.address = JettonAddress(DefaultId, s.address.master)
                                   /\ y.currency = s.currency
    BY <1>1 DEF IInv, CurrencyInv
  <2> QED BY <1>1, <2>1, <2>2 DEF IInv, JettonInv
<1> QED BY <1>1, IInvHolds, PTL
=============================================================================
