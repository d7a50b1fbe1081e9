----------------------------- MODULE AddressBook -----------------------------
(***************************************************************************)
(* Deposit addresses and the API requests that write: getNewAddress, with  *)
(* subwallet numbers, the two wallet tables and the address book in memory *)
(* that tells the block scanner which accounts are the service's; and      *)
(* sendWithdrawal up to the saved request.  Handlers run concurrently; the *)
(* process starts, reads the tables into the book, creates its hot wallets *)
(* and may end anywhere.                                                   *)
(*                                                                         *)
(* Addresses are deterministic in the seed, so an address is its kind, its *)
(* subwallet number and, for a Jetton wallet, its master.                  *)
(***************************************************************************)
EXTENDS Naturals, FiniteSets, FiniteSetsExt, Functions

CONSTANTS
    Handlers,       \* concurrent API requests
    Users, NoUser,  \* user_id, and the empty one of the hot wallets
    Withdrawals,    \* bound: the pairs of user and user_query_id that clients send
    Ton,            \* core.TonSymbol
    Configs,        \* values of config.Jettons: functions from currency to master
    InShard,        \* the addresses in the shard of the hot wallet
    DefaultId,      \* wallet.DefaultSubwallet
    MaxUint32,      \* scaled down
    MaxPayments,    \* bound: payments to deposits
    MaxFaults,      \* bound: database calls that return an error
    MaxRestarts     \* bound: starts of the process

Free == "free"      \* nobody holds Handler.mutex

ASSUME ConstantsAssumption ==
    /\ IsFiniteSet(Handlers) /\ Free \notin Handlers
    /\ IsFiniteSet(Users) /\ NoUser \notin Users
    /\ \A w \in Withdrawals : w[1] \in Users
    /\ \A c \in Configs : Ton \notin DOMAIN c
    /\ {DefaultId, MaxUint32, MaxPayments, MaxFaults, MaxRestarts} \subseteq Nat
    /\ DefaultId < MaxUint32

None == [type |-> "none"]

TonAddress(id) == [kind |-> "ton", id |-> id]
ProxyAddress(id) == [kind |-> "proxy", id |-> id]
JettonAddress(id, master) == [kind |-> "jetton", id |-> id, master |-> master]
HotAddress == [kind |-> "hot", id |-> DefaultId]

VARIABLES
    \* payments.ton_wallets, payments.jetton_wallets, and how many rows of
    \* payments.withdrawal_requests a user and query have
    tonWallets, jettonWallets, requests,
    \* addressBook of the process, where the process is, its config.Jettons
    book, phase, jettons,
    \* the handlers and Handler.mutex
    hs, mutex,
    \* deposits that clients got from getNewAddress
    handed,
    \* payments in blocks not scanned, those recorded with a user, those ignored
    unscanned, credited, missed,
    faults, restarts

dbVars == <<tonWallets, jettonWallets, requests>>
procVars == <<book, phase, jettons>>
scanVars == <<unscanned, credited, missed>>
vars == <<dbVars, procVars, hs, mutex, handed, scanVars, faults, restarts>>

Idle == [pc |-> "idle", user |-> NoUser, currency |-> Ton, id |-> DefaultId]

Ids == {r.id : r \in tonWallets}

-----------------------------------------------------------------------------
(* Address book *)

Info(type, owner, user) == [type |-> type, owner |-> owner, user |-> user]

\* addressBook.put
Put(b, address, info) == [a \in DOMAIN b \cup {address} |-> IF a = address THEN info ELSE b[a]]

\* Mutant: only ton_wallets is read.
LoadedTonOnly ==
    [a \in {r.address : r \in tonWallets} |->
        LET r == CHOOSE s \in tonWallets : s.address = a IN Info(r.type, None, r.user)]

\* LoadAddressBook: both tables; the owner of a Jetton wallet is the TON wallet
\* with the same subwallet number.
Loaded ==
    [a \in {r.address : r \in tonWallets \cup jettonWallets} |->
        IF \E r \in jettonWallets : r.address = a
        THEN LET r == CHOOSE s \in jettonWallets : s.address = a
                 o == CHOOSE s \in tonWallets : s.id = r.id
             IN  Info(r.type, o.address, r.user)
        ELSE LET r == CHOOSE s \in tonWallets : s.address = a IN Info(r.type, None, r.user)]

TonRow(id, type, user, address) == [id |-> id, type |-> type, user |-> user, address |-> address]
JettonRow(id, currency, type, user, address) ==
    [id |-> id, currency |-> currency, type |-> type, user |-> user, address |-> address]

Init ==
    /\ tonWallets = {} /\ jettonWallets = {}
    /\ requests = [w \in Withdrawals |-> 0]
    /\ book = << >> /\ phase = "down" /\ jettons = << >>
    /\ hs = [h \in Handlers |-> Idle] /\ mutex = Free
    /\ handed = {}
    /\ unscanned = {} /\ credited = {} /\ missed = {}
    /\ faults = 0 /\ restarts = 0

-----------------------------------------------------------------------------
(* Start and end of the process *)

\* main up to InitWallets, with whatever Jettons are configured this time.
Start(config) ==
    /\ phase = "down" /\ restarts < MaxRestarts
    /\ restarts' = restarts + 1
    /\ book' = Loaded
    /\ jettons' = config
    /\ phase' = "init"
    /\ UNCHANGED <<dbVars, hs, mutex, handed, scanVars, faults>>

\* initTonHotWallet, when the wallet is not saved yet.
InitTonHotWallet ==
    /\ phase = "init" /\ \A r \in tonWallets : r.type # "tonHot"
    /\ tonWallets' = tonWallets \cup {TonRow(DefaultId, "tonHot", NoUser, HotAddress)}
    /\ book' = Put(book, HotAddress, Info("tonHot", None, NoUser))
    /\ UNCHANGED <<jettonWallets, requests, phase, jettons, hs, mutex, handed, scanVars,
                   faults, restarts>>

HotJettonRows(currency) ==
    {r \in jettonWallets : r.address = JettonAddress(DefaultId, jettons[currency])}

\* Mutant: the currency of the saved wallet is not looked at.
WrongCurrencyIgnored(currency) == FALSE

\* The Jetton hot wallet is saved under another currency: InitWallets fails.
WrongCurrency(currency) == \E r \in HotJettonRows(currency) : r.currency # currency

\* initJettonHotWallet for one of config.Jettons, which come in any order.
InitJettonHotWallet(currency) ==
    /\ phase = "init" /\ \E r \in tonWallets : r.type = "tonHot"
    /\ HotJettonRows(currency) = {}
    /\ LET a == JettonAddress(DefaultId, jettons[currency])
       IN  /\ jettonWallets' = jettonWallets \cup
                                 {JettonRow(DefaultId, currency, "jettonHot", NoUser, a)}
           /\ book' = Put(book, a, Info("jettonHot", HotAddress, NoUser))
    /\ UNCHANGED <<tonWallets, requests, phase, jettons, hs, mutex, handed, scanVars,
                   faults, restarts>>

\* InitWallets is done: scanner, processors and API start.
Serve ==
    /\ phase = "init" /\ \E r \in tonWallets : r.type = "tonHot"
    /\ \A c \in DOMAIN jettons : HotJettonRows(c) # {} /\ ~WrongCurrency(c)
    /\ phase' = "up"
    /\ UNCHANGED <<dbVars, book, jettons, hs, mutex, handed, scanVars, faults, restarts>>

\* The process ends: by a crash, a signal, or log.Fatal in InitWallets.
End ==
    /\ phase # "down"
    /\ phase' = "down" /\ book' = << >> /\ jettons' = << >>
    /\ hs' = [h \in Handlers |-> Idle] /\ mutex' = Free
    /\ UNCHANGED <<dbVars, handed, scanVars, faults, restarts>>

-----------------------------------------------------------------------------
(* getNewAddress *)

At(h, pc) == phase = "up" /\ hs[h].pc = pc
Goto(h, pc) == hs' = [hs EXCEPT ![h].pc = pc]
Return(h) == hs' = [hs EXCEPT ![h] = Idle]

\* The request is decoded; an unknown currency is refused at once.
NewAddress(h, user, currency) ==
    /\ At(h, "idle")
    /\ currency \in {Ton} \cup DOMAIN jettons
    /\ hs' = [hs EXCEPT ![h] = [pc |-> "lock", user |-> user, currency |-> currency,
                                id |-> DefaultId]]
    /\ UNCHANGED <<dbVars, procVars, mutex, handed, scanVars, faults, restarts>>

\* Mutant: the handler does not wait for the mutex.
LockAlways(h) ==
    /\ At(h, "lock")
    /\ mutex' = h
    /\ Goto(h, "generate")
    /\ UNCHANGED <<dbVars, procVars, handed, scanVars, faults, restarts>>

Lock(h) ==
    /\ At(h, "lock") /\ mutex = Free
    /\ mutex' = h
    /\ Goto(h, "generate")
    /\ UNCHANGED <<dbVars, procVars, handed, scanVars, faults, restarts>>

GetLastSubwalletID == Max({DefaultId} \cup Ids)

Account(currency, id) ==
    IF currency = Ton THEN TonAddress(id) ELSE JettonAddress(id, jettons[currency])

\* GenerateSubWallet, GenerateDepositJettonWalletForProxy: the numbers after the
\* last one, as uint32, below the greatest, whose account is in the shard.
Candidates(currency) ==
    {id \in ((GetLastSubwalletID + 1) % (MaxUint32 + 1))..(MaxUint32 - 1) :
        Account(currency, id) \in InShard}

GenerateFails(h) ==
    /\ At(h, "generate")
    /\ Candidates(hs[h].currency) = {}
    /\ Return(h) /\ mutex' = Free
    /\ UNCHANGED <<dbVars, procVars, handed, scanVars, faults, restarts>>

Generate(h) ==
    /\ At(h, "generate")
    /\ Candidates(hs[h].currency) # {}
    /\ hs' = [hs EXCEPT ![h].pc = "save", ![h].id = Min(Candidates(hs[h].currency))]
    /\ UNCHANGED <<dbVars, procVars, mutex, handed, scanVars, faults, restarts>>

\* ton_wallets.subwallet_id is unique.
Conflict(h) == hs[h].id \in Ids

\* SaveTonWallet, SaveJettonWallet: one transaction for both rows of a Jetton
\* deposit.
Insert(h) ==
    LET id == hs[h].id
        user == hs[h].user
        currency == hs[h].currency
    IN  IF currency = Ton
        THEN /\ tonWallets' = tonWallets \cup {TonRow(id, "tonDeposit", user, TonAddress(id))}
             /\ UNCHANGED jettonWallets
        ELSE /\ tonWallets' = tonWallets \cup {TonRow(id, "jettonOwner", user, ProxyAddress(id))}
             /\ jettonWallets' = jettonWallets \cup
                  {JettonRow(id, currency, "jettonDeposit", user, Account(currency, id))}

Save(h) ==
    /\ At(h, "save") /\ ~Conflict(h)
    /\ Insert(h)
    /\ Goto(h, IF hs[h].currency = Ton THEN "putWallet" ELSE "putOwner")
    /\ UNCHANGED <<requests, procVars, mutex, handed, scanVars, faults, restarts>>

\* The database returns an error: for a number that is taken, or because the
\* connection broke or the client of the request went away, before or after the
\* rows were committed.
SaveFails(h) ==
    /\ At(h, "save")
    /\ \/ Conflict(h) /\ UNCHANGED <<tonWallets, jettonWallets, faults>>
       \/ /\ faults < MaxFaults /\ faults' = faults + 1
          /\ \/ UNCHANGED <<tonWallets, jettonWallets>>
             \/ ~Conflict(h) /\ Insert(h)
    /\ Return(h) /\ mutex' = Free
    /\ UNCHANGED <<requests, procVars, handed, scanVars, restarts>>

\* Mutant: the wallet is put into the book before its owner.
PutOwnerLast(h) ==
    /\ At(h, "putOwner")
    /\ book' = Put(book, Account(hs[h].currency, hs[h].id),
                   Info("jettonDeposit", ProxyAddress(hs[h].id), hs[h].user))
    /\ Goto(h, "putWallet")
    /\ UNCHANGED <<dbVars, phase, jettons, mutex, handed, scanVars, faults, restarts>>

PutOwner(h) ==
    /\ At(h, "putOwner")
    /\ book' = Put(book, ProxyAddress(hs[h].id), Info("jettonOwner", None, hs[h].user))
    /\ Goto(h, "putWallet")
    /\ UNCHANGED <<dbVars, phase, jettons, mutex, handed, scanVars, faults, restarts>>

WalletInfo(h) ==
    IF hs[h].currency = Ton THEN Info("tonDeposit", None, hs[h].user)
    ELSE Info("jettonDeposit", ProxyAddress(hs[h].id), hs[h].user)

PutWallet(h) ==
    /\ At(h, "putWallet")
    /\ book' = Put(book, Account(hs[h].currency, hs[h].id), WalletInfo(h))
    /\ Goto(h, "reply")
    /\ UNCHANGED <<dbVars, phase, jettons, mutex, handed, scanVars, faults, restarts>>

\* What the client learns: the account that payments to the address reach.
Deposit(account, user) == [account |-> account, user |-> user]

Reply(h) ==
    /\ At(h, "reply")
    /\ handed' = handed \cup {Deposit(Account(hs[h].currency, hs[h].id), hs[h].user)}
    /\ Return(h) /\ mutex' = Free
    /\ UNCHANGED <<dbVars, procVars, scanVars, faults, restarts>>

\* getAddresses: TON deposits of the user, and the user's Jetton deposits, from
\* the tables.
GetAddresses(user) ==
    {Deposit(r.address, user) :
        r \in {t \in tonWallets \cup jettonWallets :
                 t.user = user /\ t.type \in {"tonDeposit", "jettonDeposit"}}}

-----------------------------------------------------------------------------
(* sendWithdrawal *)

\* The id field of the handler holds the query; the destination is not an
\* internal address, or the request is refused here.
SendWithdrawal(h, user, query) ==
    /\ At(h, "idle")
    /\ requests[<<user, query>>] = 0     \* IsWithdrawalRequestUnique
    /\ hs' = [hs EXCEPT ![h] = [Idle EXCEPT !.pc = "insert", !.user = user, !.id = query]]
    /\ UNCHANGED <<dbVars, procVars, mutex, handed, scanVars, faults, restarts>>

\* Mutant: no unique index on (user_id, user_query_id, is_internal).
InsertConflictNever(h) == FALSE

InsertConflict(h) == requests[<<hs[h].user, hs[h].id>>] > 0

\* SaveWithdrawalRequest: saved, or refused by the index, or an error of the
\* database that leaves the row or not.
SaveWithdrawalRequest(h) ==
    /\ At(h, "insert")
    /\ \/ /\ ~InsertConflict(h)
          /\ requests' = [requests EXCEPT ![<<hs[h].user, hs[h].id>>] = @ + 1]
       \/ /\ InsertConflict(h) \/ faults < MaxFaults
          /\ UNCHANGED requests
    /\ faults' = IF requests' = requests /\ ~InsertConflict(h) THEN faults + 1 ELSE faults
    /\ Return(h)
    /\ UNCHANGED <<tonWallets, jettonWallets, procVars, mutex, handed, scanVars, restarts>>

-----------------------------------------------------------------------------
(* Payers and the block scanner *)

Payments == unscanned \cup missed \cup {c.payment : c \in credited}

Pay(d) ==
    /\ Cardinality(Payments) < MaxPayments
    /\ unscanned' = unscanned \cup {[n |-> Cardinality(Payments), deposit |-> d]}
    /\ UNCHANGED <<dbVars, procVars, hs, mutex, handed, credited, missed, faults, restarts>>

\* GetOwner and pushNotification end the process when a Jetton deposit has no
\* owner, or one that is not in the book.
Refused(account) ==
    /\ book[account].type = "jettonDeposit"
    /\ book[account].owner \notin DOMAIN book

UserOf(account) ==
    IF book[account].owner = None THEN book[account].user ELSE book[book[account].owner].user

\* filterTXs drops transactions of accounts that are not in the book; the others
\* are incomes of the user the book names.
ScanPayment(p) ==
    LET account == p.deposit.account
    IN  /\ phase = "up" /\ p \in unscanned
        /\ unscanned' = unscanned \ {p}
        /\ \/ /\ account \notin DOMAIN book
              /\ missed' = missed \cup {p} /\ UNCHANGED credited
           \/ /\ account \in DOMAIN book /\ ~Refused(account)
              /\ credited' = credited \cup {[payment |-> p, user |-> UserOf(account)]}
              /\ UNCHANGED missed
        /\ UNCHANGED <<dbVars, procVars, hs, mutex, handed, faults, restarts>>

-----------------------------------------------------------------------------
Process ==
    \/ \E config \in Configs : Start(config)
    \/ InitTonHotWallet
    \/ \E c \in DOMAIN jettons : InitJettonHotWallet(c)
    \/ Serve
    \/ End

Request(h) ==
    \/ \E user \in Users, c \in {Ton} \cup DOMAIN jettons : NewAddress(h, user, c)
    \/ \E w \in Withdrawals : SendWithdrawal(h, w[1], w[2])

Handle(h) ==
    \/ GenerateFails(h) \/ Generate(h)
    \/ Save(h) \/ SaveFails(h)
    \/ PutOwner(h) \/ PutWallet(h) \/ Reply(h)
    \/ SaveWithdrawalRequest(h)

Next ==
    \/ Process
    \/ \E h \in Handlers : Request(h) \/ Lock(h) \/ Handle(h)
    \/ \E d \in handed : Pay(d)
    \/ \E p \in unscanned : ScanPayment(p)

Spec == Init /\ [][Next]_vars

-----------------------------------------------------------------------------
(* Properties *)

\* A payment to an address that getNewAddress returned is recorded, for the user
\* who asked for it, whatever restarts and changes of the configuration come in
\* between: the scanner reads a block once and never again.
NewAddressesCredited ==
    /\ missed = {}
    /\ \A c \in credited : c.user = c.payment.deposit.user

\* The book says of an address what a restart would read from the tables: the
\* join on subwallet numbers finds the owner that was put.  Whenever the scanner
\* can see a Jetton deposit it can also see its owner, or it would end the
\* process.
BookMatchesTables ==
    /\ \A a \in DOMAIN book : a \in DOMAIN Loaded /\ book[a] = Loaded[a]
    /\ \A a \in DOMAIN book :
          book[a].type = "jettonDeposit" =>
              /\ book[a].owner \in DOMAIN book
              /\ book[book[a].owner].user = book[a].user

\* Two requests never generate the same number, also when a number was saved by
\* a request that failed and when numbers run out: the index refuses nobody.
NoConflict ==
    \A h \in Handlers : hs[h].pc = "save" => hs[h].id \notin Ids

\* One row per user and query, for concurrent and repeated requests.
UniqueRequests ==
    \A w \in Withdrawals : requests[w] <= 1

\* The Jetton wallets of one master are all saved under one currency, across
\* restarts with a renamed currency: incomes are added up by currency.
OneCurrencyPerMaster ==
    \A r, s \in jettonWallets : r.address.master = s.address.master => r.currency = s.currency

\* "Get all created addresses": each address that getAddresses lists is one the
\* scanner watches, when no request is about to put it into the book.
ListedIsWatched ==
    phase = "up" /\ (\A h \in Handlers : hs[h].pc \notin {"putOwner", "putWallet"}) =>
        \A user \in Users : \A d \in GetAddresses(user) : d.account \in DOMAIN book
=============================================================================
