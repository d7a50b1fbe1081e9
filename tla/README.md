# Verification of the TON payment processor

TLA+ models of the payment processor in `src/`, the TLC runs that check them on
small instances, and theorems about them with proofs for TLAPS. `PROJECT.json`
lists components, runs, mutants, the map from definitions to source lines,
findings, hazards and theorems.

## 1. The system

The service takes payments on deposit addresses, gathers them on a hot wallet
and pays withdrawals from it. Everything it must not forget is in PostgreSQL;
everything else is lost when the process ends. One process runs these
goroutines:

| component | state | operations | interacts with |
|---|---|---|---|
| shard tracker (`blockchain/shard_tracker.go`) | last known block, buffer, last masterchain block (memory) | `NextBlock`: poll the masterchain, walk shard blocks back to the last known one, hand them out oldest first; `Stop` | node; block scanner |
| block scanner (`core/block_scanner.go`) | none of its own; one database transaction per block | parse the transactions of known addresses into events, `SaveParsedBlockData`, then notifications; any error is `log.Fatalf` | tracker, database, queue and webhook |
| withdrawals processor (`core/withdrawal_processor.go`) | none | `waitSync`, sleep, cold wallet requests, build a batch, save it, send it | database, node |
| internal TON withdrawal processor (same file) | none | `waitSync`, tasks, save and send one withdrawal per deposit | database, node |
| expiration processor (same file) | none | `waitSync`, `SetExpired` | database |
| HTTP API (`api/handlers.go`) | none | new addresses, withdrawal requests, service withdrawals, status, incomes | database |
| database (`db/db.go`, `deploy/db`) | `withdrawal_requests`, `external_withdrawals`, `internal_withdrawals`, `external_incomes`, `internal_incomes`, `service_withdrawal_requests`, `ton_wallets`, `jetton_wallets`, `block_data`; address book in memory | queries and transactions | all |
| chain (external) | hot wallet (highload v2), deposit wallets (v3, destroyed by each withdrawal), Jetton wallets, proxies | executes an external message at most until its TTL, or never | node |

What is hard here: goroutines share only the database and decide on what it said
some time ago (`waitSync` and what follows it); a sent message is answered by a
block much later or not at all, so expiry and retry race with execution; the
process may end between any two statements and every error ends it; blocks are
handled once, in order, and a block that cannot be saved is met again after
every restart; transfers of a batch are told apart by address only; deposit
wallets destroy themselves, so an old message can be executed again.

What makes each part correct:

- external withdrawals: a request is paid at most once, its status is the truth,
  it is tried again only when its message can no longer be executed, and the
  scanner never meets a block that the database refuses;
- batches: paid for by the balance they were planned against, told apart by
  destination, within the size of a message, and one at a time;
- TON deposits: one withdrawal of a deposit at a time, nothing forgotten, amounts
  add up in spite of replays;
- Jetton deposits: the same, with incomes that are known only from balances and
  withdrawals of three transactions, as far as refused transfers of other senders
  leave it intact;
- shard tracker: every block of the shard once and in order;
- notifications: none twice, none before it is saved, lost only by an exit;
- service withdrawals: each message sent at most once, never mistaken for an
  income or an internal withdrawal, every request processed in the end unless
  another one stands in its way for good;
- addresses: no number given twice, the book in memory and the tables say the
  same, every payment to an address handed out is credited to its user.

## 2. Modules

| module | what it models |
|---|---|
| `ExternalWithdrawals` | requests, rows, the three goroutines, shutdown, crash, chain and clocks |
| `WithdrawalLifecycle` | abstract: what a client of the status API may rely on; `ExternalWithdrawals` implements it |
| `InternalWithdrawalLifecycle` | abstract: when money may leave a deposit and what the table says of it; `TonDepositWithdrawals` and `JettonDepositWithdrawals` implement it |
| `ExternalWithdrawalsProofs` | inductive invariant, safety theorems, status theorem and the refinement theorem |
| `HotWalletBatch` | cold wallet requests and `buildWithdrawalMessages` within the balances |
| `TonDepositWithdrawals` | payments to TON deposits and internal withdrawals from them |
| `JettonDepositWithdrawals` | Jetton deposits: batch, proxy, transfer, arrival on the hot wallet, incomes from balances |
| `ShardTracker` | tracker over a chain whose shard splits and merges |
| `ShardPrefix` | the arithmetic of `isInShard` on scaled-down numbers |
| `Notifications` | queue and webhook notifications after a block is saved |
| `ServiceWithdrawals` | what operators take back from proxies and TON deposits: API, both processors, scanner, bouncing transfers |
| `AddressBook` | start of the process, wallet tables, address book, concurrent API requests for addresses and withdrawals |
| `HotWalletBatchProofs`, `TonDepositProofs`, `JettonDepositProofs`, `ServiceProofs`, `ScannerProofs` (`ShardTracker` and `Notifications`), `AddressBookProofs` | inductive invariants and theorems of these components |
| `FiniteSums` | lemmas about maxima and sums over finite sets, cited by the proofs about money |
| `MC...` | constants for TLC |

### ExternalWithdrawals

Columns of `external_withdrawals` are sets of rows `<<message, request>>`; a
request has `processing` and `processed` as in the table. The withdrawals
processor goes `waitSync -> sleep -> built -> saved -> waitSync`: the points are
exactly where the process may end with a different outcome (nothing saved; rows
saved and message not sent; message sent). The expiration processor has one
point between `waitSync` and the clock read in `SetExpired`; `syncedAt` keeps
when it passed the check, and `ExpireDelay` bounds how much later the clock is
read (the context of `SetExpired` gives it 3 seconds). `ScanBlock` is
`SaveParsedBlockData` for one block: all or nothing, with `BlockError` where
`updateExternalWithdrawal` returns an error: the process ends (`Restart`, as after
any crash) and the block stays first. `ChainBlock` executes any valid messages and leaves
out any of their transfers (send mode 3 ignores errors). Block times and the
service clock may differ by `Skew` (`AllowableServiceToNodeTimeDiff`).

Left out: what the batch is made of (`HotWalletBatch`), the `confirmed` column,
and the two statements of `updateExternalWithdrawal` as separate steps.
`ExpiredIsVoid` says why that race is harmless: a row that `SetExpired` may touch
is never one of a message in an unscanned block.

### WithdrawalLifecycle

`not found -> pending -> processing -> processed | failed`, and
`processing -> pending` only while no message with the request was executed.
The refinement mapping is the status query itself, the set of requests whose
message the chain has executed, and the set it has paid.

### InternalWithdrawalLifecycle

`none -> open -> finished | failed` for each internal withdrawal, with what it
took from its deposit and is not booked yet (`way`) and what is booked
(`brought`). A withdrawal starts only for a deposit that has none open; it takes
only while it is not failed; everything it took is booked by the scanner; it
fails only while nothing of it is on its way. A Jetton withdrawal takes once; with
`Replays` one may take again, also when it is finished, as the message of a TON
deposit does. A withdrawal that somebody else has named in a message of his own is
`claimed`: it may be given up while what it took is on its way, or after it was
booked, and take when it is given up. Once a booked withdrawal was given up
(`TakenBack`), another one of its deposit may start next to one that is open. For
TON deposits nothing is ever claimed. The refinement mapping reads `stage` and `brought` from
`internal_withdrawals`; `way` is the sum of the executions in blocks that the
scanner has not read (TON), or the amount asked for when an unread transfer
succeeded (Jettons).

### HotWalletBatch

One action per task of the three loops of `buildWithdrawalMessages`, so that
incomes and API requests come in between. `budget` is the map `balances`;
`Taken` adds up what the message builders of `core/wallets.go` put into the
messages, independently of `decreaseBalances`. Which deposits have service or
internal tasks is any set of addresses. A hot wallet's residual balance below its
maximum is assumed, as `src/README.md:112` asks for; `config.go` does not check it. A lost batch leaves its requests in
processing into the next round, as the constants of the code allow
(80 s < 50 s + 40 s).

### TonDepositWithdrawals

A payment is one unit; a block has two slots, so a payment may come just before
or just after an execution in the same block. `LatestRows` and
`TonInternalTasks` are the join and the condition of
`GetTonInternalWithdrawalTasks`. A message may be executed again while it is
valid because the account is destroyed. `SendDelay` bounds the time between the
two clock reads of `withdrawTONsFromDeposit`. The service tasks of the same
goroutine are in `ServiceWithdrawals`.

### JettonDepositWithdrawals

A withdrawal is three transactions: the hot wallet sends to the proxy
(`sending_lt`), the Jetton wallet of the deposit transfers or fails
(`finish_lt` or `failed`), the hot wallet is notified (`internal_incomes`). The
chain keeps a draft of the next block with up to two transactions, so two of
these, or one and an income, share a block; a published block carries the
balances before and after it, and `UnknownIncome` is `calculateJettonAmounts` on
them. The processor reads the tasks, then the balances, then saves the rows one
by one and sends the message; the chain and the scanner go on in between.
The Jetton wallet is assumed to see every message of the proxy, and the balance
read to be at least as new as the last scanned block.

Anybody may send a transfer message to the Jetton wallet of a deposit.
The wallet refuses it, and `processJettonDepositInMsg` makes a failed internal
withdrawal of it without a look at the sender. `ForeignTransfer` is such a
transfer, with the memo of a withdrawal that was saved and is no longer in the
processor's hands, or with a comment that is none (`Null`: not a uuid, or of no
row). `claimed` collects what they named. `Refused` is when `SaveParsedBlockData`
returns an error for what a block says of a memo: the process ends and the block
stays first, so `ScanBlock` is no longer enabled. Otherwise `Failed` sets
`failed` on the row, finished or not, as `updateInternalWithdrawal` does.
The events of a block come account by account in the random order of a Go map, and
a block that failed is tried again at the next start; it counts as refused when no
order is accepted (`SavedAfter`).

### ShardTracker and ShardPrefix

A shard is its sequence of prefix bits. The chain makes blocks, splits the home
shard, merges it again (the next seqno is one more than the greater of the two)
and makes masterchain blocks; a node may answer with any of them. The recursion
of `getShardBlocksRecursively` is one step per block. `ShardPrefix`
holds the arithmetic of `isInShard`; `Decides` compares it with the sets of
accounts it stands for, for every prefix and shard byte of a small width, and
with the shards of bits that the tracker follows.

### Notifications

Every start of the process dials the queue before it makes the scanner
(`StartScanner`), and ends when there is no answer; `QueueTurns` takes the queue
down and up at any time. `SaveBlock` is `processBlock` up to the commit. Then each
income goes to each notificator; the queue has no confirms, so a message may be
lost whatever `Publish` returns; a webhook attempt without a 200 may have been
received. Later attempts of the webhook may succeed in the model although the code
sends a body that the first one has read to its end; the model allows more than the
code does there.

### ServiceWithdrawals

A request (a row of `service_withdrawal_requests`) is open, filled or processed.
The withdrawals processor goes `waitSync -> build -> save -> send`, one step per
task and one per update, the internal TON processor `waitSync -> loop -> send`;
both write the same columns. TON is counted in units of
`JettonTransferTonAmount`. `DISTINCT ON (from_address)` without an order is any
choice of one request per address. `ProxyTransfer` and `DepositTransfer` are the
chains of messages a transfer makes: the Jetton wallet transfers the amount, or
sends the TON back when it has less. A deposit's message may be executed again
while it is valid, as in `TonDepositWithdrawals`. `WithdrawTONs` is the internal
TON withdrawal in one step, as far as it takes a deposit's TON away.
`Confirmations`, `Refused` and `Incomes` are what the scanner makes of a
transaction. The filling of a request without a Jetton master would be a nil
dereference in `buildServiceFilling`; it has no step, so that liveness would miss
it if the API let such a request through. The API takes any address as
`jetton_master`: for one of `BadMasters` the questions to the master end in an
error, `log.Fatalf` ends the process, and the next round meets the request again.
Both queries have their `LIMIT`, over the addresses in the order of the database
(`FirstAddresses`, `AddressOrder`).

Left out: external and internal tasks of the same batch (`HotWalletBatch`) and
the `ton_amount` and `expired_at` columns, which nothing reads.

### AddressBook

Addresses are deterministic in the seed: an address is its kind, its subwallet
number and, for a Jetton wallet, its master. The process starts (`Loaded` is
`LoadAddressBook`, a join on subwallet numbers), creates the hot wallets that are
not saved yet, serves and may end at any point; every start may have another
`config.Jettons`. `getNewAddress` is one step per point where another goroutine
or the end of the process makes a difference: mutex, generation, commit, the put
of the owner, the put of the wallet, reply. `Candidates` has the `uint32`
arithmetic of the two generators, scaled down. An insert may fail before or after
its commit. `sendWithdrawal` is its uniqueness check and its insert. The scanner
drops a payment to an address that is not in the book.

## 3. Runs

| run | checks | shows |
|---|---|---|
| `ext_batch` | `NoDoublePayment`, `ExpiredIsVoid`, `NoBlockRefused`, `StatusTruthful`, `OneOpenRow`, `OneLiveMessage`, `ImplementsLifecycle` | two requests, same or different destination, two messages; for `OneLiveMessage` the comment "must be ExternalWithdrawalPeriod > ExternalMessageLifetime" of `config.go` is what makes it true |
| `ext_late_double` | `NoDoublePayment`, **violated** | finding 1 |
| `hot_batch` | types, `Affordable`, `DistinctDests`, `BatchFits`, `OneColdPerCurrency` | batches within the balances |
| `ton_deposit` | `OneLivePerDeposit`, `NoBlockRefused`, `NoStrandedDeposit`, `AmountsBalance`, `ImplementsLifecycle` | two deposits, replays, expiry, restart |
| `jetton_deposit` | types, `OneLivePerDeposit`, `NoBlockRefused`, `NoStrandedDeposit`, `AmountsBalance`, `ImplementsLifecycle` | two deposits, skipped, failed and lost transfers, incomes without notification, a refused transfer of somebody else; what it can break is what the properties except, and nothing else |
| `ton_late_refused` | `NoBlockRefused`, **violated** | finding 2 |
| `shard` | `SavedIsChain`, `Decides`, `CatchesUp` | depth-two shard, three masterchain blocks, a restart; liveness of the tracker; all 6-bit prefixes against all 3-bit shards |
| `notify` | `NoDuplicates`, `LostOnlyByExit`, `EveryBlockSaved` | two channels, two blocks, two incomes; a dead webhook does not hold up the scanner, a queue that cannot be dialled does until it can |
| `service` | `SentAtMostOnce`, `IncomeAccountedFor`, `NoBlockRefused`, `ProcessedIsFinal`, `ProxyRequestsProcessed`, `FilledUntilSwept` | two requests to a proxy and two TON deposits, a crash or a lost message anywhere, replays, an address that is no Jetton master, a `LIMIT` of one deposit; what was asked for is done once, and in the end unless such a master or deposits with lower addresses hold it up |
| `service_bounce` | `NoServiceIncome`, **violated** | finding 3 |
| `api` | `NewAddressesCredited`, `BookMatchesTables`, `NoConflict`, `UniqueRequests`, `OneCurrencyPerMaster` | two concurrent requests, failing inserts, restarts with a renamed or missing Jetton, numbers that run out |
| `api_unwatched` | `ListedIsWatched`, **violated** | finding 4 |

Every property of a passing run has a mutant, an operator next to the definition
that it changes as a plausible mistake would; with it TLC finds the property
violated.

### Bounds

Times are small numbers that keep the order of the real constants where it
matters: a message expires and is tried again within `MaxTime`, and the lagging
is at least a block gap. Two requests and two destinations are the smallest
instance with a batch, a shared destination and a partial failure; two messages
are a first try and a retry. `ExpireDelay = 2` with `BlockGap = 1` is the largest
delay that is safe, 3 the smallest that is not; likewise `SendDelay` 1 and 3
for TON deposits. The runs of `ExternalWithdrawals` have the two clocks agree
(`Skew = 0`); the proofs hold for every skew. Two payments and two withdrawals are a payment before and one
after a withdrawal, and a retry. In `jetton_deposit` a message is valid for the
tick it was built in (`Lifetime = 0`), which leaves room for its expiry, the
retry and a late transfer within `MaxTime`. One refused transfer of somebody else
(`MaxForeign`) is enough to stop the scanner, to fail a withdrawal before its
transfer and to fail a finished one. Two constraints of the run keep it small, and
the proofs do without them: with the memo of a withdrawal that transfer goes to the
Jetton wallet of the withdrawal (`OwnWallet`; the scanner does not compare the two,
so that the row is failed alike), and nothing is explored after a refused block
(`ScannerGoesOn`), where the rest is as with a scanner that is merely late. The
exception of `OneLivePerDeposit` is not
met with two withdrawals: it takes a finished one that was failed, a second one for
the same income while a newer income is published and not yet scanned, and a third
one (one deposit, three withdrawals and `MaxTime = 6` reach it). In `service` the hot wallet has one unit of TON, which two
requests and a payment are enough to spend and to get back; two requests are the
smallest case of one address asked for twice, of two addresses in one batch,
of a stale amount and, with `DepositLimit = 1`, of a deposit that another one keeps
out of the query. In `api` two requests run at once; of the three numbers left
two are used by TON wallets, the last one wrapping around if it were given out,
and two by Jetton wallets; three starts are two restarts. Symmetry permutes destinations and deposits, which
no definition tells apart. Runs do not check deadlock: the
bounds on time and counters end every behaviour.

### Fairness

Safety runs assume none. `shard` assumes weak fairness of the steps of the
scanner's goroutine, which nothing blocks, and strong fairness of the node
answering with its newest masterchain block; restarts are bounded.
`notify` assumes weak fairness of the scanner's steps: it runs, and is started
again when it ends: `docker-compose.yml` restarts the processor. Of the queue
nothing is assumed; `EveryBlockSaved` is about behaviours in which it can be dialled
from some time on, if it is configured at all.
`service` assumes weak fairness of both processors, of the hot wallet executing
what it was given and of the scanner; nobody has to pay, and a deposit's message
may be too old before it is executed. `ProxyRequestsProcessed` asks that again and
again all requests to proxies are processed, unless the hot wallet has no TON or a
request names what is no Jetton master, which ends every round for all requests.
A filled request whose filling was lost or swept stays filled: the code never fills
again, so `FilledUntilSwept` asks only for what it does. Such requests are
returned by `GetServiceDepositWithdrawalTasks` and skipped in every round; as many
of them as its `LIMIT`, with lower addresses, keep a deposit out for ever
(`Crowded`), and the property excepts that.

## 4. Proofs

Most theorems have the form `Spec => []P` for a property `P` that a run checks;
`ProcessedStays` and `BookedForGood` are action properties, and the three theorems
`Refinement` say that a specification implements an abstract one. The types of
`ExternalWithdrawals` and `TonDepositWithdrawals` and `BookedForGood` are proved
and not part of a run. All hold for every value of the constants allowed by the `ConstantsAssumption` of the module:
natural numbers, finite sets, and values that stand for NULL or "nobody" being
different from real ones. Some theorems have a timing hypothesis in addition, which
their statement names. Each inductive invariant `IInv` was checked by TLC on the
constants of the run before it was proved; each proof module has one lemma per
action and, where an action disturbs it, per conjunct.

### ExternalWithdrawalsProofs

The constants are natural numbers, block times are at least `BlockGap > 0` apart,
and `NoDest` is not a destination.

- `TypeCorrect`: types, for all constants. It needs that the message the
  processor holds was built (`HeldMsg`).
- `Invariance`: the inductive invariant `IInv`, under `PromptExpiry`
  (`ExpireDelay <= BlockGap + 1`). `NoDoublePayment` alone is not inductive: a
  step of the chain pays a request whenever a message with it is valid, so one
  has to know that a message with an expired row is too old for every block
  still to come. `IInv` says that rows belong to built messages and requests
  they carry; a request in processing has one open row; a message in the mempool
  or executed has all its rows; an expired row is of a message no block executed
  and that is too old for the next one; executed and unscanned blocks agree; and
  a synchronisation check bounds how far the clock is ahead of the last saved
  block. The key step is `ExpireStep`: synchronised at `syncedAt` means
  `syncedAt < scanTime + Lag`, expired means `ttl + Lag < now <= syncedAt +
  ExpireDelay`, hence `ttl < scanTime + BlockGap`, so no unscanned block can have
  executed the message.
- From it `NeverPaidTwice`, `ExpiryIsSafe`, `ScannerNeverRefuses`,
  `OneOpenRowAlways`, `StatusIsTruthful`.
- `OneMessageAtATime`, under `Period > Lifetime + Skew`: messages are built a
  period apart, because the sleep comes before the batch in every round and
  after every restart.
- `Refinement`: the service implements `WithdrawalLifecycle`, one lemma per
  action that moves an abstract variable.

### FiniteSums

Money is a sum over rows, messages or transactions, and the sums of the library
are recursive functions on sets. `FiniteSums` proves what the components need:
such a sum is a number, adding an element adds its value, changing one element
changes the sum by the difference, functions that agree have equal sums, and
`Max` is a greatest element. The library's induction theorems cannot be applied
here; every induction is an argument by a minimal counterexample instead, from
the well-foundedness of the subsets of a finite set.

### HotWalletBatchProofs

`TypeInvariance`, `BatchIsAffordable`, `DestinationsAreDistinct`, `BatchesFit`,
`ColdWithdrawalIsUnique`, with no timing condition. The batch is affordable
because of `BudgetInv`: while a batch is built, what `decreaseBalances` has left
and what the messages take together stay within the balance. Addresses are distinct
because of `TaskInv`: what is left to do in a loop never has the address of a
message already made, by a different filter in each of the three loops. The limit
holds although the service loop does not look at it, because its tasks are
limited (`LimitInv`).

### TonDepositProofs

`TypeInvariance`, `OneWithdrawalUnderWay`, `NoDepositForgotten`, `NothingLost`
hold with any timing. The tasks the loop holds stay true while the
scanner and the expiration processor go on (`TaskInv`), and a live withdrawal is newer than the
finished ones of its deposit (`OrderInv`), which is why the join on the greatest
`since_lt` finds it. `NoDepositForgotten` rests on `HeldInv`: money on a deposit
arrived after everything that was executed, by an income that is known or will
be read. `NothingLost` rests on `MoneyInv`, the same equation with what
the unread blocks will change. `ScannerNeverRefuses` is under `PromptSending`
(`SendDelay + ExpireDelay <= 2`): a message is valid for at most `SendDelay`
longer than its row says, and a row is given up only when the last saved block
lies beyond that. `ton_late_refused` shows that some condition is needed.

`Refinement`, under `PromptSending` too, is `ImplementsLifecycle`: `SimStep` maps
every step to a step of `InternalWithdrawalLifecycle` or to none, with one lemma per
action that moves an abstract variable. Three facts carry it. A withdrawal is
started where `TaskInv` says that nothing of its deposit is live. Of a row that
`SetExpired` has given up no execution is to be read and none can come
(`FailedHasNoWay`, from `TimeInv`): this is needed twice, when the row is given up
and when a block takes money for a valid message. And a scan takes exactly the one
execution of the block out of what is on its way (`TogetherFacts`), an amount that
is never zero (`PaidInv`). `BookedForGood` follows from the abstract
specification: no step revives a finished or given up withdrawal or lowers
what was booked (`NothingTakenBack`).

### JettonDepositProofs

`TypeInvariance`, `OneWithdrawalUnderWay`, `NoDepositForgotten` and `NothingLost`
hold with any timing. The argument has the outline of `TonDepositProofs`; what is
new is that a withdrawal is three transactions, that several withdrawals share a
message, and that an income may be known only as a difference of balances.

- `FlowInv` follows one withdrawal: sending, transfer and notification are in the
  unread blocks, the draft or the tables at most once each, in this order, and
  agree with what the proxy and the hot wallet still have to do. `MessageInv`
  says that a withdrawal still in a message has left nothing on the chain.
- `BalanceInv` says that blocks carry the balances of one another and that each
  change is explained by the transactions of the block. With it `UnknownIncome`
  is the number of incomes without notification: this is the step `ScanBlock` of
  `MoneyInv`, which puts the tables in balance with what was on the deposits at
  the last saved block. `NothingLost` is `MoneyInv` when all blocks are read.
- `HeldInv` and `PublishedInv` are why no deposit is forgotten. The amount of a withdrawal is read
  after the task, so it may contain newer incomes; but if more is on a deposit
  than its withdrawal takes, or anything after it has taken it, this comes from an
  income newer than the one the row was made for, known or to be read.
  `PublishedInv` says it of the balances of the last block, which a withdrawal that
  was failed by somebody else and is transferred later can take away again.
- `TaskInv` and `AgeInv` are the two facts that keep `OneLivePerDeposit`: tasks
  in the hands of the processor stay free of live withdrawals, and a live
  withdrawal is newer than the finished ones. Both leave out deposits of which a
  finished withdrawal was failed afterwards (`TakenBack`).
- Refused transfers of others disturb only what they name: `NamedInv` says that
  they name what is `claimed`, and `FailedOK` and the theorems except that.
  `NoDepositForgotten` and `NothingLost` need no exception: a row that is failed
  wrongly only makes the deposit a task again, and the amount of a finished row
  stays although it is failed.
- `ScannerNeverRefuses` says that a refused block is refused for a comment that
  somebody else sent, under `PromptExpiry` (`ExpireDelay <= 2`), and is proved
  with `TimeInv` on top of `IInv`: a withdrawal whose sending is still to be read
  was not given up. Without the condition `TimeInv` fails (TLC finds it with
  `ExpireDelay = 4`).
- `Refinement` and `BookedForGood`, under `PromptExpiry`, are the same statements
  as for TON, here without replays. A transfer takes what was asked for from the
  deposit in the draft of a block, and is booked when that block is read; a failed
  transfer gives the withdrawal up in the same scan that may book others, so one
  step books and gives up. `FlowInv` says that no second transfer can follow, and
  `AskedInv` that the amount is above zero, because the balance was above the
  cutoff when it was read.

### ScannerProofs

The two sides of the block scanner, with no timing condition. The module extends
both `ShardTracker` and `Notifications`, which share no variable; each theorem is
about one of them.

- `EveryBlockOnce` is `SavedIsChain` for every shard and any number of splits,
  merges, masterchain blocks and restarts. `SavedIsChain` is not inductive: the
  walk from the block of a masterchain block back to `lastKnownShardBlock`
  compares sequence numbers only, and a merge leaves gaps in them. `LineInv` says
  that the blocks of the service's shard are one line with distinct sequence
  numbers, in which no block lies between a block and the parent that
  `filterByShard` chooses; `TipsInv` that one shard of the chain is the
  service's, whatever splits and merges. Hence a walk that starts at a newer
  block meets the known one and cannot pass it (`WalkInv`), and one that starts
  at an older block ends at once. `TableInv` says that what is saved and buffered
  is a piece of the line that ends with the known block, so that the greatest
  sequence number, which `GetLastSavedBlockID` asks for at a start, is that of
  the block saved last. `GetMaster` takes any masterchain block, so old answers
  of the node are covered.
- `NoDuplicateOnRestart` and `LossNeedsAnExit`: `PushInv` says what is published
  and received while the notifications of a block are pushed, income by income
  and channel by channel; `FutureInv` that nothing is told of a block not saved.

### ServiceProofs

`OneMessageEach`, `ProcessedStays`, `IncomesAddUp`, `ServiceBlocksAccepted`. Two
processors write the same columns from what they read before. `HotInv` and
`DepositInv` say that they cannot disagree: what the first has built and not saved
is open, what the second holds is filled and waits, so no row is written by
both. `LedgerInv` says that incomes recorded and to be read are what was
paid and bounced, by the existence of a running total over the unread
transactions, which a step extends at one end or shortens at the other.

### AddressBookProofs

`PaymentsAreCredited`, `BookIsTheTables`, `NumbersDoNotCollide`,
`OneRowPerRequest`, `CurrencyOfMaster`, for any number of concurrent handlers. `LockInv` is mutual exclusion by
`Handler.mutex`; `HandlerInv` what holds at each point of `getNewAddress`;
`JettonInv` that a Jetton deposit has its owner row, so that the join of
`LoadAddressBook` finds it; `CurrencyInv` and `ServeInv` that the hot wallet of a
master was saved first and decides its currency. `PaymentsAreCredited` follows
from `HandedInv`: an address that was handed out is in the tables for good, and
in the book of every process that scans.

### Only model-checked

Liveness (`CatchesUp`, `EveryBlockSaved`, `ProxyRequestsProcessed`,
`FilledUntilSwept`), which is beyond the prover; and `Decides`, a statement about
bit arithmetic of a given width, which is evaluated for all values of a small
one and needs `Bitwise`, which the prover cannot load. Every other property of a
passing run is a theorem.

## 5. Findings

1. `ext_late_double` (with `Period = 0`, which keeps the run small; the trace needs
   only that the retry is built after the expiry): between `waitSync` and the clock read of `SetExpired` lie
   up to three seconds. If more than a block gap and a tick pass there, a message
   executed in a block not yet scanned can be expired and its request is sent
   again. `NeverPaidTwice` is the matching theorem: below the bound it cannot
   happen. `threat_model.md` names "check expiration taking into account time
   delay" as the mitigation.
2. `ton_late_refused`: `expired_at` and the TTL of a TON internal withdrawal come
   from two clock reads; when they are further apart than the comment expects,
   the scanner is stopped for good by a block it cannot save.
3. `service_bounce`: the second message of a service withdrawal from a TON deposit
   carries the Jetton balance read at the filling. When the Jettons are gone by
   then, or the message is executed again, the Jetton wallet sends the TON back;
   it is not in the address book, so the scanner saves an income nobody paid.
4. `api_unwatched`: an insert that commits and still returns an error leaves an
   address that the API lists and the scanner does not watch until the process
   starts again.

Remarks without a run. `threat_model.md:39-43` names the forgery of messages with
internal service data and as its mitigation "checking the addresses of the sender
and recipient of the message". `processJettonDepositInMsg`
(`block_scanner.go:1027-1036`) does not look at the sender of a transfer that the
Jetton wallet of a deposit refused. `JettonDepositWithdrawals` has such transfers,
and without their exceptions its properties fail: a comment that is no memo stops
the scanner at every restart (`NoBlockRefused` without `m \in claimed`), the memo of
a finished withdrawal fails it (`TypeOK`, `ImplementsLifecycle`), and the memo of
one that is under way fails it before its transfer, whose block is then refused.

The withdrawals processor sleeps 80 s after `waitSync`,
twice the allowable lagging, before it builds a batch, while `threat_model.md`
says there are no withdrawals until the service is synchronised.
`ExternalWithdrawals` has this sleep, and `NoDoublePayment` holds with it: the
safety of a batch does not rest on that check.

## 6. Plan

Done: all the models above, proofs of every safety property of the passing runs
but `Decides`, and of the three refinements.

What could follow: a statement of the tracker's promise as an abstract
specification that `ShardTracker` implements; a proxy message that never reaches
the Jetton wallet of the deposit, after which a withdrawal stays sent and
unfinished (the remaining hazard without a property); a composition of the two
kinds of deposits with the batches of the hot wallet.

Not modelled: HTTP parsing, rendering and authorisation, the queries of incomes
and history (they read the tables whose content `AmountsBalance` and
`IncomeAccountedFor` are about and change nothing), configuration parsing, lite
client calls and their decoding, audit log, metrics, test utilities, deployment
files.
