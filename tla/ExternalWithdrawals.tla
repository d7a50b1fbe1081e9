------------------------- MODULE ExternalWithdrawals -------------------------
(***************************************************************************)
(* The life of an external withdrawal: the rows of withdrawal_requests and *)
(* external_withdrawals, the three goroutines that touch them (the         *)
(* withdrawals processor, the expiration processor, the block scanner),    *)
(* and the hot wallet on the chain that executes, or never executes, the   *)
(* external message that carries a batch.                                  *)
(*                                                                         *)
(* Time is counted in ticks, of any length.  Block times are chain time,   *)
(* everything else is the service clock; the two differ by at most Skew.   *)
(* Table columns are sets: a row <<m, q>> of external_withdrawals belongs  *)
(* to message m (msg_uuid) and request q (query_id), and is in `failed`,   *)
(* `processedLt`, `txHash` when that column is set.                        *)
(***************************************************************************)
EXTENDS Naturals

CONSTANTS
    Dests,          \* destination addresses
    NoDest,         \* dest_address of a request not yet inserted
    Lifetime,       \* config.ExternalMessageLifetime
    Lag,            \* config.AllowableBlockchainLagging
    Period,         \* config.ExternalWithdrawalPeriod
    ExpireDelay,    \* longest time from waitSync to the clock reads of SetExpired
    Skew,           \* distance of chain clock and service clock
    BlockGap,       \* shortest distance of two block times (one second)
    MaxRequests,    \* bound: withdrawal requests saved
    MaxMsgs,        \* bound: external messages built
    MaxTime         \* bound: both clocks

ASSUME ConstantsAssumption ==
    /\ NoDest \notin Dests
    /\ Lifetime \in Nat /\ Lag \in Nat /\ Period \in Nat /\ ExpireDelay \in Nat
    /\ Skew \in Nat
    /\ BlockGap \in Nat \ {0}
    /\ MaxRequests \in Nat /\ MaxMsgs \in Nat /\ MaxTime \in Nat

Queries == 1..MaxRequests   \* query_id is a bigserial
Msgs == 1..MaxMsgs          \* external messages in the order they are built
NoTime == 0                 \* an absent time; real times start at 1

VARIABLES
    \* payments.withdrawal_requests
    lastQuery, dest, processing, processed,
    \* payments.external_withdrawals
    rows, failed, processedLt, txHash,
    \* payments.block_data: gen_utime of the last saved block
    scanTime,
    \* messages: how many were built, valid_until and requests of each
    lastMsg, ttl, batch,
    \* goroutines of the service
    ppc, wakeAt, epc, syncedAt, spc, stopping,
    \* the chain: last block time, blocks not yet scanned, messages that
    \* reached a node, time of the block that executed a message (NoTime: not
    \* executed), pairs <<m, q>> whose payment really left the hot wallet
    chainTime, unscanned, mempool, execAt, delivered,
    \* the service clock
    now

requestVars == <<lastQuery, dest, processing, processed>>
rowVars == <<rows, failed, processedLt, txHash>>
msgVars == <<lastMsg, ttl, batch>>
procVars == <<ppc, wakeAt>>
expVars == <<epc, syncedAt>>
serviceVars == <<procVars, expVars, spc, stopping>>
chainVars == <<chainTime, unscanned, mempool, execAt, delivered>>
vars == <<requestVars, rowVars, scanTime, msgVars, serviceVars, chainVars, now>>

-----------------------------------------------------------------------------
(* Queries of db.go *)

Saved(q) == dest[q] # NoDest

\* Mutant: one saved block is enough to be synchronised.
SyncedEver == scanTime # NoTime

\* IsActualBlockData: false before the first saved block.
Synced == scanTime # NoTime /\ now < scanTime + Lag

\* GetExternalWithdrawalTasks: the oldest request of every destination that is
\* not in processing.
ExternalTasks ==
    {q \in Queries : /\ Saved(q)
                     /\ ~processing[q]
                     /\ \A p \in Queries : dest[p] = dest[q] /\ p < q => processing[p]}

\* SELECT ... WHERE msg_uuid = m AND address = a
RowsTo(m, a) == {r \in rows : r[1] = m /\ dest[r[2]] = a}

\* A destination that occurs twice in a batch: rows are told apart by it.
UniqueAddrs(m) == \A p, q \in batch[m] : dest[p] = dest[q] => p = q

\* Mutant: the allowable lagging is not subtracted from the clock.
ExpiredRowsNoLag == {r \in rows \ (processedLt \cup failed) : ttl[r[1]] < now}

\* Mutant: the condition processed_lt IS NULL is missing.
ExpiredRowsEvenProcessed == {r \in rows \ failed : ttl[r[1]] + Lag < now}

\* Rows SetExpired marks: expired_at is the TTL of the message.
ExpiredRows == {r \in rows \ (processedLt \cup failed) : ttl[r[1]] + Lag < now}

\* GetExternalWithdrawalStatus: "must be only one record" for a finished request.
TxRows(q) == {r \in rows : r[2] = q /\ r \in txHash \cup processedLt}
Status(q) ==
    IF ~Saved(q) THEN "not found"
    ELSE CASE processing[q] /\ processed[q]   ->
                 IF \E r \in TxRows(q) : r \in failed THEN "failed"
                 ELSE IF TxRows(q) # {} THEN "processed" ELSE "error"
           [] processing[q] /\ ~processed[q]  -> "processing"
           [] ~processing[q] /\ ~processed[q] -> "pending"
           [] ~processing[q] /\ processed[q]  -> "bad status"

-----------------------------------------------------------------------------
Init ==
    /\ lastQuery = 0
    /\ dest = [q \in Queries |-> NoDest]
    /\ processing = [q \in Queries |-> FALSE]
    /\ processed = [q \in Queries |-> FALSE]
    /\ rows = {} /\ failed = {} /\ processedLt = {} /\ txHash = {}
    /\ scanTime = NoTime
    /\ lastMsg = 0
    /\ ttl = [m \in Msgs |-> NoTime]
    /\ batch = [m \in Msgs |-> {}]
    /\ ppc = "waitSync" /\ wakeAt = NoTime
    /\ epc = "waitSync" /\ syncedAt = NoTime
    /\ spc = "running" /\ stopping = FALSE
    /\ chainTime = NoTime /\ unscanned = {} /\ mempool = {}
    /\ execAt = [m \in Msgs |-> NoTime]
    /\ delivered = {}
    /\ now = 1

-----------------------------------------------------------------------------
(* Requests *)

\* The row inserted by the API handler, or for the cold wallet by the
\* withdrawals processor, to destination d.
SaveWithdrawalRequest(d) ==
    /\ lastQuery < MaxRequests
    /\ lastQuery' = lastQuery + 1
    /\ dest' = [dest EXCEPT ![lastQuery + 1] = d]
    /\ UNCHANGED <<processing, processed, rowVars, scanTime, msgVars,
                   serviceVars, chainVars, now>>

-----------------------------------------------------------------------------
(* Withdrawals processor: waitSync -> sleep -> built -> saved -> waitSync *)

\* Mutant: the batch is built before the sleep, not after it.
ProcessorSyncedNoSleep ==
    /\ ppc = "waitSync" /\ ~stopping /\ Synced
    /\ ppc' = "sleep" /\ wakeAt' = now
    /\ UNCHANGED <<requestVars, rowVars, scanTime, msgVars, expVars, spc,
                   stopping, chainVars, now>>

\* waitSync returned and the service is not stopping: sleep for a period.
ProcessorSynced ==
    /\ ppc = "waitSync" /\ ~stopping /\ Synced
    /\ ppc' = "sleep" /\ wakeAt' = now + Period
    /\ UNCHANGED <<requestVars, rowVars, scanTime, msgVars, expVars, spc,
                   stopping, chainVars, now>>

\* waitSync is interrupted, or returns, while the service is stopping.
ProcessorStopped ==
    /\ ppc = "waitSync" /\ stopping
    /\ ppc' = "stopped"
    /\ UNCHANGED <<requestVars, rowVars, scanTime, msgVars, wakeAt, expVars,
                   spc, stopping, chainVars, now>>

\* No task, or none that the balance covers: continue.
ProcessorNothing ==
    /\ ppc = "sleep" /\ now >= wakeAt
    /\ ppc' = "waitSync" /\ wakeAt' = NoTime
    /\ UNCHANGED <<requestVars, rowVars, scanTime, msgVars, expVars, spc,
                   stopping, chainVars, now>>

\* buildWithdrawalMessages and BuildExternalMessageForMany: any part of the
\* tasks may be left out (balance, batch limit, internal destination).
BuildMessage(S) ==
    /\ ppc = "sleep" /\ now >= wakeAt
    /\ lastMsg < MaxMsgs
    /\ S # {}
    /\ lastMsg' = lastMsg + 1
    /\ ttl' = [ttl EXCEPT ![lastMsg + 1] = now + Lifetime]
    /\ batch' = [batch EXCEPT ![lastMsg + 1] = S]
    /\ ppc' = "built" /\ wakeAt' = NoTime
    /\ UNCHANGED <<requestVars, rowVars, scanTime, expVars, spc, stopping,
                   chainVars, now>>

\* CreateExternalWithdrawals, one transaction: a row per request, and the
\* request goes into processing.  The unique index (msg_uuid, address) refuses
\* a batch with a repeated destination (fatal: Restart).
CreateExternalWithdrawals ==
    /\ ppc = "built" /\ UniqueAddrs(lastMsg)
    /\ rows' = rows \cup ({lastMsg} \X batch[lastMsg])
    /\ processing' = [q \in Queries |-> processing[q] \/ q \in batch[lastMsg]]
    /\ ppc' = "saved"
    /\ UNCHANGED <<lastQuery, dest, processed, failed, processedLt, txHash,
                   scanTime, msgVars, wakeAt, expVars, spc, stopping, chainVars, now>>

\* SendExternalMessage: an error is only logged, and whatever the answer the
\* message may or may not have reached a node.
SendMessage ==
    /\ ppc = "saved"
    /\ mempool' \in {mempool, mempool \cup {lastMsg}}
    /\ ppc' = "waitSync"
    /\ UNCHANGED <<requestVars, rowVars, scanTime, msgVars, wakeAt, expVars, spc,
                   stopping, chainTime, unscanned, execAt, delivered, now>>

-----------------------------------------------------------------------------
(* Expiration processor *)

\* Mutant: the shutdown flag is looked at before waitSync, not after it.
ExpirationStopBeforeSync ==
    /\ epc = "waitSync" /\ (Synced \/ stopping)
    /\ epc' = "expire" /\ syncedAt' = now
    /\ UNCHANGED <<requestVars, rowVars, scanTime, msgVars, procVars, spc,
                   stopping, chainVars, now>>

ExpirationSynced ==
    /\ epc = "waitSync" /\ ~stopping /\ Synced
    /\ epc' = "expire" /\ syncedAt' = now
    /\ UNCHANGED <<requestVars, rowVars, scanTime, msgVars, procVars, spc,
                   stopping, chainVars, now>>

ExpirationStopped ==
    /\ epc = "waitSync" /\ stopping
    /\ epc' = "stopped"
    /\ UNCHANGED <<requestVars, rowVars, scanTime, msgVars, procVars, syncedAt,
                   spc, stopping, chainVars, now>>

\* Mutant: the requests are not given back.
SetExpiredNoReset ==
    /\ epc = "expire" /\ now <= syncedAt + ExpireDelay
    /\ failed' = failed \cup ExpiredRows
    /\ epc' = "waitSync" /\ syncedAt' = NoTime
    /\ UNCHANGED <<requestVars, rows, processedLt, txHash, scanTime,
                   msgVars, procVars, spc, stopping, chainVars, now>>

\* SetExpired within its context timeout (later it is a fatal error: Restart).
\* The transaction fails the rows and resets processing of their requests.
SetExpired ==
    /\ epc = "expire" /\ now <= syncedAt + ExpireDelay
    /\ failed' = failed \cup ExpiredRows
    /\ processing' = [q \in Queries |-> processing[q] /\ \A r \in ExpiredRows : r[2] # q]
    /\ epc' = "waitSync" /\ syncedAt' = NoTime
    /\ UNCHANGED <<lastQuery, dest, processed, rows, processedLt, txHash, scanTime,
                   msgVars, procVars, spc, stopping, chainVars, now>>

-----------------------------------------------------------------------------
(* Block scanner *)

\* parseExternalMessage: destinations of the batch, and those that got an out
\* message (processTonHotWalletExternalInMsg; the others are failedWithdrawals).
InAddrs(m) == {dest[q] : q \in batch[m]}
OutAddrs(m) == {dest[r[2]] : r \in {s \in delivered : s[1] = m}}

\* updateExternalWithdrawal refuses a row that is already failed, and a
\* destination without a row.
BlockError(t) ==
    \E m \in Msgs : /\ execAt[m] = t
                    /\ \/ ~UniqueAddrs(m)
                       \/ \E a \in InAddrs(m) : RowsTo(m, a) \cap failed # {}
                       \/ \E a \in InAddrs(m) : RowsTo(m, a) = {}

IsNextBlock(t) == t \in unscanned /\ \A u \in unscanned : t <= u

\* Rows updateExternalWithdrawal finds by msg_uuid and address for the messages
\* of block t, and those of them the transaction really paid.
BlockRows(t) == {r \in rows : execAt[r[1]] = t /\ dest[r[2]] \in InAddrs(r[1])}

\* Mutant: an executed message counts as paid whatever its out messages.
SentRowsAll(t) == BlockRows(t)

SentRows(t) == {r \in BlockRows(t) : dest[r[2]] \in OutAddrs(r[1])}

\* processBlock of the next block: SaveParsedBlockData commits everything the
\* block says about external withdrawals together with the block itself.
ScanBlock(t) ==
    /\ spc = "running" /\ IsNextBlock(t) /\ ~BlockError(t)
    /\ processedLt' = processedLt \cup SentRows(t)
    /\ failed' = failed \cup (BlockRows(t) \ SentRows(t))
    /\ txHash' = txHash \cup BlockRows(t)
    /\ processed' = [q \in Queries |-> processed[q] \/ \E r \in BlockRows(t) : r[2] = q]
    /\ scanTime' = t
    /\ unscanned' = unscanned \ {t}
    /\ UNCHANGED <<lastQuery, dest, processing, rows, msgVars, serviceVars,
                   chainTime, mempool, execAt, delivered, now>>

ScannerStopped ==
    /\ spc = "running" /\ stopping
    /\ spc' = "stopped"
    /\ UNCHANGED <<requestVars, rowVars, scanTime, msgVars, procVars, expVars,
                   stopping, chainVars, now>>

-----------------------------------------------------------------------------
(* The process *)

\* SIGTERM: blockScanner.Stop and withdrawalsProcessor.Stop.
Stop ==
    /\ ~stopping
    /\ stopping' = TRUE
    /\ UNCHANGED <<requestVars, rowVars, scanTime, msgVars, procVars, expVars,
                   spc, chainVars, now>>

\* What the process forgets when it ends: the rest is in the database or on
\* the chain.
ProcessExit ==
    /\ ppc' = "waitSync" /\ wakeAt' = NoTime
    /\ epc' = "waitSync" /\ syncedAt' = NoTime
    /\ spc' = "running" /\ stopping' = FALSE
    /\ UNCHANGED <<requestVars, rowVars, scanTime, msgVars, chainVars, now>>

\* A crash, a kill, a timeout that ends in log.Fatal or a clean end of the
\* process, and its next start.  The same happens when the database refuses the
\* next block (BlockError): its transaction is rolled back, log.Fatalf ends the
\* process, and the block is again the first one after the start.
Restart ==
    /\ \/ ppc # "waitSync" \/ epc # "waitSync" \/ stopping
    /\ ProcessExit

-----------------------------------------------------------------------------
(* The chain and the clock *)

\* A block at chain time t executes messages E of the mempool that are still
\* valid (the highload wallet executes a message once, and not after its
\* valid_until); out messages D of theirs are sent, the others are skipped
\* (send mode 3 ignores errors).
ChainBlock(t, E, D) ==
    /\ t >= chainTime + BlockGap
    /\ t <= now + Skew /\ now <= t + Skew
    /\ \A m \in E : execAt[m] = NoTime /\ t <= ttl[m]
    /\ chainTime' = t
    /\ unscanned' = unscanned \cup {t}
    /\ execAt' = [m \in Msgs |-> IF m \in E THEN t ELSE execAt[m]]
    /\ delivered' = delivered \cup D
    /\ UNCHANGED <<requestVars, rowVars, scanTime, msgVars, serviceVars, mempool, now>>

\* The transfers that messages E ask the hot wallet to send.
Outgoing(E) == {r \in Msgs \X Queries : r[1] \in E /\ r[2] \in batch[r[1]]}

Tick ==
    /\ now < MaxTime
    /\ now' = now + 1
    /\ UNCHANGED <<requestVars, rowVars, scanTime, msgVars, serviceVars, chainVars>>

-----------------------------------------------------------------------------
Next ==
    \/ \E d \in Dests : SaveWithdrawalRequest(d)
    \/ ProcessorSynced
    \/ ProcessorStopped
    \/ ProcessorNothing
    \/ \E S \in SUBSET ExternalTasks : BuildMessage(S)
    \/ CreateExternalWithdrawals
    \/ SendMessage
    \/ ExpirationSynced
    \/ ExpirationStopped
    \/ SetExpired
    \/ \E t \in unscanned : ScanBlock(t)
    \/ ScannerStopped
    \/ Stop
    \/ Restart
    \/ \E t \in 1..MaxTime : \E E \in SUBSET mempool :
          \E D \in SUBSET Outgoing(E) : ChainBlock(t, E, D)
    \/ Tick

Spec == Init /\ [][Next]_vars

-----------------------------------------------------------------------------
(* Properties *)

\* The columns describe rows that exist (failed, processed_lt and tx_hash are
\* set on rows of external_withdrawals only), and the goroutines are at one of
\* their steps.
TypeOK ==
    /\ lastQuery \in 0..MaxRequests
    /\ dest \in [Queries -> Dests \cup {NoDest}]
    /\ processing \in [Queries -> BOOLEAN] /\ processed \in [Queries -> BOOLEAN]
    /\ rows \subseteq Msgs \X Queries
    /\ failed \subseteq rows /\ processedLt \subseteq rows /\ txHash \subseteq rows
    /\ scanTime \in Nat
    /\ lastMsg \in 0..MaxMsgs
    /\ ttl \in [Msgs -> Nat] /\ batch \in [Msgs -> SUBSET Queries]
    /\ ppc \in {"waitSync", "sleep", "built", "saved", "stopped"} /\ wakeAt \in Nat
    /\ epc \in {"waitSync", "expire", "stopped"} /\ syncedAt \in Nat
    /\ spc \in {"running", "stopped"} /\ stopping \in BOOLEAN
    /\ chainTime \in Nat /\ unscanned \subseteq Nat \ {NoTime}
    /\ mempool \subseteq Msgs /\ execAt \in [Msgs -> Nat]
    /\ delivered \subseteq Msgs \X Queries
    /\ now \in Nat

\* No request is paid by two messages: a withdrawal whose message was given up
\* by SetExpired and sent again was never, and will never be, paid by the first.
NoDoublePayment ==
    \A r, s \in delivered : r[2] = s[2] => r = s

\* A row the expiration processor failed belongs to a message that no block
\* executed and that is no longer valid in any later block.
ExpiredIsVoid ==
    \A r \in failed \ txHash :
        /\ execAt[r[1]] = NoTime
        /\ ttl[r[1]] < chainTime + BlockGap

\* The scanner never meets a block that updateExternalWithdrawal refuses; one
\* would end the process at every restart.
NoBlockRefused ==
    \A t \in unscanned : ~BlockError(t)

\* The status API tells the truth: it finds one record for a finished request,
\* never a "bad status"; "processed" means paid, "failed" means that no message
\* ever pays the request.
StatusTruthful ==
    \A q \in Queries :
        /\ Status(q) \notin {"bad status", "error"}
        /\ \A r, s \in TxRows(q) : r = s
        /\ Status(q) = "processed" => \E r \in delivered : r[2] = q
        /\ Status(q) = "failed" => \A r \in delivered : r[2] # q

\* A request in processing has exactly one row that is not failed by expiry: it
\* is neither forgotten after a crash nor carried by two live messages.
OneOpenRow ==
    \A q \in Queries :
        LET open == {r \in rows : r[2] = q /\ r \notin failed \ txHash}
        IN  /\ processing[q] <=> open # {}
            /\ \A r, s \in open : r = s

\* At most one external message of the hot wallet can still be executed, across
\* crashes and restarts too: the balance that a batch is planned against is not
\* spent by an earlier one (ExternalWithdrawalPeriod > ExternalMessageLifetime).
CanExecute(m) == execAt[m] = NoTime /\ now <= ttl[m] + Skew
OneLiveMessage ==
    \A m, n \in 1..lastMsg : CanExecute(m) /\ CanExecute(n) => m = n

\* The service implements the lifecycle of a request: it is tried again only
\* while no message with it was executed, and is decided at most once.
Executed == {q \in Queries : \E r \in rows : r[2] = q /\ execAt[r[1]] # NoTime}
Lifecycle == INSTANCE WithdrawalLifecycle
    WITH Requests <- Queries,
         status <- [q \in Queries |-> Status(q)],
         decided <- Executed,
         paid <- {q \in Queries : \E r \in delivered : r[2] = q}
ImplementsLifecycle == Lifecycle!Spec
=============================================================================
