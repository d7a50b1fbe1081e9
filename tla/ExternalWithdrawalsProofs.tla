---------------------- MODULE ExternalWithdrawalsProofs ----------------------
(***************************************************************************)
(* Theorems about ExternalWithdrawals for every value of its constants:    *)
(* any number of requests, messages and destinations, any clock skew, any  *)
(* message lifetime and any tick length.                                   *)
(***************************************************************************)
EXTENDS ExternalWithdrawals, TLAPS

\* The one timing condition safety rests on: SetExpired reads the clock soon
\* enough after waitSync.  In the limit of fine ticks it says "within the
\* distance of two block times", one second.
PromptExpiry == ExpireDelay <= BlockGap + 1

-----------------------------------------------------------------------------
(* The inductive invariant *)

\* Unscanned blocks lie beyond the last saved one, BlockGap apart.
BlocksInv ==
    /\ scanTime <= chainTime
    /\ \A t \in unscanned : scanTime + BlockGap <= t /\ t <= chainTime
    /\ \A t, u \in unscanned : t < u => t + BlockGap <= u

\* While SetExpired is due, the last saved block is recent enough.
SyncInv == epc = "expire" => syncedAt < scanTime + Lag

RequestInv == \A q \in Queries : q > lastQuery => dest[q] = NoDest

\* Batches consist of saved requests to different destinations.
BatchInv ==
    \A m \in Msgs :
        /\ m > lastMsg => batch[m] = {}
        /\ \A q \in batch[m] : Saved(q)
        /\ UniqueAddrs(m)

\* Rows exist for built messages only, for all of a batch once it may be sent.
RowInv ==
    /\ \A r \in rows : r[1] <= lastMsg /\ r[2] \in batch[r[1]]
    /\ \A m \in mempool : m <= lastMsg /\ \A q \in batch[m] : <<m, q>> \in rows

\* Between building and sending, the processor holds message lastMsg.
HeldMsg == ppc \in {"built", "saved"} => lastMsg \in Msgs

\* Its requests are free before their rows are created, and have rows after.
ProcInv ==
    /\ ppc = "built" => /\ \A r \in rows : r[1] # lastMsg
                        /\ lastMsg \notin mempool
                        /\ \A q \in batch[lastMsg] : ~processing[q]
    /\ ppc = "saved" => \A q \in batch[lastMsg] : <<lastMsg, q>> \in rows

\* An executed message was sent, was valid, and its block is scanned or waiting.
ExecInv ==
    /\ \A m \in Msgs : execAt[m] # NoTime =>
          /\ m \in mempool
          /\ execAt[m] <= ttl[m]
          /\ execAt[m] \in unscanned \/ execAt[m] <= scanTime
    /\ \A r \in delivered : execAt[r[1]] # NoTime /\ r[2] \in batch[r[1]]

\* An expired row's message is void, as seen from the last saved block.
VoidInv ==
    \A r \in failed \ txHash :
        /\ execAt[r[1]] = NoTime
        /\ ttl[r[1]] < scanTime + BlockGap

\* A row has a transaction hash iff its message's block is saved; then it is
\* processed or failed according to what left the hot wallet.
TxInv ==
    \A r \in rows :
        /\ r \in txHash <=> (execAt[r[1]] # NoTime /\ execAt[r[1]] <= scanTime)
        /\ r \in processedLt <=> (r \in txHash /\ r \in delivered)
        /\ r \in txHash => (r \in failed <=> r \notin delivered)

ProcessedInv ==
    \A q \in Queries : processed[q] <=> \E r \in txHash : r[2] = q

IInv ==
    /\ TypeOK
    /\ HeldMsg
    /\ BlocksInv
    /\ SyncInv
    /\ RequestInv
    /\ BatchInv
    /\ RowInv
    /\ ProcInv
    /\ ExecInv
    /\ VoidInv
    /\ TxInv
    /\ ProcessedInv
    /\ OneOpenRow

-----------------------------------------------------------------------------
(* Type correctness *)

\* Every action keeps the types; HeldMsg is needed because rows and mempool
\* take the number of the held message.
LEMMA TypeStep == TypeOK /\ HeldMsg /\ [Next]_vars => TypeOK' /\ HeldMsg'
<1> SUFFICES ASSUME TypeOK, HeldMsg, [Next]_vars PROVE TypeOK' /\ HeldMsg'
  OBVIOUS
<1> USE ConstantsAssumption DEF TypeOK, HeldMsg, Queries, Msgs, NoTime
<1>1. ASSUME NEW d \in Dests, SaveWithdrawalRequest(d) PROVE TypeOK' /\ HeldMsg'
  <2>1. lastQuery' \in 0..MaxRequests
    BY <1>1 DEF SaveWithdrawalRequest
  <2>2. dest' \in [Queries -> Dests \cup {NoDest}]
    BY <1>1 DEF SaveWithdrawalRequest
  <2> QED
    BY <1>1, <2>1, <2>2 DEF SaveWithdrawalRequest, rowVars, msgVars, serviceVars,
       procVars, expVars, chainVars
<1>2. CASE ProcessorSynced
  <2>1. /\ ppc' = "sleep" /\ wakeAt' = now + Period
        /\ UNCHANGED <<requestVars, rowVars, scanTime, msgVars, expVars, spc,
                       stopping, chainVars, now>>
    BY <1>2 DEF ProcessorSynced
  <2>2. wakeAt' \in Nat
    BY <2>1
  <2> QED
    BY <2>1, <2>2 DEF requestVars, rowVars, msgVars, expVars, chainVars
<1>3. CASE ProcessorStopped
  BY <1>3 DEF ProcessorStopped, requestVars, rowVars, msgVars, expVars, chainVars
<1>4. CASE ProcessorNothing
  BY <1>4 DEF ProcessorNothing, requestVars, rowVars, msgVars, expVars, chainVars
<1>5. ASSUME NEW S \in SUBSET ExternalTasks, BuildMessage(S) PROVE TypeOK' /\ HeldMsg'
  <2>1. S \in SUBSET Queries
    BY DEF ExternalTasks
  <2> QED
    BY <1>5, <2>1 DEF BuildMessage, requestVars, rowVars, expVars, chainVars
<1>6. CASE CreateExternalWithdrawals
  BY <1>6 DEF CreateExternalWithdrawals, msgVars, expVars, chainVars
<1>7. CASE SendMessage
  BY <1>7 DEF SendMessage, requestVars, rowVars, msgVars, expVars
<1>8. CASE ExpirationSynced
  BY <1>8 DEF ExpirationSynced, requestVars, rowVars, msgVars, procVars, chainVars
<1>9. CASE ExpirationStopped
  BY <1>9 DEF ExpirationStopped, requestVars, rowVars, msgVars, procVars, chainVars
<1>10. CASE SetExpired
  BY <1>10 DEF SetExpired, ExpiredRows, msgVars, procVars, chainVars
<1>11. ASSUME NEW t \in unscanned, ScanBlock(t) PROVE TypeOK' /\ HeldMsg'
  BY <1>11 DEF ScanBlock, SentRows, BlockRows, msgVars, serviceVars, procVars, expVars
<1>12. CASE ProcessExit
  BY <1>12 DEF ProcessExit, requestVars, rowVars, msgVars, chainVars
<1>13. CASE ScannerStopped
  BY <1>13 DEF ScannerStopped, requestVars, rowVars, msgVars, procVars, expVars, chainVars
<1>14. CASE Stop
  BY <1>14 DEF Stop, requestVars, rowVars, msgVars, procVars, expVars, chainVars
<1>15. ASSUME NEW t \in 1..MaxTime, NEW E \in SUBSET mempool,
              NEW D \in SUBSET Outgoing(E), ChainBlock(t, E, D)
       PROVE  TypeOK' /\ HeldMsg'
  BY <1>15 DEF ChainBlock, Outgoing, requestVars, rowVars, msgVars, serviceVars, procVars, expVars
<1>16. CASE Tick
  <2>1. now' \in Nat
    BY <1>16 DEF Tick
  <2>2. UNCHANGED <<requestVars, rowVars, scanTime, msgVars, serviceVars, chainVars>>
    BY <1>16 DEF Tick
  <2> QED
    BY <2>1, <2>2 DEF requestVars, rowVars, msgVars, serviceVars, procVars, expVars, chainVars
<1>17. CASE UNCHANGED vars
  BY <1>17 DEF vars, requestVars, rowVars, msgVars, serviceVars, procVars, expVars, chainVars
<1>18. CASE Restart
  BY <1>12, <1>18 DEF Restart
<1> HIDE ConstantsAssumption DEF TypeOK, HeldMsg, Queries, Msgs, NoTime
<1> QED
  BY <1>1, <1>2, <1>3, <1>4, <1>5, <1>6, <1>7, <1>8, <1>9, <1>10, <1>11,
     <1>13, <1>14, <1>15, <1>16, <1>17, <1>18, Zenon DEF Next

\* The empty tables of the first start are typed.
LEMMA InitTyped == Init => TypeOK /\ HeldMsg
<1> SUFFICES ASSUME Init PROVE TypeOK /\ HeldMsg
  OBVIOUS
<1>1. /\ processing \in [Queries -> BOOLEAN] /\ processed \in [Queries -> BOOLEAN]
        /\ stopping \in BOOLEAN
  BY Zenon DEF Init
<1>2. /\ dest \in [Queries -> Dests \cup {NoDest}]
        /\ ttl \in [Msgs -> Nat] /\ execAt \in [Msgs -> Nat]
        /\ batch \in [Msgs -> SUBSET Queries]
  BY DEF Init, NoTime
<1> QED
  BY <1>1, <1>2, ConstantsAssumption DEF Init, TypeOK, HeldMsg, NoTime

\* TypeOK holds in every reachable state, whatever the bounds and the timing.
THEOREM TypeCorrect == Spec => []TypeOK
BY InitTyped, TypeStep, PTL DEF Spec

-----------------------------------------------------------------------------
(* The inductive step: what each group of actions does to the invariant *)

coreVars == <<requestVars, rowVars, scanTime, msgVars, chainVars>>

\* Steps that only move a goroutine, the process or the clock.
LEMMA QuietStep ==
  ASSUME IInv, TypeOK', HeldMsg', UNCHANGED coreVars,
         ppc' \in {ppc, "waitSync", "sleep", "stopped"},
         epc' = "expire" => syncedAt' < scanTime + Lag
  PROVE  IInv'
<1> USE DEF IInv, coreVars, requestVars, rowVars, msgVars, chainVars
<1>1. BlocksInv' /\ RequestInv' /\ BatchInv' /\ RowInv'
  BY DEF BlocksInv, RequestInv, BatchInv, RowInv, Saved, UniqueAddrs
<1>2. SyncInv'
  BY DEF SyncInv
<1>3. ProcInv'
  BY DEF ProcInv
<1>4. ExecInv' /\ VoidInv' /\ TxInv'
  BY DEF ExecInv, VoidInv, TxInv
<1>5. ProcessedInv' /\ OneOpenRow'
  BY DEF ProcessedInv, OneOpenRow
<1> QED
  BY <1>1, <1>2, <1>3, <1>4, <1>5

\* A new request gets a fresh number, so no batch or row mentions it.
LEMMA SaveStep ==
  ASSUME IInv, TypeOK', HeldMsg', NEW d \in Dests, SaveWithdrawalRequest(d)
  PROVE  IInv'
<1> USE DEF IInv, SaveWithdrawalRequest, rowVars, msgVars, serviceVars, procVars,
            expVars, chainVars
<1>1. lastQuery + 1 \in Queries /\ dest[lastQuery + 1] = NoDest
  BY ConstantsAssumption DEF TypeOK, RequestInv, Queries
<1>2. \A q \in Queries : q # lastQuery + 1 => dest'[q] = dest[q]
  BY DEF TypeOK
<1>3. RequestInv'
  BY <1>1, <1>2 DEF RequestInv, TypeOK, Queries
<1>4. BatchInv'
  <2> SUFFICES ASSUME NEW m \in Msgs
               PROVE  /\ m > lastMsg => batch[m] = {}
                      /\ \A q \in batch[m] : dest'[q] # NoDest
                      /\ \A p, q \in batch[m] : dest'[p] = dest'[q] => p = q
    BY DEF BatchInv, Saved, UniqueAddrs
  <2>1. \A q \in batch[m] : q \in Queries /\ q # lastQuery + 1 /\ dest[q] # NoDest
    BY <1>1 DEF BatchInv, Saved, TypeOK
  <2> QED
    BY <1>2, <2>1 DEF BatchInv, UniqueAddrs
<1>5. BlocksInv' /\ SyncInv' /\ RowInv' /\ ProcInv'
  BY DEF BlocksInv, SyncInv, RowInv, ProcInv
<1>6. ExecInv' /\ VoidInv' /\ TxInv'
  BY DEF ExecInv, VoidInv, TxInv
<1>7. ProcessedInv' /\ OneOpenRow'
  BY DEF ProcessedInv, OneOpenRow
<1> QED
  BY <1>3, <1>4, <1>5, <1>6, <1>7

\* The new message is fresh, and its requests are oldest of their destination,
\* hence of different destinations.
LEMMA BuildStep ==
  ASSUME IInv, TypeOK', HeldMsg', NEW S \in SUBSET ExternalTasks, BuildMessage(S)
  PROVE  IInv'
<1> USE DEF IInv, BuildMessage, requestVars, rowVars, expVars, chainVars
<1> DEFINE n == lastMsg + 1
<1>1. n \in Msgs /\ batch[n] = {}
  BY ConstantsAssumption DEF TypeOK, BatchInv, Msgs
<1>2. /\ batch'[n] = S
      /\ \A m \in Msgs : m # n => batch'[m] = batch[m] /\ ttl'[m] = ttl[m]
  BY <1>1 DEF TypeOK
<1>3. \A r \in rows : r \in Msgs \X Queries /\ r[1] # n
  BY DEF TypeOK, RowInv
<1>4. n \notin mempool /\ \A m \in mempool : m \in Msgs
  BY DEF TypeOK, RowInv
<1>5. /\ \A q \in S : q \in Queries /\ Saved(q) /\ ~processing[q]
      /\ \A p, q \in S : dest[p] = dest[q] => p = q
  BY ConstantsAssumption DEF ExternalTasks, Queries
<1>6. BatchInv'
  BY <1>1, <1>2, <1>5 DEF BatchInv, Saved, UniqueAddrs, TypeOK, Msgs
<1>7. RowInv'
  <2>1. \A r \in rows : r[1] \in Msgs /\ r[1] <= lastMsg' /\ r[2] \in batch'[r[1]]
    BY <1>2, <1>3 DEF RowInv, TypeOK, Msgs
  <2>2. \A m \in mempool : m <= lastMsg' /\ \A q \in batch'[m] : <<m, q>> \in rows
    BY <1>2, <1>4 DEF RowInv, TypeOK, Msgs
  <2> QED
    BY <2>1, <2>2 DEF RowInv
<1>8. ProcInv'
  BY <1>2, <1>3, <1>4, <1>5 DEF ProcInv
<1>9. ExecInv'
  BY <1>1, <1>2, <1>4 DEF ExecInv, TypeOK
<1>10. VoidInv'
  BY <1>2, <1>3 DEF VoidInv, TypeOK
<1>11. BlocksInv' /\ SyncInv' /\ RequestInv' /\ TxInv'
  BY DEF BlocksInv, SyncInv, RequestInv, TxInv
<1>12. ProcessedInv' /\ OneOpenRow'
  BY DEF ProcessedInv, OneOpenRow
<1> QED
  BY <1>6, <1>7, <1>8, <1>9, <1>10, <1>11, <1>12

\* The rows are new and the requests were free: each gets its one open row.
LEMMA CreateStep ==
  ASSUME IInv, TypeOK', HeldMsg', CreateExternalWithdrawals
  PROVE  IInv'
<1> USE DEF IInv, CreateExternalWithdrawals, msgVars, expVars, chainVars
<1> DEFINE new == {lastMsg} \X batch[lastMsg]
<1>1. /\ lastMsg \in Msgs /\ batch[lastMsg] \in SUBSET Queries
      /\ lastMsg \notin mempool /\ execAt[lastMsg] = NoTime
  BY DEF HeldMsg, ProcInv, ExecInv, TypeOK
<1>2. \A r \in new : /\ r \notin rows /\ r[1] = lastMsg /\ r[2] \in batch[lastMsg]
                     /\ ~processing[r[2]]
  BY DEF ProcInv
<1>3. \A q \in batch[lastMsg] : <<lastMsg, q>> \in rows'
  OBVIOUS
<1>4. RowInv'
  BY <1>1, <1>2 DEF RowInv, TypeOK
<1>5. ProcInv'
  BY <1>3 DEF ProcInv
<1>6. TxInv'
  <2> SUFFICES ASSUME NEW r \in rows'
               PROVE  /\ r \in txHash <=> (execAt[r[1]] # NoTime /\ execAt[r[1]] <= scanTime)
                      /\ r \in processedLt <=> (r \in txHash /\ r \in delivered)
                      /\ r \in txHash => (r \in failed <=> r \notin delivered)
    BY DEF TxInv
  <2>1. CASE r \in rows
    BY <2>1 DEF TxInv
  <2>2. CASE r \in new
    BY <2>2, <1>1, <1>2 DEF TypeOK
  <2> QED
    BY <2>1, <2>2
<1>7. OneOpenRow'
  <2> SUFFICES ASSUME NEW q \in Queries
               PROVE  LET open == {r \in rows' : r[2] = q /\ r \notin failed \ txHash}
                      IN  /\ processing'[q] <=> open # {}
                          /\ \A r, s \in open : r = s
    BY DEF OneOpenRow
  <2> DEFINE old == {r \in rows : r[2] = q /\ r \notin failed \ txHash}
             open == {r \in rows' : r[2] = q /\ r \notin failed \ txHash}
  <2>1. (processing[q] <=> old # {}) /\ \A r, s \in old : r = s
    BY DEF OneOpenRow
  <2>2. CASE q \in batch[lastMsg]
    <3>1. ~processing[q] /\ old = {}
      BY <2>1, <2>2 DEF ProcInv
    <3>2. <<lastMsg, q>> \in open
      BY <2>2, <1>2 DEF TypeOK
    <3>3. \A r \in open : r = <<lastMsg, q>>
      BY <3>1, <1>2
    <3>4. processing'[q]
      BY <2>2
    <3> QED
      BY <3>2, <3>3, <3>4
  <2>3. CASE q \notin batch[lastMsg]
    <3>1. open = old
      BY <2>3, <1>2
    <3>2. processing'[q] = processing[q]
      BY <2>3 DEF TypeOK
    <3> QED
      BY <2>1, <3>1, <3>2
  <2> QED
    BY <2>2, <2>3
<1>8. BlocksInv' /\ SyncInv' /\ RequestInv' /\ BatchInv' /\ ExecInv' /\ VoidInv'
  BY DEF BlocksInv, SyncInv, RequestInv, BatchInv, Saved, UniqueAddrs, ExecInv, VoidInv
<1>9. ProcessedInv'
  BY DEF ProcessedInv
<1> QED
  BY <1>4, <1>5, <1>6, <1>7, <1>8, <1>9

\* All rows of the message exist when it is sent.
LEMMA SendStep ==
  ASSUME IInv, TypeOK', HeldMsg', SendMessage
  PROVE  IInv'
<1> USE DEF IInv, SendMessage, requestVars, rowVars, msgVars, expVars
<1>1. mempool \subseteq mempool' /\ \A m \in mempool' : m \in mempool \/ m = lastMsg
  OBVIOUS
<1>2. RowInv'
  BY <1>1 DEF RowInv, ProcInv, HeldMsg, TypeOK, Msgs
<1>3. ProcInv' /\ ExecInv'
  BY <1>1 DEF ProcInv, ExecInv
<1>4. BlocksInv' /\ SyncInv' /\ RequestInv' /\ BatchInv' /\ VoidInv' /\ TxInv'
  BY DEF BlocksInv, SyncInv, RequestInv, BatchInv, Saved, UniqueAddrs, VoidInv, TxInv
<1>5. ProcessedInv' /\ OneOpenRow'
  BY DEF ProcessedInv, OneOpenRow
<1> QED
  BY <1>2, <1>3, <1>4, <1>5

\* The heart of the argument.  A row SetExpired fails has
\*   ttl + Lag < now <= syncedAt + ExpireDelay  and  syncedAt < scanTime + Lag,
\* hence ttl < scanTime + BlockGap: the message is too old for every block that
\* is not yet saved, and had a saved block executed it the row would be decided.
LEMMA ExpireStep ==
  ASSUME PromptExpiry, IInv, TypeOK', HeldMsg', SetExpired
  PROVE  IInv'
<1> USE DEF IInv, SetExpired, msgVars, procVars, chainVars
<1>1. ASSUME NEW r \in ExpiredRows
      PROVE  /\ r \in rows /\ r \notin failed /\ r \notin processedLt
             /\ r[1] \in Msgs /\ r[2] \in Queries
             /\ ttl[r[1]] < scanTime + BlockGap
  <2>1. /\ r \in rows /\ r \notin failed /\ r \notin processedLt
        /\ r[1] \in Msgs /\ r[2] \in Queries
        /\ ttl[r[1]] + Lag < now
    BY DEF ExpiredRows, TypeOK
  <2>2. /\ now <= syncedAt + ExpireDelay
        /\ syncedAt < scanTime + Lag
    BY DEF SyncInv
  <2>3. ttl[r[1]] \in Nat /\ syncedAt \in Nat /\ scanTime \in Nat /\ now \in Nat
    BY <2>1 DEF TypeOK
  <2> QED
    BY <2>1, <2>2, <2>3, ConstantsAssumption DEF PromptExpiry
<1>2. ASSUME NEW r \in ExpiredRows
      PROVE  execAt[r[1]] = NoTime /\ r \notin txHash
  <2>1. r \notin txHash
    BY <1>1 DEF TxInv
  <2>2. ASSUME execAt[r[1]] # NoTime PROVE FALSE
    <3>1. execAt[r[1]] <= ttl[r[1]] /\ (execAt[r[1]] \in unscanned \/ execAt[r[1]] <= scanTime)
      BY <1>1, <2>2 DEF ExecInv
    <3>2. /\ execAt[r[1]] \in Nat /\ ttl[r[1]] \in Nat /\ scanTime \in Nat
          /\ ttl[r[1]] < scanTime + BlockGap
      BY <1>1 DEF TypeOK
    <3>3. execAt[r[1]] \notin unscanned
      BY <3>1, <3>2, ConstantsAssumption DEF BlocksInv
    <3> QED
      BY <1>1, <2>1, <2>2, <3>1, <3>3 DEF TxInv
  <2> QED
    BY <2>1, <2>2
<1>3. VoidInv'
  BY <1>1, <1>2 DEF VoidInv
<1>4. TxInv'
  BY <1>2 DEF TxInv
<1>5. OneOpenRow'
  <2> SUFFICES ASSUME NEW q \in Queries
               PROVE  LET open == {r \in rows : r[2] = q /\ r \notin failed' \ txHash}
                      IN  /\ processing'[q] <=> open # {}
                          /\ \A r, s \in open : r = s
    BY DEF OneOpenRow
  <2> DEFINE old == {r \in rows : r[2] = q /\ r \notin failed \ txHash}
             open == {r \in rows : r[2] = q /\ r \notin failed' \ txHash}
  <2>1. (processing[q] <=> old # {}) /\ \A r, s \in old : r = s
    BY DEF OneOpenRow
  <2>2. open \subseteq old
    OBVIOUS
  <2>3. processing'[q] = (processing[q] /\ \A r \in ExpiredRows : r[2] # q)
    OBVIOUS
  <2>4. CASE \E r \in ExpiredRows : r[2] = q
    <3> PICK r \in ExpiredRows : r[2] = q
      BY <2>4
    <3>1. r \in old /\ r \notin open
      BY <1>1, <1>2
    <3>2. open = {}
      BY <2>1, <2>2, <3>1
    <3> QED
      BY <2>3, <3>2
  <2>5. CASE \A r \in ExpiredRows : r[2] # q
    <3>1. open = old
      BY <2>5
    <3> QED
      BY <2>1, <2>3, <2>5, <3>1
  <2> QED
    BY <2>4, <2>5
<1>6. ProcInv'
  BY DEF ProcInv, TypeOK, HeldMsg
<1>7. BlocksInv' /\ SyncInv' /\ RequestInv' /\ BatchInv' /\ RowInv' /\ ExecInv'
  BY DEF BlocksInv, SyncInv, RequestInv, BatchInv, Saved, UniqueAddrs, RowInv, ExecInv
<1>8. ProcessedInv'
  BY DEF ProcessedInv
<1> QED
  BY <1>3, <1>4, <1>5, <1>6, <1>7, <1>8

\* Scanning decides exactly the rows of the messages the block executed; the
\* destination identifies the row because a batch repeats none.
LEMMA ScanStep ==
  ASSUME IInv, TypeOK', HeldMsg', NEW t \in unscanned, ScanBlock(t)
  PROVE  IInv'
<1> USE DEF IInv, ScanBlock, msgVars, serviceVars, procVars, expVars
<1>1. /\ t \in Nat /\ t # NoTime /\ scanTime \in Nat
      /\ scanTime + BlockGap <= t /\ t <= chainTime
      /\ \A u \in unscanned : u \in Nat /\ t <= u /\ (u # t => t + BlockGap <= u)
  BY DEF BlocksInv, IsNextBlock, TypeOK
<1>2. BlockRows(t) = {r \in rows : execAt[r[1]] = t}
  BY DEF BlockRows, InAddrs, RowInv
<1>3. SentRows(t) = {r \in rows : execAt[r[1]] = t /\ r \in delivered}
  <2>1. ASSUME NEW r \in rows, execAt[r[1]] = t, dest[r[2]] \in OutAddrs(r[1])
        PROVE  r \in delivered
    <3>1. PICK s \in delivered : s[1] = r[1] /\ dest[s[2]] = dest[r[2]]
      BY <2>1 DEF OutAddrs
    <3>2. /\ r \in Msgs \X Queries /\ s \in Msgs \X Queries
          /\ r[2] \in batch[r[1]] /\ s[2] \in batch[r[1]]
      BY <3>1 DEF TypeOK, RowInv, ExecInv
    <3>3. s[2] = r[2]
      BY <3>1, <3>2 DEF BatchInv, UniqueAddrs
    <3> QED
      BY <3>1, <3>2, <3>3
  <2>2. ASSUME NEW r \in rows, r \in delivered PROVE dest[r[2]] \in OutAddrs(r[1])
    BY <2>2 DEF OutAddrs
  <2> QED
    BY <1>2, <2>1, <2>2 DEF SentRows
<1>4. BlocksInv'
  BY <1>1, ConstantsAssumption DEF BlocksInv, TypeOK
<1>5. SyncInv'
  BY <1>1, ConstantsAssumption DEF SyncInv, TypeOK
<1>6. ExecInv'
  <2> SUFFICES ASSUME NEW m \in Msgs, execAt[m] # NoTime
               PROVE  execAt[m] \in unscanned' \/ execAt[m] <= t
    BY DEF ExecInv
  <2>1. execAt[m] \in Nat /\ (execAt[m] \in unscanned \/ execAt[m] <= scanTime)
    BY DEF ExecInv, TypeOK
  <2> QED
    BY <2>1, <1>1, ConstantsAssumption
<1>7. VoidInv'
  <2> SUFFICES ASSUME NEW r \in failed' \ txHash'
               PROVE  execAt[r[1]] = NoTime /\ ttl[r[1]] < t + BlockGap
    BY DEF VoidInv
  <2>1. r \in failed \ txHash /\ r[1] \in Msgs
    BY DEF TypeOK
  <2>2. execAt[r[1]] = NoTime /\ ttl[r[1]] < scanTime + BlockGap /\ ttl[r[1]] \in Nat
    BY <2>1 DEF VoidInv, TypeOK
  <2> QED
    BY <2>2, <1>1, ConstantsAssumption
<1>8. TxInv'
  <2> SUFFICES ASSUME NEW r \in rows
               PROVE  /\ r \in txHash' <=> (execAt[r[1]] # NoTime /\ execAt[r[1]] <= t)
                      /\ r \in processedLt' <=> (r \in txHash' /\ r \in delivered)
                      /\ r \in txHash' => (r \in failed' <=> r \notin delivered)
    BY DEF TxInv
  <2>1. /\ r \in txHash <=> (execAt[r[1]] # NoTime /\ execAt[r[1]] <= scanTime)
        /\ r \in processedLt <=> (r \in txHash /\ r \in delivered)
        /\ r \in txHash => (r \in failed <=> r \notin delivered)
    BY DEF TxInv
  <2>2. CASE execAt[r[1]] = t
    <3>1. r \notin failed
      <4>1. r[1] \in Msgs /\ r[2] \in batch[r[1]]
        BY DEF TypeOK, RowInv
      <4>2. dest[r[2]] \in InAddrs(r[1]) /\ r \in RowsTo(r[1], dest[r[2]])
        BY <4>1 DEF InAddrs, RowsTo
      <4> QED
        BY <2>2, <4>1, <4>2 DEF BlockError
    <3>2. r \in txHash' /\ (r \in processedLt' <=> r \in delivered)
      BY <2>1, <2>2, <1>2, <1>3
    <3>3. r \in failed' <=> r \notin delivered
      BY <2>2, <3>1, <1>2, <1>3
    <3> QED
      BY <2>2, <3>2, <3>3, <1>1
  <2>3. CASE execAt[r[1]] # t
    <3>1. (r \in txHash' <=> r \in txHash) /\ (r \in failed' <=> r \in failed)
          /\ (r \in processedLt' <=> r \in processedLt)
      BY <2>3, <1>2, <1>3
    <3>2. (execAt[r[1]] # NoTime /\ execAt[r[1]] <= t)
             <=> (execAt[r[1]] # NoTime /\ execAt[r[1]] <= scanTime)
      <4>1. execAt[r[1]] \in Nat
        BY DEF TypeOK
      <4>2. execAt[r[1]] # NoTime => execAt[r[1]] \in unscanned \/ execAt[r[1]] <= scanTime
        BY DEF ExecInv, TypeOK
      <4> QED
        BY <2>3, <4>1, <4>2, <1>1, ConstantsAssumption
    <3> QED
      BY <2>1, <3>1, <3>2
  <2> QED
    BY <2>2, <2>3
<1>9. ProcessedInv'
  BY DEF ProcessedInv
<1>10. OneOpenRow'
  <2>1. \A r \in rows : r \in failed' \ txHash' <=> r \in failed \ txHash
    <3> SUFFICES ASSUME NEW r \in rows
                 PROVE  r \in failed' \ txHash' <=> r \in failed \ txHash
      OBVIOUS
    <3>1. r \in failed \ txHash => execAt[r[1]] # t
      BY <1>1 DEF VoidInv
    <3> QED
      BY <3>1, <1>2, <1>3
  <2> QED
    BY <2>1 DEF OneOpenRow
<1>11. RequestInv' /\ BatchInv' /\ RowInv' /\ ProcInv'
  BY DEF RequestInv, BatchInv, Saved, UniqueAddrs, RowInv, ProcInv
<1> QED
  BY <1>4, <1>5, <1>6, <1>7, <1>8, <1>9, <1>10, <1>11

\* A block executes only messages that are still valid at its time, so none
\* that has an expired row.
LEMMA BlockStep ==
  ASSUME IInv, TypeOK', HeldMsg', NEW t \in 1..MaxTime, NEW E \in SUBSET mempool,
         NEW D \in SUBSET Outgoing(E), ChainBlock(t, E, D)
  PROVE  IInv'
<1> USE DEF IInv, ChainBlock, requestVars, rowVars, msgVars, serviceVars, procVars, expVars
<1>1. /\ t \in Nat /\ t # NoTime /\ chainTime \in Nat /\ scanTime \in Nat
      /\ t >= chainTime + BlockGap /\ scanTime <= chainTime
  BY ConstantsAssumption DEF TypeOK, BlocksInv, NoTime
<1>2. \A m \in Msgs : m \in E => /\ execAt'[m] = t /\ execAt[m] = NoTime
                                 /\ m \in mempool /\ t <= ttl[m]
  OBVIOUS
<1>3. \A m \in Msgs : m \notin E => execAt'[m] = execAt[m]
  OBVIOUS
<1>4. BlocksInv'
  BY <1>1, ConstantsAssumption DEF BlocksInv, TypeOK
<1>5. ExecInv'
  <2>1. \A m \in Msgs : execAt'[m] # NoTime =>
           /\ m \in mempool
           /\ execAt'[m] <= ttl[m]
           /\ execAt'[m] \in unscanned' \/ execAt'[m] <= scanTime
    BY <1>2, <1>3 DEF ExecInv
  <2>2. \A r \in delivered' : execAt'[r[1]] # NoTime /\ r[2] \in batch[r[1]]
    <3>1. \A r \in D : r[1] \in Msgs /\ r[1] \in E /\ r[2] \in batch[r[1]]
      BY DEF Outgoing
    <3>2. \A r \in delivered : r[1] \in Msgs /\ execAt[r[1]] # NoTime /\ r[2] \in batch[r[1]]
      BY DEF ExecInv, TypeOK
    <3> QED
      BY <1>1, <1>2, <1>3, <3>1, <3>2
  <2> QED
    BY <2>1, <2>2 DEF ExecInv
<1>6. VoidInv'
  <2> SUFFICES ASSUME NEW r \in failed \ txHash PROVE execAt'[r[1]] = NoTime
    BY DEF VoidInv
  <2>1. r[1] \in Msgs /\ execAt[r[1]] = NoTime /\ ttl[r[1]] < scanTime + BlockGap
        /\ ttl[r[1]] \in Nat
    BY DEF VoidInv, TypeOK
  <2>2. r[1] \notin E
    BY <2>1, <1>1, <1>2, ConstantsAssumption
  <2> QED
    BY <2>1, <2>2, <1>3
<1>7. TxInv'
  <2> SUFFICES ASSUME NEW r \in rows
               PROVE  /\ r \in txHash <=> (execAt'[r[1]] # NoTime /\ execAt'[r[1]] <= scanTime)
                      /\ r \in processedLt <=> (r \in txHash /\ r \in delivered')
                      /\ r \in txHash => (r \in failed <=> r \notin delivered')
    BY DEF TxInv
  <2>1. /\ r \in txHash <=> (execAt[r[1]] # NoTime /\ execAt[r[1]] <= scanTime)
        /\ r \in processedLt <=> (r \in txHash /\ r \in delivered)
        /\ r \in txHash => (r \in failed <=> r \notin delivered)
        /\ r[1] \in Msgs
    BY DEF TxInv, TypeOK
  <2>2. \A s \in D : s[1] \in E
    BY DEF Outgoing
  <2>3. CASE r[1] \in E
    <3>1. r \notin txHash /\ r \notin processedLt
      BY <2>1, <2>3, <1>2
    <3>2. ~(execAt'[r[1]] <= scanTime)
      BY <2>1, <2>3, <1>1, <1>2, ConstantsAssumption
    <3> QED
      BY <3>1, <3>2
  <2>4. CASE r[1] \notin E
    <3>1. execAt'[r[1]] = execAt[r[1]] /\ (r \in delivered' <=> r \in delivered)
      BY <2>1, <2>2, <2>4, <1>3
    <3> QED
      BY <2>1, <3>1
  <2> QED
    BY <2>3, <2>4
<1>8. SyncInv' /\ RequestInv' /\ BatchInv' /\ RowInv' /\ ProcInv'
  BY DEF SyncInv, RequestInv, BatchInv, Saved, UniqueAddrs, RowInv, ProcInv
<1>9. ProcessedInv' /\ OneOpenRow'
  BY DEF ProcessedInv, OneOpenRow
<1> QED
  BY <1>4, <1>5, <1>6, <1>7, <1>8, <1>9

-----------------------------------------------------------------------------
(* Invariance *)

\* The first start satisfies the inductive invariant: there are no rows.
LEMMA InitInv == Init => IInv
<1> SUFFICES ASSUME Init PROVE IInv
  OBVIOUS
<1> USE DEF Init
<1>1. TypeOK /\ HeldMsg
  BY InitTyped
<1>2. BlocksInv /\ SyncInv /\ RequestInv /\ BatchInv
  BY DEF BlocksInv, SyncInv, RequestInv, BatchInv, Saved, UniqueAddrs, NoTime
<1>3. RowInv /\ ProcInv /\ ExecInv /\ VoidInv /\ TxInv
  BY DEF RowInv, ProcInv, ExecInv, VoidInv, TxInv
<1>4. ProcessedInv /\ OneOpenRow
  BY DEF ProcessedInv, OneOpenRow
<1> QED
  BY <1>1, <1>2, <1>3, <1>4 DEF IInv

\* Every step keeps the inductive invariant, one case per action.
LEMMA InvStep ==
  ASSUME PromptExpiry
  PROVE  IInv /\ [Next]_vars => IInv'
<1> SUFFICES ASSUME IInv, [Next]_vars PROVE IInv'
  OBVIOUS
<1>0. TypeOK' /\ HeldMsg'
  BY TypeStep DEF IInv
<1> DEFINE Quiet ==
      /\ UNCHANGED coreVars
      /\ ppc' \in {ppc, "waitSync", "sleep", "stopped"}
      /\ epc' = "expire" => syncedAt' < scanTime + Lag
<1>1. CASE Quiet
  BY <1>0, <1>1, QuietStep
<1>2. SyncInv
  BY DEF IInv
<1>3. ASSUME ProcessorSynced \/ ProcessorStopped \/ ProcessorNothing PROVE Quiet
  BY <1>2, <1>3 DEF ProcessorSynced, ProcessorStopped, ProcessorNothing, SyncInv,
     coreVars, expVars
<1>4. ASSUME ExpirationSynced PROVE Quiet
  BY <1>4 DEF ExpirationSynced, Synced, coreVars, procVars
<1>5. ASSUME ExpirationStopped \/ ScannerStopped \/ Stop \/ Tick PROVE Quiet
  BY <1>2, <1>5 DEF ExpirationStopped, ScannerStopped, Stop, Tick, SyncInv,
     coreVars, serviceVars, procVars, expVars
<1>6. ASSUME Restart PROVE Quiet
  BY <1>6 DEF Restart, ProcessExit, coreVars
<1>7. ASSUME UNCHANGED vars PROVE Quiet
  BY <1>2, <1>7 DEF vars, SyncInv, coreVars, serviceVars, procVars, expVars
<1>8. ASSUME NEW d \in Dests, SaveWithdrawalRequest(d) PROVE IInv'
  BY <1>0, <1>8, SaveStep
<1>9. ASSUME NEW S \in SUBSET ExternalTasks, BuildMessage(S) PROVE IInv'
  BY <1>0, <1>9, BuildStep
<1>10. ASSUME CreateExternalWithdrawals PROVE IInv'
  BY <1>0, <1>10, CreateStep
<1>11. ASSUME SendMessage PROVE IInv'
  BY <1>0, <1>11, SendStep
<1>12. ASSUME SetExpired PROVE IInv'
  BY <1>0, <1>12, ExpireStep, PromptExpiry
<1>13. ASSUME NEW t \in unscanned, ScanBlock(t) PROVE IInv'
  BY <1>0, <1>13, ScanStep
<1>14. ASSUME NEW t \in 1..MaxTime, NEW E \in SUBSET mempool,
              NEW D \in SUBSET Outgoing(E), ChainBlock(t, E, D)
       PROVE  IInv'
  BY <1>0, <1>14, BlockStep
<1> HIDE DEF Quiet
<1> QED
  BY <1>1, <1>3, <1>4, <1>5, <1>6, <1>7, <1>8, <1>9, <1>10, <1>11, <1>12, <1>13,
     <1>14, Zenon DEF Next

\* IInv is an invariant of the service, provided expiry is prompt.
THEOREM Invariance ==
  ASSUME PromptExpiry
  PROVE  Spec => []IInv
BY PromptExpiry, InitInv, InvStep, PTL DEF Spec

-----------------------------------------------------------------------------
(* The safety properties *)

\* No request is ever paid twice, with any number of retries, crashes, lost
\* messages and scanner delays: every paid row is open, and a request has one.
THEOREM NeverPaidTwice ==
  ASSUME PromptExpiry
  PROVE  Spec => []NoDoublePayment
<1>1. IInv => NoDoublePayment
  <2> SUFFICES ASSUME IInv, NEW r \in delivered, NEW s \in delivered, r[2] = s[2]
               PROVE  r = s
    BY DEF NoDoublePayment
  <2>1. \A x \in delivered : /\ x \in Msgs \X Queries /\ x \in rows
                             /\ x \notin failed \ txHash
    <3> SUFFICES ASSUME NEW x \in delivered
                 PROVE  x \in Msgs \X Queries /\ x \in rows /\ x \notin failed \ txHash
      OBVIOUS
    <3>1. x \in Msgs \X Queries /\ execAt[x[1]] # NoTime /\ x[2] \in batch[x[1]]
      BY DEF IInv, TypeOK, ExecInv
    <3>2. <<x[1], x[2]>> \in rows
      BY <3>1 DEF IInv, ExecInv, RowInv
    <3> QED
      BY <3>1, <3>2 DEF IInv, VoidInv
  <2> QED
    BY <2>1 DEF IInv, OneOpenRow
<1> QED
  BY <1>1, Invariance, PTL

\* Rows given up by SetExpired belong to messages the chain never executes.
THEOREM ExpiryIsSafe ==
  ASSUME PromptExpiry
  PROVE  Spec => []ExpiredIsVoid
<1>1. IInv => ExpiredIsVoid
  <2> SUFFICES ASSUME IInv, NEW r \in failed \ txHash
               PROVE  execAt[r[1]] = NoTime /\ ttl[r[1]] < chainTime + BlockGap
    BY DEF ExpiredIsVoid
  <2>1. r[1] \in Msgs /\ ttl[r[1]] \in Nat /\ scanTime \in Nat /\ chainTime \in Nat
    BY DEF IInv, TypeOK
  <2> QED
    BY <2>1, ConstantsAssumption DEF IInv, VoidInv, BlocksInv
<1> QED
  BY <1>1, Invariance, PTL

\* The scanner is never stopped by "invalid behavior of the expiration
\* processor", by an unknown row or by an invalid batch.
THEOREM ScannerNeverRefuses ==
  ASSUME PromptExpiry
  PROVE  Spec => []NoBlockRefused
<1>1. IInv => NoBlockRefused
  <2> SUFFICES ASSUME IInv, NEW t \in unscanned, BlockError(t) PROVE FALSE
    BY DEF NoBlockRefused
  <2>1. t # NoTime /\ t \in Nat /\ scanTime < t
    BY ConstantsAssumption DEF IInv, TypeOK, BlocksInv
  <2>2. PICK m \in Msgs :
            /\ execAt[m] = t
            /\ \/ ~UniqueAddrs(m)
               \/ \E a \in InAddrs(m) : RowsTo(m, a) \cap failed # {}
               \/ \E a \in InAddrs(m) : RowsTo(m, a) = {}
    BY DEF BlockError
  <2>3. UniqueAddrs(m)
    BY DEF IInv, BatchInv
  <2>4. \A q \in batch[m] : <<m, q>> \in rows
    BY <2>1, <2>2 DEF IInv, ExecInv, RowInv
  <2>5. \A a \in InAddrs(m) : RowsTo(m, a) # {}
    <3> SUFFICES ASSUME NEW q \in batch[m] PROVE <<m, q>> \in RowsTo(m, dest[q])
      BY DEF InAddrs
    <3> QED
      BY <2>4 DEF RowsTo
  <2>6. \A r \in rows : r[1] = m => r \notin failed
    <3> SUFFICES ASSUME NEW r \in rows, r[1] = m, r \in failed PROVE FALSE
      OBVIOUS
    <3>1. ~(execAt[r[1]] <= scanTime)
      BY <2>1, <2>2 DEF IInv, TypeOK
    <3>2. r \notin txHash
      BY <3>1 DEF IInv, TxInv
    <3> QED
      BY <3>2, <2>1, <2>2 DEF IInv, VoidInv
  <2> QED
    BY <2>2, <2>3, <2>5, <2>6 DEF RowsTo
<1> QED
  BY <1>1, Invariance, PTL

\* A request in processing has exactly one row that expiry has not failed.
THEOREM OneOpenRowAlways ==
  ASSUME PromptExpiry
  PROVE  Spec => []OneOpenRow
<1>1. IInv => OneOpenRow
  BY DEF IInv
<1> QED
  BY <1>1, Invariance, PTL

-----------------------------------------------------------------------------
(* One message at a time *)

\* Messages are built at least a Period apart, and none is valid for longer
\* than Lifetime from now.
MsgTimes ==
    /\ \A m \in 1..lastMsg : ttl[m] <= now + Lifetime
    /\ \A m, n \in 1..lastMsg : m < n => ttl[m] + Period <= ttl[n]
    /\ ppc = "sleep" => \A m \in 1..lastMsg : ttl[m] + Period <= wakeAt + Lifetime

\* Every step keeps the distances: a sleep starts after the last message was
\* built, and the next message is built after the sleep.
LEMMA MsgTimesStep == TypeOK /\ MsgTimes /\ [Next]_vars => MsgTimes'
<1> SUFFICES ASSUME TypeOK, MsgTimes, [Next]_vars
             PROVE  MsgTimes'
  OBVIOUS
<1> USE ConstantsAssumption
<1>t. /\ lastMsg \in 0..MaxMsgs /\ ttl \in [Msgs -> Nat] /\ wakeAt \in Nat /\ now \in Nat
      /\ \A m \in 1..lastMsg : ttl[m] \in Nat
  BY DEF TypeOK, Msgs
<1>1. CASE ProcessorSynced
  BY <1>1, <1>t DEF ProcessorSynced, MsgTimes, msgVars
<1>2. CASE \E S \in SUBSET ExternalTasks : BuildMessage(S)
  <2>1. PICK S \in SUBSET ExternalTasks : BuildMessage(S)
    BY <1>2
  <2>2. /\ lastMsg + 1 \in Msgs /\ lastMsg' = lastMsg + 1 /\ now' = now /\ ppc' = "built"
        /\ ttl'[lastMsg + 1] = now + Lifetime
        /\ \A m \in 1..lastMsg : ttl'[m] = ttl[m]
        /\ \A m \in 1..lastMsg : ttl[m] + Period <= now + Lifetime
    BY <2>1, <1>t DEF BuildMessage, MsgTimes, Msgs
  <2>3. \A m \in 1..lastMsg' : ttl'[m] <= now' + Lifetime
    BY <2>2, <1>t DEF MsgTimes
  <2>4. \A m, n \in 1..lastMsg' : m < n => ttl'[m] + Period <= ttl'[n]
    BY <2>2, <1>t DEF MsgTimes
  <2> QED
    BY <2>2, <2>3, <2>4 DEF MsgTimes
<1>3. CASE Tick
  BY <1>3, <1>t DEF Tick, MsgTimes, msgVars, serviceVars, procVars
<1>4. CASE UNCHANGED <<msgVars, procVars, now>>
  BY <1>4, <1>t DEF MsgTimes, msgVars, procVars
<1>5. CASE UNCHANGED <<msgVars, now>> /\ ppc' # "sleep"
  BY <1>5, <1>t DEF MsgTimes, msgVars
<1>6. ASSUME NEW d \in Dests, SaveWithdrawalRequest(d) PROVE MsgTimes'
  BY <1>6, <1>4 DEF SaveWithdrawalRequest, serviceVars
<1>7. ASSUME ProcessorStopped \/ ProcessorNothing \/ CreateExternalWithdrawals \/ SendMessage
      PROVE  MsgTimes'
  BY <1>7, <1>5 DEF ProcessorStopped, ProcessorNothing, CreateExternalWithdrawals, SendMessage
<1>8. ASSUME ExpirationSynced \/ ExpirationStopped \/ SetExpired \/ ScannerStopped \/ Stop
      PROVE  MsgTimes'
  BY <1>8, <1>4 DEF ExpirationSynced, ExpirationStopped, SetExpired, ScannerStopped, Stop
<1>9. ASSUME Restart PROVE MsgTimes'
  BY <1>9, <1>5 DEF Restart, ProcessExit
<1>10. ASSUME NEW t \in unscanned, ScanBlock(t) PROVE MsgTimes'
  BY <1>10, <1>4 DEF ScanBlock, serviceVars
<1>11. ASSUME NEW t, NEW E, NEW D, ChainBlock(t, E, D) PROVE MsgTimes'
  BY <1>11, <1>4 DEF ChainBlock, serviceVars
<1>12. CASE UNCHANGED vars
  BY <1>12, <1>4 DEF vars, serviceVars
<1> QED
  BY <1>1, <1>2, <1>3, <1>6, <1>7, <1>8, <1>9, <1>10, <1>11, <1>12 DEF Next

\* At most one message of the hot wallet can still be executed, through any
\* number of crashes: the service sleeps for a Period before every batch.
THEOREM OneMessageAtATime ==
    ASSUME Period > Lifetime + Skew
    PROVE  Spec => []OneLiveMessage
<1> USE ConstantsAssumption
<1>1. Init => MsgTimes
  BY DEF Init, MsgTimes
<1>2. TypeOK /\ MsgTimes => OneLiveMessage
  <2> SUFFICES ASSUME TypeOK, MsgTimes,
                      NEW m \in 1..lastMsg, NEW n \in 1..lastMsg,
                      CanExecute(m), CanExecute(n), m < n
               PROVE  FALSE
    BY DEF OneLiveMessage, TypeOK
  <2>1. ttl[m] \in Nat /\ ttl[n] \in Nat /\ now \in Nat
    BY DEF TypeOK, Msgs
  <2>2. now <= ttl[m] + Skew /\ ttl[m] + Period <= ttl[n] /\ ttl[n] <= now + Lifetime
    BY DEF MsgTimes, CanExecute
  <2> QED
    BY <2>1, <2>2
<1> QED
  BY <1>1, <1>2, MsgTimesStep, TypeCorrect, PTL DEF Spec

-----------------------------------------------------------------------------
(* The status API, and the refinement of WithdrawalLifecycle *)

\* The row of a request that its status is about.
Open(q) == {r \in rows : r[2] = q /\ r \notin failed \ txHash}

PaidRequests == {q \in Queries : \E r \in delivered : r[2] = q}

\* What IInv says about one request.
RequestFacts(q) ==
    /\ processing[q] \in BOOLEAN /\ processed[q] \in BOOLEAN
    /\ processing[q] <=> Open(q) # {}
    /\ \A r, s \in Open(q) : r = s
    /\ processed[q] <=> \E r \in Open(q) : r \in txHash
    /\ \A r \in rows : r[2] = q => Saved(q)
    /\ \A r \in rows : r[2] = q /\ execAt[r[1]] # NoTime => r \in Open(q)
    /\ \A r \in delivered : r[2] = q => r \in Open(q)
    /\ \A r \in Open(q) : r \in txHash => (r \in failed <=> r \notin delivered)

\* What the invariant says about the rows of one request.
LEMMA Facts == IInv => \A q \in Queries : RequestFacts(q)
<1> SUFFICES ASSUME IInv, NEW q \in Queries PROVE RequestFacts(q)
  OBVIOUS
<1> USE DEF IInv
<1>1. /\ processing[q] \in BOOLEAN /\ processed[q] \in BOOLEAN
  BY DEF TypeOK
<1>2. /\ processing[q] <=> Open(q) # {}
      /\ \A r, s \in Open(q) : r = s
  BY DEF OneOpenRow, Open
<1>3. processed[q] <=> \E r \in Open(q) : r \in txHash
  BY DEF ProcessedInv, Open, TypeOK
<1>4. \A r \in rows : r[2] = q => Saved(q)
  BY DEF RowInv, BatchInv, TypeOK
<1>5. \A r \in rows : r[2] = q /\ execAt[r[1]] # NoTime => r \in Open(q)
  BY DEF VoidInv, Open
<1>6. \A r \in delivered : r[2] = q => r \in Open(q)
  <2> SUFFICES ASSUME NEW r \in delivered, r[2] = q PROVE r \in Open(q)
    OBVIOUS
  <2>1. r \in Msgs \X Queries /\ execAt[r[1]] # NoTime /\ r[2] \in batch[r[1]]
    BY DEF TypeOK, ExecInv
  <2>2. <<r[1], r[2]>> \in rows
    BY <2>1 DEF ExecInv, RowInv
  <2> QED
    BY <1>5, <2>1, <2>2
<1>7. \A r \in Open(q) : r \in txHash => (r \in failed <=> r \notin delivered)
  BY DEF TxInv, Open
<1> QED
  BY <1>1, <1>2, <1>3, <1>4, <1>5, <1>6, <1>7 DEF RequestFacts

\* The status of a request, in terms of its open row.
StatusFacts(q) ==
    /\ ~Saved(q) => Status(q) = "not found"
    /\ Saved(q) /\ ~processing[q] => Status(q) = "pending"
    /\ Saved(q) /\ processing[q] /\ ~processed[q] => Status(q) = "processing"
    /\ Saved(q) /\ processed[q] =>
          Status(q) = IF q \in PaidRequests THEN "processed" ELSE "failed"
    /\ \A r \in TxRows(q) : r \in Open(q)

\* What GetExternalWithdrawalStatus answers, in terms of the open row.
LEMMA StatusOf == IInv => \A q \in Queries : StatusFacts(q)
<1> SUFFICES ASSUME IInv, NEW q \in Queries PROVE StatusFacts(q)
  OBVIOUS
<1>0. RequestFacts(q)
  BY Facts
<1>1. processedLt \subseteq txHash
  BY DEF IInv, TypeOK, TxInv
<1>2. \A r \in TxRows(q) : r \in Open(q) /\ r \in txHash
  BY <1>1 DEF TxRows, Open
<1>3. processed[q] => processing[q]
  BY <1>0 DEF RequestFacts
<1>4. ~Saved(q) => Status(q) = "not found"
  BY DEF Status
<1>5. Saved(q) /\ ~processing[q] => Status(q) = "pending"
  BY <1>3 DEF Status
<1>6. Saved(q) /\ processing[q] /\ ~processed[q] => Status(q) = "processing"
  BY DEF Status
<1>7. ASSUME Saved(q), processed[q]
      PROVE  Status(q) = IF q \in PaidRequests THEN "processed" ELSE "failed"
  <2>1. PICK r \in Open(q) : r \in txHash
    BY <1>0, <1>7 DEF RequestFacts
  <2>2. r \in TxRows(q)
    BY <2>1 DEF TxRows, Open
  <2>3. \A s \in TxRows(q) : s = r
    BY <1>0, <1>2, <2>1 DEF RequestFacts
  <2>4. q \in PaidRequests <=> r \in delivered
    BY <1>0, <2>1 DEF RequestFacts, PaidRequests, Open
  <2>5. r \in failed <=> r \notin delivered
    BY <1>0, <2>1 DEF RequestFacts
  <2>6. (\E s \in TxRows(q) : s \in failed) <=> q \notin PaidRequests
    BY <2>2, <2>3, <2>4, <2>5
  <2> QED
    BY <1>3, <1>7, <2>2, <2>6 DEF Status
<1> QED
  BY <1>2, <1>4, <1>5, <1>6, <1>7 DEF StatusFacts

\* GetExternalWithdrawalStatus never answers "bad status", finds at most one
\* record, and says "processed" exactly of paid requests.
THEOREM StatusIsTruthful ==
  ASSUME PromptExpiry
  PROVE  Spec => []StatusTruthful
<1>1. IInv => StatusTruthful
  <2> SUFFICES ASSUME IInv, NEW q \in Queries
               PROVE  /\ Status(q) \notin {"bad status", "error"}
                      /\ \A r, s \in TxRows(q) : r = s
                      /\ Status(q) = "processed" => \E r \in delivered : r[2] = q
                      /\ Status(q) = "failed" => \A r \in delivered : r[2] # q
    BY DEF StatusTruthful
  <2>1. StatusFacts(q) /\ RequestFacts(q)
    BY StatusOf, Facts
  <2>2. \A r, s \in TxRows(q) : r = s
    BY <2>1 DEF StatusFacts, RequestFacts
  <2>3. CASE Saved(q) /\ processed[q]
    BY <2>1, <2>2, <2>3 DEF StatusFacts, PaidRequests
  <2>4. CASE ~(Saved(q) /\ processed[q])
    <3>1. Status(q) \in {"not found", "pending", "processing"}
      BY <2>1, <2>4 DEF StatusFacts, RequestFacts
    <3> QED
      BY <3>1, <2>2
  <2> QED
    BY <2>3, <2>4
<1> QED
  BY <1>1, Invariance, PTL

-----------------------------------------------------------------------------
(* Refinement *)

\* Nothing an abstract variable depends on changes.
LEMMA SimQuiet ==
  ASSUME UNCHANGED <<requestVars, rowVars, execAt, delivered>>
  PROVE  UNCHANGED Lifecycle!vars
BY DEF Lifecycle!vars, Executed, Status, Saved, TxRows, requestVars, rowVars

\* SaveWithdrawalRequest accepts the next request.
LEMMA SimSave ==
  ASSUME IInv, NEW d \in Dests, SaveWithdrawalRequest(d)
  PROVE  \E q \in Queries : Lifecycle!Accept(q)
<1> USE DEF SaveWithdrawalRequest, rowVars, chainVars
<1>0. lastQuery + 1 \in Queries
  BY ConstantsAssumption DEF IInv, TypeOK, Queries
<1> PICK n \in Queries : n = lastQuery + 1
  BY <1>0
<1>1. ~Saved(n) /\ d # NoDest
  BY ConstantsAssumption DEF IInv, TypeOK, RequestInv, Queries, Saved
<1>2. dest' = [dest EXCEPT ![n] = d] /\ dest \in [Queries -> Dests \cup {NoDest}]
  BY DEF IInv, TypeOK
<1>3. Status(n) = "not found"
  BY <1>1 DEF Status
<1>4. ~processing[n] /\ ~processed[n]
  BY <1>1, Facts DEF RequestFacts, Open
<1>5. Status(n)' = "pending"
  BY <1>1, <1>2, <1>4 DEF Status, Saved
<1>6. \A q \in Queries : q # n => Status(q)' = Status(q)
  BY <1>2 DEF Status, Saved, TxRows
<1>7. UNCHANGED <<Executed, PaidRequests>>
  BY DEF Executed, PaidRequests
<1> QED
  BY <1>3, <1>5, <1>6, <1>7 DEF Lifecycle!Accept, PaidRequests

\* CreateExternalWithdrawals takes the requests of the batch.
LEMMA SimCreate ==
  ASSUME IInv, CreateExternalWithdrawals
  PROVE  \E S \in SUBSET Queries : Lifecycle!Take(S)
<1> USE DEF CreateExternalWithdrawals, msgVars, chainVars
<1> PICK S \in SUBSET Queries : S = batch[lastMsg]
  BY DEF IInv, HeldMsg, TypeOK
<1>1. /\ lastMsg \in Msgs /\ execAt[lastMsg] = NoTime
      /\ \A q \in S : q \in Queries /\ ~processing[q] /\ Saved(q)
  BY DEF IInv, HeldMsg, ProcInv, ExecInv, BatchInv, TypeOK
<1>2. \A q \in S : Status(q) = "pending"
  BY <1>1, StatusOf DEF StatusFacts
<1>3. \A q \in S : Status(q)' = "processing"
  <2> SUFFICES ASSUME NEW q \in S PROVE Status(q)' = "processing"
    OBVIOUS
  <2>1. ~processed[q]
    BY <1>1, Facts DEF RequestFacts
  <2>2. q \in Queries /\ processing'[q] /\ ~processed'[q] /\ Saved(q)'
    BY <1>1, <2>1 DEF Saved
  <2> QED
    BY <2>2 DEF Status
<1>4. ASSUME NEW q \in Queries, q \notin S PROVE Status(q)' = Status(q)
  <2>1. TxRows(q)' = TxRows(q)
    BY <1>4 DEF TxRows
  <2>2. processing'[q] = processing[q]
    BY <1>4 DEF IInv, TypeOK
  <2> QED
    BY <2>1, <2>2 DEF Status, Saved
<1>5. UNCHANGED <<Executed, PaidRequests>>
  <2>1. \A r \in {lastMsg} \X S : execAt[r[1]] = NoTime
    BY <1>1
  <2>2. Executed' = Executed
    BY <2>1 DEF Executed
  <2> QED
    BY <2>2 DEF PaidRequests
<1> QED
  BY <1>2, <1>3, <1>4, <1>5 DEF Lifecycle!Take, PaidRequests

\* SetExpired gives back undecided requests only.
LEMMA SimExpire ==
  ASSUME IInv, IInv', SetExpired
  PROVE  Lifecycle!Retry({q \in Queries : \E r \in ExpiredRows : r[2] = q})
<1> USE DEF SetExpired, chainVars
<1> DEFINE S == {q \in Queries : \E r \in ExpiredRows : r[2] = q}
<1>1. ASSUME NEW r \in ExpiredRows
      PROVE  r \in rows /\ r[2] \in Queries /\ r \in Open(r[2]) /\ r \notin txHash
             /\ execAt[r[1]] = NoTime
  <2>1. r \in rows /\ r \notin failed /\ r \notin processedLt
    BY DEF ExpiredRows
  <2>2. r \notin txHash /\ r \in failed'
    BY <2>1 DEF IInv, TxInv
  <2>3. execAt[r[1]] = NoTime
    BY <2>2 DEF IInv, VoidInv
  <2> QED
    BY <2>1, <2>2, <2>3 DEF Open, IInv, TypeOK
<1>2. ASSUME NEW q \in S
      PROVE  Status(q) = "processing" /\ q \notin Executed /\ Status(q)' = "pending"
  <2>1. PICK r \in ExpiredRows : r[2] = q
    OBVIOUS
  <2>2. /\ processing[q] /\ ~processed[q] /\ Saved(q) /\ q \in Queries
        /\ \A s \in Open(q) : s = r
    BY <1>1, <2>1, Facts DEF RequestFacts
  <2>3. Status(q) = "processing"
    BY <2>2, StatusOf DEF StatusFacts
  <2>4. q \notin Executed
    BY <1>1, <2>1, <2>2, Facts DEF RequestFacts, Executed
  <2>5. ~processing'[q] /\ ~processed'[q] /\ Saved(q)'
    BY <2>1, <2>2 DEF Saved
  <2> QED
    BY <2>3, <2>4, <2>5 DEF Status
<1>3. ASSUME NEW q \in Queries, q \notin S PROVE Status(q)' = Status(q)
  <2>1. processing'[q] = processing[q]
    BY <1>3 DEF IInv, TypeOK
  <2>2. \A r \in TxRows(q) : r \in failed' <=> r \in failed
    BY <1>3 DEF TxRows
  <2>3. TxRows(q)' = TxRows(q)
    BY DEF TxRows
  <2> QED
    BY <2>1, <2>2, <2>3 DEF Status, Saved
<1>4. UNCHANGED <<Executed, PaidRequests>>
  BY DEF Executed, PaidRequests
<1> QED
  BY <1>2, <1>3, <1>4 DEF Lifecycle!Retry, PaidRequests

\* The same facts hold after a step.
LEMMA PrimedFacts == IInv' => \A q \in Queries : RequestFacts(q)' /\ StatusFacts(q)'
<1>1. IInv => \A q \in Queries : RequestFacts(q) /\ StatusFacts(q)
  BY Facts, StatusOf
<1>2. IInv' => (\A q \in Queries : RequestFacts(q) /\ StatusFacts(q))'
  BY <1>1, PTL
<1> QED
  BY <1>2

\* ScanBlock reports what the chain decided about the requests of the block.
LEMMA SimScan ==
  ASSUME IInv, IInv', NEW t \in unscanned, ScanBlock(t)
  PROVE  \E S \in SUBSET Queries : Lifecycle!Report(S)
<1> USE DEF ScanBlock, msgVars
<1> PICK S \in SUBSET Queries : S = {q \in Queries : \E r \in BlockRows(t) : r[2] = q}
  OBVIOUS
<1>1. t # NoTime /\ ~(t <= scanTime)
  BY ConstantsAssumption DEF IInv, TypeOK, BlocksInv
<1>2. ASSUME NEW r \in BlockRows(t)
      PROVE  /\ r \in rows /\ execAt[r[1]] = t /\ r[2] \in Queries
             /\ r \notin txHash /\ r \in Open(r[2])
  <2>1. r \in rows /\ execAt[r[1]] = t /\ r[2] \in Queries
    BY DEF BlockRows, IInv, TypeOK
  <2> QED
    BY <2>1, <1>1, Facts DEF IInv, TxInv, RequestFacts
<1>3. ASSUME NEW q \in S
      PROVE  /\ Status(q) = "processing" /\ q \in Executed
             /\ Status(q)' = IF q \in PaidRequests THEN "processed" ELSE "failed"
  <2>1. PICK r \in BlockRows(t) : r[2] = q
    OBVIOUS
  <2>2. /\ processing[q] /\ ~processed[q] /\ Saved(q)
    BY <1>2, <2>1, Facts DEF RequestFacts
  <2>3. Status(q) = "processing"
    BY <2>2, StatusOf DEF StatusFacts
  <2>4. q \in Executed
    BY <1>1, <1>2, <2>1 DEF Executed
  <2>5. processed'[q] /\ Saved(q)' /\ PaidRequests' = PaidRequests
    BY <2>1, <2>2 DEF Saved, PaidRequests
  <2> QED
    BY <2>3, <2>4, <2>5, PrimedFacts DEF StatusFacts
<1>4. ASSUME NEW q \in Queries, q \notin S PROVE Status(q)' = Status(q)
  <2>1. \A r \in BlockRows(t) : r[2] # q
    BY <1>4
  <2>2. processed'[q] = processed[q]
    BY <2>1 DEF IInv, TypeOK
  <2>3. SentRows(t) \subseteq BlockRows(t)
    BY DEF SentRows
  <2>4. TxRows(q)' = TxRows(q) /\ \A r \in TxRows(q) : r \in failed' <=> r \in failed
    BY <2>1, <2>3 DEF TxRows
  <2> QED
    BY <2>2, <2>4 DEF Status, Saved
<1>5. UNCHANGED <<Executed, PaidRequests>>
  BY DEF Executed, PaidRequests
<1> QED
  BY <1>3, <1>4, <1>5 DEF Lifecycle!Report, PaidRequests

\* A block of the chain decides the requests of the messages it executes.
LEMMA SimBlock ==
  ASSUME IInv, IInv', NEW t \in 1..MaxTime, NEW E \in SUBSET mempool,
         NEW D \in SUBSET Outgoing(E), ChainBlock(t, E, D)
  PROVE  \E S \in SUBSET Queries : \E P \in SUBSET S : Lifecycle!Decide(S, P)
<1> USE DEF ChainBlock, requestVars, rowVars, msgVars
<1> PICK S \in SUBSET Queries :
        S = {q \in Queries : \E r \in rows : r[2] = q /\ r[1] \in E}
  OBVIOUS
<1> PICK P \in SUBSET Queries : P = {q \in Queries : \E r \in D : r[2] = q}
  OBVIOUS
<1>1. t # NoTime /\ E \in SUBSET Msgs /\ rows \in SUBSET (Msgs \X Queries)
  BY DEF NoTime, IInv, TypeOK
<1>2. ASSUME NEW q \in S PROVE Status(q) = "processing" /\ q \notin Executed
  <2>1. PICK r \in rows : r[2] = q /\ r[1] \in E
    OBVIOUS
  <2>2. execAt[r[1]] = NoTime /\ execAt'[r[1]] # NoTime
    BY <2>1, <1>1
  <2>3. r \in Open(q)' /\ Open(q)' = Open(q)
    BY <2>1, <2>2, PrimedFacts DEF RequestFacts, Open
  <2>4. r \notin txHash
    BY <2>2 DEF IInv, TxInv
  <2>5. /\ processing[q] /\ ~processed[q] /\ Saved(q)
        /\ \A s \in Open(q) : s = r
    BY <2>1, <2>3, <2>4, Facts DEF RequestFacts
  <2>6. q \notin Executed
    BY <2>2, <2>5, Facts DEF RequestFacts, Executed
  <2> QED
    BY <2>5, <2>6, StatusOf DEF StatusFacts
<1>3. P \subseteq S
  <2> SUFFICES ASSUME NEW r \in D PROVE \E s \in rows : s[2] = r[2] /\ s[1] \in E
    OBVIOUS
  <2>1. r[1] \in E /\ r[2] \in batch[r[1]]
    BY DEF Outgoing
  <2>2. <<r[1], r[2]>> \in rows
    BY <2>1 DEF IInv, RowInv
  <2> QED
    BY <2>1, <2>2
<1>4. Executed' = Executed \cup S
  BY <1>1 DEF Executed
<1>5. PaidRequests' = PaidRequests \cup P
  BY DEF PaidRequests
<1>6. \A q \in Queries : Status(q)' = Status(q)
  BY DEF Status, Saved, TxRows
<1>7. Lifecycle!Decide(S, P)
  BY <1>2, <1>4, <1>5, <1>6 DEF Lifecycle!Decide, PaidRequests
<1> QED
  BY <1>3, <1>7

\* Every behaviour of the service, the chain and the clock is, seen through the
\* status API and the payments made, a behaviour of the lifecycle.
THEOREM Refinement ==
  ASSUME PromptExpiry
  PROVE  Spec => ImplementsLifecycle
<1>1. Init => Lifecycle!Init
  BY DEF Init, Lifecycle!Init, Executed, Status, Saved
<1>2. IInv /\ IInv' /\ [Next]_vars => [Lifecycle!Next]_(Lifecycle!vars)
  <2> SUFFICES ASSUME IInv, IInv', [Next]_vars
               PROVE  Lifecycle!Next \/ UNCHANGED Lifecycle!vars
    OBVIOUS
  <2> DEFINE Same == UNCHANGED <<requestVars, rowVars, execAt, delivered>>
  <2>1. Same => UNCHANGED Lifecycle!vars
    BY SimQuiet
  <2>2. ASSUME ProcessorSynced \/ ProcessorStopped \/ ProcessorNothing \/ SendMessage
        PROVE  Same
    BY <2>2 DEF ProcessorSynced, ProcessorStopped, ProcessorNothing, SendMessage, chainVars
  <2>3. ASSUME ExpirationSynced \/ ExpirationStopped \/ ScannerStopped \/ Stop \/ Tick
        PROVE  Same
    BY <2>3 DEF ExpirationSynced, ExpirationStopped, ScannerStopped, Stop, Tick, chainVars
  <2>4. ASSUME Restart PROVE Same
    BY <2>4 DEF Restart, ProcessExit, chainVars
  <2>5. ASSUME UNCHANGED vars PROVE Same
    BY <2>5 DEF vars, chainVars
  <2>6. ASSUME NEW S \in SUBSET ExternalTasks, BuildMessage(S) PROVE Same
    BY <2>6 DEF BuildMessage, chainVars
  <2>7. ASSUME NEW d \in Dests, SaveWithdrawalRequest(d) PROVE Lifecycle!Next
    BY <2>7, SimSave DEF Lifecycle!Next
  <2>8. ASSUME CreateExternalWithdrawals PROVE Lifecycle!Next
    BY <2>8, SimCreate DEF Lifecycle!Next
  <2>9. ASSUME SetExpired PROVE Lifecycle!Next
    BY <2>9, SimExpire DEF Lifecycle!Next
  <2>10. ASSUME NEW t \in unscanned, ScanBlock(t) PROVE Lifecycle!Next
    BY <2>10, SimScan DEF Lifecycle!Next
  <2>11. ASSUME NEW t \in 1..MaxTime, NEW E \in SUBSET mempool,
                NEW D \in SUBSET Outgoing(E), ChainBlock(t, E, D)
         PROVE  Lifecycle!Next
    BY <2>11, SimBlock DEF Lifecycle!Next
  <2> HIDE DEF Same
  <2> QED
    BY <2>1, <2>2, <2>3, <2>4, <2>5, <2>6, <2>7, <2>8, <2>9, <2>10, <2>11, Zenon DEF Next
<1> QED
  BY <1>1, <1>2, Invariance, PTL DEF Spec, Lifecycle!Spec, ImplementsLifecycle
=============================================================================
