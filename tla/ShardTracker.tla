---------------------------- MODULE ShardTracker ----------------------------
(***************************************************************************)
(* How the block scanner gets its blocks.  The shard of the service's      *)
(* wallets splits and merges; the tracker asks a node for the newest       *)
(* masterchain block, walks the parents of its shard block back to the     *)
(* last block it knows, and hands the blocks out oldest first.  Only saved *)
(* blocks survive a restart.                                               *)
(*                                                                         *)
(* A shard is the sequence of its prefix bits, a block <<shard, seqno>>.   *)
(***************************************************************************)
EXTENDS Naturals, Sequences, SequencesExt

CONSTANTS
    Home,           \* the bits of the service's shard byte
    None,           \* nil of a block
    MaxSeqno,       \* bound: seqno of a shard block
    MaxMasters,     \* bound: masterchain blocks
    MaxRestarts     \* bound: restarts of the process

ASSUME ConstantsAssumption ==
    /\ Home \in Seq({0, 1})
    /\ MaxSeqno \in Nat /\ MaxMasters \in Nat /\ MaxRestarts \in Nat
    /\ None \notin Seq({0, 1}) \X Nat

VARIABLES
    \* the chain: newest seqno of every shard, <<block, parent>> pairs of the
    \* blocks of the home shard, shard blocks of every masterchain block
    tips, links, masters,
    \* ShardTracker: lastKnownShardBlock, lastMasterBlock, buffer, and the
    \* arguments of getShardBlocksRecursively (batch oldest first)
    pc, known, lastMaster, buffer, at, batch, gracefulShutdown,
    \* payments.block_data in the order of saving
    saved,
    restarts

chainVars == <<tips, links, masters>>
walkVars == <<at, batch>>
trackerVars == <<pc, known, lastMaster, buffer, walkVars, gracefulShutdown>>
vars == <<chainVars, trackerVars, saved, restarts>>

-----------------------------------------------------------------------------
(* Shards *)

\* isInShard: the prefix agrees with the shard byte.
InShard(s) == IsPrefix(s, Home)

\* filterByShard: the one block that holds the accounts of the service.
FilterByShard(ids) == CHOOSE b \in ids : InShard(b[1])

\* convertBlockToShardHeader: after a merge a block has two parents.
Parents(b) == {l[2] : l \in {k \in links : k[1] = b}}
Parent(b) == FilterByShard(Parents(b))

\* GetLastSavedBlockID: the block with the greatest seqno.
LastSavedBlockID ==
    IF saved = <<>> THEN None
    ELSE CHOOSE b \in Range(saved) : \A c \in Range(saved) : c[2] <= b[2]

-----------------------------------------------------------------------------
Init ==
    /\ tips = [s \in {<<>>} |-> 1]
    /\ links = {}
    /\ masters = << {<<<<>>, 1>>} >>
    /\ pc = "next" /\ known = None /\ lastMaster = 0 /\ buffer = <<>>
    /\ at = None /\ batch = <<>> /\ gracefulShutdown = FALSE
    /\ saved = <<>>
    /\ restarts = 0

-----------------------------------------------------------------------------
(* The chain *)

\* A block of shard s; only parents of blocks in the home shard are ever asked.
ShardBlock(s) ==
    /\ tips[s] < MaxSeqno
    /\ tips' = [tips EXCEPT ![s] = @ + 1]
    /\ links' = IF InShard(s) THEN links \cup {<< <<s, tips[s] + 1>>, <<s, tips[s]>> >>}
                              ELSE links
    /\ UNCHANGED <<masters, trackerVars, saved, restarts>>

\* The home shard splits: the first block of each half follows its last block.
Split(s) ==
    /\ InShard(s) /\ Len(s) < Len(Home) /\ tips[s] < MaxSeqno
    /\ LET half == {Append(s, 0), Append(s, 1)}
       IN  /\ tips' = [r \in (DOMAIN tips \ {s}) \cup half |->
                          IF r \in half THEN tips[s] + 1 ELSE tips[r]]
           /\ links' = links \cup {<< <<r, tips[s] + 1>>, <<s, tips[s]>> >> :
                                      r \in {h \in half : InShard(h)}}
    /\ UNCHANGED <<masters, trackerVars, saved, restarts>>

\* The two halves of s merge: the next block has both last blocks as parents.
Merge(s) ==
    LET half == {Append(s, 0), Append(s, 1)}
        top == IF tips[Append(s, 0)] > tips[Append(s, 1)] THEN tips[Append(s, 0)]
                                                        ELSE tips[Append(s, 1)]
    IN  /\ half \subseteq DOMAIN tips
        /\ top < MaxSeqno
        /\ tips' = [r \in (DOMAIN tips \ half) \cup {s} |-> IF r = s THEN top + 1 ELSE tips[r]]
        /\ links' = links \cup {<< <<s, top + 1>>, <<h, tips[h]>> >> : h \in half}
        /\ UNCHANGED <<masters, trackerVars, saved, restarts>>

\* A masterchain block refers to the last block of every shard.
MasterBlock ==
    /\ Len(masters) < MaxMasters
    /\ masters' = Append(masters, {<<s, tips[s]>> : s \in DOMAIN tips})
    /\ UNCHANGED <<tips, links, trackerVars, saved, restarts>>

-----------------------------------------------------------------------------
(* The tracker *)

\* Mutant: only the first masterchain block is taken.
GetMasterOnce(i) ==
    /\ pc = "next" /\ ~gracefulShutdown /\ buffer = <<>>
    /\ lastMaster = 0
    /\ lastMaster' = i
    /\ at' = FilterByShard(masters[i]) /\ batch' = <<>>
    /\ pc' = "walk"
    /\ UNCHANGED <<chainVars, known, buffer, gracefulShutdown, saved, restarts>>

\* NextBlock with an empty buffer: getNextMasterBlockID waits until the node
\* answers with a block other than the last one (a node that lags behind may
\* answer with an older one), and loadShardBlocksBatch starts from its shard
\* block.
GetMaster(i) ==
    /\ pc = "next" /\ ~gracefulShutdown /\ buffer = <<>>
    /\ i # lastMaster
    /\ lastMaster' = i
    /\ at' = FilterByShard(masters[i]) /\ batch' = <<>>
    /\ pc' = "walk"
    /\ UNCHANGED <<chainVars, known, buffer, gracefulShutdown, saved, restarts>>

\* getShardBlocksRecursively in its four cases, and the end of
\* loadShardBlocksBatch.  Without a saved block the first block met is known.
WalkFirst ==
    /\ pc = "walk" /\ ~gracefulShutdown /\ known = None
    /\ known' = at
    /\ pc' = "next" /\ at' = None /\ batch' = <<>>
    /\ UNCHANGED <<chainVars, lastMaster, buffer, gracefulShutdown, saved, restarts>>

\* Mutant: lastKnownShardBlock becomes the oldest block of the batch.
WalkDoneOldest ==
    /\ pc = "walk" /\ ~gracefulShutdown /\ at = known
    /\ known' = IF batch = <<>> THEN known ELSE Head(batch)
    /\ buffer' = buffer \o batch
    /\ pc' = "next" /\ at' = None /\ batch' = <<>>
    /\ UNCHANGED <<chainVars, lastMaster, gracefulShutdown, saved, restarts>>

WalkDone ==
    /\ pc = "walk" /\ ~gracefulShutdown /\ at = known
    /\ known' = IF batch = <<>> THEN known ELSE Last(batch)
    /\ buffer' = buffer \o batch
    /\ pc' = "next" /\ at' = None /\ batch' = <<>>
    /\ UNCHANGED <<chainVars, lastMaster, gracefulShutdown, saved, restarts>>

\* The node referred to an old block: nothing new.
WalkOld ==
    /\ pc = "walk" /\ ~gracefulShutdown /\ known # None /\ at # known
    /\ known[2] > at[2]
    /\ pc' = "next" /\ at' = None /\ batch' = <<>>
    /\ UNCHANGED <<chainVars, known, lastMaster, buffer, gracefulShutdown, saved, restarts>>

WalkParent ==
    /\ pc = "walk" /\ ~gracefulShutdown /\ known # None /\ at # known
    /\ known[2] <= at[2]
    /\ batch' = <<at>> \o batch
    /\ at' = Parent(at)
    /\ UNCHANGED <<chainVars, pc, known, lastMaster, buffer, gracefulShutdown, saved, restarts>>

\* NextBlock from the buffer, and processBlock until the block is saved.
ProcessBlock ==
    /\ pc = "next" /\ ~gracefulShutdown /\ buffer # <<>>
    /\ saved' = Append(saved, Head(buffer))
    /\ buffer' = Tail(buffer)
    /\ UNCHANGED <<chainVars, pc, known, lastMaster, walkVars, gracefulShutdown, restarts>>

\* SIGTERM, and the next look at the flag: the batch in hand is dropped.
Stop ==
    /\ ~gracefulShutdown
    /\ gracefulShutdown' = TRUE
    /\ UNCHANGED <<chainVars, pc, known, lastMaster, buffer, walkVars, saved, restarts>>

Exit ==
    /\ pc # "stopped" /\ gracefulShutdown
    /\ pc' = "stopped"
    /\ UNCHANGED <<chainVars, known, lastMaster, buffer, walkVars, gracefulShutdown, saved, restarts>>

\* The process ends, by a crash, an error or after Exit, and starts again.
Restart ==
    /\ restarts < MaxRestarts
    /\ restarts' = restarts + 1
    /\ pc' = "next" /\ known' = LastSavedBlockID /\ lastMaster' = 0
    /\ buffer' = <<>> /\ at' = None /\ batch' = <<>>
    /\ gracefulShutdown' = FALSE
    /\ UNCHANGED <<chainVars, saved>>

Next ==
    \/ \E s \in DOMAIN tips : ShardBlock(s)
    \/ \E s \in DOMAIN tips : Split(s)
    \/ \E s \in {Front(r) : r \in DOMAIN tips \ {<<>>}} : Merge(s)
    \/ MasterBlock
    \/ \E i \in DOMAIN masters : GetMaster(i)
    \/ WalkFirst
    \/ WalkDone
    \/ WalkOld
    \/ WalkParent
    \/ ProcessBlock
    \/ Stop
    \/ Exit
    \/ Restart

\* The goroutine of the scanner runs, and the node answers with its newest
\* masterchain block again and again.
Fairness ==
    /\ WF_vars(WalkFirst \/ WalkDone \/ WalkOld \/ WalkParent)
    /\ WF_vars(ProcessBlock)
    /\ SF_vars(GetMaster(Len(masters)))

Spec == Init /\ [][Next]_vars
FairSpec == Spec /\ Fairness

-----------------------------------------------------------------------------
(* Properties *)

\* No block is left out, saved twice or saved out of order, through splits and
\* merges of the shard, old answers of the node, and restarts: every block that is
\* saved or buffered is the parent, in the shard of the service, of the next one,
\* and lastKnownShardBlock is the newest, so that the next batch continues there.
SavedIsChain ==
    LET all == saved \o buffer
    IN  /\ \A i \in 1..(Len(all) - 1) : Parent(all[i + 1]) = all[i]
        /\ known # None /\ all # <<>> => known = Last(all)

\* When the chain is quiet and the process is not stopped for good, everything
\* up to the newest masterchain block is saved in the end.
Newest == FilterByShard(masters[Len(masters)])
CaughtUp == known = Newest /\ buffer = <<>> /\ (saved # <<>> => Last(saved) = Newest)
CatchesUp == <>[](gracefulShutdown \/ CaughtUp)
=============================================================================
