---------------------------- MODULE ScannerProofs ----------------------------
(***************************************************************************)
(* Theorems about the two sides of the block scanner: ShardTracker, which  *)
(* gives it its blocks, and Notifications, which says what was saved of    *)
(* them.  For any shard, any splits and merges of the chain, any channels, *)
(* blocks, incomes and attempts, and any restarts.                         *)
(***************************************************************************)
EXTENDS ShardTracker, Notifications, TLAPS

-----------------------------------------------------------------------------
(* The tracker: its inductive invariant *)

ShardIds == Seq({0, 1})
BlockIds == ShardIds \X Nat
Genesis == << <<>>, 1 >>

\* The blocks of the home shard.
HomeBlocks == {Genesis} \cup {l[1] : l \in links}

ShapeInv ==
    /\ DOMAIN tips \subseteq ShardIds /\ tips \in [DOMAIN tips -> Nat]
    /\ links \subseteq BlockIds \X BlockIds
    /\ masters \in Seq(SUBSET BlockIds)
    /\ batch \in Seq(BlockIds) /\ buffer \in Seq(BlockIds) /\ saved \in Seq(BlockIds)

\* p is the one parent of b in the home shard, and no block lies between them.
IsParent(b, p) ==
    /\ <<b, p>> \in links /\ InShard(p[1]) /\ p[2] < b[2]
    /\ \A q \in BlockIds : <<b, q>> \in links /\ InShard(q[1]) => q = p
    /\ \A c \in HomeBlocks : c[2] < b[2] => c[2] <= p[2]

\* The blocks of the home shard are one line, told apart by their seqnos.
LineInv ==
    /\ \A b \in HomeBlocks : InShard(b[1]) /\ b[2] >= 1
    /\ \A b, c \in HomeBlocks : b[2] = c[2] => b = c
    /\ \A b \in HomeBlocks \ {Genesis} : \E p \in HomeBlocks : IsParent(b, p)

\* h is the only shard that is the service's, and its tip the newest block.
IsHome(h) ==
    /\ h \in DOMAIN tips /\ InShard(h)
    /\ \A s \in DOMAIN tips : InShard(s) => s = h
    /\ <<h, tips[h]>> \in HomeBlocks
    /\ \A b \in HomeBlocks : b[2] <= tips[h]

TipsInv ==
    /\ \E h \in ShardIds : IsHome(h)
    /\ \A s \in DOMAIN tips : s # <<>> => InShard(Front(s)) /\ Len(s) <= Len(Home)

\* A masterchain block has one block of the home shard.
MasterInv ==
    \A i \in DOMAIN masters : \E b \in masters[i] \cap HomeBlocks :
        \A c \in masters[i] : InShard(c[1]) => c = b

\* A piece of the line: blocks of it, in order, each the parent of the next.
OnLine(s) == \A i \in DOMAIN s : s[i] \in HomeBlocks
Sorted(s) == \A i, j \in DOMAIN s : i < j => s[i][2] < s[j][2]
Linked(s) == \A i \in DOMAIN s : i + 1 \in DOMAIN s => Parent(s[i + 1]) = s[i]
Piece(s) == OnLine(s) /\ Sorted(s) /\ Linked(s)

\* The walk has collected the blocks from at on, and has not passed the known one.
WalkInv ==
    pc = "walk" =>
        /\ buffer = <<>> /\ at \in HomeBlocks /\ Piece(batch)
        /\ batch # <<>> => /\ known # None /\ known[2] <= at[2]
                           /\ Parent(batch[1]) = at /\ at[2] < batch[1][2]

\* What is saved and buffered is a piece of the line that ends with the known block.
TableInv ==
    /\ known = None \/ known \in HomeBlocks
    /\ known = None => saved = <<>> /\ buffer = <<>>
    /\ Piece(saved \o buffer)
    /\ saved \o buffer # <<>> => known = Last(saved \o buffer)

IInv == ShapeInv /\ LineInv /\ TipsInv /\ MasterInv /\ WalkInv /\ TableInv
-----------------------------------------------------------------------------
(* Shards *)

LEMMA InShardDef ==
    ASSUME NEW s \in ShardIds
    PROVE  InShard(s) <=> Len(s) <= Len(Home) /\ \A i \in 1..Len(s) : s[i] = Home[i]
<1>1. Home \in ShardIds BY ConstantsAssumption DEF ShardIds
<1>2. Len(s) \in Nat /\ Len(Home) \in Nat BY <1>1 DEF ShardIds
<1>3. SubSeq(s, 1, Len(s)) = s BY DEF ShardIds
<1>4. ASSUME Len(s) <= Len(Home)
      PROVE  SubSeq(Home, 1, Len(s)) = [i \in 1..Len(s) |-> Home[i]]
  BY <1>1, <1>2, <1>4 DEF ShardIds
<1>5. s = [i \in 1..Len(s) |-> s[i]] BY DEF ShardIds
<1> QED BY <1>1, <1>2, <1>3, <1>4, <1>5 DEF InShard, IsPrefix

\* Of the two halves of a shard of the service one is the service's.
LEMMA Halves ==
    ASSUME NEW s \in ShardIds
    PROVE  /\ InShard(<<>>)
           /\ \A b \in {0, 1} : /\ Append(s, b) \in ShardIds /\ Append(s, b) # <<>>
                                /\ Front(Append(s, b)) = s /\ Len(Append(s, b)) = Len(s) + 1
                                /\ Append(s, b) # s
           /\ Append(s, 0) # Append(s, 1)
           /\ InShard(s) /\ Len(s) < Len(Home) =>
                 \E b \in {0, 1} : \A c \in {0, 1} : InShard(Append(s, c)) <=> c = b
<1>1. Home \in ShardIds BY ConstantsAssumption DEF ShardIds
<1>2. Len(s) \in Nat /\ Len(Home) \in Nat BY <1>1 DEF ShardIds
<1>3. <<>> \in ShardIds /\ InShard(<<>>)
  <2>1. <<>> \in ShardIds /\ Len(<<>>) = 0 BY DEF ShardIds
  <2> QED BY <1>2, <2>1, InShardDef
<1>4. ASSUME NEW b \in {0, 1}
      PROVE  /\ Append(s, b) \in ShardIds /\ Len(Append(s, b)) = Len(s) + 1
             /\ Append(s, b)[Len(s) + 1] = b
             /\ \A i \in 1..Len(s) : Append(s, b)[i] = s[i]
             /\ Append(s, b) # <<>> /\ Append(s, b) # s
  <2>1. /\ Append(s, b) \in ShardIds /\ Len(Append(s, b)) = Len(s) + 1
        /\ Append(s, b)[Len(s) + 1] = b
        /\ \A i \in 1..Len(s) : Append(s, b)[i] = s[i]
    BY <1>2 DEF ShardIds
  <2>2. Len(Append(s, b)) # 0 /\ Len(Append(s, b)) # Len(s) BY <1>2, <2>1
  <2>3. Append(s, b) # <<>> BY <2>2
  <2>4. Append(s, b) # s BY <2>2
  <2> QED BY <2>1, <2>3, <2>4
<1>5. ASSUME NEW b \in {0, 1} PROVE Front(Append(s, b)) = s
  <2>1. Front(Append(s, b)) = SubSeq(Append(s, b), 1, Len(s))
    BY <1>2, <1>4 DEF Front
  <2>2. SubSeq(Append(s, b), 1, Len(s)) = [i \in 1..Len(s) |-> Append(s, b)[i]]
    BY <1>2, <1>4 DEF ShardIds
  <2>3. s = [i \in 1..Len(s) |-> s[i]] BY DEF ShardIds
  <2> QED BY <1>4, <2>1, <2>2, <2>3
<1>6. ASSUME InShard(s), Len(s) < Len(Home)
      PROVE  \E b \in {0, 1} : \A c \in {0, 1} : InShard(Append(s, c)) <=> c = b
  <2>1. Home[Len(s) + 1] \in {0, 1} BY <1>1, <1>2, <1>6 DEF ShardIds
  <2>2. \A i \in 1..Len(s) : s[i] = Home[i] BY <1>6, InShardDef
  <2>3. ASSUME NEW c \in {0, 1} PROVE InShard(Append(s, c)) <=> c = Home[Len(s) + 1]
    <3>1. Len(Append(s, c)) <= Len(Home) BY <1>2, <1>4, <1>6
    <3>2. 1..Len(Append(s, c)) = 1..Len(s) \cup {Len(s) + 1} BY <1>2, <1>4
    <3> HIDE DEF ShardIds
    <3>3. InShard(Append(s, c)) <=> \A i \in 1..Len(Append(s, c)) : Append(s, c)[i] = Home[i]
      BY <1>4, <3>1, InShardDef
    <3> QED BY <1>4, <2>2, <3>2, <3>3
  <2> QED BY <2>1, <2>3
<1>7. Append(s, 0) # Append(s, 1) BY <1>4
<1> QED BY <1>3, <1>4, <1>5, <1>6, <1>7

-----------------------------------------------------------------------------
(* The line of blocks *)

LEMMA BlockFacts ==
    ASSUME ShapeInv
    PROVE  /\ HomeBlocks \subseteq BlockIds /\ Genesis \in HomeBlocks /\ None \notin HomeBlocks
           /\ \A b \in BlockIds : b[1] \in ShardIds /\ b[2] \in Nat /\ b = <<b[1], b[2]>>
<1>1. Genesis \in BlockIds
  <2>1. <<>> \in ShardIds BY DEF ShardIds
  <2> QED BY <2>1 DEF Genesis, BlockIds
<1>2. HomeBlocks \subseteq BlockIds BY <1>1 DEF HomeBlocks, ShapeInv
<1>3. None \notin BlockIds BY ConstantsAssumption DEF BlockIds, ShardIds
<1>4. \A b \in BlockIds : b[1] \in ShardIds /\ b[2] \in Nat /\ b = <<b[1], b[2]>> BY DEF BlockIds
<1> QED BY <1>2, <1>3, <1>4 DEF HomeBlocks

\* The parent that the tracker computes.
LEMMA ParentFacts ==
    ASSUME ShapeInv, LineInv, NEW b \in HomeBlocks, b # Genesis
    PROVE  Parent(b) \in HomeBlocks /\ IsParent(b, Parent(b))
<1>1. PICK p \in HomeBlocks : IsParent(b, p) BY DEF LineInv
<1>2. p \in Parents(b) /\ InShard(p[1]) BY <1>1 DEF IsParent, Parents
<1>3. ASSUME NEW q \in Parents(b), InShard(q[1]) PROVE q = p
  <2>1. PICK l \in links : l[1] = b /\ l[2] = q BY DEF Parents
  <2>2. l = <<b, q>> /\ q \in BlockIds BY <2>1 DEF ShapeInv
  <2> QED BY <1>1, <1>3, <2>1, <2>2 DEF IsParent
<1>4. Parent(b) = p BY <1>2, <1>3 DEF Parent, FilterByShard
<1> QED BY <1>1, <1>4

\* A distinct block that is not newer than b is not newer than the parent of b.
LEMMA NothingBetween ==
    ASSUME ShapeInv, LineInv, NEW b \in HomeBlocks, NEW c \in HomeBlocks, c # b, c[2] <= b[2]
    PROVE  /\ b # Genesis /\ Parent(b) \in HomeBlocks
           /\ Parent(b)[2] < b[2] /\ c[2] <= Parent(b)[2]
<1>1. c[2] \in Nat /\ b[2] \in Nat BY BlockFacts
<1>2. c[2] < b[2] BY <1>1 DEF LineInv
<1>3. b # Genesis
  <2>1. c[2] >= 1 BY DEF LineInv
  <2> QED BY <1>1, <1>2, <2>1 DEF Genesis
<1> QED BY <1>2, <1>3, ParentFacts DEF IsParent

LEMMA NoLinksFrame ==
    ASSUME links' = links
    PROVE  /\ HomeBlocks' = HomeBlocks
           /\ \A b : Parent(b)' = Parent(b)
           /\ \A s : Piece(s)' <=> Piece(s)
           /\ \A b, p : IsParent(b, p)' <=> IsParent(b, p)
           /\ LineInv => LineInv'
<1>1. HomeBlocks' = HomeBlocks BY DEF HomeBlocks
<1>2. \A b : Parent(b)' = Parent(b) BY DEF Parent, Parents
<1>3. \A s : Piece(s)' <=> Piece(s) BY <1>1, <1>2 DEF Piece, OnLine, Linked, Sorted
<1>4. \A b, p : IsParent(b, p)' <=> IsParent(b, p) BY <1>1 DEF IsParent
<1>5. LineInv => LineInv' BY <1>1, <1>4 DEF LineInv
<1> QED BY <1>1, <1>2, <1>3, <1>4, <1>5

\* A new block n after the tip h of the line, and what this leaves alone.
Extends(h, n, new) ==
    /\ links' = links \cup new
    /\ n \in BlockIds /\ InShard(n[1]) /\ tips[h] < n[2]
    /\ <<n, <<h, tips[h]>> >> \in new
    /\ \A l \in new : /\ l[1] = n /\ l[2] \in BlockIds /\ l = <<l[1], l[2]>>
                      /\ InShard(l[2][1]) => l[2] = <<h, tips[h]>>

LEMMA ExtendLine ==
    ASSUME ShapeInv, LineInv, NEW h, IsHome(h), NEW n, NEW new, Extends(h, n, new)
    PROVE  /\ LineInv' /\ links' \subseteq BlockIds \X BlockIds
           /\ HomeBlocks' = HomeBlocks \cup {n} /\ n \notin HomeBlocks
           /\ \A b \in HomeBlocks : b[2] < n[2] /\ Parent(b)' = Parent(b)
           /\ \A s : Piece(s) => Piece(s)'
<1>0. PICK t : t = <<h, tips[h]>> OBVIOUS
<1>1. /\ t \in HomeBlocks /\ InShard(t[1]) /\ t[2] = tips[h] /\ t[2] < n[2]
      /\ \A b \in HomeBlocks : b[2] <= t[2]
      /\ t[2] \in Nat /\ n[2] \in Nat /\ n \in BlockIds /\ InShard(n[1])
  <2>1. t \in HomeBlocks /\ t[1] = h /\ t[2] = tips[h] BY <1>0 DEF IsHome
  <2>2. t[2] \in Nat /\ n \in BlockIds /\ n[2] \in Nat BY <2>1, BlockFacts DEF Extends
  <2> QED BY <1>0, <2>1, <2>2 DEF IsHome, Extends
<1>2. <<n, t>> \in new BY <1>0 DEF Extends
<1>3. \A l \in new : l[1] = n /\ l[2] \in BlockIds /\ l = <<n, l[2]>> /\ (InShard(l[2][1]) => l[2] = t)
  BY <1>0 DEF Extends
<1>4. HomeBlocks' = HomeBlocks \cup {n}
  <2>1. links' = links \cup new BY DEF Extends
  <2> QED BY <1>2, <1>3, <2>1 DEF HomeBlocks
<1>5. \A b \in HomeBlocks : b[2] < n[2] /\ b[2] \in Nat
  <2> SUFFICES ASSUME NEW b \in HomeBlocks PROVE b[2] < n[2] /\ b[2] \in Nat OBVIOUS
  <2>1. b[2] \in Nat /\ b[2] <= t[2] BY <1>1, BlockFacts
  <2> QED BY <1>1, <2>1
<1>6. n \notin HomeBlocks BY <1>1, <1>5
<1>7. ASSUME NEW b \in HomeBlocks, NEW q PROVE <<b, q>> \in links' <=> <<b, q>> \in links
  <2>1. <<b, q>> \notin new BY <1>3, <1>6
  <2> QED BY <2>1 DEF Extends
<1>8. ASSUME NEW b \in HomeBlocks PROVE Parent(b)' = Parent(b)
  <2>1. \A l \in new : l[1] # b BY <1>3, <1>6
  <2>2. Parents(b)' = Parents(b) BY <2>1 DEF Parents, Extends
  <2> QED BY <2>2 DEF Parent
<1>9. ASSUME NEW b \in HomeBlocks, NEW p, IsParent(b, p) PROVE IsParent(b, p)'
  <2>1. ~(n[2] < b[2]) BY <1>1, <1>5
  <2> QED BY <1>4, <1>7, <1>9, <2>1 DEF IsParent
<1>10. IsParent(n, t)'
  <2>1. <<n, t>> \in links' BY <1>2 DEF Extends
  <2>2. ASSUME NEW q \in BlockIds, <<n, q>> \in links', InShard(q[1]) PROVE q = t
    <3>1. <<n, q>> \notin links
      <4> SUFFICES ASSUME <<n, q>> \in links PROVE FALSE OBVIOUS
      <4>1. n \in {l[1] : l \in links} OBVIOUS
      <4> QED BY <1>6, <4>1 DEF HomeBlocks
    <3>2. <<n, q>> \in new BY <2>2, <3>1 DEF Extends
    <3> QED BY <1>3, <2>2, <3>2
  <2>3. \A c \in HomeBlocks' : c[2] < n[2] => c[2] <= t[2] BY <1>1, <1>4
  <2> QED BY <1>1, <2>1, <2>2, <2>3 DEF IsParent
<1>11. LineInv'
  <2>1. \A b \in HomeBlocks' : InShard(b[1]) /\ b[2] >= 1
    <3>1. n[2] >= 1 BY <1>1
    <3> QED BY <1>1, <1>4, <3>1 DEF LineInv
  <2>2. \A b, c \in HomeBlocks' : b[2] = c[2] => b = c BY <1>1, <1>4, <1>5 DEF LineInv
  <2>3. ASSUME NEW b \in HomeBlocks' \ {Genesis} PROVE \E p \in HomeBlocks' : IsParent(b, p)'
    <3>1. CASE b = n BY <1>1, <1>4, <1>10, <3>1
    <3>2. CASE b \in HomeBlocks
      <4>1. PICK p \in HomeBlocks : IsParent(b, p) BY <2>3, <3>2 DEF LineInv
      <4> QED BY <1>4, <1>9, <3>2, <4>1
    <3> QED BY <1>4, <3>1, <3>2
  <2> QED BY <2>1, <2>2, <2>3 DEF LineInv
<1>12. links' \subseteq BlockIds \X BlockIds
  <2>1. \A l \in new : l \in BlockIds \X BlockIds BY <1>1, <1>3
  <2> QED BY <2>1 DEF Extends, ShapeInv
<1>13. ASSUME NEW s, Piece(s) PROVE Piece(s)'
  <2>1. OnLine(s)' BY <1>4, <1>13 DEF Piece, OnLine
  <2>2. Sorted(s)' BY <1>13 DEF Piece, Sorted
  <2>3. Linked(s)' BY <1>8, <1>13 DEF Piece, Linked, OnLine
  <2> QED BY <2>1, <2>2, <2>3 DEF Piece
<1> QED BY <1>4, <1>5, <1>6, <1>8, <1>11, <1>12, <1>13

\* What blocks of the chain change of the invariant, once the line is known.
LEMMA ChainFrame ==
    ASSUME IInv, UNCHANGED <<masters, trackerVars, saved>>,
           DOMAIN tips' \subseteq ShardIds, tips' \in [DOMAIN tips' -> Nat],
           links' \subseteq BlockIds \X BlockIds, LineInv', TipsInv',
           HomeBlocks \subseteq HomeBlocks',
           \A b \in HomeBlocks : Parent(b)' = Parent(b),
           \A s : Piece(s) => Piece(s)'
    PROVE  IInv'
<1> USE DEF IInv
<1>1. UNCHANGED <<masters, pc, known, lastMaster, buffer, at, batch, saved>>
  BY DEF trackerVars, walkVars
<1>2. ShapeInv' BY <1>1 DEF ShapeInv
<1>3. MasterInv' BY <1>1 DEF MasterInv
<1>4. WalkInv'
  <2> SUFFICES ASSUME pc = "walk" PROVE WalkInv' BY <1>1 DEF WalkInv
  <2>1. batch # <<>> => batch[1] \in HomeBlocks
    <3> SUFFICES ASSUME batch # <<>> PROVE batch[1] \in HomeBlocks OBVIOUS
    <3>1. 1 \in DOMAIN batch BY DEF ShapeInv
    <3> QED BY <3>1 DEF WalkInv, Piece, OnLine
  <2> QED BY <1>1, <2>1 DEF WalkInv
<1>5. TableInv' BY <1>1 DEF TableInv
<1> QED BY <1>2, <1>3, <1>4, <1>5

LEMMA ShardBlockStep ==
    ASSUME IInv, NEW s \in DOMAIN tips, ShardBlock(s) PROVE IInv'
<1> USE DEF IInv
<1>1. PICK h \in ShardIds : IsHome(h) BY DEF TipsInv
<1>2. /\ tips' = [tips EXCEPT ![s] = @ + 1] /\ UNCHANGED <<masters, trackerVars, saved>>
      /\ s \in ShardIds /\ tips[s] \in Nat
  BY DEF ShardBlock, ShapeInv
<1>3. DOMAIN tips' = DOMAIN tips /\ tips' \in [DOMAIN tips' -> Nat] /\ tips'[s] = tips[s] + 1
  BY <1>2 DEF ShapeInv
<1>4. CASE InShard(s)
  <2>1. s = h BY <1>1, <1>4 DEF IsHome
  <2>0. PICK n, new : n = <<s, tips[s] + 1>> /\ new = {<<n, <<s, tips[s]>> >>} OBVIOUS
  <2>2. Extends(h, n, new)
    <3>1. links' = links \cup new BY <1>4, <2>0 DEF ShardBlock
    <3>2. n \in BlockIds /\ <<s, tips[s]>> \in BlockIds BY <1>2, <2>0 DEF BlockIds
    <3>3. n[1] = s /\ n[2] = tips[s] + 1 /\ tips[s] < n[2] BY <1>2, <2>0
    <3> QED BY <1>4, <2>0, <2>1, <3>1, <3>2, <3>3 DEF Extends
  <2>3. n = <<h, tips'[h]>> /\ n[2] = tips'[h] BY <1>3, <2>0, <2>1
  <2>4. /\ LineInv' /\ links' \subseteq BlockIds \X BlockIds
        /\ HomeBlocks' = HomeBlocks \cup {n}
        /\ \A b \in HomeBlocks : b[2] < n[2] /\ Parent(b)' = Parent(b)
        /\ \A x : Piece(x) => Piece(x)'
    BY <1>1, <2>2, ExtendLine
  <2>5. tips'[h] \in Nat BY <1>1, <1>3 DEF IsHome
  <2>6. \A b \in HomeBlocks' : b[2] <= tips'[h]
    <3> SUFFICES ASSUME NEW b \in HomeBlocks' PROVE b[2] <= tips'[h] OBVIOUS
    <3>1. b = n \/ b \in HomeBlocks BY <2>4
    <3>2. CASE b = n BY <2>3, <2>5, <3>2
    <3>3. CASE b \in HomeBlocks BY <2>3, <2>4, <2>5, <3>3, BlockFacts
    <3> QED BY <3>1, <3>2, <3>3
  <2>7. IsHome(h)' BY <1>1, <1>3, <2>3, <2>4, <2>6 DEF IsHome
  <2>8. TipsInv' BY <1>3, <2>7 DEF TipsInv
  <2> QED BY <1>2, <1>3, <2>4, <2>8, ChainFrame DEF ShapeInv
<1>5. CASE ~InShard(s)
  <2>1. links' = links BY <1>5 DEF ShardBlock
  <2>2. /\ HomeBlocks' = HomeBlocks /\ LineInv' /\ \A b : Parent(b)' = Parent(b)
        /\ \A x : Piece(x)' <=> Piece(x)
    BY <2>1, NoLinksFrame
  <2>3. s # h BY <1>1, <1>5 DEF IsHome
  <2>4. IsHome(h)' BY <1>1, <1>2, <1>3, <2>2, <2>3 DEF IsHome
  <2>5. TipsInv' BY <1>3, <2>4 DEF TipsInv
  <2> QED BY <1>2, <1>3, <2>1, <2>2, <2>5, ChainFrame DEF ShapeInv
<1> QED BY <1>4, <1>5

\* The line goes on with the first block of another shard k.
LEMMA NewHome ==
    ASSUME IInv, UNCHANGED <<masters, trackerVars, saved>>,
           NEW h, IsHome(h), NEW k \in ShardIds, NEW n, NEW new,
           DOMAIN tips' \subseteq ShardIds, tips' \in [DOMAIN tips' -> Nat],
           k \in DOMAIN tips', InShard(k), n = <<k, tips'[k]>>, Extends(h, n, new),
           \A s \in DOMAIN tips' : InShard(s) => s = k,
           \A s \in DOMAIN tips' : s # <<>> => InShard(Front(s)) /\ Len(s) <= Len(Home)
    PROVE  IInv'
<1>1. /\ LineInv' /\ links' \subseteq BlockIds \X BlockIds
      /\ HomeBlocks' = HomeBlocks \cup {n}
      /\ \A b \in HomeBlocks : b[2] < n[2] /\ Parent(b)' = Parent(b)
      /\ \A x : Piece(x) => Piece(x)'
  BY ExtendLine DEF IInv
<1>2. n[2] = tips'[k] /\ tips'[k] \in Nat OBVIOUS
<1>3. \A b \in HomeBlocks' : b[2] <= tips'[k]
  <2> SUFFICES ASSUME NEW b \in HomeBlocks' PROVE b[2] <= tips'[k] OBVIOUS
  <2>1. CASE b = n BY <1>2, <2>1
  <2>2. CASE b \in HomeBlocks BY <1>1, <1>2, <2>2, BlockFacts DEF IInv
  <2> QED BY <1>1, <2>1, <2>2
<1>4. IsHome(k)' BY <1>1, <1>3 DEF IsHome
<1>5. TipsInv' BY <1>4 DEF TipsInv
<1> QED BY <1>1, <1>5, ChainFrame

LEMMA SplitStep ==
    ASSUME IInv, NEW s \in DOMAIN tips, Split(s) PROVE IInv'
<1> USE DEF IInv
<1>1. s \in ShardIds /\ tips[s] \in Nat BY DEF ShapeInv
<1>2. /\ InShard(s) /\ Len(s) < Len(Home) /\ UNCHANGED <<masters, trackerVars, saved>>
  BY DEF Split
<1>3. IsHome(s) BY <1>2 DEF TipsInv, IsHome
<1>4. PICK half : half = {Append(s, 0), Append(s, 1)} OBVIOUS
<1>5. PICK t \in Nat : t = tips[s] + 1 BY <1>1
<1>6. /\ tips' = [r \in (DOMAIN tips \ {s}) \cup half |-> IF r \in half THEN t ELSE tips[r]]
      /\ links' = links \cup {<< <<r, t>>, <<s, tips[s]>> >> : r \in {x \in half : InShard(x)}}
  BY <1>4, <1>5 DEF Split
<1>7. PICK b \in {0, 1} : \A c \in {0, 1} : InShard(Append(s, c)) <=> c = b
  BY <1>1, <1>2, Halves
<1>8. PICK k : k = Append(s, b) OBVIOUS
<1>9. k \in half /\ k \in ShardIds /\ InShard(k) /\ \A r \in half : InShard(r) => r = k
  BY <1>1, <1>4, <1>7, <1>8, Halves
<1>10. \A r \in half : /\ r \in ShardIds /\ Front(r) = s /\ Len(r) <= Len(Home)
  <2>1. Len(s) \in Nat /\ Len(Home) \in Nat BY <1>1, ConstantsAssumption DEF ShardIds
  <2>2. Len(s) + 1 <= Len(Home) BY <1>2, <2>1
  <2> QED BY <1>1, <1>4, <2>2, Halves
<1>11. DOMAIN tips' = (DOMAIN tips \ {s}) \cup half /\ tips'[k] = t BY <1>6, <1>9
<1>12. DOMAIN tips' \subseteq ShardIds /\ tips' \in [DOMAIN tips' -> Nat]
  BY <1>6, <1>10, <1>11 DEF ShapeInv
<1>13. PICK n, new : n = <<k, t>> /\ new = {<<n, <<s, tips[s]>> >>} OBVIOUS
<1>14. Extends(s, n, new)
  <2>1. {x \in half : InShard(x)} = {k} BY <1>9
  <2>2. links' = links \cup new BY <1>6, <1>13, <2>1
  <2>3. n \in BlockIds /\ <<s, tips[s]>> \in BlockIds /\ n[1] = k /\ n[2] = t
    BY <1>1, <1>9, <1>13 DEF BlockIds
  <2>4. tips[s] < n[2] BY <1>1, <1>5, <2>3
  <2> QED BY <1>9, <1>13, <2>2, <2>3, <2>4 DEF Extends
<1>15. \A r \in DOMAIN tips' : InShard(r) => r = k
  <2>1. \A r \in DOMAIN tips \ {s} : ~InShard(r) BY <1>3 DEF IsHome
  <2> QED BY <1>9, <1>11, <2>1
<1>16. \A r \in DOMAIN tips' : r # <<>> => InShard(Front(r)) /\ Len(r) <= Len(Home)
  BY <1>2, <1>10, <1>11 DEF TipsInv
<1>17. n = <<k, tips'[k]>> /\ k \in DOMAIN tips' BY <1>9, <1>11, <1>13
<1> QED BY <1>2, <1>3, <1>9, <1>12, <1>14, <1>15, <1>16, <1>17, NewHome

LEMMA MergeStep ==
    ASSUME IInv, NEW s \in {Front(r) : r \in DOMAIN tips \ {<<>>}}, Merge(s) PROVE IInv'
<1> USE DEF IInv
<1>1. s \in ShardIds
  <2>1. PICK r \in DOMAIN tips \ {<<>>} : s = Front(r) OBVIOUS
  <2>2. r \in Seq({0, 1}) /\ r # <<>> BY <2>1 DEF ShapeInv, ShardIds
  <2>3. Len(r) \in Nat /\ Len(r) # 0 BY <2>2
  <2>4. SubSeq(r, 1, Len(r) - 1) \in Seq({0, 1}) BY <2>2, <2>3
  <2> QED BY <2>1, <2>4 DEF Front, ShardIds
<1>2. PICK half : half = {Append(s, 0), Append(s, 1)} OBVIOUS
<1>3. half \subseteq DOMAIN tips /\ UNCHANGED <<masters, trackerVars, saved>>
  BY <1>2 DEF Merge
<1>4. \A r \in half : /\ r \in ShardIds /\ r # <<>> /\ Front(r) = s /\ Len(r) = Len(s) + 1
                       /\ tips[r] \in Nat
  BY <1>1, <1>2, <1>3, Halves DEF ShapeInv
<1>5. InShard(s) /\ Len(s) < Len(Home)
  <2>1. Append(s, 0) \in half BY <1>2
  <2>2. Len(s) \in Nat /\ Len(Home) \in Nat BY <1>1, ConstantsAssumption DEF ShardIds
  <2>3. InShard(s) /\ Len(s) + 1 <= Len(Home) BY <1>3, <1>4, <2>1 DEF TipsInv
  <2> QED BY <2>2, <2>3
<1>6. PICK b \in {0, 1} : \A c \in {0, 1} : InShard(Append(s, c)) <=> c = b
  BY <1>1, <1>5, Halves
<1>7. PICK h : h = Append(s, b) OBVIOUS
<1>8. h \in half /\ h \in ShardIds /\ InShard(h) /\ (\A r \in half : InShard(r) => r = h)
  BY <1>1, <1>2, <1>6, <1>7, Halves
<1>9. IsHome(h) BY <1>3, <1>8 DEF TipsInv, IsHome
<1>10. PICK top \in Nat :
          /\ \A r \in half : tips[r] <= top
          /\ tips' = [r \in (DOMAIN tips \ half) \cup {s} |-> IF r = s THEN top + 1 ELSE tips[r]]
          /\ links' = links \cup {<< <<s, top + 1>>, <<r, tips[r]>> >> : r \in half}
  <2>1. PICK u \in Nat, v \in Nat : u = tips[Append(s, 0)] /\ v = tips[Append(s, 1)]
    BY <1>2, <1>4
  <2>2. PICK top : top = IF u > v THEN u ELSE v OBVIOUS
  <2>3. top \in Nat /\ u <= top /\ v <= top BY <2>1, <2>2
  <2>4. /\ tips' = [r \in (DOMAIN tips \ half) \cup {s} |-> IF r = s THEN top + 1 ELSE tips[r]]
        /\ links' = links \cup {<< <<s, top + 1>>, <<r, tips[r]>> >> : r \in half}
    BY <1>2, <2>1, <2>2 DEF Merge
  <2> QED BY <1>2, <2>1, <2>3, <2>4
<1>11. /\ DOMAIN tips' = (DOMAIN tips \ half) \cup {s} /\ tips'[s] = top + 1
       /\ DOMAIN tips' \subseteq ShardIds /\ tips' \in [DOMAIN tips' -> Nat]
  BY <1>1, <1>10 DEF ShapeInv
<1>12. PICK n, new : /\ n = <<s, top + 1>>
                     /\ new = {<<n, <<r, tips[r]>> >> : r \in half} OBVIOUS
<1>13. Extends(h, n, new)
  <2>1. links' = links \cup new BY <1>10, <1>12
  <2>2. n \in BlockIds /\ n[1] = s /\ n[2] = top + 1 BY <1>1, <1>12 DEF BlockIds
  <2>3. tips[h] < n[2] BY <1>4, <1>8, <1>10, <2>2
  <2>4. <<n, <<h, tips[h]>> >> \in new BY <1>8, <1>12
  <2>5. ASSUME NEW l \in new
        PROVE  /\ l[1] = n /\ l[2] \in BlockIds /\ l = <<l[1], l[2]>>
               /\ InShard(l[2][1]) => l[2] = <<h, tips[h]>>
    <3>1. PICK r \in half : l = <<n, <<r, tips[r]>> >> BY <1>12, <2>5
    <3> QED BY <1>4, <1>8, <3>1 DEF BlockIds
  <2> QED BY <1>5, <2>1, <2>2, <2>3, <2>4, <2>5 DEF Extends
<1>14. \A r \in DOMAIN tips' : InShard(r) => r = s
  <2>1. \A r \in DOMAIN tips \ half : ~InShard(r) BY <1>8, <1>9 DEF IsHome
  <2> QED BY <1>11, <2>1
<1>15. \A r \in DOMAIN tips' : r # <<>> => InShard(Front(r)) /\ Len(r) <= Len(Home)
  <2>1. s # <<>> => InShard(Front(s))
    <3> SUFFICES ASSUME s # <<>> PROVE InShard(Front(s)) OBVIOUS
    <3>1. Len(s) \in Nat /\ Len(s) # 0 /\ Len(Home) \in Nat BY <1>1, ConstantsAssumption DEF ShardIds
    <3>2. PICK k \in Nat : k = Len(s) - 1 /\ k <= Len(s)
      <4>1. PICK m \in Nat : m = Len(s) /\ m # 0 BY <3>1
      <4>2. m - 1 \in Nat /\ m - 1 <= m BY <4>1
      <4> QED BY <4>1, <4>2
    <3>3. Front(s) \in ShardIds /\ Len(Front(s)) = k /\ \A i \in 1..k : Front(s)[i] = s[i]
      <4>1. Front(s) = SubSeq(s, 1, k) BY <3>2 DEF Front
      <4>2. \A i \in 1..k : i \in 1..Len(s) BY <3>1, <3>2
      <4>3. SubSeq(s, 1, k) \in Seq({0, 1}) /\ Len(SubSeq(s, 1, k)) = k BY <1>1, <3>1, <3>2 DEF ShardIds
      <4>4. \A i \in 1..k : SubSeq(s, 1, k)[i] = s[i] BY <1>1, <3>1, <3>2 DEF ShardIds
      <4> QED BY <4>1, <4>3, <4>4 DEF ShardIds
    <3>4. \A i \in 1..Len(s) : s[i] = Home[i] BY <1>1, <1>5, InShardDef
    <3>5. k <= Len(Home) /\ \A i \in 1..k : Front(s)[i] = Home[i] BY <1>5, <3>1, <3>2, <3>3, <3>4
    <3> QED BY <3>3, <3>5, InShardDef
  <2>2. Len(s) <= Len(Home) BY <1>1, <1>5, InShardDef
  <2> QED BY <1>11, <2>1, <2>2 DEF TipsInv
<1>16. n = <<s, tips'[s]>> /\ s \in DOMAIN tips' BY <1>11, <1>12
<1> QED BY <1>1, <1>3, <1>5, <1>9, <1>11, <1>13, <1>14, <1>15, <1>16, NewHome

LEMMA MasterBlockStep ==
    ASSUME IInv, MasterBlock PROVE IInv'
<1> USE DEF IInv
<1>1. PICK m : m = {<<s, tips[s]>> : s \in DOMAIN tips} OBVIOUS
<1>2. /\ masters' = Append(masters, m) /\ UNCHANGED <<tips, links, saved>>
      /\ UNCHANGED <<pc, known, buffer, at, batch>>
  BY <1>1 DEF MasterBlock, trackerVars, walkVars
<1>3. m \subseteq BlockIds BY <1>1 DEF ShapeInv, BlockIds
<1>4. ShapeInv' BY <1>2, <1>3 DEF ShapeInv
<1>5. /\ HomeBlocks' = HomeBlocks /\ LineInv' /\ \A b : Parent(b)' = Parent(b)
      /\ \A x : Piece(x)' <=> Piece(x)
  BY <1>2, NoLinksFrame
<1>6. TipsInv' BY <1>2, <1>5 DEF TipsInv, IsHome
<1>7. MasterInv'
  <2>1. PICK h \in ShardIds : IsHome(h) BY DEF TipsInv
  <2>2. PICK t : t = <<h, tips[h]>> OBVIOUS
  <2>3. t \in m \cap HomeBlocks BY <1>1, <2>1, <2>2 DEF IsHome
  <2>4. \A c \in m : InShard(c[1]) => c = t BY <1>1, <2>1, <2>2 DEF IsHome
  <2>5. \A i \in DOMAIN masters' : masters'[i] = m \/ (i \in DOMAIN masters /\ masters'[i] = masters[i])
    BY <1>2, <1>3 DEF ShapeInv
  <2> QED BY <1>5, <2>3, <2>4, <2>5 DEF MasterInv
<1>8. WalkInv' BY <1>2, <1>5 DEF WalkInv
<1>9. TableInv' BY <1>2, <1>5 DEF TableInv
<1> QED BY <1>4, <1>5, <1>6, <1>7, <1>8, <1>9

-----------------------------------------------------------------------------
(* The tracker *)

\* Two pieces of the line that fit are one.
LEMMA JoinPieces ==
    ASSUME ShapeInv, NEW s \in Seq(BlockIds), NEW t \in Seq(BlockIds), Piece(s), Piece(t),
           s # <<>> /\ t # <<>> => Parent(t[1]) = Last(s) /\ Last(s)[2] < t[1][2]
    PROVE  Piece(s \o t)
<1>1. CASE s = <<>>
  <2>1. s \o t = t BY <1>1
  <2> QED BY <2>1
<1>2. CASE t = <<>>
  <2>1. s \o t = s BY <1>2
  <2> QED BY <2>1
<1>3. CASE s # <<>> /\ t # <<>>
  <2>1. PICK m \in Nat, n \in Nat : m = Len(s) /\ n = Len(t) OBVIOUS
  <2>2. m > 0 /\ n > 0 BY <1>3, <2>1
  <2>3. DOMAIN s = 1..m /\ DOMAIN t = 1..n /\ Last(s) = s[m] BY <2>1 DEF Last
  <2>4. PICK u : u = s \o t OBVIOUS
  <2>5. /\ u \in Seq(BlockIds) /\ DOMAIN u = 1..(m + n)
        /\ \A i \in 1..(m + n) : u[i] = IF i <= m THEN s[i] ELSE t[i - m]
    BY <2>1, <2>4
  <2>6. \A i \in 1..(m + n) : \/ i <= m /\ i \in DOMAIN s /\ u[i] = s[i]
                              \/ i > m /\ i - m \in DOMAIN t /\ u[i] = t[i - m]
    BY <2>2, <2>3, <2>5
  <2>7. OnLine(u) BY <2>5, <2>6 DEF Piece, OnLine
  <2>8. \A i \in DOMAIN s : s[i][2] \in Nat /\ s[i][2] <= s[m][2]
    <3> SUFFICES ASSUME NEW i \in DOMAIN s PROVE s[i][2] \in Nat /\ s[i][2] <= s[m][2] OBVIOUS
    <3>1. m \in DOMAIN s BY <2>2, <2>3
    <3>2. s[i] \in BlockIds /\ s[m] \in BlockIds BY <3>1
    <3>3. s[i][2] \in Nat /\ s[m][2] \in Nat BY <3>2, BlockFacts
    <3>4. i = m \/ i < m BY <2>3
    <3>5. CASE i < m BY <3>1, <3>3, <3>5 DEF Piece, Sorted
    <3> QED BY <3>3, <3>4, <3>5
  <2>9. \A i \in DOMAIN t : t[i][2] \in Nat /\ t[1][2] <= t[i][2]
    <3> SUFFICES ASSUME NEW i \in DOMAIN t PROVE t[i][2] \in Nat /\ t[1][2] <= t[i][2] OBVIOUS
    <3>1. 1 \in DOMAIN t BY <2>2, <2>3
    <3>2. t[i] \in BlockIds /\ t[1] \in BlockIds BY <3>1
    <3>3. t[i][2] \in Nat /\ t[1][2] \in Nat BY <3>2, BlockFacts
    <3>4. i = 1 \/ 1 < i BY <2>3
    <3>5. CASE 1 < i BY <3>1, <3>3, <3>5 DEF Piece, Sorted
    <3> QED BY <3>3, <3>4, <3>5
  <2>10. s[m][2] < t[1][2] /\ Parent(t[1]) = s[m] /\ m \in DOMAIN s /\ 1 \in DOMAIN t
    BY <1>3, <2>2, <2>3
  <2>11. \A i \in DOMAIN s, j \in DOMAIN t : s[i][2] < t[j][2] BY <2>8, <2>9, <2>10
  <2>12. Sorted(u)
    <3> SUFFICES ASSUME NEW i \in 1..(m + n), NEW j \in 1..(m + n), i < j PROVE u[i][2] < u[j][2]
      BY <2>5 DEF Sorted
    <3>1. CASE j <= m BY <2>6, <3>1 DEF Piece, Sorted
    <3>2. CASE i > m
      <4>1. /\ i - m \in DOMAIN t /\ j - m \in DOMAIN t /\ i - m < j - m
            /\ u[i] = t[i - m] /\ u[j] = t[j - m]
        BY <2>6, <3>2
      <4> QED BY <4>1 DEF Piece, Sorted
    <3>3. CASE i <= m /\ j > m BY <2>6, <2>11, <3>3
    <3> QED BY <3>1, <3>2, <3>3
  <2>13. Linked(u)
    <3> SUFFICES ASSUME NEW i \in 1..(m + n), i + 1 \in 1..(m + n) PROVE Parent(u[i + 1]) = u[i]
      BY <2>5 DEF Linked
    <3>1. CASE i + 1 <= m
      <4>1. i \in DOMAIN s /\ i + 1 \in DOMAIN s /\ u[i] = s[i] /\ u[i + 1] = s[i + 1] BY <2>6, <3>1
      <4> QED BY <4>1 DEF Piece, Linked
    <3>2. CASE i > m
      <4>1. /\ u[i] = t[i - m] /\ u[i + 1] = t[(i - m) + 1]
            /\ i - m \in DOMAIN t /\ (i - m) + 1 \in DOMAIN t
        <5>1. (i + 1) - m = (i - m) + 1 BY <3>2
        <5> QED BY <2>6, <3>2, <5>1
      <4> QED BY <4>1 DEF Piece, Linked
    <3>3. CASE i = m
      <4>1. u[i] = s[m] /\ u[i + 1] = t[1]
        <5>1. (i + 1) - m = 1 BY <3>3
        <5> QED BY <2>6, <3>3, <5>1
      <4> QED BY <2>10, <4>1
    <3> QED BY <3>1, <3>2, <3>3
  <2> QED BY <2>4, <2>7, <2>12, <2>13 DEF Piece
<1> QED BY <1>1, <1>2, <1>3

\* The end of the second piece is the end of both.
LEMMA JoinLast ==
    ASSUME NEW s \in Seq(BlockIds), NEW t \in Seq(BlockIds), t # <<>>
    PROVE  s \o t # <<>> /\ Last(s \o t) = Last(t)
<1>1. PICK m \in Nat, n \in Nat : m = Len(s) /\ n = Len(t) /\ n > 0 OBVIOUS
<1>2. Len(s \o t) = m + n /\ (s \o t)[m + n] = t[n]
  <2>1. Len(s \o t) = m + n BY <1>1
  <2>2. m + n \in 1..(m + n) /\ ~(m + n <= m) /\ (m + n) - m = n BY <1>1
  <2> QED BY <1>1, <2>1, <2>2
<1> QED BY <1>1, <1>2 DEF Last

LEMMA TrackerFrame ==
    ASSUME IInv, UNCHANGED chainVars, batch' \in Seq(BlockIds), buffer' \in Seq(BlockIds),
           saved' \in Seq(BlockIds), WalkInv', TableInv'
    PROVE  IInv'
<1> USE DEF IInv
<1>1. UNCHANGED <<tips, links, masters>> BY DEF chainVars
<1>2. /\ HomeBlocks' = HomeBlocks /\ LineInv' /\ \A b : Parent(b)' = Parent(b)
      /\ \A x : Piece(x)' <=> Piece(x)
  BY <1>1, NoLinksFrame
<1>3. TipsInv' BY <1>1, <1>2 DEF TipsInv, IsHome
<1>4. MasterInv' BY <1>1, <1>2 DEF MasterInv
<1>5. ShapeInv' BY <1>1 DEF ShapeInv
<1> QED BY <1>2, <1>3, <1>4, <1>5

LEMMA EmptyPiece == <<>> \in Seq(BlockIds) /\ Piece(<<>>) /\ Piece(<<>>)'
BY DEF Piece, OnLine, Sorted, Linked

LEMMA GetMasterStep ==
    ASSUME IInv, NEW i \in DOMAIN masters, GetMaster(i) PROVE IInv'
<1> USE DEF IInv
<1>1. /\ UNCHANGED <<chainVars, known, buffer, saved>> /\ buffer = <<>>
      /\ at' = FilterByShard(masters[i]) /\ batch' = <<>>
  BY DEF GetMaster
<1>2. links' = links BY <1>1 DEF chainVars
<1>3. FilterByShard(masters[i]) \in HomeBlocks
  <2>1. PICK b \in masters[i] \cap HomeBlocks : \A c \in masters[i] : InShard(c[1]) => c = b
    BY DEF MasterInv
  <2>2. InShard(b[1]) BY <2>1 DEF LineInv
  <2>3. FilterByShard(masters[i]) = b BY <2>1, <2>2 DEF FilterByShard
  <2> QED BY <2>1, <2>3
<1>4. HomeBlocks' = HomeBlocks /\ \A x : Piece(x)' <=> Piece(x) BY <1>2, NoLinksFrame
<1>5. WalkInv' BY <1>1, <1>3, <1>4, EmptyPiece DEF WalkInv
<1>6. TableInv' BY <1>1, <1>4 DEF TableInv
<1> QED BY <1>1, <1>5, <1>6, EmptyPiece, TrackerFrame DEF ShapeInv

LEMMA WalkFirstStep ==
    ASSUME IInv, WalkFirst PROVE IInv'
<1> USE DEF IInv
<1>1. /\ UNCHANGED <<chainVars, buffer, saved>> /\ pc' = "next" /\ known = None /\ known' = at
      /\ batch' = <<>> /\ at \in HomeBlocks
  BY DEF WalkFirst, WalkInv
<1>2. HomeBlocks' = HomeBlocks /\ \A x : Piece(x)' <=> Piece(x) BY <1>1, NoLinksFrame DEF chainVars
<1>3. saved = <<>> /\ buffer = <<>> BY <1>1 DEF TableInv
<1>4. saved \o buffer = <<>> BY <1>3
<1>5. TableInv' BY <1>1, <1>2, <1>3, <1>4, EmptyPiece, BlockFacts DEF TableInv
<1>6. WalkInv' BY <1>1 DEF WalkInv
<1> QED BY <1>1, <1>5, <1>6, EmptyPiece, TrackerFrame DEF ShapeInv

\* The batch goes on where the tables and the buffer end.
LEMMA WalkDoneStep ==
    ASSUME IInv, WalkDone PROVE IInv'
<1> USE DEF IInv
<1>1. /\ UNCHANGED <<chainVars, saved>> /\ pc = "walk" /\ pc' = "next" /\ batch' = <<>> /\ at = known
      /\ known' = (IF batch = <<>> THEN known ELSE Last(batch)) /\ buffer' = buffer \o batch
  BY DEF WalkDone
<1>2. /\ buffer = <<>> /\ at \in HomeBlocks /\ Piece(batch)
      /\ batch # <<>> => Parent(batch[1]) = at /\ at[2] < batch[1][2]
  BY <1>1 DEF WalkInv
<1>3. saved \in Seq(BlockIds) /\ batch \in Seq(BlockIds) BY DEF ShapeInv
<1>4. buffer' = batch /\ saved \o buffer = saved BY <1>1, <1>2, <1>3
<1>5. Piece(saved) /\ (saved # <<>> => known = Last(saved)) BY <1>4 DEF TableInv
<1>6. Piece(saved \o batch) BY <1>1, <1>2, <1>3, <1>5, JoinPieces
<1>7. HomeBlocks' = HomeBlocks /\ \A x : Piece(x)' <=> Piece(x) BY <1>1, NoLinksFrame DEF chainVars
<1>8. TableInv'
  <2>1. CASE batch = <<>>
    <3>1. saved \o batch = saved /\ known' = known BY <1>1, <1>3, <2>1
    <3> QED BY <1>1, <1>2, <1>4, <1>5, <1>6, <1>7, <2>1, <3>1, BlockFacts DEF TableInv
  <2>2. CASE batch # <<>>
    <3>1. Last(batch) \in HomeBlocks
      <4>1. Len(batch) \in DOMAIN batch BY <1>3, <2>2
      <4> QED BY <1>2, <4>1 DEF Last, Piece, OnLine
    <3>2. Last(saved \o batch) = Last(batch) BY <1>3, <2>2, JoinLast
    <3> QED BY <1>1, <1>4, <1>6, <1>7, <2>2, <3>1, <3>2, BlockFacts DEF TableInv
  <2> QED BY <2>1, <2>2
<1>9. WalkInv' BY <1>1 DEF WalkInv
<1> QED BY <1>1, <1>3, <1>4, <1>8, <1>9, EmptyPiece, TrackerFrame

LEMMA WalkOldStep ==
    ASSUME IInv, WalkOld PROVE IInv'
<1> USE DEF IInv
<1>1. UNCHANGED <<chainVars, known, buffer, saved>> /\ pc' = "next" /\ batch' = <<>> BY DEF WalkOld
<1>2. HomeBlocks' = HomeBlocks /\ \A x : Piece(x)' <=> Piece(x) BY <1>1, NoLinksFrame DEF chainVars
<1>3. TableInv' BY <1>1, <1>2 DEF TableInv
<1>4. WalkInv' BY <1>1 DEF WalkInv
<1> QED BY <1>1, <1>3, <1>4, EmptyPiece, TrackerFrame DEF ShapeInv

\* The block at is collected.  The known block is not newer than it, and no block
\* lies between at and its parent, so the walk cannot pass the known block.
LEMMA WalkParentStep ==
    ASSUME IInv, WalkParent PROVE IInv'
<1> USE DEF IInv
<1>1. /\ UNCHANGED <<chainVars, pc, known, buffer, saved>> /\ pc = "walk"
      /\ known # None /\ at # known /\ known[2] <= at[2]
      /\ batch' = <<at>> \o batch /\ at' = Parent(at)
  BY DEF WalkParent
<1>2. at \in HomeBlocks /\ known \in HomeBlocks /\ at \in BlockIds
  BY <1>1, BlockFacts DEF WalkInv, TableInv
<1>3. Parent(at) \in HomeBlocks /\ Parent(at)[2] < at[2] /\ known[2] <= Parent(at)[2]
  BY <1>1, <1>2, NothingBetween
<1>4. PICK one : one = <<at>> OBVIOUS
<1>5. one \in Seq(BlockIds) /\ Len(one) = 1 /\ one[1] = at /\ one # <<>> BY <1>2, <1>4
<1>6. DOMAIN one = {1} /\ Last(one) = at BY <1>5 DEF Last
<1>7. Piece(one) BY <1>2, <1>5, <1>6 DEF Piece, OnLine, Sorted, Linked
<1>8. batch \in Seq(BlockIds) /\ Piece(batch) BY <1>1 DEF ShapeInv, WalkInv
<1>9. Piece(one \o batch)
  <2>1. batch # <<>> => Parent(batch[1]) = at /\ at[2] < batch[1][2] BY <1>1 DEF WalkInv
  <2> QED BY <1>5, <1>6, <1>7, <1>8, <2>1, JoinPieces
<1>10. batch' = one \o batch /\ batch' \in Seq(BlockIds) /\ batch'[1] = at
  <2>1. batch' = one \o batch BY <1>1, <1>4
  <2>2. one \o batch \in Seq(BlockIds) BY <1>5, <1>8
  <2>3. (one \o batch)[1] = one[1] BY <1>5, <1>8
  <2> QED BY <1>5, <2>1, <2>2, <2>3
<1>11. /\ HomeBlocks' = HomeBlocks /\ (\A b : Parent(b)' = Parent(b))
       /\ \A x : Piece(x)' <=> Piece(x)
  BY <1>1, NoLinksFrame DEF chainVars
<1>12. Parent(batch[1])' = at'
  <2>1. PICK a : a = at OBVIOUS
  <2>2. Parent(a)' = Parent(a) BY <1>11
  <2>3. Parent(batch[1])' = Parent(a)' BY <1>10, <2>1 DEF Parent, Parents
  <2> QED BY <1>1, <2>1, <2>2, <2>3
<1>13. Piece(batch)'
  <2>1. PICK w : w = one \o batch OBVIOUS
  <2>2. Piece(w)' BY <1>9, <1>11, <2>1
  <2>3. w = batch' BY <1>10, <2>1
  <2> QED BY <2>2, <2>3 DEF Piece, OnLine, Sorted, Linked
<1>14. WalkInv'
  <2>1. buffer' = <<>> BY <1>1 DEF WalkInv
  <2>2. at' \in HomeBlocks' /\ known' # None /\ known'[2] <= at'[2] /\ at'[2] < batch'[1][2]
    BY <1>1, <1>3, <1>10, <1>11
  <2> QED BY <1>12, <1>13, <2>1, <2>2 DEF WalkInv
<1>15. TableInv' BY <1>1, <1>11 DEF TableInv
<1> QED BY <1>1, <1>10, <1>14, <1>15, TrackerFrame DEF ShapeInv

LEMMA ProcessBlockStep ==
    ASSUME IInv, ProcessBlock PROVE IInv'
<1> USE DEF IInv
<1>1. /\ UNCHANGED <<chainVars, pc, known, at, batch>> /\ pc = "next" /\ buffer # <<>>
      /\ saved' = Append(saved, Head(buffer)) /\ buffer' = Tail(buffer)
  BY DEF ProcessBlock, walkVars
<1>2. saved \in Seq(BlockIds) /\ buffer \in Seq(BlockIds) BY DEF ShapeInv
<1>3. saved' \in Seq(BlockIds) /\ buffer' \in Seq(BlockIds) BY <1>1, <1>2
<1>4. saved' \o buffer' = saved \o buffer BY <1>1, <1>2
<1>5. HomeBlocks' = HomeBlocks /\ \A x : Piece(x)' <=> Piece(x) BY <1>1, NoLinksFrame DEF chainVars
<1>6. TableInv'
  <2>1. known # None BY <1>1 DEF TableInv
  <2> QED BY <1>1, <1>4, <1>5, <2>1 DEF TableInv
<1>7. WalkInv' BY <1>1 DEF WalkInv
<1> QED BY <1>1, <1>3, <1>6, <1>7, TrackerFrame DEF ShapeInv

LEMMA StopStep ==
    ASSUME IInv, UNCHANGED <<chainVars, known, buffer, at, batch, saved>>,
           pc' = pc \/ pc' = "stopped"
    PROVE  IInv'
<1> USE DEF IInv
<1>1. /\ HomeBlocks' = HomeBlocks /\ (\A b : Parent(b)' = Parent(b))
      /\ \A x : Piece(x)' <=> Piece(x)
  BY NoLinksFrame DEF chainVars
<1>2. WalkInv' BY <1>1 DEF WalkInv
<1>3. TableInv' BY <1>1 DEF TableInv
<1> QED BY <1>2, <1>3, TrackerFrame DEF ShapeInv

\* The newest saved block is the last one.
LEMMA LastSaved ==
    ASSUME IInv, saved # <<>>
    PROVE  LastSavedBlockID = Last(saved) /\ Last(saved) \in HomeBlocks /\ Piece(saved)
<1> USE DEF IInv
<1>1. PICK m \in Nat : m = Len(saved) /\ m > 0 /\ saved \in Seq(BlockIds) BY DEF ShapeInv
<1>2. DOMAIN saved = 1..m /\ m \in DOMAIN saved /\ Last(saved) = saved[m] BY <1>1 DEF Last
<1>3. PICK n \in Nat : n = Len(buffer) BY DEF ShapeInv
<1>4. PICK u : u = saved \o buffer OBVIOUS
<1>5. /\ DOMAIN u = 1..(m + n) /\ \A i \in 1..m : u[i] = saved[i]
  <2>1. buffer \in Seq(BlockIds) BY DEF ShapeInv
  <2>2. \A i \in 1..(m + n) : u[i] = IF i <= m THEN saved[i] ELSE buffer[i - m]
    BY <1>1, <1>3, <1>4, <2>1
  <2> QED BY <1>1, <1>3, <1>4, <2>1, <2>2
<1>6. Piece(u) BY <1>4 DEF TableInv
<1>7. \A i \in 1..m : i \in 1..(m + n) BY <1>3
<1>8. Piece(saved)
  <2>1. OnLine(saved) BY <1>2, <1>5, <1>6, <1>7 DEF Piece, OnLine
  <2>2. Sorted(saved) BY <1>2, <1>5, <1>6, <1>7 DEF Piece, Sorted
  <2>3. Linked(saved) BY <1>2, <1>5, <1>6, <1>7 DEF Piece, Linked
  <2> QED BY <2>1, <2>2, <2>3 DEF Piece
<1>9. \A i \in 1..m : saved[i] \in HomeBlocks /\ saved[i][2] \in Nat
  BY <1>2, <1>8, BlockFacts DEF Piece, OnLine
<1>10. \A i \in 1..m : saved[i][2] <= saved[m][2]
  <2> SUFFICES ASSUME NEW i \in 1..m PROVE saved[i][2] <= saved[m][2] OBVIOUS
  <2>1. CASE i = m BY <1>2, <1>9, <2>1
  <2>2. CASE i < m BY <1>2, <1>8, <1>9, <2>2 DEF Piece, Sorted
  <2> QED BY <2>1, <2>2
<1>11. Range(saved) = {saved[i] : i \in 1..m} BY <1>2 DEF Range
<1>12. ASSUME NEW b \in Range(saved), \A c \in Range(saved) : c[2] <= b[2] PROVE b = saved[m]
  <2>1. b \in HomeBlocks /\ b[2] \in Nat /\ saved[m] \in HomeBlocks /\ saved[m][2] \in Nat
    BY <1>2, <1>9, <1>11
  <2>2. saved[m][2] <= b[2] /\ b[2] <= saved[m][2] BY <1>2, <1>10, <1>11, <1>12
  <2>3. b[2] = saved[m][2] BY <2>1, <2>2
  <2> QED BY <2>1, <2>3 DEF LineInv
<1>13. saved[m] \in Range(saved) /\ \A c \in Range(saved) : c[2] <= saved[m][2]
  BY <1>2, <1>10, <1>11
<1>14. LastSavedBlockID = saved[m] BY <1>12, <1>13 DEF LastSavedBlockID
<1> QED BY <1>2, <1>8, <1>9, <1>14

LEMMA RestartStep ==
    ASSUME IInv, Restart PROVE IInv'
<1> USE DEF IInv
<1>1. /\ UNCHANGED <<chainVars, saved>> /\ pc' = "next" /\ known' = LastSavedBlockID
      /\ buffer' = <<>> /\ batch' = <<>>
  BY DEF Restart
<1>2. HomeBlocks' = HomeBlocks /\ \A x : Piece(x)' <=> Piece(x) BY <1>1, NoLinksFrame DEF chainVars
<1>3. saved' \o buffer' = saved BY <1>1 DEF ShapeInv
<1>4. TableInv'
  <2>1. CASE saved = <<>>
    <3>1. known' = None BY <1>1, <2>1 DEF LastSavedBlockID
    <3> QED BY <1>1, <1>2, <1>3, <2>1, <3>1, EmptyPiece DEF TableInv
  <2>2. CASE saved # <<>>
    BY <1>1, <1>2, <1>3, <2>2, LastSaved, BlockFacts DEF TableInv
  <2> QED BY <2>1, <2>2
<1>5. WalkInv' BY <1>1 DEF WalkInv
<1> QED BY <1>1, <1>4, <1>5, EmptyPiece, TrackerFrame DEF ShapeInv

-----------------------------------------------------------------------------
(* The invariant, and what it implies *)

LEMMA InitInv == Init => IInv
<1> SUFFICES ASSUME Init PROVE IInv OBVIOUS
<1>0. PICK e : e = <<>> OBVIOUS
<1>1. /\ tips = [s \in {e} |-> 1] /\ links = {} /\ masters = << {Genesis} >> /\ Genesis = <<e, 1>>
      /\ pc = "next" /\ known = None /\ buffer = <<>> /\ batch = <<>> /\ saved = <<>>
  BY <1>0 DEF Init, Genesis
<1>2. e \in ShardIds /\ InShard(e) /\ Genesis \in BlockIds /\ Genesis[1] = e /\ Genesis[2] = 1
  <2>1. e \in ShardIds BY <1>0 DEF ShardIds
  <2> QED BY <1>0, <1>1, <2>1, Halves DEF BlockIds
<1>3. HomeBlocks = {Genesis} BY <1>1 DEF HomeBlocks
<1>4. DOMAIN tips = {e} /\ tips[e] = 1 BY <1>1
<1>5. ShapeInv
  <2>1. masters \in Seq(SUBSET BlockIds) BY <1>1, <1>2
  <2>2. tips \in [DOMAIN tips -> Nat] BY <1>1, <1>4
  <2> QED BY <1>1, <1>2, <1>4, <2>1, <2>2, EmptyPiece DEF ShapeInv
<1>6. LineInv BY <1>2, <1>3 DEF LineInv
<1>7. IsHome(e) BY <1>1, <1>2, <1>3, <1>4 DEF IsHome
<1>8. TipsInv BY <1>0, <1>2, <1>4, <1>7 DEF TipsInv
<1>9. MasterInv
  <2>1. \A i \in DOMAIN masters : masters[i] = {Genesis} BY <1>1
  <2> QED BY <1>3, <2>1 DEF MasterInv
<1>10. WalkInv BY <1>1 DEF WalkInv
<1>11. TableInv
  <2>1. saved \o buffer = <<>> BY <1>1
  <2> QED BY <1>1, <2>1, EmptyPiece DEF TableInv
<1> QED BY <1>5, <1>6, <1>8, <1>9, <1>10, <1>11 DEF IInv

LEMMA InvStep == IInv /\ [Next]_vars => IInv'
<1> SUFFICES ASSUME IInv, [Next]_vars PROVE IInv' OBVIOUS
<1>1. CASE UNCHANGED vars BY <1>1, StopStep DEF vars, trackerVars, walkVars
<1>2. CASE Stop BY <1>2, StopStep DEF Stop, walkVars
<1>3. CASE Exit BY <1>3, StopStep DEF Exit, walkVars
<1> QED
  BY <1>1, <1>2, <1>3, ShardBlockStep, SplitStep, MergeStep, MasterBlockStep, GetMasterStep,
     WalkFirstStep, WalkDoneStep, WalkOldStep, WalkParentStep, ProcessBlockStep, RestartStep
  DEF Next

\* No block of the service's shard is left out, saved twice or saved out of order,
\* for any shard, any number of splits, merges, masterchain blocks and restarts,
\* and whatever masterchain blocks the node answers getNextMasterBlockID with.
THEOREM EveryBlockOnce == Spec => []SavedIsChain
<1>1. IInv => SavedIsChain
  <2> SUFFICES ASSUME IInv PROVE SavedIsChain OBVIOUS
  <2>1. PICK u : u = saved \o buffer OBVIOUS
  <2>2. u \in Seq(BlockIds) BY <2>1 DEF IInv, ShapeInv
  <2>3. PICK m \in Nat : m = Len(u) /\ DOMAIN u = 1..m BY <2>2
  <2>4. Piece(u) /\ (u # <<>> => known = Last(u)) BY <2>1 DEF IInv, TableInv
  <2>5. \A i \in 1..(m - 1) : i \in DOMAIN u /\ i + 1 \in DOMAIN u BY <2>3
  <2>6. \A i \in 1..(Len(u) - 1) : Parent(u[i + 1]) = u[i] BY <2>3, <2>4, <2>5 DEF Piece, Linked
  <2> QED BY <2>1, <2>4, <2>6 DEF SavedIsChain
<1>2. Spec => []IInv BY InitInv, InvStep, PTL DEF Spec
<1> QED BY <1>1, <1>2, PTL


-----------------------------------------------------------------------------
(* Notifications: what the scanner says of the blocks it has saved *)

NotifyTypeInv ==
    /\ chain \in [Blocks -> [external : 0..MaxIncomes, internal : 0..MaxIncomes]]
    /\ savedBlocks \in 0..MaxBlocks
    /\ npc \in {"start", "scan", "push"} /\ income \in Nat /\ channel \in Nat /\ attempt \in Nat
    /\ received \in [Triples -> Nat]

\* pushNotifications has been at x.
Before(x) == x[2] < income \/ (x[2] = income /\ x[3] < channel)

\* While the notifications of a block are pushed: those before Here are published
\* and no others; Here was received at most once per attempt, those after it never.
PushInv ==
    npc = "push" =>
        /\ savedBlocks \in Blocks /\ income \in 1..Events(savedBlocks) /\ channel \in Channels
        /\ attempt < Attempts /\ (Notificators[channel] = "queue" => attempt = 0)
        /\ \A x \in Triples : x[1] = savedBlocks =>
              /\ x \in published <=> Before(x)
              /\ x = Here => received[x] <= attempt
              /\ x # Here /\ ~Before(x) => received[x] = 0

\* Nothing is told of a block that is not saved.
FutureInv == \A x \in Triples : x[1] > savedBlocks => received[x] = 0 /\ x \notin published

NotifyInv == NotifyTypeInv /\ PushInv /\ FutureInv /\ NoDuplicates /\ LostOnlyByExit

-----------------------------------------------------------------------------
(* Positions *)

LEMMA TripleFacts ==
    ASSUME NEW x \in Triples
    PROVE  /\ x[1] \in Blocks /\ x[2] \in 1..MaxIncomes /\ x[3] \in Channels
           /\ x = <<x[1], x[2], x[3]>>
BY DEF Triples

LEMMA Counts ==
    /\ MaxBlocks \in Nat /\ MaxIncomes \in Nat /\ Attempts \in Nat /\ Attempts > 0
    /\ Len(Notificators) \in Nat /\ Channels = 1..Len(Notificators) /\ Blocks = 1..MaxBlocks
    /\ \A c \in Channels : Notificators[c] \in {"queue", "webhook"}
BY NotifyAssumption DEF Channels, Blocks

LEMMA EventsType ==
    ASSUME NotifyTypeInv, NEW b \in Blocks
    PROVE  Events(b) \in 0..MaxIncomes
BY NotifyAssumption DEF NotifyTypeInv, Events

LEMMA EventsFrame ==
    ASSUME chain' = chain, NEW b
    PROVE  Events(b)' = Events(b)
BY DEF Events

LEMMA HereFacts ==
    ASSUME NotifyInv, npc = "push"
    PROVE  /\ Here \in Triples /\ Here[1] = savedBlocks /\ Here[2] = income /\ Here[3] = channel
           /\ savedBlocks \in Blocks /\ ~Before(Here)
           /\ income \in 1..MaxIncomes /\ income <= Events(savedBlocks) /\ channel \in Channels
           /\ Here \notin published /\ received[Here] <= attempt
           /\ \A x \in Triples : x[1] = savedBlocks /\ x[2] = income /\ x[3] = channel => x = Here
<1>1. savedBlocks \in Blocks /\ income \in 1..Events(savedBlocks) /\ channel \in Channels
  BY DEF NotifyInv, PushInv
<1>2. Events(savedBlocks) \in 0..MaxIncomes BY <1>1, EventsType DEF NotifyInv
<1>3. income \in 1..MaxIncomes /\ income <= Events(savedBlocks) BY <1>1, <1>2, Counts
<1>4. Here \in Triples /\ Here[1] = savedBlocks /\ Here[2] = income /\ Here[3] = channel
  BY <1>1, <1>3 DEF Here, Triples
<1>5. ~Before(Here) BY <1>1, <1>3, <1>4, Counts DEF Before
<1>6. Here \notin published /\ received[Here] <= attempt BY <1>4, <1>5 DEF NotifyInv, PushInv
<1>7. \A x \in Triples : x[1] = savedBlocks /\ x[2] = income /\ x[3] = channel => x = Here
  BY TripleFacts DEF Here
<1> QED BY <1>1, <1>3, <1>4, <1>5, <1>6, <1>7

-----------------------------------------------------------------------------
(* Steps *)

\* Only the receiver of Here gets something, and not too often.
Delivers ==
    /\ received' \in [Triples -> Nat]
    /\ \A x \in Triples : x # Here => received'[x] = received[x]
    /\ Here \in Triples => received'[Here] <= received[Here] + 1

LEMMA DeliveryFacts ==
    ASSUME NotifyInv, npc = "push", received' \in {received, [received EXCEPT ![Here] = @ + 1]}
    PROVE  Delivers /\ NoDuplicates'
<1>1. Here \in Triples /\ Here[3] = channel /\ channel \in Channels /\ received[Here] <= attempt
  BY HereFacts
<1>2. received \in [Triples -> Nat] /\ attempt \in Nat BY DEF NotifyInv, NotifyTypeInv
<1>3. Delivers BY <1>1, <1>2 DEF Delivers
<1>4. received'[Here] <= IF Notificators[Here[3]] = "queue" THEN 1 ELSE Attempts
  BY <1>1, <1>2, <1>3, Counts DEF Delivers, NotifyInv, PushInv
<1>5. NoDuplicates' BY <1>3, <1>4 DEF Delivers, NotifyInv, NoDuplicates
<1> QED BY <1>3, <1>5

\* What is published of a saved block, or of the one that was being pushed, is
\* published up to some income.
LEMMA ExitStep ==
    ASSUME NotifyInv, ProcessExit, chain' = chain, published' = published,
           received' \in [Triples -> Nat], NoDuplicates',
           \A x \in Triples : x[1] > savedBlocks => received'[x] = 0
    PROVE  NotifyInv'
<1>1. /\ npc' = "start" /\ income' = 1 /\ channel' = 1 /\ attempt' = 0 /\ savedBlocks' = savedBlocks
      /\ exits' = IF npc = "push" THEN exits \cup {savedBlocks} ELSE exits
  BY DEF ProcessExit
<1>2. NotifyTypeInv' BY <1>1 DEF NotifyInv, NotifyTypeInv
<1>3. PushInv' BY <1>1 DEF PushInv
<1>4. FutureInv' BY <1>1 DEF NotifyInv, FutureInv
<1>5. LostOnlyByExit' BY <1>1, EventsFrame DEF NotifyInv, LostOnlyByExit
<1> QED BY <1>2, <1>3, <1>4, <1>5 DEF NotifyInv

LEMMA AdvanceStep ==
    ASSUME NotifyInv, npc = "push", Advance, UNCHANGED <<chain, savedBlocks, exits>>,
           published' = published \cup {Here}, Delivers, NoDuplicates'
    PROVE  NotifyInv'
<1> USE DEF NotifyInv
<1>1. /\ Here \in Triples /\ Here[1] = savedBlocks /\ Here[2] = income /\ Here[3] = channel
      /\ savedBlocks \in Blocks /\ income \in 1..MaxIncomes /\ income <= Events(savedBlocks)
      /\ channel \in Channels
      /\ \A x \in Triples : x[1] = savedBlocks /\ x[2] = income /\ x[3] = channel => x = Here
  BY HereFacts
<1>2. /\ income \in Nat /\ channel \in Nat /\ channel >= 1 /\ channel <= Len(Notificators)
      /\ Len(Notificators) \in Nat /\ savedBlocks \in Nat /\ Events(savedBlocks) \in Nat
  BY <1>1, Counts, EventsType
<1>3. /\ attempt' = 0
      /\ \/ /\ channel < Len(Notificators) /\ channel' = channel + 1
            /\ income' = income /\ npc' = "push"
         \/ /\ channel = Len(Notificators) /\ channel' = 1
            /\ income < Events(savedBlocks) /\ income' = income + 1 /\ npc' = "push"
         \/ /\ channel = Len(Notificators) /\ channel' = 1
            /\ income = Events(savedBlocks) /\ income' = 1 /\ npc' = "scan"
  BY DEF Advance
<1>4. NotifyTypeInv' BY <1>2, <1>3 DEF NotifyTypeInv, Delivers
<1>5. FutureInv' BY <1>1, <1>2 DEF FutureInv, Delivers
<1>6. ASSUME NEW x \in Triples, x[1] = savedBlocks
      PROVE  /\ x[2] \in Nat /\ x[3] \in Nat /\ x[2] >= 1 /\ x[3] >= 1
             /\ x[3] <= Len(Notificators)
             /\ x \in published <=> Before(x)
             /\ x = Here \/ x[2] # income \/ x[3] # channel
  BY <1>1, <1>6, TripleFacts, Counts DEF PushInv
<1>7. ASSUME npc' = "push", NEW x \in Triples, x[1] = savedBlocks
      PROVE  Before(x)' <=> Before(x) \/ x = Here
  BY <1>1, <1>2, <1>3, <1>6, <1>7 DEF Before
<1>8. PushInv'
  <2> SUFFICES ASSUME npc' = "push" PROVE PushInv' BY DEF PushInv
  <2>1. /\ savedBlocks' \in Blocks /\ income' \in 1..Events(savedBlocks)' /\ channel' \in Channels
        /\ attempt' = 0 /\ attempt' < Attempts
    BY <1>1, <1>2, <1>3, Counts, EventsFrame
  <2>2. Here' # Here BY <1>2, <1>3 DEF Here
  <2>3. ASSUME NEW x \in Triples, x[1] = savedBlocks'
        PROVE  /\ x \in published' <=> Before(x)'
               /\ x = Here' => received'[x] <= attempt'
               /\ x # Here' /\ ~Before(x)' => received'[x] = 0
    <3>1. x \in published' <=> Before(x)' BY <1>6, <1>7, <2>3
    <3>2. ~Before(x)' => received'[x] = 0
      BY <1>7, <2>3 DEF Delivers, PushInv
    <3>3. x = Here' => ~Before(x)'
      <4>1. Here'[2] = income' /\ Here'[3] = channel' BY DEF Here
      <4> QED BY <1>2, <1>3, <4>1 DEF Before
    <3> QED BY <2>1, <3>1, <3>2, <3>3
  <2> QED BY <2>1, <2>3 DEF PushInv
<1>9. LostOnlyByExit'
  <2>1. ASSUME NEW x \in Triples, x[1] <= savedBlocks', x[2] <= Events(x[1])', x \notin published'
        PROVE  x[1] \in exits' \/ (npc' = "push" /\ x[1] = savedBlocks')
    <3>1. CASE x[1] # savedBlocks BY <2>1, <3>1, EventsFrame DEF LostOnlyByExit
    <3>2. CASE x[1] = savedBlocks /\ npc' # "push"
      <4>1. x[2] <= income /\ channel = Len(Notificators)
        BY <1>3, <2>1, <3>2, EventsFrame
      <4>2. x = Here \/ Before(x) BY <1>2, <1>6, <3>2, <4>1 DEF Before
      <4> QED BY <1>6, <2>1, <3>2, <4>2
    <3> QED BY <1>3, <3>1, <3>2
  <2>2. ASSUME NEW x \in Triples, x \in published', NEW y \in Triples, y[1] = x[1],
               y[2] < x[2] \/ (y[2] = x[2] /\ y[3] < x[3])
        PROVE  y \in published'
    <3>1. CASE x \in published BY <2>2, <3>1 DEF LostOnlyByExit
    <3>2. CASE x = Here
      <4>1. Before(y) /\ y[1] = savedBlocks BY <1>1, <2>2, <3>2 DEF Before
      <4> QED BY <1>6, <4>1
    <3> QED BY <2>2, <3>1, <3>2
  <2> QED BY <2>1, <2>2 DEF LostOnlyByExit
<1> QED BY <1>4, <1>5, <1>8, <1>9

LEMMA SaveBlockStep ==
    ASSUME NotifyInv, SaveBlock
    PROVE  NotifyInv'
<1> USE DEF NotifyInv
<1>1. PICK b : b = savedBlocks + 1 OBVIOUS
<1>2. /\ npc = "scan" /\ savedBlocks < MaxBlocks /\ savedBlocks' = b
      /\ npc' = IF Channels = {} \/ Events(b) = 0 THEN "scan" ELSE "push"
      /\ income' = 1 /\ channel' = 1 /\ attempt' = 0
      /\ UNCHANGED <<chain, published, received, exits>>
  BY <1>1 DEF SaveBlock
<1>3. savedBlocks \in Nat /\ b \in Blocks /\ Events(b) \in Nat /\ b > savedBlocks
  <2>1. savedBlocks \in Nat /\ b \in Blocks BY <1>1, <1>2, Counts DEF NotifyTypeInv
  <2> QED BY <1>1, <2>1, EventsType
<1>4. NotifyTypeInv' BY <1>2, <1>3 DEF NotifyTypeInv, Blocks
<1>5. FutureInv' BY <1>1, <1>2, <1>3, TripleFacts, Counts DEF FutureInv
<1>6. NoDuplicates' BY <1>2 DEF NoDuplicates
<1>7. ASSUME NEW x \in Triples, x[1] = b
      PROVE  /\ x[2] \in Nat /\ x[2] >= 1 /\ x[3] \in Nat /\ x[3] >= 1
             /\ received[x] = 0 /\ x \notin published
  BY <1>3, <1>7, TripleFacts, Counts DEF FutureInv
<1>8. PushInv'
  <2> SUFFICES ASSUME npc' = "push" PROVE PushInv' BY DEF PushInv
  <2>1. /\ savedBlocks' \in Blocks /\ income' \in 1..Events(savedBlocks)' /\ channel' \in Channels
        /\ attempt' = 0 /\ attempt' < Attempts
    BY <1>2, <1>3, Counts, EventsFrame
  <2>2. \A x \in Triples : x[1] = savedBlocks' => ~Before(x)' BY <1>2, <1>7 DEF Before
  <2> QED BY <1>2, <1>7, <2>1, <2>2 DEF PushInv
<1>9. LostOnlyByExit'
  <2>1. ASSUME NEW x \in Triples, x[1] <= savedBlocks', x[2] <= Events(x[1])', x \notin published'
        PROVE  x[1] \in exits' \/ (npc' = "push" /\ x[1] = savedBlocks')
    <3>1. x[1] \in Nat /\ x[2] \in Nat /\ x[2] >= 1 /\ Channels # {}
      BY TripleFacts, Counts
    <3>2. CASE x[1] <= savedBlocks BY <1>2, <2>1, <3>2, EventsFrame DEF LostOnlyByExit
    <3>3. CASE x[1] = b
      <4>1. Events(b) # 0 BY <1>2, <1>3, <2>1, <3>1, <3>3, EventsFrame
      <4> QED BY <1>2, <3>1, <3>3, <4>1
    <3> QED BY <1>1, <1>2, <1>3, <2>1, <3>1, <3>2, <3>3
  <2> QED BY <1>2, <2>1 DEF LostOnlyByExit
<1> QED BY <1>4, <1>5, <1>6, <1>8, <1>9

\* A step after which the process has ended, with what the receiver of Here got.
LEMMA FatalStep ==
    ASSUME NotifyInv, npc = "push", ProcessExit, UNCHANGED <<chain, published>>,
           received' \in {received, [received EXCEPT ![Here] = @ + 1]}
    PROVE  NotifyInv'
<1>1. Delivers /\ NoDuplicates' BY DeliveryFacts
<1>2. Here[1] = savedBlocks /\ savedBlocks \in Nat BY HereFacts DEF NotifyInv, NotifyTypeInv
<1>3. \A x \in Triples : x[1] > savedBlocks => received'[x] = 0
  BY <1>1, <1>2 DEF Delivers, NotifyInv, FutureInv
<1> QED BY <1>1, <1>3, ExitStep DEF Delivers

LEMMA UserNotFoundStep ==
    ASSUME NotifyInv, UserNotFound
    PROVE  NotifyInv'
BY FatalStep DEF UserNotFound

LEMMA PublishQueueStep ==
    ASSUME NotifyInv, NEW ok \in BOOLEAN, PublishQueue(ok)
    PROVE  NotifyInv'
<1>1. /\ npc = "push" /\ received' \in {received, [received EXCEPT ![Here] = @ + 1]}
      /\ chain' = chain
      /\ \/ Advance /\ published' = published \cup {Here} /\ UNCHANGED <<savedBlocks, exits>>
         \/ ProcessExit /\ published' = published
  BY DEF PublishQueue
<1>2. Delivers /\ NoDuplicates' BY <1>1, DeliveryFacts
<1>3. CASE Advance /\ published' = published \cup {Here} /\ UNCHANGED <<savedBlocks, exits>>
  BY <1>1, <1>2, <1>3, AdvanceStep
<1>4. CASE ProcessExit /\ published' = published BY <1>1, <1>4, FatalStep
<1> QED BY <1>1, <1>3, <1>4

LEMMA WebhookOKStep ==
    ASSUME NotifyInv, WebhookOK
    PROVE  NotifyInv'
<1>1. /\ npc = "push" /\ received' = [received EXCEPT ![Here] = @ + 1]
      /\ published' = published \cup {Here} /\ Advance /\ UNCHANGED <<chain, savedBlocks, exits>>
  BY DEF WebhookOK
<1>2. Delivers /\ NoDuplicates' BY <1>1, DeliveryFacts
<1> QED BY <1>1, <1>2, AdvanceStep

LEMMA WebhookFailsStep ==
    ASSUME NotifyInv, WebhookFails
    PROVE  NotifyInv'
<1> USE DEF NotifyInv
<1>1. /\ npc = "push" /\ Notificators[channel] = "webhook"
      /\ received' \in {received, [received EXCEPT ![Here] = @ + 1]}
      /\ UNCHANGED <<chain, published>>
      /\ \/ /\ attempt + 1 < Attempts /\ attempt' = attempt + 1
            /\ UNCHANGED <<savedBlocks, npc, income, channel, exits>>
         \/ ProcessExit
  BY DEF WebhookFails
<1>2. CASE ProcessExit BY <1>1, <1>2, FatalStep
<1>3. CASE /\ attempt + 1 < Attempts /\ attempt' = attempt + 1
           /\ UNCHANGED <<savedBlocks, npc, income, channel, exits>>
  <2>1. Delivers /\ NoDuplicates' BY <1>1, DeliveryFacts
  <2>2. /\ Here \in Triples /\ Here[1] = savedBlocks /\ received[Here] <= attempt /\ Here' = Here
        /\ savedBlocks \in Nat /\ attempt \in Nat /\ received[Here] \in Nat /\ received'[Here] \in Nat
    BY <1>1, <1>3, <2>1, HereFacts DEF Here, NotifyTypeInv, Delivers
  <2>3. NotifyTypeInv' BY <1>1, <1>3, <2>1, <2>2 DEF NotifyTypeInv, Delivers
  <2>4. FutureInv' BY <1>1, <1>3, <2>1, <2>2 DEF FutureInv, Delivers
  <2>5. \A x : Before(x)' <=> Before(x) BY <1>3 DEF Before
  <2>6. received'[Here] <= attempt' BY <1>3, <2>1, <2>2 DEF Delivers
  <2>7. PushInv' BY <1>1, <1>3, <2>1, <2>2, <2>5, <2>6, EventsFrame DEF PushInv, Delivers
  <2>8. LostOnlyByExit' BY <1>1, <1>3, EventsFrame DEF LostOnlyByExit
  <2> QED BY <2>1, <2>3, <2>4, <2>7, <2>8
<1> QED BY <1>1, <1>2, <1>3

\* The dial of the queue at the start says nothing to anybody.
LEMMA StartStep ==
    ASSUME NotifyInv, StartScanner
    PROVE  NotifyInv'
<1> USE DEF NotifyInv
<1>1. /\ npc = "start" /\ npc' = "scan"
      /\ UNCHANGED <<chain, savedBlocks, income, channel, attempt, published, received, exits>>
  BY DEF StartScanner
<1>2. NotifyTypeInv' /\ FutureInv' /\ NoDuplicates' BY <1>1 DEF NotifyTypeInv, FutureInv, NoDuplicates
<1>3. PushInv' BY <1>1 DEF PushInv
<1>4. LostOnlyByExit' BY <1>1, EventsFrame DEF LostOnlyByExit
<1> QED BY <1>2, <1>3, <1>4

LEMMA CrashStep ==
    ASSUME NotifyInv, Crash
    PROVE  NotifyInv'
<1>1. ProcessExit /\ UNCHANGED <<chain, published, received>> BY DEF Crash
<1>2. received' \in [Triples -> Nat] BY <1>1 DEF NotifyInv, NotifyTypeInv
<1>3. NoDuplicates' BY <1>1 DEF NotifyInv, NoDuplicates
<1>4. \A x \in Triples : x[1] > savedBlocks => received'[x] = 0 BY <1>1 DEF NotifyInv, FutureInv
<1> QED BY <1>1, <1>2, <1>3, <1>4, ExitStep

-----------------------------------------------------------------------------
(* The invariant, and what it implies *)

LEMMA NotifyInitHolds == NotifyInit => NotifyInv
<1> SUFFICES ASSUME NotifyInit PROVE NotifyInv OBVIOUS
<1>1. NotifyTypeInv BY Counts DEF NotifyInit, NotifyTypeInv
<1>2. PushInv /\ FutureInv BY DEF NotifyInit, PushInv, FutureInv
<1>3. NoDuplicates BY Counts DEF NotifyInit, NoDuplicates
<1>4. LostOnlyByExit BY TripleFacts, Counts DEF NotifyInit, LostOnlyByExit
<1> QED BY <1>1, <1>2, <1>3, <1>4 DEF NotifyInv

LEMMA NotifyNextHolds == NotifyInv /\ [NotifyNext]_notifyVars => NotifyInv'
<1> SUFFICES ASSUME NotifyInv, [NotifyNext]_notifyVars PROVE NotifyInv' OBVIOUS
<1>1. CASE QueueTurns \/ UNCHANGED notifyVars
  <2>0. UNCHANGED <<chain, savedBlocks, npc, income, channel, attempt, published, received, exits>>
    BY <1>1 DEF QueueTurns, notifyVars, pushVars
  <2> USE <2>0 DEF NotifyInv
  <2>1. NotifyTypeInv' /\ FutureInv' /\ NoDuplicates' BY DEF NotifyTypeInv, FutureInv, NoDuplicates
  <2>2. \A x : Before(x)' <=> Before(x) BY DEF Before
  <2>3. Here' = Here BY DEF Here
  <2>4. PushInv' BY <2>2, <2>3, EventsFrame DEF PushInv
  <2>5. LostOnlyByExit' BY EventsFrame DEF LostOnlyByExit
  <2> QED BY <2>1, <2>4, <2>5
<1> QED
  BY <1>1, SaveBlockStep, UserNotFoundStep, PublishQueueStep, WebhookOKStep, WebhookFailsStep,
     StartStep, CrashStep
  DEF NotifyNext, ScannerStep

LEMMA NotifyInvHolds == NotifySpec => []NotifyInv
BY NotifyInitHolds, NotifyNextHolds, PTL DEF NotifySpec

\* However the process ends and is started again, AmqpClient.Publish sends a
\* notification once at most and webhook.Client.Publish once per attempt.
THEOREM NoDuplicateOnRestart == NotifySpec => []NoDuplicates
<1>1. NotifyInv => NoDuplicates BY DEF NotifyInv
<1> QED BY <1>1, NotifyInvHolds, PTL

\* Only a block during whose pushNotifications the process ended has incomes that
\* nobody was told of, and those are its last ones.
THEOREM LossNeedsAnExit == NotifySpec => []LostOnlyByExit
<1>1. NotifyInv => LostOnlyByExit BY DEF NotifyInv
<1> QED BY <1>1, NotifyInvHolds, PTL
=============================================================================
