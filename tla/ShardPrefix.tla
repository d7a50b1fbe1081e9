----------------------------- MODULE ShardPrefix -----------------------------
(***************************************************************************)
(* isInShard: the arithmetic on shard prefixes, scaled down from 64-bit    *)
(* prefixes and 8-bit shards to Width and ShardBits.  A prefix is the      *)
(* leading bits of the addresses of the shard, a one and zeros.            *)
(* ShardTracker takes shards as sequences of bits; the numbers of its      *)
(* shards are compared with them here.                                     *)
(***************************************************************************)
EXTENDS ShardTracker, Bitwise

CONSTANTS
    Width,          \* bits of a block's shard prefix (64)
    ShardBits       \* bits of the service's shard byte (8)

ASSUME PrefixAssumption ==
    /\ Width \in Nat /\ ShardBits \in Nat
    /\ Len(Home) <= ShardBits /\ ShardBits < Width

-----------------------------------------------------------------------------
Bit(x, i) == (x \div 2^i) % 2

\* math/bits for Width-bit numbers.
TrailingZeros(x) == CHOOSE k \in 0..(Width - 1) : Bit(x, k) = 1 /\ \A i \in 0..(k - 1) : Bit(x, i) = 0
LeadingZeros(x) ==
    CHOOSE k \in 0..Width : /\ \A i \in (Width - k)..(Width - 1) : Bit(x, i) = 0
                            /\ k < Width => Bit(x, Width - 1 - k) = 1

\* Without the one insignificant bit.
PrefixLen(p) == Width - 1 - TrailingZeros(p)

\* Mutant: the length of the prefix is not checked.
IsInShardUnchecked(p, s) ==
    IF p = 0 THEN "fatal"
    ELSE IF LeadingZeros((s * 2^(Width - ShardBits)) ^^ p) >= PrefixLen(p) THEN "yes" ELSE "no"

\* isInShard: "fatal" where the code ends the process (no prefix, or more
\* shards than a byte tells apart).
IsInShard(p, s) ==
    IF p = 0 \/ PrefixLen(p) > ShardBits THEN "fatal"
    ELSE IF LeadingZeros((s * 2^(Width - ShardBits)) ^^ p) >= PrefixLen(p) THEN "yes" ELSE "no"

\* The number whose bits are the sequence, the most significant first.
Number(bits) == FoldLeft(LAMBDA n, b : 2 * n + b, 0, bits)

\* Shard of a block id, for the shard with these bits; the service's shard byte.
Prefix(bits) == (2 * Number(bits) + 1) * 2^(Width - 1 - Len(bits))
HomeByte == Number(Home) * 2^(ShardBits - Len(Home))

-----------------------------------------------------------------------------
(* Properties *)

\* The accounts of a shard byte: addresses that start with it.
Accounts(s) == {a \in 0..(2^Width - 1) : a \div 2^(Width - ShardBits) = s}

\* The accounts of a block's shard, by the length of its prefix.
BlockAccounts(p) ==
    LET mark == CHOOSE k \in 0..(Width - 1) : p % 2^(k + 1) = 2^k
    IN  {a \in 0..(2^Width - 1) : a \div 2^(mark + 1) = p \div 2^(mark + 1)}

\* yes when the block's shard holds all accounts of the shard byte, no only when
\* it holds none.
DecidesAccounts ==
    \A p \in 0..(2^Width - 1), s \in 0..(2^ShardBits - 1) :
        /\ IsInShard(p, s) = "yes" <=> p # 0 /\ Accounts(s) \subseteq BlockAccounts(p)
        /\ IsInShard(p, s) = "no" => Accounts(s) \cap BlockAccounts(p) = {}

\* For every prefix and shard byte isInShard says yes exactly when the block's
\* shard holds all accounts of the shard byte, no only when it holds none, and
\* refuses the rest: a block is never taken whose shard holds only a part of the
\* service's accounts.  In every state of the chain it takes, among the numbers of
\* the shards, the one shard that the tracker follows.
Decides ==
    /\ DecidesAccounts
    /\ \A s \in DOMAIN tips : IsInShard(Prefix(s), HomeByte) = IF InShard(s) THEN "yes" ELSE "no"
=============================================================================
