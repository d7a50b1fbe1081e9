--------------------------- MODULE MCShardTracker ---------------------------
(* Small instances of ShardTracker and ShardPrefix for TLC. *)
EXTENDS ShardPrefix, TLC

MCHome == <<1, 0>>
=============================================================================
