---------------------------- MODULE MCSfuSession ----------------------------
(***************************************************************************)
(* Small instances of SfuSession for TLC: a command per shard, or all of   *)
(* them for one.                                                           *)
(***************************************************************************)
EXTENDS SfuSession

\* Commands are numbered, and spread over the shards by remainder.
RemainderShard == [c \in Commands |-> c % Cardinality(Shards)]
=============================================================================
