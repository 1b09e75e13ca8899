--------------------------- MODULE MCMediaShards ---------------------------
(***************************************************************************)
(* Small instances of MediaShards for TLC.                                 *)
(***************************************************************************)
EXTENDS MediaShards

\* Rooms and shards are numbered as in the code: the shard of a room is the
\* remainder of its id.
RemainderShard == [r \in Rooms |-> r % Cardinality(Shards)]

\* A signal for each thing apply_signal does: an answer under a number of its
\* own, one under the command's number, nothing.
SomeContents ==
    {[kind |-> "answer", requestid |-> 7, sdp_request_id |-> 8],
     [kind |-> "candidate", requestid |-> NoId, sdp_request_id |-> NoId],
     [kind |-> "bye", requestid |-> NoId, sdp_request_id |-> NoId]}

\* Everything signaling can send about these rooms and clients; signals come
\* under one of the lifecycles, which may be the member's or not.
AllCommands ==
    MemberCommands \cup SyncCommands \cup {Drain}
    \cup {cmd \in SignalCommands : cmd.lifecycle = 1}

\* The commands that move members.
MembershipCommands == MemberCommands \cup SyncCommands

ClientSymmetry == Permutations(Clients)
=============================================================================
