------------------------------ MODULE SfuWire -------------------------------
(***************************************************************************)
(* The messages between signaling and an SFU worker, and what each end     *)
(* makes of them: src/grpc_server.rs writes commands and reads results,    *)
(* src/sfu_server.rs reads commands and writes results, and room ids       *)
(* travel as bytes (src/room_id.rs).                                       *)
(***************************************************************************)
EXTENDS Integers

NoRoom == -1

\* A room_id field: so many bytes, of a UUID of this version.
room_id_to_bytes(room) == [length |-> 16, version |-> 8, uuid |-> room]

room_id_from_bytes(bytes) ==
    IF bytes.length = 16 /\ bytes.version = 8 THEN bytes.uuid ELSE NoRoom

-----------------------------------------------------------------------------
(* Commands.                                                                *)

\* A room synchronization lists its members with their lifecycles.
MemberProjections(roster) == {[client_id |-> c, lifecycle_id |-> roster[c]] : c \in DOMAIN roster}

\* encode_sfu_output, for the commands; a leave carries the same reason always.
encode_sfu_output(id, cmd) ==
    [request_id |-> id,
     command |->
        CASE cmd.type = "sync" ->
                [type |-> "sync", room_id |-> room_id_to_bytes(cmd.room),
                 assignment_epoch |-> cmd.epoch, members |-> MemberProjections(cmd.roster)]
          [] cmd.type = "join" ->
                [type |-> "join", room_id |-> room_id_to_bytes(cmd.member[1]),
                 client_id |-> cmd.member[2], lifecycle_id |-> cmd.lifecycle,
                 assignment_epoch |-> cmd.epoch]
          [] cmd.type = "signal" ->
                [type |-> "signal", room_id |-> room_id_to_bytes(cmd.member[1]),
                 client_id |-> cmd.member[2], lifecycle_id |-> cmd.lifecycle,
                 assignment_epoch |-> cmd.epoch, content |-> cmd.content]
          [] cmd.type = "leave" ->
                [type |-> "leave", room_id |-> room_id_to_bytes(cmd.member[1]),
                 client_id |-> cmd.member[2], lifecycle_id |-> cmd.lifecycle,
                 assignment_epoch |-> cmd.epoch, reason |-> "USER"]
          [] cmd.type = "drain" -> [type |-> "drain"]]

\* command_room_id: a drain names no room.
command_room_id(command) ==
    IF command.type = "drain" THEN NoRoom ELSE room_id_from_bytes(command.room_id)

\* The projection key and value a member command names.
MemberKey(command) == <<room_id_from_bytes(command.room_id), command.client_id>>
MemberTag(command) == <<command.lifecycle_id, command.assignment_epoch>>

-----------------------------------------------------------------------------
(* Signals: the JSON message and the sdp_request_id that comes with it.     *)

NoId == 0

\* What apply_signal asks of the engine: nothing for a bye, otherwise a session
\* description or a candidate under a request id.  An answer is filed under the
\* number the browser quoted, else under sdp_request_id; an offer under
\* sdp_request_id, else under the command's own number.
Rejected == [call |-> "rejected", request_id |-> NoId]
NothingToDo == [call |-> "nothing", request_id |-> NoId]
Description(id) == [call |-> "description", request_id |-> id]
Candidate(id) == [call |-> "candidate", request_id |-> id]

apply_signal(id, content) ==
    CASE content.kind = "answer" ->
            IF content.requestid # NoId THEN Description(content.requestid)
            ELSE IF content.sdp_request_id # NoId THEN Description(content.sdp_request_id)
            ELSE Rejected
      [] content.kind = "offer" ->
            Description(IF content.sdp_request_id # NoId THEN content.sdp_request_id ELSE id)
      [] content.kind \in {"candidate", "end-of-candidates"} -> Candidate(id)
      [] content.kind = "bye" -> NothingToDo
      [] OTHER -> Rejected

-----------------------------------------------------------------------------
(* Results.                                                                 *)

Ok(id, payload) == [request_id |-> id, ok |-> TRUE, payload |-> payload]

command_error(id, code, reason) ==
    [request_id |-> id, ok |-> FALSE, code |-> code, reason |-> reason]

Acknowledged == [type |-> "Acknowledged"]

\* The worker's payloads repeat what the command named.
MemberPayload(type, command) ==
    [type |-> type, room_id |-> command.room_id, client_id |-> command.client_id,
     lifecycle_id |-> command.lifecycle_id, assignment_epoch |-> command.assignment_epoch]

RoomSynced(command) ==
    [type |-> "RoomSynced", room_id |-> command.room_id,
     assignment_epoch |-> command.assignment_epoch]

\* decode_sfu_input, for the results: what the Collider is told.  A result
\* numbered 0 or about a malformed room ends the stream; of an error only the
\* reason is kept, not the code.
decode_sfu_input(result) ==
    IF result.request_id = 0 THEN [type |-> "Status"]
    ELSE IF ~result.ok THEN [type |-> "Err", request_id |-> result.request_id,
                             reason |-> result.reason]
    ELSE IF result.payload.type = "Acknowledged"
    THEN [type |-> "Ok", request_id |-> result.request_id, value |-> Acknowledged]
    ELSE IF room_id_from_bytes(result.payload.room_id) = NoRoom THEN [type |-> "Status"]
    ELSE [type |-> "Ok", request_id |-> result.request_id,
          value |-> IF result.payload.type = "RoomSynced"
                    THEN [type |-> "RoomSynced",
                          room |-> room_id_from_bytes(result.payload.room_id),
                          epoch |-> result.payload.assignment_epoch]
                    ELSE [type |-> result.payload.type, member |-> MemberKey(result.payload),
                          lifecycle |-> result.payload.lifecycle_id,
                          epoch |-> result.payload.assignment_epoch]]
=============================================================================
