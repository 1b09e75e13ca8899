------------------------------ MODULE RpcWire -------------------------------
(***************************************************************************)
(* The unary RPCs between the HTTP edge and signaling, and what each end   *)
(* makes of them: src/grpc_server.rs checks requests and writes the        *)
(* authority's results, src/grpc_client.rs reads them.  A failed RPC       *)
(* yields a gRPC status instead of a response.                             *)
(***************************************************************************)
EXTENDS Integers

GrpcStatus(code) == [type |-> "status", code |-> code]

-----------------------------------------------------------------------------
(* Signaling's end.                                                         *)

\* app_context, as far as the edge can fail it, and admit_v1 .. remove_v2 on
\* their fields: a number of 0 or an empty message is refused before execute().
Acceptable(request) == request.id # 0 /\ (request.rpc = "inject_v1" => request.body # "")

\* The codes domain_error names after their reason.
CodedReasons ==
    {"FULL", "DUPLICATE_CLIENT", "ROOM_NOT_FOUND", "CLIENT_NOT_FOUND", "UNAUTHORIZED",
     "NO_SFU_AVAILABLE", "ROOM_TRANSITION", "WORKER_UNAVAILABLE", "STALE_LIFECYCLE",
     "RESOURCE_EXHAUSTED"}

\* domain_error of grpc_server.rs: the reason travels beside its code.
domain_error(reason) ==
    [type |-> "error", reason |-> reason,
     code |-> IF reason = "STALE_ASSIGNMENT" THEN "STALE_ASSIGNMENT_EPOCH"
              ELSE IF reason \in CodedReasons THEN reason ELSE "INVALID_REQUEST"]

Response(request, result) == [type |-> "response", request_id |-> request.id, result |-> result]

\* operation_response: the three operations that only succeed or fail.
operation_response(request, result) ==
    CASE result.type \in {"Removed", "RemovedV2", "Injected"} -> Response(request, [type |-> "ok"])
      [] result.type = "Error" -> Response(request, domain_error(result.reason))
      [] OTHER -> GrpcStatus("internal")

\* What a read or an admission answers with, for the result each one expects.
ExpectedResult == [admit_v1 |-> "Admitted", admit_v2 |-> "AdmittedV2",
                   occupancy_v1 |-> "Occupancy", get_status |-> "Status"]

Serve(request, result) ==
    IF request.rpc \notin DOMAIN ExpectedResult THEN operation_response(request, result)
    ELSE CASE result.type = ExpectedResult[request.rpc] -> Response(request, result)
           [] result.type = "Error" -> Response(request, domain_error(result.reason))
           [] OTHER -> GrpcStatus("internal")

-----------------------------------------------------------------------------
(* The edge's end: Result<_, String>.                                       *)

Ok(value) == [ok |-> TRUE, value |-> value]
Err(reason) == [ok |-> FALSE, reason |-> reason]

\* domain_error of grpc_client.rs: the code stands in for an empty reason.
reason_of(error) == IF error.reason = "" THEN error.code ELSE error.reason

\* operation_result, and what admit, occupancy and status do alike: the value or
\* the reason.
operation_result(result) ==
    IF result.type = "error" THEN Err(reason_of(result)) ELSE Ok(result)

\* admit_v2 takes an admission only to a room in P2P or SFU mode, with the
\* fields that mode needs; the member is in the room either way.
admit_v2(admitted) ==
    IF admitted.type = "error" THEN Err(reason_of(admitted))
    ELSE IF admitted.mode \notin {"P2p", "Sfu"} THEN Err("ROOM_TRANSITION")
    ELSE IF \/ admitted.mode = "P2p" /\ admitted.is_initiator = "none"
            \/ admitted.admission_token = ""
    THEN Err("incomplete admission")
    ELSE Ok(admitted)

\* admit, remove, occupancy, inject and status: a failed RPC, another call's
\* number and a domain error are all errors, told apart by their text.
read_response(rpc, request_id, response) ==
    IF response.type = "status" THEN Err("signaling failed")
    ELSE IF response.request_id # request_id THEN Err("request_id mismatch")
    ELSE IF rpc = "admit_v2" THEN admit_v2(response.result)
    ELSE operation_result(response.result)
=============================================================================
