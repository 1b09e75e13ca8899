-------------------------------- MODULE Edge --------------------------------
(***************************************************************************)
(* The HTTP edge: the handlers of src/room_server.rs over the gRPC client  *)
(* of src/grpc_client.rs, for one room.  A handler makes one call at a     *)
(* time and waits for its answer or for REQUEST_TIMEOUT.  The call of a    *)
(* handler that gave up, or that the server dropped with its browser, may  *)
(* still reach the authority.                                              *)
(*                                                                         *)
(* Signaling checks a request, asks the authority and writes the response  *)
(* (RpcWire).  The authority itself is external: a set of members, each    *)
(* admitted once, that it may refuse to change.                            *)
(***************************************************************************)
EXTENDS RpcWire, FiniteSets

CONSTANTS
    MaxRequests,   \* bound: HTTP requests, numbered in the order they come
    ClientIds,     \* the client ids generate_random and rand::random can draw
    MaxAttempts,   \* CLIENT_ID_ATTEMPTS
    Modulus,       \* request numbers wrap here: 2^64 in the code
    FirstId        \* next_request_id when the first of these requests comes

ASSUME EdgeAssumption ==
    /\ MaxRequests \in Nat /\ MaxAttempts \in Nat \ {0}
    /\ Modulus \in Nat /\ Modulus > 1 /\ FirstId \in 0..(Modulus - 1)

Requests == 1..MaxRequests

MaxRoomCapacity == 2

VARIABLES
    handler,     \* each request's handler
    answer,      \* the reply to its call, once it has come
    nextId,      \* next_request_id
    calls,       \* calls the authority has not handled
    members,     \* authority: the members of the room
    admitted,    \* history: every admission and the request it was for
    httpErrors   \* http_errors

vars == <<handler, answer, nextId, calls, members, admitted, httpErrors>>

Joins == {"join1", "join2"}
Leaves == {"leave1", "leave2"}

\* The RPC behind each handler; leave and bridge_delete share one, and so do
\* message and bridge_post.  The handlers of "static" (main_page, v2_room_page,
\* params, v2_params, ice_config) make no call.
Rpc == [join1 |-> "admit_v1", join2 |-> "admit_v2", leave1 |-> "remove_v1",
        leave2 |-> "remove_v2", message |-> "inject_v1", bridge |-> "inject_v1",
        page |-> "occupancy_v1", status |-> "get_status"]
Kinds == DOMAIN Rpc \cup {"static"}

None == "none"
NoMember == <<0, None>>
NoAnswer == [type |-> None]

\* The two versions name their members apart.
Version(kind) == IF kind \in {"join2", "leave2"} THEN 2 ELSE 1

Idle == [at |-> "idle", kind |-> None, attempt |-> 0, member |-> NoMember,
         id |-> 0, result |-> None]

Init ==
    /\ handler = [r \in Requests |-> Idle]
    /\ answer = [r \in Requests |-> NoAnswer]
    /\ nextId = FirstId
    /\ calls = {} /\ members = {} /\ admitted = {} /\ httpErrors = 0

-----------------------------------------------------------------------------
(* GrpcAuthority.                                                           *)

\* Mutant of Number: 0 is handed out like any other number.
NumberFromZero == nextId

\* context(): fetch_add wraps around, and 0 is skipped.
Number == IF nextId = 0 THEN 1 ELSE nextId

\* admit .. status send the request of the handler's RPC.
Call(r, kind, attempt, member, body) ==
    /\ handler' = [handler EXCEPT ![r] =
          [at |-> "call", kind |-> kind, attempt |-> attempt, member |-> member,
           id |-> Number, result |-> None]]
    /\ answer' = [answer EXCEPT ![r] = NoAnswer]
    /\ nextId' = (Number + 1) % Modulus
    /\ calls' = calls \cup {[id |-> Number, by |-> r, rpc |-> Rpc[kind],
                             member |-> member, body |-> body]}
    /\ UNCHANGED <<members, admitted, httpErrors>>

-----------------------------------------------------------------------------
(* The handlers of RoomServer.                                              *)

\* The result the browser is told: SUCCESS, the reason, or for room_page the
\* page for the occupancy.
Outcome(kind, result) ==
    IF ~result.ok THEN result.reason
    ELSE IF kind = "page" /\ result.value.count >= MaxRoomCapacity THEN "full page"
    ELSE "SUCCESS"

\* Kinds whose failure is an HTTP error; the others put the reason in the body.
HttpErrorKinds == {"leave1", "bridge", "page", "status"}

\* Of what a handler knew, only a successful join's client id is told.
Respond(r, h, result, isError) ==
    /\ handler' = [handler EXCEPT ![r] =
          [Idle EXCEPT !.at = "done", !.result = result,
                       !.member = IF h.kind \in Joins /\ result = "SUCCESS" THEN h.member
                                  ELSE NoMember]]
    /\ answer' = [answer EXCEPT ![r] = NoAnswer]
    /\ httpErrors' = IF isError THEN httpErrors + 1 ELSE httpErrors
    /\ UNCHANGED <<nextId, calls, members, admitted>>

\* The next request comes.
Comes(r) == handler[r].at = "idle" /\ \A q \in 1..(r - 1) : handler[q].at # "idle"

\* message passes an empty body on, bridge_post does not.
Bodies == [leave1 |-> {""}, leave2 |-> {""}, message |-> {"text", ""}, bridge |-> {"text"}]

\* A join draws a client id; the others name a client that a join was told.
Begin(r, kind) ==
    /\ Comes(r)
    /\ \/ /\ kind \in Joins
          /\ \E c \in ClientIds : Call(r, kind, 1, <<Version(kind), c>>, "")
       \/ /\ kind \in Leaves \cup {"message", "bridge"}
          /\ \E q \in Requests :
                /\ handler[q].at = "done" /\ handler[q].member[1] = Version(kind)
                /\ \E body \in Bodies[kind] : Call(r, kind, 1, handler[q].member, body)
       \/ /\ kind \in {"page", "status"}
          /\ Call(r, kind, 1, NoMember, "")

\* A page or parameters that need no call.
ServeStatic(r) == Comes(r) /\ Respond(r, [Idle EXCEPT !.kind = "static"], "SUCCESS", FALSE)

\* Refused before any call: a URL, a template or a body that will not do is an
\* HTTP error, a malformed room token, client id or bearer token a result.
Reject(r, kind) ==
    /\ Comes(r)
    /\ LET h == [Idle EXCEPT !.kind = kind]
       IN  \/ kind \in Joins \cup {"page", "bridge", "static"} /\ Respond(r, h, "rejected", TRUE)
           \/ kind \in {"join2", "leave2", "static"} /\ Respond(r, h, "rejected", FALSE)

\* Mutant of Retries: any failed admission is tried again.
RetriesAnyError(h, result) ==
    h.kind = "join2" /\ ~result.ok /\ h.attempt < MaxAttempts

\* v2_join tries again with a fresh id only when the id was taken.
Retries(h, result) ==
    /\ h.kind = "join2" /\ h.attempt < MaxAttempts
    /\ ~result.ok /\ result.reason = "DUPLICATE_CLIENT"

\* The call returns, and the handler tries again or answers its browser.
Conclude(r, result) ==
    LET h == handler[r] IN
    IF Retries(h, result)
    THEN \E c \in ClientIds : Call(r, h.kind, h.attempt + 1, <<2, c>>, "")
    ELSE Respond(r, h, Outcome(h.kind, result), h.kind \in HttpErrorKinds /\ ~result.ok)

Receive(r) ==
    /\ handler[r].at = "call" /\ answer[r] # NoAnswer
    /\ Conclude(r, read_response(Rpc[handler[r].kind], handler[r].id, answer[r]))

\* room_page has its answer, but its template fails.
RenderFails(r) ==
    /\ handler[r].at = "call" /\ handler[r].kind = "page" /\ answer[r] # NoAnswer
    /\ read_response("occupancy_v1", handler[r].id, answer[r]).ok
    /\ Respond(r, handler[r], "rejected", TRUE)

\* Mutant of TimeOut: the endpoint has no timeout.
TimeOutNever(r) == handler[r].at = "lost" /\ Conclude(r, Err("signaling failed"))

\* REQUEST_TIMEOUT, the authority's own timeout, or a lost connection.
TimeOut(r) ==
    /\ handler[r].at = "call" /\ answer[r] = NoAnswer
    /\ Conclude(r, Err("signaling failed"))

\* The browser goes away and its handler is dropped.
Drop(r) ==
    /\ handler[r].at = "call"
    /\ handler' = [handler EXCEPT ![r] = [Idle EXCEPT !.at = "dropped"]]
    /\ answer' = [answer EXCEPT ![r] = NoAnswer]
    /\ UNCHANGED <<nextId, calls, members, admitted, httpErrors>>

-----------------------------------------------------------------------------
(* Signaling's end of a call; the authority is external.                    *)

\* The response finds its call if the handler still waits for it.
Answer(call, response) ==
    answer' = IF handler[call.by].at = "call" /\ handler[call.by].id = call.id
              THEN [answer EXCEPT ![call.by] = response]
              ELSE answer

\* Admissions to a V2 room: complete, to a room in transition, or incomplete.
AdmissionsV2 ==
    {[type |-> "AdmittedV2", mode |-> a[1], is_initiator |-> a[2], admission_token |-> a[3]] :
        a \in {<<"P2p", "true", "token">>, <<"Sfu", None, "token">>,
               <<"Upgrading", None, "token">>, <<"P2p", None, "token">>, <<"Sfu", None, "">>}}

\* An id is admitted if it is free.
Admit(call) ==
    \/ /\ call.member \in members
       /\ Answer(call, Serve(call, [type |-> "Error", reason |-> "DUPLICATE_CLIENT"]))
       /\ UNCHANGED <<members, admitted>>
    \/ /\ call.member \notin members
       /\ members' = members \cup {call.member}
       /\ admitted' = admitted \cup {[member |-> call.member, by |-> call.by]}
       /\ \E result \in IF call.rpc = "admit_v2" THEN AdmissionsV2 ELSE {[type |-> "Admitted"]} :
             Answer(call, Serve(call, result))

Remove(call) ==
    /\ members' = members \ {call.member}
    /\ Answer(call, Serve(call, [type |-> IF call.rpc = "remove_v2" THEN "RemovedV2" ELSE "Removed"]))
    /\ UNCHANGED admitted

\* A message, an occupancy or a status changes no membership.
Read(call) ==
    /\ Answer(call, Serve(call,
          CASE call.rpc = "inject_v1" -> [type |-> "Injected"]
            [] call.rpc = "occupancy_v1" ->
                  [type |-> "Occupancy", count |-> Cardinality({m \in members : m[1] = 1})]
            [] call.rpc = "get_status" -> [type |-> "Status"]))
    /\ UNCHANGED <<members, admitted>>

\* The authority refuses, or cannot be reached.
Refuse(call) ==
    /\ \/ /\ call.rpc \notin {"occupancy_v1", "get_status"}
          /\ Answer(call, Serve(call, [type |-> "Error", reason |->
                CASE call.rpc = "admit_v1" -> "FULL"
                  [] call.rpc = "admit_v2" -> "NO_SFU_AVAILABLE"
                  [] OTHER -> "CLIENT_NOT_FOUND"]))
       \/ Answer(call, GrpcStatus("unavailable"))
    /\ UNCHANGED <<members, admitted>>

Handle(call) ==
    /\ calls' = calls \ {call}
    /\ \/ /\ ~Acceptable(call)
          /\ Answer(call, GrpcStatus("invalid_argument"))
          /\ UNCHANGED <<members, admitted>>
       \/ /\ Acceptable(call)
          /\ \/ call.rpc \in {"admit_v1", "admit_v2"} /\ Admit(call)
             \/ call.rpc \in {"remove_v1", "remove_v2"} /\ Remove(call)
             \/ call.rpc \in {"inject_v1", "occupancy_v1", "get_status"} /\ Read(call)
             \/ Refuse(call)
    /\ UNCHANGED <<handler, nextId, httpErrors>>

-----------------------------------------------------------------------------
Next ==
    \/ \E r \in Requests, kind \in Kinds : Begin(r, kind) \/ Reject(r, kind)
    \/ \E r \in Requests :
          ServeStatic(r) \/ Receive(r) \/ RenderFails(r) \/ TimeOut(r) \/ Drop(r)
    \/ \E call \in calls : Handle(call)

Spec == Init /\ [][Next]_vars

\* Tokio polls a handler whose call has returned, and the timeout of a call
\* expires.  Browsers need not come, and the authority need not answer.
FairSpec == Spec /\ \A r \in Requests : WF_vars(Receive(r) \/ RenderFails(r) \/ TimeOut(r))

-----------------------------------------------------------------------------
Members == {1, 2} \X ClientIds

Rpcs == {Rpc[kind] : kind \in DOMAIN Rpc}

\* The results a browser can be told.
Results == {"SUCCESS", "full page", "rejected", "signaling failed", "incomplete admission",
            "FULL", "DUPLICATE_CLIENT", "NO_SFU_AVAILABLE", "ROOM_TRANSITION", "CLIENT_NOT_FOUND"}

\* Every variable has the shape the code gives it; no call carries request
\* number 0, which signaling refuses, even when the counter wraps.
TypeOK ==
    /\ handler \in [Requests -> [at : {"idle", "call", "done", "dropped"},
                                 kind : Kinds \cup {None}, attempt : 0..MaxAttempts,
                                 member : Members \cup {NoMember}, id : 0..(Modulus - 1),
                                 result : Results \cup {None}]]
    /\ \A r \in Requests : answer[r].type \in {None, "status", "response"}
    /\ nextId \in 0..(Modulus - 1)
    /\ calls \subseteq [id : 1..(Modulus - 1), by : Requests, rpc : Rpcs,
                        member : Members \cup {NoMember}, body : {"text", ""}]
    /\ members \subseteq Members
    /\ admitted \subseteq [member : Members, by : Requests]
    /\ httpErrors \in 0..Cardinality(Requests)

\* A join puts at most one member into the room, however often it tried and
\* whatever of it arrived late; told SUCCESS, the browser has the id that was
\* admitted for it; told the authority's reason, it left nothing behind.  The
\* exceptions are texts the client makes up for an admission it cannot use.
JoinAccounted ==
    \A r \in Requests :
        LET mine == {a \in admitted : a.by = r} IN
        /\ Cardinality(mine) <= 1
        /\ handler[r].at = "done" /\ handler[r].member # NoMember =>
              \E a \in mine : a.member = handler[r].member
        /\ handler[r].result \in CodedReasons \ {"ROOM_TRANSITION"} => mine = {}

\* Every request is answered, unless its browser went away: the attempts at a
\* client id are bounded, and so is each call.
RequestsAnswered ==
    \A r \in Requests : handler[r].at = "call" ~> handler[r].at \in {"done", "dropped"}
=============================================================================
