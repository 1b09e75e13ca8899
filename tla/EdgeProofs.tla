----------------------------- MODULE EdgeProofs -----------------------------
(***************************************************************************)
(* Proofs about Edge for any number of HTTP requests, any client ids, any  *)
(* bound on the attempts and any width of the request numbers.             *)
(***************************************************************************)
EXTENDS Edge, FiniteSetTheorems, TLAPS

-----------------------------------------------------------------------------
(* The inductive invariant.                                                 *)

HandlerTypes == [at : {"idle", "call", "done", "dropped"},
                 kind : Kinds \cup {None}, attempt : 0..MaxAttempts,
                 member : Members \cup {NoMember}, id : 0..(Modulus - 1),
                 result : Results \cup {None}]
CallTypes == [id : 1..(Modulus - 1), by : Requests, rpc : Rpcs,
              member : Members \cup {NoMember}, body : {"text", ""}]
Finished == {r \in Requests : handler[r].at = "done"}

Types ==
    /\ handler \in [Requests -> HandlerTypes]
    /\ answer = [r \in Requests |-> answer[r]]
    /\ \A r \in Requests : answer[r].type \in {None, "status", "response"}
    /\ nextId \in 0..(Modulus - 1)
    /\ calls \subseteq CallTypes
    /\ \A c \in calls : c.rpc \in {"admit_v1", "admit_v2"} => c.member \in Members
    /\ members \subseteq Members
    /\ admitted \subseteq [member : Members, by : Requests]
    /\ httpErrors \in Nat /\ httpErrors <= Cardinality(Finished)

\* Nothing of request r is under way, and nothing was admitted for it.
Uncalled(r) == \A c \in calls : c.by # r
Unadmitted(r) == \A a \in admitted : a.by # r

\* The reasons that tell a browser that nothing was admitted for it.
Refusals == CodedReasons \ {"ROOM_TRANSITION"}

\* What the handler of r makes of its answer is true of the room.
Verdict(r) == read_response(Rpc[handler[r].kind], handler[r].id, answer[r])

Truthful(r, v) ==
    /\ v.ok \in BOOLEAN
    /\ v.ok /\ handler[r].kind \in Joins => \E a \in admitted : a.by = r /\ a.member = handler[r].member
    /\ ~v.ok => v.reason \in Results \ {"SUCCESS"} /\ (v.reason \in Refusals => Unadmitted(r))

\* Where a request is.  A handler that waits has one call at the authority; one
\* that has its answer has none.
Stage(r) ==
    /\ handler[r].at = "idle" => Uncalled(r) /\ Unadmitted(r)
    /\ handler[r].at = "call" => handler[r].kind \in DOMAIN Rpc
    /\ handler[r].at = "call" /\ answer[r] = NoAnswer =>
          \E c \in calls : /\ c.by = r /\ c.id = handler[r].id
                           /\ c.rpc = Rpc[handler[r].kind] /\ c.member = handler[r].member
    /\ handler[r].at = "call" /\ answer[r] # NoAnswer => Uncalled(r) /\ Truthful(r, Verdict(r))
    /\ handler[r].at = "done" /\ handler[r].member # NoMember =>
          \E a \in admitted : a.by = r /\ a.member = handler[r].member
    /\ handler[r].result \in Refusals => Uncalled(r) /\ Unadmitted(r)

\* A request has one call at a time, and none once it has admitted a member.
OneCall ==
    /\ \A c, d \in calls : c.by = d.by => c = d
    /\ \A a, b \in admitted : a.by = b.by => a = b
    /\ \A c \in calls : Unadmitted(c.by)

Inv == Types /\ OneCall /\ \A r \in Requests : Stage(r)

-----------------------------------------------------------------------------
(* Kinds of steps.                                                          *)

\* Request numbers stay within their width, and 0 is never handed out.
LEMMA NumberRange ==
    ASSUME nextId \in 0..(Modulus - 1)
    PROVE  /\ Number \in 1..(Modulus - 1) /\ Number \in 0..(Modulus - 1)
           /\ (Number + 1) % Modulus \in 0..(Modulus - 1)
<1>1. Modulus \in Nat /\ Modulus > 1
  BY EdgeAssumption
<1>2. Number \in 1..(Modulus - 1) /\ Number \in 0..(Modulus - 1)
  BY <1>1 DEF Number
<1>3. PICK n \in Nat : n = Number + 1
  BY <1>1, <1>2
<1>4. n % Modulus \in 0..(Modulus - 1)
  BY <1>1, <1>3
<1> QED BY <1>2, <1>3, <1>4

LEMMA FiniteRequests ==
    /\ IsFiniteSet(Requests) /\ Cardinality(Requests) = MaxRequests
    /\ \A S \in SUBSET Requests : IsFiniteSet(S) /\ Cardinality(S) \in Nat
          /\ Cardinality(S) <= Cardinality(Requests)
<1>1. MaxRequests \in Nat /\ 0 \in Int /\ 1 \in Int /\ MaxRequests \in Int
  BY EdgeAssumption
<1>2. IsFiniteSet(Requests) /\ Cardinality(Requests) = MaxRequests
  BY <1>1, FS_Interval DEF Requests
<1> QED BY <1>2, FS_Subset, FS_CardinalityType

\* Only the joins admit.
LEMMA RpcOf ==
    ASSUME NEW kind \in DOMAIN Rpc, Rpc[kind] \in {"admit_v1", "admit_v2"}
    PROVE  kind \in Joins
<1>1. kind \in {"join1", "join2", "leave1", "leave2", "message", "bridge", "page", "status"}
  BY DEF Rpc
<1>2. /\ Rpc["leave1"] = "remove_v1" /\ Rpc["leave2"] = "remove_v2" /\ Rpc["message"] = "inject_v1"
      /\ Rpc["bridge"] = "inject_v1" /\ Rpc["page"] = "occupancy_v1" /\ Rpc["status"] = "get_status"
  BY DEF Rpc
<1> QED BY <1>1, <1>2 DEF Joins

\* A new call: nothing of the request is under way, nothing was admitted for it.
LEMMA CallKeepsInv ==
    ASSUME Inv, NEW r \in Requests, NEW kind \in DOMAIN Rpc, NEW attempt \in 0..MaxAttempts,
           NEW member \in Members \cup {NoMember}, NEW body \in {"text", ""},
           kind \in Joins => member \in Members,
           handler[r].at \in {"idle", "call"}, Uncalled(r), Unadmitted(r),
           Call(r, kind, attempt, member, body)
    PROVE  Inv'
<1>0. /\ Types /\ OneCall /\ \A q \in Requests : Stage(q)
      /\ handler \in [Requests -> HandlerTypes] /\ calls \subseteq CallTypes
  BY DEF Inv, Types
<1> DEFINE h == [at |-> "call", kind |-> kind, attempt |-> attempt, member |-> member,
                 id |-> Number, result |-> None]
           c == [id |-> Number, by |-> r, rpc |-> Rpc[kind], member |-> member, body |-> body]
<1>1. Number \in 1..(Modulus - 1) /\ (Number + 1) % Modulus \in 0..(Modulus - 1)
  BY <1>0, NumberRange DEF Types
<1>2. Number \in 0..(Modulus - 1)
  BY <1>0, NumberRange DEF Types
<1>3. h \in HandlerTypes
  BY <1>2 DEF HandlerTypes, Kinds
<1>4. c \in CallTypes
  BY <1>1 DEF CallTypes, Rpcs
<1>5. /\ handler' = [handler EXCEPT ![r] = h] /\ answer' = [answer EXCEPT ![r] = NoAnswer]
      /\ nextId' = (Number + 1) % Modulus /\ calls' = calls \cup {c}
      /\ UNCHANGED <<members, admitted, httpErrors>>
  BY DEF Call
<1>6. /\ h.at = "call" /\ h.kind = kind /\ h.member = member /\ h.id = Number /\ h.result = None
      /\ c.by = r /\ c.id = Number /\ c.rpc = Rpc[kind] /\ c.member = member
  OBVIOUS
<1>7. NoAnswer.type = None
  BY DEF NoAnswer
<1> HIDE DEF h, c
<1>8. Types'
  <2>1. handler' \in [Requests -> HandlerTypes]
    BY <1>0, <1>3, <1>5
  <2>2. answer' = [q \in Requests |-> answer'[q]] /\ \A q \in Requests : answer'[q].type \in {None, "status", "response"}
    BY <1>0, <1>5, <1>7 DEF Types
  <2>3. Finished' = Finished
    BY <1>0, <1>5, <1>6 DEF Finished
  <2>4. /\ calls' \subseteq CallTypes
        /\ \A b \in calls' : b.rpc \in {"admit_v1", "admit_v2"} => b.member \in Members
    <3>1. Rpc[kind] \in {"admit_v1", "admit_v2"} => kind \in Joins
      BY RpcOf
    <3> QED BY <1>0, <1>4, <1>5, <1>6, <3>1 DEF Types
  <2>5. httpErrors' \in Nat /\ httpErrors' <= Cardinality(Finished')
    BY <1>0, <1>5, <2>3 DEF Types
  <2> QED BY <1>0, <1>1, <1>5, <2>1, <2>2, <2>4, <2>5 DEF Types
<1>9. OneCall'
  BY <1>0, <1>5, <1>6 DEF OneCall, Uncalled, Unadmitted
<1>10. ASSUME NEW q \in Requests PROVE Stage(q)'
  <2>1. CASE q = r
    <3>1. handler'[q] = h /\ answer'[q] = NoAnswer
      BY <1>0, <1>5, <2>1 DEF Types
    <3>2. c \in calls'
      BY <1>5
    <3>3. None \notin Refusals
      BY DEF None, Refusals, CodedReasons
    <3> QED BY <1>6, <2>1, <3>1, <3>2, <3>3 DEF Stage
  <2>2. CASE q # r
    <3>1. handler'[q] = handler[q] /\ answer'[q] = answer[q] /\ admitted' = admitted
      BY <1>0, <1>5, <2>2 DEF Types
    <3>2. Uncalled(q) => Uncalled(q)'
      BY <1>5, <1>6, <2>2 DEF Uncalled
    <3>3. Verdict(q)' = Verdict(q)
      BY <3>1 DEF Verdict
    <3>4. Truthful(q, Verdict(q)) => Truthful(q, Verdict(q))'
      BY <3>1, <3>3 DEF Truthful, Unadmitted
    <3>5. calls \subseteq calls' /\ (Unadmitted(q) => Unadmitted(q)')
      BY <1>5 DEF Unadmitted
    <3>6. /\ handler[q].at = "idle" => Uncalled(q)' /\ Unadmitted(q)'
          /\ handler[q].at = "call" /\ answer[q] # NoAnswer => Uncalled(q)' /\ Truthful(q, Verdict(q))'
          /\ handler[q].result \in Refusals => Uncalled(q)' /\ Unadmitted(q)'
      BY <1>0, <3>2, <3>4, <3>5 DEF Stage
    <3>7. /\ handler[q].at = "call" => handler[q].kind \in DOMAIN Rpc
          /\ handler[q].at = "call" /\ answer[q] = NoAnswer =>
                \E b \in calls' : /\ b.by = q /\ b.id = handler[q].id
                                  /\ b.rpc = Rpc[handler[q].kind] /\ b.member = handler[q].member
          /\ handler[q].at = "done" /\ handler[q].member # NoMember =>
                \E a \in admitted : a.by = q /\ a.member = handler[q].member
      BY <1>0, <3>5 DEF Stage
    <3> QED BY <3>1, <3>6, <3>7 DEF Stage
  <2> QED BY <2>1, <2>2
<1> QED BY <1>8, <1>9, <1>10 DEF Inv

\* A handler answers its browser, truthfully.
LEMMA RespondKeepsInv ==
    ASSUME Inv, NEW r \in Requests, NEW h, h.member \in Members \cup {NoMember},
           NEW result \in Results, NEW isError \in BOOLEAN,
           handler[r].at \in {"idle", "call"},
           h.kind \in Joins /\ result = "SUCCESS" =>
              \E a \in admitted : a.by = r /\ a.member = h.member,
           result \in Refusals => Uncalled(r) /\ Unadmitted(r),
           Respond(r, h, result, isError)
    PROVE  Inv'
<1>0. /\ Types /\ OneCall /\ \A q \in Requests : Stage(q)
      /\ handler \in [Requests -> HandlerTypes]
  BY DEF Inv, Types
<1> DEFINE m == IF h.kind \in Joins /\ result = "SUCCESS" THEN h.member ELSE NoMember
           d == [Idle EXCEPT !.at = "done", !.result = result, !.member = m]
<1>1. m \in Members \cup {NoMember}
  OBVIOUS
<1>2. m # NoMember => \E a \in admitted : a.by = r /\ a.member = m
  OBVIOUS
<1>3. handler' = [handler EXCEPT ![r] = d]
  BY DEF Respond
<1>4. /\ answer' = [answer EXCEPT ![r] = NoAnswer]
      /\ httpErrors' = IF isError THEN httpErrors + 1 ELSE httpErrors
      /\ UNCHANGED <<nextId, calls, members, admitted>>
  BY DEF Respond
<1> HIDE DEF m
<1>5. d.at = "done" /\ d.member = m /\ d.result = result
  BY DEF Idle
<1>6. d \in HandlerTypes
  <2>1. 0 \in 0..MaxAttempts /\ 0 \in 0..(Modulus - 1)
    BY EdgeAssumption
  <2> QED BY <1>1, <2>1 DEF HandlerTypes, Idle
<1> HIDE DEF d
<1>7. Types'
  <2>1. handler' \in [Requests -> HandlerTypes]
    BY <1>0, <1>3, <1>6
  <2>2. NoAnswer.type = None
    BY DEF NoAnswer
  <2>3. answer' = [q \in Requests |-> answer'[q]] /\ \A q \in Requests : answer'[q].type \in {None, "status", "response"}
    BY <1>0, <1>4, <2>2 DEF Types
  <2>4. r \notin Finished /\ Finished' = Finished \cup {r}
    BY <1>0, <1>3, <1>5 DEF Finished
  <2>5. Finished \subseteq Requests
    BY DEF Finished
  <2>6. Cardinality(Finished') = Cardinality(Finished) + 1 /\ Cardinality(Finished) \in Nat
    <3>1. IsFiniteSet(Finished) /\ Cardinality(Finished) \in Nat
      BY <2>5, FiniteRequests
    <3>2. Cardinality(Finished \cup {r}) = Cardinality(Finished) + 1
      BY <2>4, <3>1, FS_AddElement
    <3> QED BY <2>4, <3>1, <3>2
  <2>7. httpErrors' \in Nat /\ httpErrors' <= Cardinality(Finished')
    <3>1. httpErrors \in Nat /\ httpErrors <= Cardinality(Finished)
      BY <1>0 DEF Types
    <3> QED BY <1>4, <2>6, <3>1
  <2> QED BY <1>0, <1>4, <2>1, <2>3, <2>7 DEF Types
<1>8. OneCall'
  BY <1>0, <1>4 DEF OneCall, Unadmitted
<1>9. ASSUME NEW q \in Requests PROVE Stage(q)'
  <2>1. (Uncalled(q) => Uncalled(q)') /\ (Unadmitted(q) => Unadmitted(q)')
    BY <1>4 DEF Uncalled, Unadmitted
  <2>2. CASE q = r
    <3>1. handler'[q] = d
      BY <1>0, <1>3, <2>2
    <3> QED BY <1>2, <1>4, <1>5, <2>1, <2>2, <3>1 DEF Stage
  <2>3. CASE q # r
    <3>1. handler'[q] = handler[q] /\ answer'[q] = answer[q] /\ admitted' = admitted /\ calls' = calls
      BY <1>0, <1>3, <1>4, <2>3 DEF Types
    <3>2. Verdict(q)' = Verdict(q)
      BY <3>1 DEF Verdict
    <3>3. Truthful(q, Verdict(q)) => Truthful(q, Verdict(q))'
      BY <3>1, <3>2 DEF Truthful, Unadmitted
    <3> QED BY <1>0, <2>1, <3>1, <3>3 DEF Stage
  <2> QED BY <2>2, <2>3
<1> QED BY <1>7, <1>8, <1>9 DEF Inv

\* A handler is dropped with its browser.
LEMMA DropKeepsInv ==
    ASSUME Inv, NEW r \in Requests, Drop(r)
    PROVE  Inv'
<1>0. /\ Types /\ OneCall /\ \A q \in Requests : Stage(q)
      /\ handler \in [Requests -> HandlerTypes]
  BY DEF Inv, Types
<1> DEFINE d == [Idle EXCEPT !.at = "dropped"]
<1>1. /\ handler' = [handler EXCEPT ![r] = d] /\ answer' = [answer EXCEPT ![r] = NoAnswer]
      /\ UNCHANGED <<nextId, calls, members, admitted, httpErrors>> /\ handler[r].at = "call"
  BY DEF Drop
<1>2. d.at = "dropped" /\ d.result = None
  BY DEF Idle
<1>3. d \in HandlerTypes
  <2>1. 0 \in 0..MaxAttempts /\ 0 \in 0..(Modulus - 1)
    BY EdgeAssumption
  <2> QED BY <2>1 DEF HandlerTypes, Idle
<1> HIDE DEF d
<1>4. Types'
  <2>1. handler' \in [Requests -> HandlerTypes]
    BY <1>0, <1>1, <1>3
  <2>2. NoAnswer.type = None
    BY DEF NoAnswer
  <2>3. answer' = [q \in Requests |-> answer'[q]] /\ \A q \in Requests : answer'[q].type \in {None, "status", "response"}
    BY <1>0, <1>1, <2>2 DEF Types
  <2>4. Finished' = Finished
    BY <1>0, <1>1, <1>2 DEF Finished
  <2>5. httpErrors' \in Nat /\ httpErrors' <= Cardinality(Finished')
    BY <1>0, <1>1, <2>4 DEF Types
  <2> QED BY <1>0, <1>1, <2>1, <2>3, <2>5 DEF Types
<1>5. OneCall'
  BY <1>0, <1>1 DEF OneCall, Unadmitted
<1>6. ASSUME NEW q \in Requests PROVE Stage(q)'
  <2>1. CASE q = r
    <3>1. handler'[q] = d
      BY <1>0, <1>1, <2>1
    <3>2. None \notin Refusals
      BY DEF None, Refusals, CodedReasons
    <3> QED BY <1>2, <3>1, <3>2 DEF Stage
  <2>2. CASE q # r
    <3>1. handler'[q] = handler[q] /\ answer'[q] = answer[q] /\ admitted' = admitted /\ calls' = calls
      BY <1>0, <1>1, <2>2 DEF Types
    <3>2. Verdict(q)' = Verdict(q) /\ (Uncalled(q) => Uncalled(q)') /\ (Unadmitted(q) => Unadmitted(q)')
      BY <3>1 DEF Verdict, Uncalled, Unadmitted
    <3>3. Truthful(q, Verdict(q)) => Truthful(q, Verdict(q))'
      BY <3>1, <3>2 DEF Truthful, Unadmitted
    <3> QED BY <1>0, <3>1, <3>2, <3>3 DEF Stage
  <2> QED BY <2>1, <2>2
<1> QED BY <1>4, <1>5, <1>6 DEF Inv

-----------------------------------------------------------------------------
(* Signaling's answers, as the edge reads them.                             *)

\* What a call did to the room, and what the edge will read, agree.
Agrees(call, response) ==
    LET v == read_response(call.rpc, call.id, response) IN
    /\ response.type \in {"status", "response"}
    /\ v.ok \in BOOLEAN
    /\ v.ok /\ call.rpc \in {"admit_v1", "admit_v2"} => [member |-> call.member, by |-> call.by] \in admitted'
    /\ ~v.ok => v.reason \in Results \ {"SUCCESS"} /\ (v.reason \in Refusals => admitted' = admitted)

LEMMA StatusAgrees ==
    ASSUME NEW call, NEW code
    PROVE  Agrees(call, GrpcStatus(code))
<1>1. GrpcStatus(code).type = "status"
  BY DEF GrpcStatus
<1>2. read_response(call.rpc, call.id, GrpcStatus(code)) = Err("signaling failed")
  BY <1>1 DEF read_response
<1>3. ~Err("signaling failed").ok /\ Err("signaling failed").ok \in BOOLEAN
      /\ Err("signaling failed").reason = "signaling failed"
  BY DEF Err
<1>4. "signaling failed" \in Results \ {"SUCCESS"} /\ "signaling failed" \notin Refusals
  BY DEF Results, Refusals, CodedReasons
<1> QED BY <1>1, <1>2, <1>3, <1>4 DEF Agrees

LEMMA ErrorAgrees ==
    ASSUME NEW call, call.rpc \in Rpcs, admitted' = admitted,
           NEW reason \in {"FULL", "DUPLICATE_CLIENT", "NO_SFU_AVAILABLE", "CLIENT_NOT_FOUND"}
    PROVE  Agrees(call, Serve(call, [type |-> "Error", reason |-> reason]))
<1> DEFINE e == domain_error(reason)
           s == Response(call, e)
<1>1. e.type = "error" /\ e.reason = reason /\ s.type = "response" /\ s.request_id = call.id /\ s.result = e
  BY DEF domain_error, Response
<1>2. Serve(call, [type |-> "Error", reason |-> reason]) = s
  BY DEF Serve, operation_response, ExpectedResult
<1> HIDE DEF s, e
<1>3. reason_of(e) = reason
  BY <1>1 DEF reason_of
<1>4. read_response(call.rpc, call.id, s) = Err(reason)
  BY <1>1, <1>3 DEF read_response, admit_v2, operation_result
<1>5. ~Err(reason).ok /\ Err(reason).ok \in BOOLEAN /\ Err(reason).reason = reason
  BY DEF Err
<1>6. reason \in Results \ {"SUCCESS"}
  BY DEF Results
<1> QED BY <1>1, <1>2, <1>4, <1>5, <1>6 DEF Agrees

\* Removed, injected, an occupancy and a status are read as they are.
LEMMA ReadAgrees ==
    ASSUME NEW call, NEW result,
           \/ call.rpc = "remove_v1" /\ result.type = "Removed"
           \/ call.rpc = "remove_v2" /\ result.type = "RemovedV2"
           \/ call.rpc = "inject_v1" /\ result.type = "Injected"
           \/ call.rpc = "occupancy_v1" /\ result.type = "Occupancy"
           \/ call.rpc = "get_status" /\ result.type = "Status"
    PROVE  Agrees(call, Serve(call, result))
<1>1. PICK body : Serve(call, result) = Response(call, body) /\ body.type # "error"
  <2>1. CASE call.rpc \in {"remove_v1", "remove_v2", "inject_v1"}
    <3>1. Serve(call, result) = Response(call, [type |-> "ok"]) /\ [type |-> "ok"].type # "error"
      BY <2>1 DEF Serve, operation_response, ExpectedResult
    <3> QED BY <3>1
  <2>2. CASE call.rpc \in {"occupancy_v1", "get_status"}
    <3>1. Serve(call, result) = Response(call, result) /\ result.type # "error"
      BY <2>2 DEF Serve, ExpectedResult
    <3> QED BY <3>1
  <2> QED BY <2>1, <2>2
<1>2. /\ Response(call, body).type = "response" /\ Response(call, body).request_id = call.id
      /\ Response(call, body).result = body
  BY DEF Response
<1>3. read_response(call.rpc, call.id, Response(call, body)) = Ok(body)
  BY <1>1, <1>2 DEF read_response, operation_result
<1>4. Ok(body).ok = TRUE
  BY DEF Ok
<1> QED BY <1>1, <1>2, <1>3, <1>4 DEF Agrees

LEMMA AdmissionAgrees ==
    ASSUME NEW call, NEW result, [member |-> call.member, by |-> call.by] \in admitted',
           \/ call.rpc = "admit_v1" /\ result = [type |-> "Admitted"]
           \/ call.rpc = "admit_v2" /\ result \in AdmissionsV2
    PROVE  Agrees(call, Serve(call, result))
<1>1. /\ Response(call, result).type = "response" /\ Response(call, result).request_id = call.id
      /\ Response(call, result).result = result
  BY DEF Response
<1>2. CASE call.rpc = "admit_v1" /\ result = [type |-> "Admitted"]
  <2>1. Serve(call, result) = Response(call, result) /\ result.type # "error"
    BY <1>2 DEF Serve, ExpectedResult
  <2>2. read_response(call.rpc, call.id, Response(call, result)) = Ok(result)
    BY <1>1, <1>2, <2>1 DEF read_response, operation_result
  <2>3. Ok(result).ok = TRUE
    BY DEF Ok
  <2> QED BY <1>1, <2>1, <2>2, <2>3 DEF Agrees
<1>3. CASE call.rpc = "admit_v2" /\ result \in AdmissionsV2
  <2>0. PICK a : result = [type |-> "AdmittedV2", mode |-> a[1], is_initiator |-> a[2],
                           admission_token |-> a[3]]
    BY <1>3, Zenon DEF AdmissionsV2
  <2>1. result.type = "AdmittedV2"
    BY <2>0
  <2>2. Serve(call, result) = Response(call, result)
    BY <1>3, <2>1 DEF Serve, ExpectedResult
  <2>3. read_response(call.rpc, call.id, Response(call, result)) = admit_v2(result)
    BY <1>1, <1>3 DEF read_response
  <2>4. admit_v2(result) = Err("ROOM_TRANSITION") \/ admit_v2(result) = Err("incomplete admission")
        \/ admit_v2(result) = Ok(result)
    BY <2>1 DEF admit_v2
  <2>5. Ok(result).ok = TRUE /\ \A s : Err(s).ok = FALSE /\ Err(s).reason = s
    BY DEF Ok, Err
  <2>6. {"ROOM_TRANSITION", "incomplete admission"} \subseteq Results \ {"SUCCESS"}
    BY DEF Results
  <2>7. "ROOM_TRANSITION" \notin Refusals /\ "incomplete admission" \notin Refusals
    BY DEF Refusals, CodedReasons
  <2>8. CASE admit_v2(result) = Ok(result)
    BY <1>1, <2>2, <2>3, <2>5, <2>8 DEF Agrees
  <2>9. ASSUME NEW s \in {"ROOM_TRANSITION", "incomplete admission"}, admit_v2(result) = Err(s)
        PROVE  Agrees(call, Serve(call, result))
    <3>1. s \in Results \ {"SUCCESS"} /\ s \notin Refusals
      BY <2>6, <2>7, <2>9
    <3> QED BY <1>1, <2>2, <2>3, <2>5, <2>9, <3>1 DEF Agrees
  <2> QED BY <2>4, <2>8, <2>9
<1> QED BY <1>2, <1>3

\* Handling a call: the room changes for that call only, and the answer agrees
\* with the change.
LEMMA HandleEffect ==
    ASSUME Types, NEW call \in calls, Handle(call)
    PROVE  /\ calls' = calls \ {call} /\ UNCHANGED <<handler, nextId, httpErrors>>
           /\ members' \subseteq Members
           /\ \/ admitted' = admitted
              \/ call.member \in Members /\ admitted' = admitted \cup {[member |-> call.member, by |-> call.by]}
           /\ \E response : Answer(call, response) /\ Agrees(call, response)
<1>0. /\ calls \subseteq CallTypes /\ call \in CallTypes /\ members \subseteq Members
      /\ call.rpc \in Rpcs
  BY DEF Types, CallTypes
<1>1. calls' = calls \ {call} /\ UNCHANGED <<handler, nextId, httpErrors>>
  BY DEF Handle
<1>2. CASE Answer(call, GrpcStatus("invalid_argument")) /\ UNCHANGED <<members, admitted>>
  BY <1>0, <1>1, <1>2, StatusAgrees
<1>3. CASE call.rpc \in {"admit_v1", "admit_v2"} /\ Admit(call)
  <2>1. CASE /\ Answer(call, Serve(call, [type |-> "Error", reason |-> "DUPLICATE_CLIENT"]))
             /\ UNCHANGED <<members, admitted>>
    BY <1>0, <1>1, <2>1, ErrorAgrees
  <2>2. CASE /\ members' = members \cup {call.member}
             /\ admitted' = admitted \cup {[member |-> call.member, by |-> call.by]}
             /\ \E result \in IF call.rpc = "admit_v2" THEN AdmissionsV2 ELSE {[type |-> "Admitted"]} :
                   Answer(call, Serve(call, result))
    <3>1. PICK result : /\ result \in IF call.rpc = "admit_v2" THEN AdmissionsV2 ELSE {[type |-> "Admitted"]}
                        /\ Answer(call, Serve(call, result))
      BY <2>2
    <3>2. Agrees(call, Serve(call, result))
      <4>1. [member |-> call.member, by |-> call.by] \in admitted'
        BY <2>2
      <4>2. \/ call.rpc = "admit_v1" /\ result = [type |-> "Admitted"]
            \/ call.rpc = "admit_v2" /\ result \in AdmissionsV2
        BY <1>3, <3>1
      <4> QED BY <4>1, <4>2, AdmissionAgrees
    <3>3. call.member \in Members
      BY <1>3 DEF Types
    <3> QED BY <1>0, <1>1, <2>2, <3>1, <3>2, <3>3
  <2> QED BY <1>3, <2>1, <2>2 DEF Admit
<1>4. CASE call.rpc \in {"remove_v1", "remove_v2"} /\ Remove(call)
  <2> DEFINE result == [type |-> IF call.rpc = "remove_v2" THEN "RemovedV2" ELSE "Removed"]
  <2>1. /\ members' = members \ {call.member} /\ admitted' = admitted
        /\ Answer(call, Serve(call, result))
    BY <1>4 DEF Remove
  <2>2. \/ call.rpc = "remove_v1" /\ result.type = "Removed"
        \/ call.rpc = "remove_v2" /\ result.type = "RemovedV2"
    BY <1>4
  <2> HIDE DEF result
  <2>3. Agrees(call, Serve(call, result))
    BY <2>2, ReadAgrees
  <2> QED BY <1>0, <1>1, <2>1, <2>3
<1>5. CASE call.rpc \in {"inject_v1", "occupancy_v1", "get_status"} /\ Read(call)
  <2>1. UNCHANGED <<members, admitted>>
    BY <1>5 DEF Read
  <2>2. PICK result : /\ Answer(call, Serve(call, result))
                      /\ \/ call.rpc = "inject_v1" /\ result.type = "Injected"
                         \/ call.rpc = "occupancy_v1" /\ result.type = "Occupancy"
                         \/ call.rpc = "get_status" /\ result.type = "Status"
    <3>1. CASE call.rpc = "inject_v1"
      <4>1. Answer(call, Serve(call, [type |-> "Injected"])) /\ [type |-> "Injected"].type = "Injected"
        BY <1>5, <3>1 DEF Read
      <4> QED BY <3>1, <4>1
    <3>2. CASE call.rpc = "occupancy_v1"
      <4> DEFINE o == [type |-> "Occupancy", count |-> Cardinality({m \in members : m[1] = 1})]
      <4>1. Answer(call, Serve(call, o)) /\ o.type = "Occupancy"
        BY <1>5, <3>2 DEF Read
      <4> HIDE DEF o
      <4> QED BY <3>2, <4>1
    <3>3. CASE call.rpc = "get_status"
      <4>1. Answer(call, Serve(call, [type |-> "Status"])) /\ [type |-> "Status"].type = "Status"
        BY <1>5, <3>3 DEF Read
      <4> QED BY <3>3, <4>1
    <3> QED BY <1>5, <3>1, <3>2, <3>3
  <2>3. Agrees(call, Serve(call, result))
    BY <2>2, ReadAgrees
  <2> QED BY <1>0, <1>1, <2>1, <2>2, <2>3
<1>6. CASE Refuse(call)
  <2>1. UNCHANGED <<members, admitted>>
    BY <1>6 DEF Refuse
  <2>2. CASE Answer(call, GrpcStatus("unavailable"))
    BY <1>0, <1>1, <2>1, <2>2, StatusAgrees
  <2>3. CASE ~Answer(call, GrpcStatus("unavailable"))
    <3>1. PICK reason \in {"FULL", "NO_SFU_AVAILABLE", "CLIENT_NOT_FOUND"} :
             Answer(call, Serve(call, [type |-> "Error", reason |-> reason]))
      BY <1>6, <2>3 DEF Refuse
    <3> QED BY <1>0, <1>1, <2>1, <3>1, ErrorAgrees
  <2> QED BY <2>2, <2>3
<1> QED BY <1>2, <1>3, <1>4, <1>5, <1>6 DEF Handle

LEMMA HandleKeepsInv ==
    ASSUME Inv, NEW call \in calls, Handle(call)
    PROVE  Inv'
<1>0. /\ Types /\ OneCall /\ \A q \in Requests : Stage(q)
      /\ handler \in [Requests -> HandlerTypes] /\ call \in CallTypes /\ calls \subseteq CallTypes
  BY DEF Inv, Types
<1>1. call.by \in Requests
  BY <1>0 DEF CallTypes
<1>2. /\ calls' = calls \ {call} /\ UNCHANGED <<handler, nextId, httpErrors>>
      /\ members' \subseteq Members
      /\ \/ admitted' = admitted
         \/ call.member \in Members /\ admitted' = admitted \cup {[member |-> call.member, by |-> call.by]}
  BY <1>0, HandleEffect
<1>3. PICK response : Answer(call, response) /\ Agrees(call, response)
  BY <1>0, HandleEffect
<1>4. response.type \in {"status", "response"} /\ response # NoAnswer
  BY <1>3 DEF Agrees, NoAnswer, None
<1>5. admitted \subseteq admitted' /\ \A a \in admitted' : a \in admitted \/ a.by = call.by
  BY <1>2
<1>6. Types'
  <2>1. answer' = [q \in Requests |-> answer'[q]] /\ \A q \in Requests : answer'[q].type \in {None, "status", "response"}
    <3>1. answer' = [answer EXCEPT ![call.by] = response] \/ answer' = answer
      BY <1>3 DEF Answer
    <3> QED BY <1>0, <1>1, <1>4, <3>1 DEF Types
  <2>2. Finished' = Finished
    BY <1>2 DEF Finished
  <2>3. httpErrors' \in Nat /\ httpErrors' <= Cardinality(Finished')
    BY <1>0, <1>2, <2>2 DEF Types
  <2>4. admitted' \subseteq [member : Members, by : Requests]
    BY <1>0, <1>1, <1>2 DEF Types
  <2> QED BY <1>0, <1>2, <2>1, <2>3, <2>4 DEF Types
<1>7. OneCall'
  BY <1>0, <1>2 DEF OneCall, Unadmitted
<1>8. ASSUME NEW q \in Requests, q # call.by PROVE Stage(q)'
  <2>1. handler'[q] = handler[q] /\ answer'[q] = answer[q]
    BY <1>0, <1>2, <1>3, <1>8 DEF Types, Answer
  <2>2. /\ Verdict(q)' = Verdict(q) /\ (Uncalled(q) => Uncalled(q)') /\ (Unadmitted(q) => Unadmitted(q)')
    BY <1>2, <1>5, <1>8, <2>1 DEF Verdict, Uncalled, Unadmitted
  <2>3. Truthful(q, Verdict(q)) => Truthful(q, Verdict(q))'
    BY <1>5, <2>1, <2>2 DEF Truthful
  <2>4. \A c \in calls : c.by = q => c \in calls'
    BY <1>2, <1>8
  <2>5. /\ handler[q].at = "idle" => Uncalled(q)' /\ Unadmitted(q)'
        /\ handler[q].at = "call" /\ answer[q] # NoAnswer => Uncalled(q)' /\ Truthful(q, Verdict(q))'
        /\ handler[q].result \in Refusals => Uncalled(q)' /\ Unadmitted(q)'
    BY <1>0, <2>2, <2>3 DEF Stage
  <2>6. /\ handler[q].at = "call" => handler[q].kind \in DOMAIN Rpc
        /\ handler[q].at = "call" /\ answer[q] = NoAnswer =>
              \E c \in calls' : /\ c.by = q /\ c.id = handler[q].id
                                /\ c.rpc = Rpc[handler[q].kind] /\ c.member = handler[q].member
        /\ handler[q].at = "done" /\ handler[q].member # NoMember =>
              \E a \in admitted' : a.by = q /\ a.member = handler[q].member
    BY <1>0, <1>5, <2>4 DEF Stage
  <2> QED BY <2>1, <2>5, <2>6 DEF Stage
<1>9. ASSUME NEW q \in Requests, q = call.by PROVE Stage(q)'
  <2>1. Uncalled(q)'
    BY <1>0, <1>2, <1>9 DEF OneCall, Uncalled
  <2>2. ~Uncalled(q) /\ Unadmitted(q)
    BY <1>0, <1>9 DEF Uncalled, OneCall
  <2>3. /\ handler[q].at # "idle" /\ handler[q].result \notin Refusals
        /\ handler[q].at = "done" => handler[q].member = NoMember
        /\ handler[q].at = "call" => handler[q].kind \in DOMAIN Rpc
    BY <1>0, <2>2 DEF Stage, Unadmitted
  <2>4. CASE handler[q].at = "call"
    <3>1. answer[q] = NoAnswer
      BY <1>0, <2>2, <2>4 DEF Stage
    <3>2. call.id = handler[q].id /\ call.rpc = Rpc[handler[q].kind] /\ call.member = handler[q].member
      BY <1>0, <1>9, <2>4, <3>1 DEF Stage, OneCall
    <3>3. answer'[q] = response
      BY <1>0, <1>1, <1>3, <1>9, <2>4, <3>2 DEF Answer, Types
    <3>4. Verdict(q)' = read_response(call.rpc, call.id, response)
      BY <1>2, <3>2, <3>3 DEF Verdict
    <3>5. handler[q].kind \in Joins => call.rpc \in {"admit_v1", "admit_v2"}
      BY <2>3, <2>4, <3>2 DEF Rpc, Joins
    <3>6. PICK v : v = read_response(call.rpc, call.id, response)
      OBVIOUS
    <3>7. /\ v.ok \in BOOLEAN
          /\ v.ok /\ call.rpc \in {"admit_v1", "admit_v2"} => [member |-> call.member, by |-> call.by] \in admitted'
          /\ ~v.ok => v.reason \in Results \ {"SUCCESS"} /\ (v.reason \in Refusals => admitted' = admitted)
      BY <1>3, <3>6 DEF Agrees
    <3>8. admitted' = admitted => Unadmitted(q)'
      BY <2>2 DEF Unadmitted
    <3>9. v.ok /\ handler[q].kind \in Joins => \E a \in admitted' : a.by = q /\ a.member = handler[q].member
      <4>1. [member |-> call.member, by |-> call.by].by = q /\ [member |-> call.member, by |-> call.by].member = handler[q].member
        BY <1>9, <3>2
      <4> QED BY <3>5, <3>7, <4>1
    <3>10. Truthful(q, Verdict(q))'
      BY <1>2, <3>4, <3>6, <3>7, <3>8, <3>9 DEF Truthful
    <3> QED BY <1>2, <1>4, <2>1, <2>3, <2>4, <3>3, <3>10 DEF Stage
  <2>5. CASE handler[q].at # "call"
    BY <1>2, <2>3, <2>5 DEF Stage
  <2> QED BY <2>4, <2>5
<1> QED BY <1>6, <1>7, <1>8, <1>9 DEF Inv

-----------------------------------------------------------------------------
(* The handlers.                                                            *)

LEMMA BeginKeepsInv ==
    ASSUME Inv, NEW r \in Requests, NEW kind \in Kinds, Begin(r, kind)
    PROVE  Inv'
<1>0. /\ Types /\ Stage(r) /\ handler \in [Requests -> HandlerTypes]
      /\ \A q \in Requests : handler[q].member \in Members \cup {NoMember}
  BY DEF Inv, Types, HandlerTypes
<1>1. handler[r].at = "idle" /\ Uncalled(r) /\ Unadmitted(r)
  BY <1>0 DEF Begin, Comes, Stage
<1>2. 1 \in 0..MaxAttempts
  BY EdgeAssumption
<1>3. CASE kind \in Joins /\ \E c \in ClientIds : Call(r, kind, 1, <<Version(kind), c>>, "")
  <2>1. PICK c \in ClientIds : Call(r, kind, 1, <<Version(kind), c>>, "")
    BY <1>3
  <2>2. <<Version(kind), c>> \in Members
    BY DEF Version, Members
  <2>3. kind \in DOMAIN Rpc
    BY <1>3 DEF Joins, Rpc
  <2> QED BY <1>1, <1>2, <2>1, <2>2, <2>3, CallKeepsInv
<1>4. CASE /\ kind \in Leaves \cup {"message", "bridge"}
           /\ \E q \in Requests :
                 /\ handler[q].at = "done" /\ handler[q].member[1] = Version(kind)
                 /\ \E body \in Bodies[kind] : Call(r, kind, 1, handler[q].member, body)
  <2>1. PICK q \in Requests, body \in Bodies[kind] : Call(r, kind, 1, handler[q].member, body)
    BY <1>4
  <2>2. PICK m \in Members \cup {NoMember} : m = handler[q].member
    BY <1>0
  <2>3. body \in {"text", ""} /\ kind \in DOMAIN Rpc /\ kind \notin Joins
    <3>1. kind \in {"leave1", "leave2", "message", "bridge"}
      BY <1>4 DEF Leaves
    <3>2. kind \in DOMAIN Rpc /\ kind \notin Joins
      BY <3>1 DEF Rpc, Joins
    <3>3. body \in {"text", ""}
      <4>1. CASE kind = "leave1"
        BY <2>1, <4>1 DEF Bodies
      <4>2. CASE kind = "leave2"
        BY <2>1, <4>2 DEF Bodies
      <4>3. CASE kind = "message"
        BY <2>1, <4>3 DEF Bodies
      <4>4. CASE kind = "bridge"
        BY <2>1, <4>4 DEF Bodies
      <4> QED BY <3>1, <4>1, <4>2, <4>3, <4>4
    <3> QED BY <3>2, <3>3
  <2>4. Call(r, kind, 1, m, body)
    BY <2>1, <2>2
  <2> QED BY <1>1, <1>2, <2>3, <2>4, CallKeepsInv
<1>5. CASE kind \in {"page", "status"} /\ Call(r, kind, 1, NoMember, "")
  <2>1. kind \in DOMAIN Rpc /\ kind \notin Joins
    BY <1>5 DEF Rpc, Joins
  <2> QED BY <1>1, <1>2, <1>5, <2>1, CallKeepsInv
<1> QED BY <1>3, <1>4, <1>5 DEF Begin

LEMMA ConcludeKeepsInv ==
    ASSUME Inv, NEW r \in Requests, handler[r].at = "call", NEW v, Truthful(r, v),
           ~v.ok /\ v.reason \in Refusals => Uncalled(r),
           Conclude(r, v)
    PROVE  Inv'
<1>0. /\ Types /\ Stage(r) /\ handler \in [Requests -> HandlerTypes] /\ handler[r] \in HandlerTypes
  BY DEF Inv, Types
<1>1. PICK h \in HandlerTypes : h = handler[r]
  BY <1>0
<1>2. h.member \in Members \cup {NoMember} /\ h.attempt \in 0..MaxAttempts
  BY DEF HandlerTypes
<1>3. CASE Retries(h, v)
  <2>1. PICK c \in ClientIds : Call(r, h.kind, h.attempt + 1, <<2, c>>, "")
    BY <1>1, <1>3 DEF Conclude
  <2>2. ~v.ok /\ v.reason = "DUPLICATE_CLIENT" /\ h.kind = "join2" /\ h.attempt < MaxAttempts
    BY <1>3 DEF Retries
  <2>3. Uncalled(r) /\ Unadmitted(r)
    BY <2>2 DEF Truthful, Refusals, CodedReasons
  <2>4. h.attempt + 1 \in 0..MaxAttempts
    BY <1>2, <2>2, EdgeAssumption
  <2>5. <<2, c>> \in Members
    BY DEF Members
  <2>6. h.kind \in DOMAIN Rpc
    BY <2>2 DEF Rpc
  <2> QED BY <2>1, <2>3, <2>4, <2>5, <2>6, CallKeepsInv
<1>4. CASE ~Retries(h, v)
  <2>1. PICK o : o = Outcome(h.kind, v)
    OBVIOUS
  <2>2. PICK e : e = (h.kind \in HttpErrorKinds /\ ~v.ok)
    OBVIOUS
  <2>3. e \in BOOLEAN
    BY <2>2
  <2>4. Respond(r, h, o, e)
    BY <1>1, <1>4, <2>1, <2>2 DEF Conclude
  <2>5. v.ok \in BOOLEAN
    BY DEF Truthful
  <2>6. o \in Results /\ (o = "SUCCESS" => v.ok) /\ (o \in Refusals => ~v.ok /\ o = v.reason)
    <3>1. CASE v.ok
      BY <2>1, <3>1 DEF Outcome, Results, Refusals, CodedReasons
    <3>2. CASE ~v.ok
      BY <2>1, <3>2 DEF Outcome, Truthful
    <3> QED BY <2>5, <3>1, <3>2
  <2>7. h.kind \in Joins /\ o = "SUCCESS" => \E a \in admitted : a.by = r /\ a.member = h.member
    BY <1>1, <2>6 DEF Truthful
  <2>8. o \in Refusals => Uncalled(r) /\ Unadmitted(r)
    BY <2>6 DEF Truthful
  <2> QED BY <1>2, <2>3, <2>4, <2>6, <2>7, <2>8, RespondKeepsInv
<1> QED BY <1>3, <1>4

LEMMA RejectKeepsInv ==
    ASSUME Inv, NEW r \in Requests, NEW kind \in Kinds, Reject(r, kind) \/ ServeStatic(r)
    PROVE  Inv'
<1>1. handler[r].at = "idle"
  BY DEF Reject, ServeStatic, Comes
<1>2. ASSUME NEW k, NEW result, NEW e \in BOOLEAN,
             result = "rejected" \/ (result = "SUCCESS" /\ k = "static"),
             Respond(r, [Idle EXCEPT !.kind = k], result, e)
      PROVE  Inv'
  <2>1. PICK h : h = [Idle EXCEPT !.kind = k]
    OBVIOUS
  <2>2. h.member = NoMember /\ h.kind = k
    BY <2>1 DEF Idle
  <2>3. result \in Results /\ result \notin Refusals /\ "static" \notin Joins
    BY <1>2 DEF Results, Refusals, CodedReasons, Joins
  <2>4. Respond(r, h, result, e)
    BY <1>2, <2>1
  <2> QED BY <1>1, <1>2, <2>2, <2>3, <2>4, RespondKeepsInv
<1>3. TRUE \in BOOLEAN /\ FALSE \in BOOLEAN
  OBVIOUS
<1>4. CASE Reject(r, kind)
  <2>1. \/ Respond(r, [Idle EXCEPT !.kind = kind], "rejected", TRUE)
        \/ Respond(r, [Idle EXCEPT !.kind = kind], "rejected", FALSE)
    BY <1>4 DEF Reject
  <2> QED BY <1>2, <1>3, <2>1
<1>5. CASE ServeStatic(r)
  BY <1>2, <1>3, <1>5 DEF ServeStatic
<1> QED BY <1>4, <1>5

LEMMA HandlerKeepsInv ==
    ASSUME Inv, NEW r \in Requests, Receive(r) \/ RenderFails(r) \/ TimeOut(r)
    PROVE  Inv'
<1>0. Stage(r) /\ handler[r].at = "call" /\ handler[r] \in HandlerTypes
  BY DEF Inv, Types, Receive, RenderFails, TimeOut
<1>1. CASE Receive(r)
  <2>1. PICK v : v = Verdict(r)
    OBVIOUS
  <2>2. Uncalled(r) /\ Truthful(r, v)
    BY <1>0, <1>1, <2>1 DEF Stage, Receive
  <2>3. Conclude(r, v)
    BY <1>1, <2>1 DEF Receive, Verdict
  <2> QED BY <1>0, <2>2, <2>3, ConcludeKeepsInv
<1>2. CASE RenderFails(r)
  <2>1. PICK h \in HandlerTypes : h = handler[r]
    BY <1>0
  <2>2. Respond(r, h, "rejected", TRUE)
    BY <1>2, <2>1 DEF RenderFails
  <2>3. "rejected" \in Results /\ "rejected" \notin Refusals /\ "rejected" # "SUCCESS" /\ TRUE \in BOOLEAN
    BY DEF Results, Refusals, CodedReasons
  <2>4. h.member \in Members \cup {NoMember}
    BY DEF HandlerTypes
  <2> QED BY <1>0, <2>2, <2>3, <2>4, RespondKeepsInv
<1>3. CASE TimeOut(r)
  <2>1. PICK v : v = Err("signaling failed")
    OBVIOUS
  <2>2. v.ok = FALSE /\ v.reason = "signaling failed"
    BY <2>1 DEF Err
  <2>3. "signaling failed" \in Results \ {"SUCCESS"} /\ "signaling failed" \notin Refusals
    BY DEF Results, Refusals, CodedReasons
  <2>4. Truthful(r, v)
    BY <2>2, <2>3 DEF Truthful
  <2>5. Conclude(r, v)
    BY <1>3, <2>1 DEF TimeOut
  <2> QED BY <1>0, <2>2, <2>3, <2>4, <2>5, ConcludeKeepsInv
<1> QED BY <1>1, <1>2, <1>3

LEMMA InvInit ==
    ASSUME Init
    PROVE  Inv
<1>1. Idle \in HandlerTypes /\ Idle.at = "idle" /\ Idle.result = None
  <2>1. 0 \in 0..MaxAttempts /\ 0 \in 0..(Modulus - 1)
    BY EdgeAssumption
  <2> QED BY <2>1 DEF HandlerTypes, Idle
<1>2. NoAnswer.type = None
  BY DEF NoAnswer
<1>3. Types
  <2>1. Finished \subseteq Requests
    BY DEF Finished
  <2>2. Cardinality(Finished) \in Nat
    BY <2>1, FiniteRequests
  <2>3. httpErrors \in Nat /\ httpErrors <= Cardinality(Finished)
    BY <2>2 DEF Init
  <2>4. nextId \in 0..(Modulus - 1)
    BY EdgeAssumption DEF Init
  <2>5. /\ answer = [r \in Requests |-> answer[r]] /\ \A r \in Requests : answer[r].type = None
    BY <1>2 DEF Init
  <2> QED BY <1>1, <2>3, <2>4, <2>5 DEF Init, Types
<1>4. OneCall
  BY DEF Init, OneCall
<1>5. ASSUME NEW r \in Requests PROVE Stage(r)
  <2>1. handler[r] = Idle /\ calls = {} /\ admitted = {} /\ None \notin Refusals
    BY DEF Init, None, Refusals, CodedReasons
  <2> QED BY <1>1, <2>1 DEF Stage, Uncalled, Unadmitted
<1> QED BY <1>3, <1>4, <1>5 DEF Inv

LEMMA InvNext ==
    ASSUME Inv, [Next]_vars
    PROVE  Inv'
<1>1. CASE UNCHANGED vars
  <2>1. Types'
    BY <1>1 DEF Inv, vars, Types, Finished
  <2>2. OneCall'
    BY <1>1 DEF Inv, vars, OneCall, Unadmitted
  <2>3. ASSUME NEW r \in Requests PROVE Stage(r)'
    <3>1. /\ Verdict(r)' = Verdict(r) /\ (Uncalled(r)' <=> Uncalled(r)) /\ (Unadmitted(r)' <=> Unadmitted(r))
      BY <1>1 DEF vars, Verdict, Uncalled, Unadmitted
    <3>2. Truthful(r, Verdict(r)) => Truthful(r, Verdict(r))'
      BY <1>1, <3>1 DEF vars, Truthful
    <3> QED BY <1>1, <3>1, <3>2 DEF Inv, vars, Stage
  <2> QED BY <2>1, <2>2, <2>3 DEF Inv
<1>2. ASSUME NEW r \in Requests, NEW kind \in Kinds, Begin(r, kind) \/ Reject(r, kind)
      PROVE  Inv'
  BY <1>2, BeginKeepsInv, RejectKeepsInv
<1>3. ASSUME NEW r \in Requests, ServeStatic(r)
      PROVE  Inv'
  <2>1. "static" \in Kinds
    BY DEF Kinds
  <2> QED BY <1>3, <2>1, RejectKeepsInv
<1>4. ASSUME NEW r \in Requests, Receive(r) \/ RenderFails(r) \/ TimeOut(r) \/ Drop(r)
      PROVE  Inv'
  BY <1>4, HandlerKeepsInv, DropKeepsInv
<1>5. ASSUME NEW call \in calls, Handle(call)
      PROVE  Inv'
  BY <1>5, HandleKeepsInv
<1> QED BY <1>1, <1>2, <1>3, <1>4, <1>5 DEF Next

\* Inv is an inductive invariant of the edge.
THEOREM Invariance == Spec => []Inv
<1>1. Init => Inv
  BY InvInit
<1>2. Inv /\ [Next]_vars => Inv'
  BY InvNext
<1> QED BY <1>1, <1>2, PTL DEF Spec

\* Request numbers keep their width and no call carries 0 (GrpcAuthority's
\* context() skips it when the counter wraps), and a request counts as at most
\* one HTTP error.
THEOREM TypeCorrect == Spec => []TypeOK
<1>1. Inv => TypeOK
  <2> SUFFICES ASSUME Inv PROVE TypeOK
    OBVIOUS
  <2>1. httpErrors \in 0..Cardinality(Requests)
    <3>1. Finished \subseteq Requests
      BY DEF Finished
    <3>2. Cardinality(Finished) \in Nat /\ Cardinality(Finished) <= Cardinality(Requests)
          /\ Cardinality(Requests) \in Nat
      BY <3>1, FiniteRequests
    <3>3. httpErrors \in Nat /\ httpErrors <= Cardinality(Finished)
      BY DEF Inv, Types
    <3> QED BY <3>2, <3>3
  <2> QED BY <2>1 DEF Inv, Types, TypeOK, HandlerTypes, CallTypes
<1> QED BY <1>1, Invariance, PTL

\* A join admits at most one member however often v2_join tries, what the
\* browser is told of its client id is true, and a coded refusal left nothing
\* in the room.
THEOREM JoinAccountedHolds == Spec => []JoinAccounted
<1>1. Inv => JoinAccounted
  <2> SUFFICES ASSUME Inv, NEW r \in Requests
               PROVE  LET mine == {a \in admitted : a.by = r} IN
                      /\ Cardinality(mine) <= 1
                      /\ handler[r].at = "done" /\ handler[r].member # NoMember =>
                            \E a \in mine : a.member = handler[r].member
                      /\ handler[r].result \in CodedReasons \ {"ROOM_TRANSITION"} => mine = {}
    BY DEF JoinAccounted
  <2> DEFINE mine == {a \in admitted : a.by = r}
  <2>1. Stage(r) /\ OneCall
    BY DEF Inv
  <2>2. Cardinality(mine) <= 1
    <3>1. CASE mine = {}
      <4>1. Cardinality(mine) = 0
        BY <3>1, FS_EmptySet
      <4> QED BY <4>1
    <3>2. CASE mine # {}
      <4>1. PICK a : a \in mine
        BY <3>2
      <4>2. mine = {a}
        BY <2>1, <4>1 DEF OneCall
      <4> HIDE DEF mine
      <4>3. Cardinality(mine) = 1
        BY <4>2, FS_Singleton
      <4> QED BY <4>3
    <3> QED BY <3>1, <3>2
  <2>3. handler[r].at = "done" /\ handler[r].member # NoMember => \E a \in mine : a.member = handler[r].member
    BY <2>1 DEF Stage
  <2>4. handler[r].result \in Refusals => mine = {}
    BY <2>1 DEF Stage, Unadmitted
  <2> QED BY <2>2, <2>3, <2>4 DEF Refusals
<1> QED BY <1>1, Invariance, PTL
=============================================================================
