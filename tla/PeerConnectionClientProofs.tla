--------------------- MODULE PeerConnectionClientProofs ---------------------
(***************************************************************************)
(* Proofs about PeerConnectionClient for any number of subscribe offers,   *)
(* candidates, rejected candidates and engine timeouts.                    *)
(***************************************************************************)
EXTENDS PeerConnectionClient, SequenceTheorems, TLAPS

-----------------------------------------------------------------------------
(* The inductive invariant.  The client part of it is about a client state  *)
(* s, so that it can be followed through the methods.                       *)

AllMessages == {Offer(r) : r \in 1..MaxSfuOffers} \cup {Candidate} \cup {Answer(o) : o \in Nat}
RequestIds == 0..MaxSfuOffers
BrowserMessages == {Offer(o) : o \in Nat} \cup {Reply(r, q) : r \in Nat, q \in Nat}

ClTypes == [started : BOOLEAN, hasRemoteSdp : BOOLEAN, isDrainingMessages : BOOLEAN,
            makingOffer : BOOLEAN, offerRevision : Nat,
            renegotiationPending : BOOLEAN,
            pendingRemoteRequestId : RequestIds,
            isSettingRemoteAnswerPending : BOOLEAN, closed : BOOLEAN]
PcTypes == [signalingState : {"stable", "have-local-offer", "have-remote-offer"},
            localOffer : Nat, remoteOffer : RequestIds, offers : Nat,
            published : BOOLEAN, notified : BOOLEAN]
ClientTypes == [cl : ClTypes, queue : Seq(AllMessages), batch : Seq(AllMessages),
                offering : [step : OfferSteps, rev : Nat], draining : DrainSteps,
                pc : PcTypes, ops : Seq({"offer", "drain"}), out : Seq(BrowserMessages)]
SfuTypes == [offer : RequestIds, requests : RequestIds,
             candidates : 0..MaxCandidates, timeouts : 0..MaxTimeouts, rejects : 0..MaxRejects]

\* The operations chain holds at most one operation of each promise chain.
OpsHold(q, offer, drain) ==
    /\ \A i, j \in 1..Len(q) : q[i] = q[j] => i = j
    /\ (\E i \in 1..Len(q) : q[i] = "offer") <=> offer
    /\ (\E i \in 1..Len(q) : q[i] = "drain") <=> drain

\* The offering chain; drain says whether the draining chain has an operation.
OfferingFits(s, drain) ==
    /\ s.cl.makingOffer <=> s.offering.step # "idle"
    /\ OpsHold(s.ops, s.cl.makingOffer, drain)
    /\ s.cl.makingOffer => s.cl.started /\ s.pc.signalingState # "have-local-offer"

\* The draining chain: where it is with the message in progress.
DrainingFits(s) ==
    /\ s.cl.isDrainingMessages <=> s.draining # "idle"
    /\ s.batch # <<>> <=> s.draining # "idle"
    /\ s.pc.signalingState = "have-remote-offer" <=> s.draining \in {"answer", "local"}
    /\ s.draining # "idle" =>
          /\ s.cl.started
          /\ s.draining = "candidate" <=> Head(s.batch).type = "candidate"
          /\ s.draining \in {"rollback", "answer", "local"} => Head(s.batch).type = "offer"
          /\ Head(s.batch).type = "offer" => s.cl.pendingRemoteRequestId = Head(s.batch).id
          /\ s.draining \in {"answer", "local"} => s.pc.remoteOffer = Head(s.batch).id
    /\ ~s.cl.started => s.pc.signalingState = "stable"

ClientFits(s) == s \in ClientTypes /\ OfferingFits(s, s.cl.isDrainingMessages) /\ DrainingFits(s)

\* Everything on its way from the engine to the connection, in order.
Pipe == (batch \o queue) \o toBrowser

(* The two directions of the negotiation: what is on its way to the         *)
(* connection (P) and to the engine (T), the connection (p), the engine (f).*)

\* Publish offers are numbered, and each is sent once.
Numbered(P, T, p, f) ==
    /\ P \in Seq(AllMessages) /\ T \in Seq(BrowserMessages) /\ f \in SfuTypes
    /\ p.offers \in Nat /\ p.localOffer \in Nat /\ p.localOffer <= p.offers
    /\ \A i \in 1..Len(P) : P[i].type = "answer" => 1 <= P[i].id /\ P[i].id <= p.offers
    /\ \A k \in 1..Len(T) : T[k].type = "offer" => 1 <= T[k].id /\ T[k].id <= p.offers
    /\ \A k, l \in 1..Len(T) : T[k].type = "offer" /\ T[l].type = "offer" /\ T[k].id = T[l].id => k = l
    /\ \A k \in 1..Len(T) : T[k].type = "answer" => T[k].requestid = T[k].id

\* The publish offer that waits for its answer.
Live(p, o) == p.signalingState = "have-local-offer" /\ p.localOffer = o

\* A subscribe offer on its way is the engine's outstanding one, and so is the
\* one an answer on its way names.
Outstanding(P, T, f) ==
    /\ \A i \in 1..Len(P) : P[i].type = "offer" => P[i].id = f.offer
    /\ \A i \in 1..Len(P) : \A k \in 1..Len(T) : P[i].type = "offer" => T[k].type = "offer"
    /\ \A i, j \in 1..Len(P) : P[i].type = "offer" /\ P[j].type = "offer" => i = j
    /\ \A k \in 1..Len(T) : T[k].type = "answer" => T[k].id = f.offer /\ f.offer # None
    /\ \A k, l \in 1..Len(T) : T[k].type = "answer" /\ T[l].type = "answer" => k = l

\* A publish answer on its way belongs to the live offer, and no description is
\* before it.  A publish offer on its way that is not live any more reaches the
\* engine before the answer to the subscribe offer it lost to, and is ignored.
Publishing(P, T, p, f) ==
    /\ \A i \in 1..Len(P) : P[i].type = "answer" => Live(p, P[i].id)
    /\ \A i, j \in 1..Len(P) : P[i].type = "answer" /\ j < i => P[j].type = "candidate"
    /\ \A i \in 1..Len(P) : \A k \in 1..Len(T) :
          P[i].type = "answer" /\ T[k].type = "offer" => T[k].id # P[i].id
    /\ \A k \in 1..Len(T) : T[k].type = "offer" /\ ~Live(p, T[k].id) => f.offer # None
    /\ \A k, l \in 1..Len(T) : T[k].type = "offer" /\ ~Live(p, T[k].id) /\ l < k => T[l].type = "offer"

Negotiation(P, T, p, f) ==
    /\ Numbered(P, T, p, f)
    /\ f.timeouts = 0 => Outstanding(P, T, f) /\ Publishing(P, T, p, f)

Inv == ClientFits(Client) /\ toBrowser \in Seq(AllMessages) /\ Negotiation(Pipe, toSfu, pc, sfu)

-----------------------------------------------------------------------------
(* The operations chain.                                                    *)

LEMMA OpsAppend ==
    ASSUME NEW q \in Seq({"offer", "drain"}), NEW a \in BOOLEAN, NEW b \in BOOLEAN, OpsHold(q, a, b)
    PROVE  /\ ~a => Append(q, "offer") \in Seq({"offer", "drain"}) /\ OpsHold(Append(q, "offer"), TRUE, b)
           /\ ~b => Append(q, "drain") \in Seq({"offer", "drain"}) /\ OpsHold(Append(q, "drain"), a, TRUE)
<1>1. ASSUME NEW x \in {"offer", "drain"}, \A i \in 1..Len(q) : q[i] # x
      PROVE  /\ Append(q, x) \in Seq({"offer", "drain"})
             /\ \A i, j \in 1..Len(Append(q, x)) : Append(q, x)[i] = Append(q, x)[j] => i = j
             /\ \A y : (\E i \in 1..Len(Append(q, x)) : Append(q, x)[i] = y)
                          <=> y = x \/ \E i \in 1..Len(q) : q[i] = y
  <2>1. /\ Append(q, x) \in Seq({"offer", "drain"})
        /\ Len(Append(q, x)) = Len(q) + 1 /\ Len(q) \in Nat
        /\ \A i \in 1..Len(q) : Append(q, x)[i] = q[i]
        /\ Append(q, x)[Len(q) + 1] = x
    OBVIOUS
  <2>2. /\ \A i \in 1..(Len(q) + 1) : i \in 1..Len(q) \/ i = Len(q) + 1
        /\ \A i \in 1..Len(q) : i \in 1..(Len(q) + 1)
        /\ Len(q) + 1 \in 1..(Len(q) + 1)
    BY <2>1
  <2>3. \A i, j \in 1..Len(Append(q, x)) : Append(q, x)[i] = Append(q, x)[j] => i = j
    BY <1>1, <2>1, <2>2 DEF OpsHold
  <2>4. \A y : (\E i \in 1..Len(Append(q, x)) : Append(q, x)[i] = y)
                  <=> y = x \/ \E i \in 1..Len(q) : q[i] = y
    BY <2>1, <2>2
  <2> QED BY <2>1, <2>3, <2>4
<1>2. CASE ~a
  <2>1. \A i \in 1..Len(q) : q[i] # "offer"
    BY <1>2 DEF OpsHold
  <2>2. /\ Append(q, "offer") \in Seq({"offer", "drain"})
        /\ \A i, j \in 1..Len(Append(q, "offer")) : Append(q, "offer")[i] = Append(q, "offer")[j] => i = j
        /\ \A y : (\E i \in 1..Len(Append(q, "offer")) : Append(q, "offer")[i] = y)
                     <=> y = "offer" \/ \E i \in 1..Len(q) : q[i] = y
    BY <1>1, <2>1
  <2> QED BY <1>2, <2>2 DEF OpsHold
<1>3. CASE ~b
  <2>1. \A i \in 1..Len(q) : q[i] # "drain"
    BY <1>3 DEF OpsHold
  <2>2. /\ Append(q, "drain") \in Seq({"offer", "drain"})
        /\ \A i, j \in 1..Len(Append(q, "drain")) : Append(q, "drain")[i] = Append(q, "drain")[j] => i = j
        /\ \A y : (\E i \in 1..Len(Append(q, "drain")) : Append(q, "drain")[i] = y)
                     <=> y = "drain" \/ \E i \in 1..Len(q) : q[i] = y
    BY <1>1, <2>1
  <2> QED BY <1>3, <2>2 DEF OpsHold
<1> QED BY <1>2, <1>3

LEMMA OpsTail ==
    ASSUME NEW q \in Seq({"offer", "drain"}), NEW a \in BOOLEAN, NEW b \in BOOLEAN, OpsHold(q, a, b), q # <<>>
    PROVE  /\ Tail(q) \in Seq({"offer", "drain"})
           /\ Head(q) = "offer" => a /\ OpsHold(Tail(q), FALSE, b)
           /\ Head(q) = "drain" => b /\ OpsHold(Tail(q), a, FALSE)
<1>1. /\ Tail(q) \in Seq({"offer", "drain"}) /\ Len(q) \in Nat /\ Len(q) # 0
      /\ Len(Tail(q)) = Len(q) - 1
      /\ \A i \in 1..(Len(q) - 1) : Tail(q)[i] = q[i + 1]
      /\ Head(q) = q[1]
  OBVIOUS
<1>2. 1 \in 1..Len(q) /\ \A i \in 1..(Len(q) - 1) : i + 1 \in 1..Len(q) /\ i + 1 # 1
  BY <1>1
<1>3. \A i, j \in 1..Len(Tail(q)) : Tail(q)[i] = Tail(q)[j] => i = j
  <2>1. ASSUME NEW i \in 1..Len(Tail(q)), NEW j \in 1..Len(Tail(q)), Tail(q)[i] = Tail(q)[j]
        PROVE  i = j
    <3>1. i + 1 = j + 1
      BY <1>1, <1>2, <2>1 DEF OpsHold
    <3> QED BY <1>1, <3>1
  <2> QED BY <2>1
<1>4. ASSUME NEW y
      PROVE  (\E i \in 1..Len(Tail(q)) : Tail(q)[i] = y) <=> (y # Head(q) /\ \E i \in 1..Len(q) : q[i] = y)
  <2>1. ASSUME NEW i \in 1..Len(Tail(q)), Tail(q)[i] = y
        PROVE  y # Head(q) /\ \E k \in 1..Len(q) : q[k] = y
    BY <1>1, <1>2, <2>1 DEF OpsHold
  <2>2. ASSUME NEW k \in 1..Len(q), q[k] = y, y # Head(q)
        PROVE  \E i \in 1..Len(Tail(q)) : Tail(q)[i] = y
    <3>1. k # 1
      BY <1>1, <2>2
    <3>2. PICK i \in 1..(Len(q) - 1) : i + 1 = k
      BY <1>1, <3>1
    <3> QED BY <1>1, <2>2, <3>2
  <2> QED BY <2>1, <2>2
<1>5. \E i \in 1..Len(q) : q[i] = Head(q)
  BY <1>1, <1>2
<1>6. Head(q) = "offer" => a /\ OpsHold(Tail(q), FALSE, b)
  BY <1>3, <1>4, <1>5 DEF OpsHold
<1>7. Head(q) = "drain" => b /\ OpsHold(Tail(q), a, FALSE)
  BY <1>3, <1>4, <1>5 DEF OpsHold
<1> QED BY <1>1, <1>6, <1>7

-----------------------------------------------------------------------------
(* The methods of the offering chain.                                       *)

\* t differs from s in the offering chain and the collision flags only.
SameDraining(s, t) ==
    /\ t.queue = s.queue /\ t.batch = s.batch /\ t.draining = s.draining
    /\ t.pc = s.pc /\ t.out = s.out
    /\ t.cl.started = s.cl.started /\ t.cl.hasRemoteSdp = s.cl.hasRemoteSdp
    /\ t.cl.isDrainingMessages = s.cl.isDrainingMessages
    /\ t.cl.pendingRemoteRequestId = s.cl.pendingRemoteRequestId
    /\ t.cl.closed = s.cl.closed

LEMMA Fields ==
    ASSUME NEW s \in ClientTypes
    PROVE  /\ s.cl \in ClTypes /\ s.queue \in Seq(AllMessages) /\ s.batch \in Seq(AllMessages)
           /\ s.offering \in [step : OfferSteps, rev : Nat] /\ s.draining \in DrainSteps
           /\ s.pc \in PcTypes /\ s.ops \in Seq({"offer", "drain"}) /\ s.out \in Seq(BrowserMessages)
           /\ s.cl.started \in BOOLEAN /\ s.cl.hasRemoteSdp \in BOOLEAN
           /\ s.cl.isDrainingMessages \in BOOLEAN /\ s.cl.makingOffer \in BOOLEAN
           /\ s.cl.offerRevision \in Nat /\ s.cl.renegotiationPending \in BOOLEAN
           /\ s.cl.pendingRemoteRequestId \in RequestIds
           /\ s.cl.isSettingRemoteAnswerPending \in BOOLEAN /\ s.cl.closed \in BOOLEAN
BY DEF ClientTypes, ClTypes

LEMMA ClUpdates ==
    ASSUME NEW c \in ClTypes, NEW b \in BOOLEAN, NEW n \in Nat, NEW r \in RequestIds
    PROVE  /\ [c EXCEPT !.started = b] \in ClTypes /\ [c EXCEPT !.hasRemoteSdp = b] \in ClTypes
           /\ [c EXCEPT !.isDrainingMessages = b] \in ClTypes /\ [c EXCEPT !.makingOffer = b] \in ClTypes
           /\ [c EXCEPT !.offerRevision = n] \in ClTypes
           /\ [c EXCEPT !.renegotiationPending = b] \in ClTypes
           /\ [c EXCEPT !.pendingRemoteRequestId = r] \in ClTypes
           /\ [c EXCEPT !.isSettingRemoteAnswerPending = b] \in ClTypes
           /\ [c EXCEPT !.closed = b] \in ClTypes
BY DEF ClTypes

LEMMA ClientUpdates ==
    ASSUME NEW s \in ClientTypes, NEW c \in ClTypes, NEW q \in Seq(AllMessages),
           NEW o \in [step : OfferSteps, rev : Nat], NEW d \in DrainSteps, NEW p \in PcTypes,
           NEW x \in Seq({"offer", "drain"}), NEW w \in Seq(BrowserMessages)
    PROVE  /\ [s EXCEPT !.cl = c] \in ClientTypes
           /\ [s EXCEPT !.queue = q] \in ClientTypes /\ [s EXCEPT !.batch = q] \in ClientTypes
           /\ [s EXCEPT !.offering = o] \in ClientTypes /\ [s EXCEPT !.draining = d] \in ClientTypes
           /\ [s EXCEPT !.pc = p] \in ClientTypes /\ [s EXCEPT !.ops = x] \in ClientTypes
           /\ [s EXCEPT !.out = w] \in ClientTypes
BY DEF ClientTypes

LEMMA MakeOfferFits ==
    ASSUME NEW s \in ClientTypes, NEW drain \in BOOLEAN, OfferingFits(s, drain),
           s.cl.started, s.pc.signalingState # "have-local-offer"
    PROVE  LET t == makeOffer(s) IN t \in ClientTypes /\ OfferingFits(t, drain) /\ SameDraining(s, t)
<1>0. /\ s.cl \in ClTypes /\ s.ops \in Seq({"offer", "drain"}) /\ s.cl.makingOffer \in BOOLEAN
      /\ s.cl.offerRevision \in Nat
  BY Fields
<1>1. CASE s.cl.makingOffer
  <2>1. makeOffer(s) = s
    BY <1>1 DEF makeOffer
  <2> QED BY <2>1 DEF SameDraining
<1>2. CASE ~s.cl.makingOffer
  <2>1. OpsHold(s.ops, FALSE, drain)
    BY <1>0, <1>2 DEF OfferingFits
  <2>2. Append(s.ops, "offer") \in Seq({"offer", "drain"}) /\ OpsHold(Append(s.ops, "offer"), TRUE, drain)
    BY <1>0, <2>1, OpsAppend
  <2>3. PICK t : t = makeOffer(s)
    OBVIOUS
  <2>4. /\ t.cl = [s.cl EXCEPT !.makingOffer = TRUE, !.offerRevision = s.cl.offerRevision + 1]
        /\ t.offering = [step |-> "create", rev |-> s.cl.offerRevision + 1]
        /\ t.ops = Append(s.ops, "offer")
        /\ t.queue = s.queue /\ t.batch = s.batch /\ t.draining = s.draining
        /\ t.pc = s.pc /\ t.out = s.out
    BY <1>0, <1>2, <2>3 DEF makeOffer, ClientTypes, ClTypes
  <2>5. t \in ClientTypes
    <3>0. s.cl.offerRevision + 1 \in Nat
      BY <1>0
    <3>1. [s.cl EXCEPT !.makingOffer = TRUE, !.offerRevision = s.cl.offerRevision + 1] \in ClTypes
      BY <1>0, <3>0, Fields, ClUpdates
    <3>2. [step |-> "create", rev |-> s.cl.offerRevision + 1] \in [step : OfferSteps, rev : Nat]
      BY <1>0 DEF OfferSteps
    <3>3. PICK c \in ClTypes : c = [s.cl EXCEPT !.makingOffer = TRUE, !.offerRevision = s.cl.offerRevision + 1]
      BY <3>1
    <3>4. PICK o \in [step : OfferSteps, rev : Nat] : o = [step |-> "create", rev |-> s.cl.offerRevision + 1]
      BY <3>2
    <3>5. PICK q \in Seq({"offer", "drain"}) : q = Append(s.ops, "offer")
      BY <2>2
    <3>6. t = [s EXCEPT !.cl = c, !.offering = o, !.ops = q]
      BY <1>2, <2>3, <3>3, <3>4, <3>5 DEF makeOffer, ClientTypes
    <3> QED BY <3>6 DEF ClientTypes
  <2>6. t.cl.makingOffer = TRUE /\ SameDraining(s, t)
    BY <1>0, <2>4 DEF SameDraining, ClTypes
  <2>7. OfferingFits(t, drain)
    <3>1. OpsHold(t.ops, t.cl.makingOffer, drain)
      BY <2>2, <2>4, <2>6
    <3>2. t.offering.step # "idle"
      BY <2>4
    <3>3. t.cl.started /\ t.pc.signalingState # "have-local-offer"
      BY <2>4, <2>6 DEF SameDraining
    <3> QED BY <2>6, <3>1, <3>2, <3>3 DEF OfferingFits
  <2> QED BY <2>3, <2>5, <2>6, <2>7
<1> QED BY <1>0, <1>1, <1>2

LEMMA RenegotiateFits ==
    ASSUME NEW s \in ClientTypes, NEW drain \in BOOLEAN, OfferingFits(s, drain), s.cl.started
    PROVE  LET t == maybeRenegotiate(s) IN t \in ClientTypes /\ OfferingFits(t, drain) /\ SameDraining(s, t)
<1>1. CASE maybeRenegotiate(s) = s
  BY <1>1 DEF SameDraining
<1>2. CASE maybeRenegotiate(s) # s
  <2>1. PICK c : c = [s.cl EXCEPT !.renegotiationPending = FALSE]
    OBVIOUS
  <2>2. PICK u : u = [s EXCEPT !.cl = c]
    OBVIOUS
  <2>3. /\ maybeRenegotiate(s) = makeOffer(u) /\ s.pc.signalingState = "stable"
    BY <1>2, <2>1, <2>2 DEF maybeRenegotiate
  <2>4. c \in ClTypes /\ u \in ClientTypes
    BY <2>1, <2>2, Fields, ClUpdates, ClientUpdates
  <2>5. /\ u.cl = c /\ u.queue = s.queue /\ u.batch = s.batch /\ u.draining = s.draining
        /\ u.pc = s.pc /\ u.out = s.out /\ u.offering = s.offering /\ u.ops = s.ops
    BY <2>2 DEF ClientTypes
  <2>6. /\ c.started = s.cl.started /\ c.hasRemoteSdp = s.cl.hasRemoteSdp
        /\ c.isDrainingMessages = s.cl.isDrainingMessages /\ c.makingOffer = s.cl.makingOffer
        /\ c.pendingRemoteRequestId = s.cl.pendingRemoteRequestId /\ c.closed = s.cl.closed
    BY <2>1, Fields DEF ClTypes
  <2>7. OfferingFits(u, drain) /\ u.cl.started /\ u.pc.signalingState # "have-local-offer"
    BY <2>3, <2>5, <2>6 DEF OfferingFits
  <2>8. PICK t : t = makeOffer(u)
    OBVIOUS
  <2>9. t \in ClientTypes /\ OfferingFits(t, drain) /\ SameDraining(u, t)
    BY <2>4, <2>7, <2>8, MakeOfferFits
  <2>10. SameDraining(s, t)
    BY <2>5, <2>6, <2>9 DEF SameDraining
  <2> QED BY <2>3, <2>8, <2>9, <2>10
<1> QED BY <1>1, <1>2

LEMMA EndOfferFits ==
    ASSUME NEW s \in ClientTypes, NEW drain \in BOOLEAN, OpsHold(s.ops, FALSE, drain), s.cl.started
    PROVE  LET t == endOffer(s) IN t \in ClientTypes /\ OfferingFits(t, drain) /\ SameDraining(s, t)
<1>1. PICK c : c = [s.cl EXCEPT !.makingOffer = FALSE]
  OBVIOUS
<1>2. PICK o : o = [step |-> "idle", rev |-> 0]
  OBVIOUS
<1>3. PICK u : u = [s EXCEPT !.cl = c, !.offering = o]
  OBVIOUS
<1>4. o \in [step : OfferSteps, rev : Nat]
  BY <1>2 DEF OfferSteps
<1>5. c \in ClTypes /\ u \in ClientTypes
  BY <1>1, <1>3, <1>4, Fields, ClUpdates, ClientUpdates
<1>6. /\ u.cl = c /\ u.queue = s.queue /\ u.batch = s.batch /\ u.draining = s.draining
      /\ u.pc = s.pc /\ u.out = s.out /\ u.offering = o /\ u.ops = s.ops
  BY <1>3 DEF ClientTypes
<1>7. /\ c.started = s.cl.started /\ c.hasRemoteSdp = s.cl.hasRemoteSdp
      /\ c.isDrainingMessages = s.cl.isDrainingMessages /\ c.makingOffer = FALSE
      /\ c.pendingRemoteRequestId = s.cl.pendingRemoteRequestId /\ c.closed = s.cl.closed
  BY <1>1, Fields DEF ClTypes
<1>8. OfferingFits(u, drain)
  <2>1. OpsHold(u.ops, u.cl.makingOffer, drain)
    BY <1>6, <1>7
  <2>2. u.offering.step = "idle" /\ ~u.cl.makingOffer
    BY <1>2, <1>6, <1>7
  <2> QED BY <2>1, <2>2 DEF OfferingFits
<1>9. PICK t : t = maybeRenegotiate(u)
  OBVIOUS
<1>10. t \in ClientTypes /\ OfferingFits(t, drain) /\ SameDraining(u, t)
  BY <1>5, <1>6, <1>7, <1>8, <1>9, RenegotiateFits
<1>11. t = endOffer(s)
  BY <1>1, <1>2, <1>3, <1>9 DEF endOffer
<1>12. SameDraining(s, t)
  BY <1>6, <1>7, <1>10 DEF SameDraining
<1> QED BY <1>10, <1>11, <1>12

LEMMA SettleFits ==
    ASSUME NEW s \in ClientTypes, NEW drain \in BOOLEAN, OfferingFits(s, drain), s.cl.started
    PROVE  LET t == settleDescription(s) IN t \in ClientTypes /\ OfferingFits(t, drain) /\ SameDraining(s, t)
<1>1. PICK c : c = [s.cl EXCEPT !.isSettingRemoteAnswerPending = FALSE]
  OBVIOUS
<1>3. PICK u : u = [s EXCEPT !.cl = c]
  OBVIOUS
<1>5. c \in ClTypes /\ u \in ClientTypes
  BY <1>1, <1>3, Fields, ClUpdates, ClientUpdates
<1>6. /\ u.cl = c /\ u.queue = s.queue /\ u.batch = s.batch /\ u.draining = s.draining
      /\ u.pc = s.pc /\ u.out = s.out /\ u.offering = s.offering /\ u.ops = s.ops
  BY <1>3 DEF ClientTypes
<1>7. /\ c.started = s.cl.started /\ c.hasRemoteSdp = s.cl.hasRemoteSdp
      /\ c.isDrainingMessages = s.cl.isDrainingMessages /\ c.makingOffer = s.cl.makingOffer
      /\ c.pendingRemoteRequestId = s.cl.pendingRemoteRequestId /\ c.closed = s.cl.closed
  BY <1>1, Fields DEF ClTypes
<1>8. OfferingFits(u, drain) /\ u.cl.started
  BY <1>6, <1>7 DEF OfferingFits
<1>9. PICK t : t = maybeRenegotiate(u)
  OBVIOUS
<1>10. t \in ClientTypes /\ OfferingFits(t, drain) /\ SameDraining(u, t)
  BY <1>5, <1>8, <1>9, RenegotiateFits
<1>11. t = settleDescription(s)
  BY <1>1, <1>3, <1>9 DEF settleDescription
<1>12. SameDraining(s, t)
  BY <1>6, <1>7, <1>10 DEF SameDraining
<1> QED BY <1>10, <1>11, <1>12

-----------------------------------------------------------------------------
(* The methods of the draining chain.                                       *)

\* What the start of a message, or of a batch, leaves alone.
SamePc(s, t) == t.pc = s.pc /\ t.out = s.out /\ t.cl.closed = s.cl.closed

LEMMA MessageTypes ==
    ASSUME NEW m \in AllMessages
    PROVE  /\ m.type \in {"offer", "answer", "candidate"}
           /\ m.type = "offer" => m.id \in RequestIds /\ m.id # None
           /\ m.type = "answer" => m = Answer(m.id) /\ m.id \in Nat
           /\ m.type = "candidate" => m = Candidate
<1>1. CASE \E r \in 1..MaxSfuOffers : m = Offer(r)
  <2>1. PICK r \in 1..MaxSfuOffers : m = Offer(r)
    BY <1>1
  <2>2. m.type = "offer" /\ m.id = r
    BY <2>1 DEF Offer
  <2>3. r \in RequestIds /\ r # None
    BY PccAssumption DEF RequestIds, None
  <2> QED BY <2>2, <2>3
<1>2. CASE m = Candidate
  BY <1>2 DEF Candidate
<1>3. CASE \E o \in Nat : m = Answer(o)
  <2>1. PICK o \in Nat : m = Answer(o)
    BY <1>3
  <2>2. m.type = "answer" /\ m.id = o
    BY <2>1 DEF Answer
  <2> QED BY <2>1, <2>2
<1> QED BY <1>1, <1>2, <1>3 DEF AllMessages

LEMMA ProcessFits ==
    ASSUME NEW s \in ClientTypes, NEW m, s.batch # <<>>, m = Head(s.batch),
           s.cl.isDrainingMessages, s.cl.started,
           s.pc.signalingState # "have-remote-offer", OfferingFits(s, FALSE)
    PROVE  LET t == processSignalingMessage(s, m)
           IN  ClientFits(t) /\ SamePc(s, t) /\ t.batch = s.batch /\ t.queue = s.queue
<1>1. m \in AllMessages
  BY Fields
<1>2. PICK q : q = Append(s.ops, "drain")
  OBVIOUS
<1>3. q \in Seq({"offer", "drain"}) /\ OpsHold(q, s.cl.makingOffer, TRUE)
  BY <1>2, Fields, OpsAppend DEF OfferingFits
<1>4. PICK t : t = processSignalingMessage(s, m)
  OBVIOUS
<1>5. PICK c \in ClTypes, d \in DrainSteps :
          /\ t = [s EXCEPT !.cl = c, !.draining = d, !.ops = q]
          /\ c.started = s.cl.started /\ c.isDrainingMessages = s.cl.isDrainingMessages
          /\ c.makingOffer = s.cl.makingOffer /\ c.closed = s.cl.closed
          /\ m.type = "offer" => c.pendingRemoteRequestId = m.id
          /\ d \in {"rollback", "remote", "candidate"}
          /\ d = "candidate" <=> m.type = "candidate"
          /\ d = "rollback" => m.type = "offer"
  <2>1. CASE m.type = "candidate"
    <3>1. t = [s EXCEPT !.cl = s.cl, !.draining = "candidate", !.ops = q]
      BY <1>2, <1>4, <2>1 DEF processSignalingMessage, ClientTypes
    <3>2. s.cl \in ClTypes /\ "candidate" \in DrainSteps
      BY Fields DEF DrainSteps
    <3> QED BY <2>1, <3>1, <3>2
  <2>2. CASE m.type # "candidate"
    <3> DEFINE isOffer == m.type = "offer"
               readyForOffer == /\ ~s.cl.makingOffer
                                /\ \/ s.pc.signalingState = "stable"
                                   \/ s.cl.isSettingRemoteAnswerPending
               collision == isOffer /\ ~readyForOffer
               rollback == collision /\ s.pc.signalingState # "stable"
    <3>1. PICK n : n = IF collision THEN s.cl.offerRevision + 1 ELSE s.cl.offerRevision
      OBVIOUS
    <3>2. PICK r : r = IF isOffer THEN m.id ELSE s.cl.pendingRemoteRequestId
      OBVIOUS
    <3>3. PICK p : p = (s.cl.renegotiationPending \/ collision)
      OBVIOUS
    <3>4. PICK a : a = ~isOffer
      OBVIOUS
    <3>5. PICK d : d = IF rollback THEN "rollback" ELSE "remote"
      OBVIOUS
    <3>6. n \in Nat /\ r \in RequestIds /\ p \in BOOLEAN /\ a \in BOOLEAN /\ d \in DrainSteps
      <4>1. n \in Nat
        <5>1. s.cl.offerRevision \in Nat
          BY Fields
        <5>2. s.cl.offerRevision + 1 \in Nat
          BY <5>1
        <5> HIDE DEF collision
        <5> QED BY <3>1, <5>1, <5>2
      <4>2. r \in RequestIds
        BY <1>1, <3>2, Fields, MessageTypes
      <4>3. p \in BOOLEAN
        BY <3>3, Fields
      <4>4. a \in BOOLEAN
        BY <3>4
      <4>5. d \in DrainSteps
        BY <3>5 DEF DrainSteps
      <4> QED BY <4>1, <4>2, <4>3, <4>4, <4>5
    <3>7. PICK c : c = [s.cl EXCEPT !.offerRevision = n, !.renegotiationPending = p,
                                    !.pendingRemoteRequestId = r, !.isSettingRemoteAnswerPending = a]
      OBVIOUS
    <3>8. c \in ClTypes
      BY <3>6, <3>7, Fields, ClUpdates
    <3>9. t = [s EXCEPT !.cl = c, !.draining = d, !.ops = q]
      BY <1>2, <1>4, <2>2, <3>1, <3>2, <3>3, <3>4, <3>5, <3>7, Fields
         DEF processSignalingMessage, processV2Description, ClientTypes, ClTypes
    <3>10. /\ c.started = s.cl.started /\ c.isDrainingMessages = s.cl.isDrainingMessages
           /\ c.makingOffer = s.cl.makingOffer /\ c.closed = s.cl.closed
           /\ c.pendingRemoteRequestId = r
      BY <3>7, Fields DEF ClTypes
    <3>11. d \in {"rollback", "remote", "candidate"} /\ d # "candidate" /\ (d = "rollback" => m.type = "offer")
      BY <3>5
    <3>12. m.type = "offer" => c.pendingRemoteRequestId = m.id
      BY <3>2, <3>10
    <3> QED BY <2>2, <3>6, <3>8, <3>9, <3>10, <3>11, <3>12
  <2> QED BY <2>1, <2>2
<1>6. t \in ClientTypes
  BY <1>3, <1>5, ClientUpdates, Fields
<1>7. /\ t.cl = c /\ t.queue = s.queue /\ t.batch = s.batch /\ t.draining = d
      /\ t.pc = s.pc /\ t.out = s.out /\ t.offering = s.offering /\ t.ops = q
  BY <1>5 DEF ClientTypes
<1>8. OfferingFits(t, t.cl.isDrainingMessages)
  BY <1>3, <1>5, <1>7, Fields DEF OfferingFits
<1>9. DrainingFits(t)
  <2>1. d # "idle" /\ d \notin {"answer", "local"}
    BY <1>5
  <2>2. Head(t.batch) = m /\ t.batch # <<>>
    BY <1>7
  <2>3. t.cl.isDrainingMessages /\ t.cl.started
    BY <1>5, <1>7
  <2> QED BY <1>5, <1>7, <2>1, <2>2, <2>3 DEF DrainingFits
<1> QED BY <1>4, <1>6, <1>7, <1>8, <1>9, <1>5 DEF ClientFits, SamePc

LEMMA DrainFits ==
    ASSUME NEW s, ClientFits(s), s.queue # <<>>
    PROVE  LET t == drainMessageQueue(s)
           IN  ClientFits(t) /\ SamePc(s, t) /\ t.batch \o t.queue = s.batch \o s.queue
<1>0. s \in ClientTypes
  BY DEF ClientFits
<1>1. CASE ~s.cl.started \/ ~s.cl.hasRemoteSdp \/ s.cl.isDrainingMessages
  <2>1. drainMessageQueue(s) = s
    BY <1>1 DEF drainMessageQueue
  <2> QED BY <2>1 DEF SamePc
<1>2. CASE s.cl.started /\ s.cl.hasRemoteSdp /\ ~s.cl.isDrainingMessages
  <2>1. PICK c : c = [s.cl EXCEPT !.isDrainingMessages = TRUE]
    OBVIOUS
  <2>2. PICK u : u = [s EXCEPT !.cl = c, !.batch = s.queue, !.queue = <<>>]
    OBVIOUS
  <2>3. drainMessageQueue(s) = processSignalingMessage(u, Head(s.queue))
    BY <1>2, <2>1, <2>2 DEF drainMessageQueue
  <2>4. c \in ClTypes
    BY <1>0, <2>1, Fields, ClUpdates
  <2>5. u \in ClientTypes
    <3>1. <<>> \in Seq(AllMessages) /\ s.queue \in Seq(AllMessages)
      BY <1>0, Fields
    <3>2. PICK e \in Seq(AllMessages) : e = <<>>
      BY <3>1
    <3>3. u = [s EXCEPT !.cl = c, !.batch = s.queue, !.queue = e]
      BY <2>2, <3>2
    <3> QED BY <1>0, <2>4, <3>1, <3>3 DEF ClientTypes
  <2>6. /\ u.cl = c /\ u.queue = <<>> /\ u.batch = s.queue
        /\ u.pc = s.pc /\ u.out = s.out /\ u.offering = s.offering /\ u.ops = s.ops
    BY <1>0, <2>2 DEF ClientTypes
  <2>7. /\ c.started = s.cl.started /\ c.isDrainingMessages = TRUE
        /\ c.makingOffer = s.cl.makingOffer /\ c.closed = s.cl.closed
    BY <1>0, <2>1, Fields DEF ClTypes
  <2>8. s.batch = <<>> /\ s.pc.signalingState # "have-remote-offer" /\ OfferingFits(s, FALSE)
    <3>1. s.draining = "idle"
      BY <1>2 DEF ClientFits, DrainingFits
    <3>2. s.batch = <<>>
      BY <3>1 DEF ClientFits, DrainingFits
    <3>3. s.pc.signalingState # "have-remote-offer"
      BY <3>1 DEF ClientFits, DrainingFits
    <3>4. s.cl.isDrainingMessages = FALSE
      BY <1>0, <1>2, Fields
    <3>5. OfferingFits(s, FALSE)
      BY <3>4 DEF ClientFits
    <3> QED BY <3>2, <3>3, <3>5
  <2>9. OfferingFits(u, FALSE)
    BY <2>6, <2>7, <2>8 DEF OfferingFits
  <2>10. PICK t : t = processSignalingMessage(u, Head(s.queue))
    OBVIOUS
  <2>11. ClientFits(t) /\ SamePc(u, t) /\ t.batch = u.batch /\ t.queue = u.queue
    BY <1>2, <2>5, <2>6, <2>7, <2>8, <2>9, <2>10, ProcessFits
  <2>12. SamePc(s, t)
    BY <2>6, <2>7, <2>11 DEF SamePc
  <2>13. t.batch \o t.queue = s.batch \o s.queue
    <3>1. t.batch = s.queue /\ t.queue = <<>> /\ s.queue \in Seq(AllMessages) /\ s.batch = <<>>
      BY <1>0, <2>6, <2>8, <2>11, Fields
    <3>2. s.queue \o <<>> = s.queue /\ <<>> \o s.queue = s.queue
      BY <3>1, ConcatEmptySeq
    <3> QED BY <3>1, <3>2
  <2> QED BY <2>3, <2>10, <2>11, <2>12, <2>13
<1> QED BY <1>0, <1>1, <1>2, Fields

LEMMA EndDrainFits ==
    ASSUME NEW s \in ClientTypes, OfferingFits(s, FALSE), s.pc.signalingState # "have-remote-offer", s.cl.started
    PROVE  LET t == endDrain(s)
           IN  ClientFits(t) /\ SamePc(s, t) /\ t.batch \o t.queue = s.queue
<1>1. PICK c : c = [s.cl EXCEPT !.isDrainingMessages = FALSE]
  OBVIOUS
<1>2. PICK u : u = [s EXCEPT !.cl = c, !.batch = <<>>, !.draining = "idle"]
  OBVIOUS
<1>3. endDrain(s) = IF u.queue = <<>> THEN u ELSE drainMessageQueue(u)
  BY <1>1, <1>2 DEF endDrain
<1>4. c \in ClTypes
  BY <1>1, Fields, ClUpdates
<1>5. u \in ClientTypes
  <2>1. <<>> \in Seq(AllMessages) /\ "idle" \in DrainSteps
    BY DEF DrainSteps
  <2>2. PICK e \in Seq(AllMessages) : e = <<>>
    BY <2>1
  <2>3. u = [s EXCEPT !.cl = c, !.batch = e, !.draining = "idle"]
    BY <1>2, <2>2
  <2> QED BY <1>4, <2>1, <2>3 DEF ClientTypes
<1>6. /\ u.cl = c /\ u.queue = s.queue /\ u.batch = <<>> /\ u.draining = "idle"
      /\ u.pc = s.pc /\ u.out = s.out /\ u.offering = s.offering /\ u.ops = s.ops
  BY <1>2 DEF ClientTypes
<1>7. /\ c.started = s.cl.started /\ c.isDrainingMessages = FALSE
      /\ c.makingOffer = s.cl.makingOffer /\ c.closed = s.cl.closed
  BY <1>1, Fields DEF ClTypes
<1>8. ClientFits(u)
  <2>1. OfferingFits(u, u.cl.isDrainingMessages)
    BY <1>6, <1>7 DEF OfferingFits
  <2>2. DrainingFits(u)
    BY <1>6, <1>7 DEF DrainingFits
  <2> QED BY <1>5, <2>1, <2>2 DEF ClientFits
<1>9. SamePc(s, u)
  BY <1>6, <1>7 DEF SamePc
<1>10. u.batch \o u.queue = s.queue
  <2>1. u.batch \o u.queue = <<>> \o s.queue /\ s.queue \in Seq(AllMessages)
    BY <1>6, Fields
  <2> QED BY <2>1, ConcatEmptySeq
<1>11. CASE u.queue = <<>>
  BY <1>3, <1>8, <1>9, <1>10, <1>11
<1>12. CASE u.queue # <<>>
  <2>1. PICK t : t = drainMessageQueue(u)
    OBVIOUS
  <2>2. ClientFits(t) /\ SamePc(u, t) /\ t.batch \o t.queue = u.batch \o u.queue
    BY <1>8, <1>12, <2>1, DrainFits
  <2>3. SamePc(s, t)
    BY <1>9, <2>2 DEF SamePc
  <2> QED BY <1>3, <1>10, <1>12, <2>1, <2>2, <2>3
<1> QED BY <1>11, <1>12

LEMMA NextMessageFits ==
    ASSUME NEW s \in ClientTypes, OfferingFits(s, FALSE), s.pc.signalingState # "have-remote-offer",
           s.cl.started, s.cl.isDrainingMessages, s.batch # <<>>
    PROVE  LET t == nextMessage(s)
           IN  ClientFits(t) /\ SamePc(s, t) /\ t.batch \o t.queue = Tail(s.batch) \o s.queue
<1>1. PICK u : u = [s EXCEPT !.batch = Tail(s.batch), !.draining = "idle"]
  OBVIOUS
<1>2. nextMessage(s) = IF u.batch = <<>> THEN endDrain(u) ELSE processSignalingMessage(u, Head(u.batch))
  BY <1>1 DEF nextMessage
<1>3. Tail(s.batch) \in Seq(AllMessages) /\ s.queue \in Seq(AllMessages)
  BY Fields
<1>4. u \in ClientTypes
  <2>1. "idle" \in DrainSteps
    BY DEF DrainSteps
  <2>2. PICK e \in Seq(AllMessages) : e = Tail(s.batch)
    BY <1>3
  <2>3. u = [s EXCEPT !.batch = e, !.draining = "idle"]
    BY <1>1, <2>2
  <2> QED BY <2>1, <2>3 DEF ClientTypes
<1>5. /\ u.cl = s.cl /\ u.queue = s.queue /\ u.batch = Tail(s.batch)
      /\ u.pc = s.pc /\ u.out = s.out /\ u.offering = s.offering /\ u.ops = s.ops
  BY <1>1 DEF ClientTypes
<1>6. OfferingFits(u, FALSE) /\ SamePc(s, u)
  BY <1>5 DEF OfferingFits, SamePc
<1>7. CASE u.batch = <<>>
  <2>1. PICK t : t = endDrain(u)
    OBVIOUS
  <2>2. ClientFits(t) /\ SamePc(u, t) /\ t.batch \o t.queue = u.queue
    BY <1>4, <1>5, <1>6, <2>1, EndDrainFits
  <2>3. SamePc(s, t)
    BY <1>6, <2>2 DEF SamePc
  <2>4. Tail(s.batch) \o s.queue = s.queue
    <3>1. Tail(s.batch) = <<>>
      BY <1>5, <1>7
    <3>2. <<>> \o s.queue = s.queue
      BY <1>3, ConcatEmptySeq
    <3> QED BY <3>1, <3>2
  <2> QED BY <1>2, <1>5, <1>7, <2>1, <2>2, <2>3, <2>4
<1>8. CASE u.batch # <<>>
  <2>1. PICK t : t = processSignalingMessage(u, Head(u.batch))
    OBVIOUS
  <2>2. ClientFits(t) /\ SamePc(u, t) /\ t.batch = u.batch /\ t.queue = u.queue
    BY <1>4, <1>5, <1>6, <1>8, <2>1, ProcessFits
  <2>3. SamePc(s, t)
    BY <1>6, <2>2 DEF SamePc
  <2> QED BY <1>2, <1>5, <1>8, <2>1, <2>2, <2>3
<1> QED BY <1>7, <1>8

-----------------------------------------------------------------------------
(* The steps of the negotiation.                                            *)

LEMMA BrowserTypes ==
    ASSUME NEW m \in BrowserMessages
    PROVE  /\ m.type = "offer" \/ m.type = "answer"
           /\ m.type = "offer" => m = Offer(m.id) /\ m.id \in Nat
           /\ m.type = "answer" => m.id \in Nat
<1>1. CASE \E o \in Nat : m = Offer(o)
  BY <1>1 DEF Offer
<1>2. CASE \E r \in Nat, q \in Nat : m = Reply(r, q)
  BY <1>2 DEF Reply
<1> QED BY <1>1, <1>2 DEF BrowserMessages

\* Q is P without its first n messages.
Dropped(P, n, Q) ==
    /\ n \in 0..Len(P) /\ Len(Q) = Len(P) - n
    /\ \A i \in 1..Len(Q) : Q[i] = P[i + n]

\* Messages leave the pipe, and nothing else changes for the negotiation.
LEMMA Consumed ==
    ASSUME NEW P, NEW Q \in Seq(AllMessages), NEW n, NEW T, NEW p, NEW p2, NEW f, NEW f2 \in SfuTypes,
           Negotiation(P, T, p, f), Dropped(P, n, Q),
           p2.signalingState = p.signalingState, p2.localOffer = p.localOffer, p2.offers = p.offers,
           f2.offer = f.offer, f2.timeouts = f.timeouts
    PROVE  Negotiation(Q, T, p2, f2)
<1>1. /\ Len(P) \in Nat /\ Len(Q) \in Nat /\ n \in Nat
  BY DEF Dropped, Negotiation, Numbered
<1>2. /\ \A i \in 1..Len(Q) : i + n \in 1..Len(P) /\ Q[i] = P[i + n]
      /\ \A i, j \in 1..Len(Q) : i + n = j + n => i = j
      /\ \A i, j \in 1..Len(Q) : j < i => j + n < i + n
  BY <1>1 DEF Dropped
<1>3. Numbered(Q, T, p2, f2)
  BY <1>2 DEF Negotiation, Numbered
<1>4. ASSUME f.timeouts = 0
      PROVE  Outstanding(Q, T, f2)
  <2>0. Outstanding(P, T, f)
    BY <1>4 DEF Negotiation
  <2>1. \A i \in 1..Len(Q) : Q[i].type = "offer" => Q[i].id = f2.offer
    BY <1>2, <2>0 DEF Outstanding
  <2>2. \A i \in 1..Len(Q) : \A k \in 1..Len(T) : Q[i].type = "offer" => T[k].type = "offer"
    BY <1>2, <2>0 DEF Outstanding
  <2>3. ASSUME NEW i \in 1..Len(Q), NEW j \in 1..Len(Q), Q[i].type = "offer", Q[j].type = "offer"
        PROVE  i = j
    <3>1. i + n = j + n
      BY <1>2, <2>0, <2>3 DEF Outstanding
    <3> QED BY <1>2, <3>1
  <2> QED BY <2>0, <2>1, <2>2, <2>3 DEF Outstanding
<1>5. ASSUME f.timeouts = 0
      PROVE  Publishing(Q, T, p2, f2)
  <2>0. Publishing(P, T, p, f)
    BY <1>5 DEF Negotiation
  <2>1. \A o : Live(p2, o) <=> Live(p, o)
    BY DEF Live
  <2>2. \A i \in 1..Len(Q) : Q[i].type = "answer" => Live(p2, Q[i].id)
    BY <1>2, <2>0, <2>1 DEF Publishing
  <2>3. ASSUME NEW i \in 1..Len(Q), NEW j \in 1..Len(Q), Q[i].type = "answer", j < i
        PROVE  Q[j].type = "candidate"
    <3>1. j + n < i + n /\ i + n \in 1..Len(P) /\ j + n \in 1..Len(P)
      BY <1>2, <2>3
    <3>2. P[i + n].type = "answer" /\ Q[j] = P[j + n]
      BY <1>2, <2>3
    <3> QED BY <2>0, <3>1, <3>2 DEF Publishing
  <2>4. \A i \in 1..Len(Q) : \A k \in 1..Len(T) :
            Q[i].type = "answer" /\ T[k].type = "offer" => T[k].id # Q[i].id
    BY <1>2, <2>0 DEF Publishing
  <2>5. \A k \in 1..Len(T) : T[k].type = "offer" /\ ~Live(p2, T[k].id) => f2.offer # None
    BY <2>0, <2>1 DEF Publishing
  <2>6. \A k, l \in 1..Len(T) : T[k].type = "offer" /\ ~Live(p2, T[k].id) /\ l < k => T[l].type = "offer"
    BY <2>0, <2>1 DEF Publishing
  <2> QED BY <2>2, <2>3, <2>4, <2>5, <2>6 DEF Publishing
<1> QED BY <1>3, <1>4, <1>5 DEF Negotiation

\* setLocalDescription(offer): a new publish offer goes live and is sent.
LEMMA Published ==
    ASSUME NEW P, NEW T, NEW p, NEW p2, NEW f, Negotiation(P, T, p, f),
           p.signalingState # "have-local-offer", p2.signalingState = "have-local-offer",
           p2.offers = p.offers + 1, p2.localOffer = p.offers + 1
    PROVE  Negotiation(P, Append(T, Offer(p.offers + 1)), p2, f)
<1>0. PICK m : m = Offer(p.offers + 1)
  OBVIOUS
<1>1. /\ p.offers \in Nat /\ T \in Seq(BrowserMessages) /\ m \in BrowserMessages
      /\ m.type = "offer" /\ m.id = p.offers + 1
  BY <1>0 DEF Negotiation, Numbered, BrowserMessages, Offer
<1>2. PICK U : U = Append(T, m)
  OBVIOUS
<1>3. /\ U \in Seq(BrowserMessages) /\ Len(T) \in Nat /\ Len(U) = Len(T) + 1
      /\ \A k \in 1..Len(T) : U[k] = T[k]
      /\ U[Len(T) + 1] = m
  BY <1>1, <1>2
<1>4. /\ \A k \in 1..Len(U) : k \in 1..Len(T) \/ k = Len(T) + 1
      /\ \A k, l \in 1..Len(U) : l < k => l \in 1..Len(T)
  BY <1>3
<1>5. Numbered(P, U, p2, f)
  <2>1. \A k \in 1..Len(T) : T[k].type = "offer" => 1 <= T[k].id /\ T[k].id <= p.offers /\ T[k].id \in Nat
    BY <1>1, BrowserTypes DEF Negotiation, Numbered
  <2>2. \A k \in 1..Len(U) : U[k].type = "offer" => 1 <= U[k].id /\ U[k].id <= p2.offers
    BY <1>1, <1>3, <1>4, <2>1
  <2>3. \A k, l \in 1..Len(U) : U[k].type = "offer" /\ U[l].type = "offer" /\ U[k].id = U[l].id => k = l
    <3>1. \A k, l \in 1..Len(T) : T[k].type = "offer" /\ T[l].type = "offer" /\ T[k].id = T[l].id => k = l
      BY DEF Negotiation, Numbered
    <3>2. \A k \in 1..Len(T) : U[k].type = "offer" => U[k].id # m.id
      BY <1>1, <1>3, <2>1
    <3> QED BY <1>3, <1>4, <3>1, <3>2
  <2>4. \A k \in 1..Len(U) : U[k].type = "answer" => U[k].requestid = U[k].id
    BY <1>1, <1>3, <1>4 DEF Negotiation, Numbered
  <2>5. \A i \in 1..Len(P) : P[i].type = "answer" => 1 <= P[i].id /\ P[i].id <= p2.offers
    <3>1. ASSUME NEW i \in 1..Len(P), P[i].type = "answer"
          PROVE  P[i].id \in Nat
      BY <3>1, MessageTypes DEF Negotiation, Numbered
    <3> QED BY <1>1, <3>1 DEF Negotiation, Numbered
  <2>6. p2.offers \in Nat /\ p2.localOffer \in Nat /\ p2.localOffer <= p2.offers
    BY <1>1
  <2>7. P \in Seq(AllMessages) /\ f \in SfuTypes
    BY DEF Negotiation, Numbered
  <2> QED BY <1>3, <2>2, <2>3, <2>4, <2>5, <2>6, <2>7 DEF Numbered
<1>6. ASSUME f.timeouts = 0
      PROVE  Outstanding(P, U, f)
  <2>0. Outstanding(P, T, f)
    BY <1>6 DEF Negotiation
  <2>1. \A i \in 1..Len(P) : \A k \in 1..Len(U) : P[i].type = "offer" => U[k].type = "offer"
    BY <1>1, <1>3, <1>4, <2>0 DEF Outstanding
  <2>2. \A k \in 1..Len(U) : U[k].type = "answer" => k \in 1..Len(T) /\ T[k] = U[k]
    BY <1>1, <1>3, <1>4
  <2>3. \A k \in 1..Len(U) : U[k].type = "answer" => U[k].id = f.offer /\ f.offer # None
    BY <2>0, <2>2 DEF Outstanding
  <2>4. \A k, l \in 1..Len(U) : U[k].type = "answer" /\ U[l].type = "answer" => k = l
    BY <2>0, <2>2 DEF Outstanding
  <2> QED BY <2>0, <2>1, <2>3, <2>4 DEF Outstanding
<1>7. ASSUME f.timeouts = 0
      PROVE  Publishing(P, U, p2, f)
  <2>1. \A i \in 1..Len(P) : P[i].type # "answer"
    BY <1>7 DEF Negotiation, Publishing, Live
  <2>2. Live(p2, m.id) /\ \A k \in 1..Len(T) : ~Live(p, T[k].id)
    BY <1>1 DEF Live
  <2>3. Publishing(P, T, p, f)
    BY <1>7 DEF Negotiation
  <2>4. \A k \in 1..Len(U) : U[k].type = "offer" /\ ~Live(p2, U[k].id) => f.offer # None
    BY <1>3, <1>4, <2>2, <2>3 DEF Publishing
  <2>5. ASSUME NEW k \in 1..Len(U), NEW l \in 1..Len(U), U[k].type = "offer", ~Live(p2, U[k].id), l < k
        PROVE  U[l].type = "offer"
    <3>1. k \in 1..Len(T) /\ l \in 1..Len(T)
      BY <1>3, <1>4, <2>2, <2>5
    <3>2. T[k].type = "offer" /\ ~Live(p, T[k].id) /\ U[l] = T[l]
      BY <1>3, <2>2, <2>5, <3>1
    <3> QED BY <2>3, <2>5, <3>1, <3>2 DEF Publishing
  <2> QED BY <2>1, <2>4, <2>5 DEF Publishing
<1> QED BY <1>0, <1>2, <1>5, <1>6, <1>7 DEF Negotiation

\* The subscribe offer in progress replaces the publish offer: a rollback, or
\* setRemoteDescription(offer).
LEMMA Yielded ==
    ASSUME NEW P, NEW T, NEW p, NEW p2, NEW f, Negotiation(P, T, p, f),
           1 \in 1..Len(P), P[1].type = "offer",
           p2.signalingState # "have-local-offer", p2.localOffer = None, p2.offers = p.offers
    PROVE  Negotiation(P, T, p2, f)
<1>1. Numbered(P, T, p2, f)
  <2>1. None \in Nat /\ (p.offers \in Nat => None <= p.offers)
    BY DEF None
  <2> QED BY <2>1 DEF Negotiation, Numbered
<1>2. ASSUME f.timeouts = 0
      PROVE  Outstanding(P, T, f)
  BY <1>2 DEF Negotiation
<1>3. ASSUME f.timeouts = 0
      PROVE  Publishing(P, T, p2, f)
  <2>1. f.offer # None
    BY <1>3, MessageTypes DEF Negotiation, Numbered, Outstanding
  <2>2. \A k \in 1..Len(T) : T[k].type = "offer"
    BY <1>3 DEF Negotiation, Outstanding
  <2>3. \A i \in 1..Len(P) : P[i].type # "answer"
    <3>1. SUFFICES ASSUME NEW i \in 1..Len(P), P[i].type = "answer"
                   PROVE  FALSE
      OBVIOUS
    <3>2. i # 1
      BY <3>1
    <3>3. 1 < i
      BY <3>2
    <3> QED BY <1>3, <3>1, <3>3 DEF Negotiation, Publishing
  <2> QED BY <2>1, <2>2, <2>3 DEF Publishing
<1> QED BY <1>1, <1>2, <1>3 DEF Negotiation

\* A sequence and its tail.
LEMMA TailDrops ==
    ASSUME NEW S, NEW P \in Seq(S), P # <<>>
    PROVE  /\ Len(P) \in Nat /\ 1 \in 1..Len(P) /\ Head(P) = P[1]
           /\ Tail(P) \in Seq(S) /\ Dropped(P, 1, Tail(P))
<1>1. /\ Len(P) \in Nat /\ Len(P) # 0 /\ Head(P) = P[1]
      /\ Tail(P) \in Seq(S) /\ Len(Tail(P)) = Len(P) - 1
      /\ \A i \in 1..(Len(P) - 1) : Tail(P)[i] = P[i + 1]
  OBVIOUS
<1> QED BY <1>1 DEF Dropped

\* The publish answer is applied.
LEMMA Concluded ==
    ASSUME NEW P, NEW T, NEW p, NEW p2, NEW f, Negotiation(P, T, p, f),
           P # <<>>, Head(P).type = "answer",
           p2.signalingState # "have-local-offer", p2.localOffer = None, p2.offers = p.offers
    PROVE  Negotiation(Tail(P), T, p2, f)
<1>0. P \in Seq(AllMessages) /\ f \in SfuTypes
  BY DEF Negotiation, Numbered
<1>1. /\ Len(P) \in Nat /\ 1 \in 1..Len(P) /\ Head(P) = P[1]
      /\ Tail(P) \in Seq(AllMessages) /\ Dropped(P, 1, Tail(P))
  BY <1>0, TailDrops
<1>2. PICK Q \in Seq(AllMessages) : Q = Tail(P)
  BY <1>1
<1>3. Negotiation(Q, T, p, f)
  BY <1>0, <1>1, <1>2, Consumed
<1>4. Numbered(Q, T, p2, f)
  <2>1. None \in Nat /\ (p.offers \in Nat => None <= p.offers)
    BY DEF None
  <2> QED BY <1>3, <2>1 DEF Negotiation, Numbered
<1>5. ASSUME f.timeouts = 0
      PROVE  Outstanding(Q, T, f)
  BY <1>3, <1>5 DEF Negotiation
<1>6. ASSUME f.timeouts = 0
      PROVE  Publishing(Q, T, p2, f)
  <2>1. Publishing(P, T, p, f)
    BY <1>6 DEF Negotiation
  <2>2. \A i \in 1..Len(Q) : Q[i].type # "answer"
    <3>1. SUFFICES ASSUME NEW i \in 1..Len(Q), Q[i].type = "answer"
                   PROVE  FALSE
      OBVIOUS
    <3>2. i + 1 \in 1..Len(P) /\ Q[i] = P[i + 1] /\ 1 < i + 1
      BY <1>1, <1>2 DEF Dropped
    <3>3. P[1].type = "candidate"
      BY <1>1, <2>1, <3>1, <3>2 DEF Publishing
    <3> QED BY <1>1, <3>3
  <2>3. Live(p, P[1].id)
    BY <1>1, <2>1 DEF Publishing
  <2>4. \A k \in 1..Len(T) : T[k].type = "offer" => ~Live(p, T[k].id)
    BY <1>1, <2>1, <2>3 DEF Publishing, Live
  <2> QED BY <2>1, <2>2, <2>4 DEF Publishing
<1> QED BY <1>2, <1>4, <1>5, <1>6 DEF Negotiation

\* The subscribe offer is answered: it leaves the pipe and its answer is sent.
LEMMA Replied ==
    ASSUME NEW P, NEW T, NEW p, NEW p2, NEW f, NEW r, Negotiation(P, T, p, f),
           P # <<>>, Head(P).type = "offer", Head(P).id = r,
           p2.signalingState # "have-local-offer", p.signalingState # "have-local-offer",
           p2.localOffer = None, p2.offers = p.offers
    PROVE  Negotiation(Tail(P), Append(T, Reply(r, r)), p2, f)
<1>0. /\ P \in Seq(AllMessages) /\ f \in SfuTypes /\ T \in Seq(BrowserMessages)
      /\ p.offers \in Nat
  BY DEF Negotiation, Numbered
<1>1. /\ Len(P) \in Nat /\ 1 \in 1..Len(P) /\ Head(P) = P[1]
      /\ Tail(P) \in Seq(AllMessages) /\ Dropped(P, 1, Tail(P))
  BY <1>0, TailDrops
<1>2. PICK Q \in Seq(AllMessages) : Q = Tail(P)
  BY <1>1
<1>3. Negotiation(Q, T, p, f)
  BY <1>0, <1>1, <1>2, Consumed
<1>4. PICK m : m = Reply(r, r)
  OBVIOUS
<1>5. m \in BrowserMessages /\ m.type = "answer" /\ m.id = r /\ m.requestid = r /\ r # None
  <2>1. r \in RequestIds /\ r # None
    BY <1>0, <1>1, MessageTypes
  <2>2. r \in Nat
    BY <2>1, PccAssumption DEF RequestIds
  <2>3. m \in BrowserMessages
    BY <1>4, <2>2 DEF BrowserMessages
  <2> QED BY <1>4, <2>1, <2>3 DEF Reply
<1>6. PICK U : U = Append(T, m)
  OBVIOUS
<1>7. /\ U \in Seq(BrowserMessages) /\ Len(T) \in Nat /\ Len(U) = Len(T) + 1
      /\ \A k \in 1..Len(T) : U[k] = T[k]
      /\ U[Len(T) + 1] = m
  BY <1>0, <1>5, <1>6
<1>8. /\ \A k \in 1..Len(U) : k \in 1..Len(T) \/ k = Len(T) + 1
      /\ \A k, l \in 1..Len(U) : l < k => l \in 1..Len(T)
  BY <1>7
<1>9. Numbered(Q, U, p2, f)
  <2>0. Numbered(Q, T, p, f)
    BY <1>3 DEF Negotiation
  <2>1. \A k \in 1..Len(U) : U[k].type = "offer" => 1 <= U[k].id /\ U[k].id <= p2.offers
    BY <1>5, <1>7, <1>8, <2>0 DEF Numbered
  <2>2. \A k, l \in 1..Len(U) : U[k].type = "offer" /\ U[l].type = "offer" /\ U[k].id = U[l].id => k = l
    BY <1>5, <1>7, <1>8, <2>0 DEF Numbered
  <2>3. \A k \in 1..Len(U) : U[k].type = "answer" => U[k].requestid = U[k].id
    BY <1>5, <1>7, <1>8, <2>0 DEF Numbered
  <2>4. None \in Nat /\ None <= p.offers
    BY <1>0 DEF None
  <2> QED BY <1>0, <1>7, <2>0, <2>1, <2>2, <2>3, <2>4 DEF Numbered
<1>10. ASSUME f.timeouts = 0
       PROVE  Outstanding(Q, U, f) /\ Publishing(Q, U, p2, f)
  <2>1. Outstanding(P, T, f) /\ Publishing(P, T, p, f) /\ Outstanding(Q, T, f) /\ Publishing(Q, T, p, f)
    BY <1>3, <1>10 DEF Negotiation
  <2>2. \A i \in 1..Len(Q) : i + 1 \in 1..Len(P) /\ Q[i] = P[i + 1] /\ 1 < i + 1 /\ 1 # i + 1
    BY <1>1, <1>2 DEF Dropped
  <2>3. \A k \in 1..Len(T) : T[k].type = "offer"
    BY <1>1, <2>1 DEF Outstanding
  <2>4. \A i \in 1..Len(Q) : Q[i].type # "answer"
    <3>1. SUFFICES ASSUME NEW i \in 1..Len(Q), Q[i].type = "answer"
                   PROVE  FALSE
      OBVIOUS
    <3>2. P[1].type = "candidate"
      BY <1>1, <2>1, <2>2, <3>1 DEF Publishing
    <3> QED BY <1>1, <3>2
  <2>5. \A i \in 1..Len(Q) : Q[i].type # "offer"
    <3>1. SUFFICES ASSUME NEW i \in 1..Len(Q), Q[i].type = "offer"
                   PROVE  FALSE
      OBVIOUS
    <3>2. 1 = i + 1
      BY <1>1, <2>1, <2>2, <3>1 DEF Outstanding
    <3> QED BY <2>2, <3>2
  <2>6. r = f.offer
    BY <1>1, <2>1 DEF Outstanding
  <2>7. Outstanding(Q, U, f)
    <3>1. \A k \in 1..Len(U) : U[k].type = "answer" => U[k].id = f.offer /\ f.offer # None
      BY <1>5, <1>7, <1>8, <2>3, <2>6
    <3>2. \A k, l \in 1..Len(U) : U[k].type = "answer" /\ U[l].type = "answer" => k = l
      BY <1>7, <1>8, <2>3
    <3> QED BY <2>5, <3>1, <3>2 DEF Outstanding
  <2>8. Publishing(Q, U, p2, f)
    <3>1. \A k \in 1..Len(U) : U[k].type = "offer" /\ ~Live(p2, U[k].id) => f.offer # None
      BY <1>5, <2>6
    <3>2. \A k, l \in 1..Len(U) : U[k].type = "offer" /\ ~Live(p2, U[k].id) /\ l < k => U[l].type = "offer"
      BY <1>7, <1>8, <2>3
    <3> QED BY <2>4, <3>1, <3>2 DEF Publishing
  <2> QED BY <2>7, <2>8
<1> QED BY <1>2, <1>4, <1>6, <1>9, <1>10 DEF Negotiation

\* A sequence and what is appended to it.
LEMMA AppendAdds ==
    ASSUME NEW S, NEW P \in Seq(S), NEW m \in S
    PROVE  /\ Append(P, m) \in Seq(S) /\ Len(P) \in Nat /\ Len(Append(P, m)) = Len(P) + 1
           /\ \A i \in 1..Len(P) : Append(P, m)[i] = P[i]
           /\ Append(P, m)[Len(P) + 1] = m
           /\ \A i \in 1..Len(Append(P, m)) : i \in 1..Len(P) \/ i = Len(P) + 1
           /\ \A i, j \in 1..Len(Append(P, m)) : j < i => j \in 1..Len(P)
<1>1. /\ Append(P, m) \in Seq(S) /\ Len(P) \in Nat /\ Len(Append(P, m)) = Len(P) + 1
      /\ \A i \in 1..Len(P) : Append(P, m)[i] = P[i]
      /\ Append(P, m)[Len(P) + 1] = m
  OBVIOUS
<1> QED BY <1>1

\* The engine makes its next subscribe offer.
LEMMA EngineOffers ==
    ASSUME NEW P, NEW T, NEW p, NEW f, NEW f2 \in SfuTypes, NEW r, Negotiation(P, T, p, f),
           f.offer = None, r \in 1..MaxSfuOffers, f2.offer = r, f2.timeouts = f.timeouts
    PROVE  Negotiation(Append(P, Offer(r)), T, p, f2)
<1>0. /\ P \in Seq(AllMessages) /\ T \in Seq(BrowserMessages)
  BY DEF Negotiation, Numbered
<1>1. PICK m : m = Offer(r)
  OBVIOUS
<1>2. m \in AllMessages /\ m.type = "offer" /\ m.id = r /\ r # None
  <2>1. m \in AllMessages
    BY <1>1 DEF AllMessages
  <2>2. r # None
    BY PccAssumption DEF None
  <2> QED BY <1>1, <2>1, <2>2 DEF Offer
<1>3. PICK Q : Q = Append(P, m)
  OBVIOUS
<1>4. /\ Q \in Seq(AllMessages) /\ Len(P) \in Nat /\ Len(Q) = Len(P) + 1
      /\ \A i \in 1..Len(P) : Q[i] = P[i]
      /\ Q[Len(P) + 1] = m
      /\ \A i \in 1..Len(Q) : i \in 1..Len(P) \/ i = Len(P) + 1
      /\ \A i, j \in 1..Len(Q) : j < i => j \in 1..Len(P)
  BY <1>0, <1>2, <1>3, AppendAdds
<1>5. Numbered(Q, T, p, f2)
  <2>0. Numbered(P, T, p, f)
    BY DEF Negotiation
  <2>1. \A i \in 1..Len(Q) : Q[i].type = "answer" => 1 <= Q[i].id /\ Q[i].id <= p.offers
    BY <1>2, <1>4, <2>0 DEF Numbered
  <2> QED BY <1>4, <2>0, <2>1 DEF Numbered
<1>6. ASSUME f.timeouts = 0
      PROVE  Outstanding(Q, T, f2) /\ Publishing(Q, T, p, f2)
  <2>0. Outstanding(P, T, f) /\ Publishing(P, T, p, f)
    BY <1>6 DEF Negotiation
  <2>1. \A k \in 1..Len(T) : T[k].type = "offer"
    <3>1. ASSUME NEW k \in 1..Len(T)
          PROVE  T[k].type = "offer"
      <4>1. T[k] \in BrowserMessages
        BY <1>0
      <4> QED BY <2>0, <4>1, BrowserTypes DEF Outstanding
    <3> QED BY <3>1
  <2>2. \A i \in 1..Len(P) : P[i].type # "offer"
    <3>1. SUFFICES ASSUME NEW i \in 1..Len(P), P[i].type = "offer"
                   PROVE  FALSE
      OBVIOUS
    <3>2. P[i] \in AllMessages
      BY <1>0
    <3>3. P[i].id # None
      BY <3>1, <3>2, MessageTypes
    <3> QED BY <2>0, <3>1, <3>3 DEF Outstanding
  <2>3. Outstanding(Q, T, f2)
    <3>1. \A i \in 1..Len(Q) : Q[i].type = "offer" => Q[i].id = f2.offer
      BY <1>2, <1>4, <2>2
    <3>2. \A i, j \in 1..Len(Q) : Q[i].type = "offer" /\ Q[j].type = "offer" => i = j
      BY <1>4, <2>2
    <3> QED BY <2>1, <3>1, <3>2 DEF Outstanding
  <2>4. Publishing(Q, T, p, f2)
    <3>1. \A i \in 1..Len(Q) : Q[i].type = "answer" => i \in 1..Len(P)
      BY <1>2, <1>4
    <3>2. \A i \in 1..Len(Q) : Q[i].type = "answer" => Live(p, Q[i].id)
      BY <1>4, <2>0, <3>1 DEF Publishing
    <3>3. ASSUME NEW i \in 1..Len(Q), NEW j \in 1..Len(Q), Q[i].type = "answer", j < i
          PROVE  Q[j].type = "candidate"
      <4>1. i \in 1..Len(P) /\ j \in 1..Len(P) /\ Q[i] = P[i] /\ Q[j] = P[j]
        BY <1>4, <3>1, <3>3
      <4> QED BY <2>0, <3>3, <4>1 DEF Publishing
    <3>4. \A i \in 1..Len(Q) : \A k \in 1..Len(T) :
              Q[i].type = "answer" /\ T[k].type = "offer" => T[k].id # Q[i].id
      BY <1>4, <2>0, <3>1 DEF Publishing
    <3>5. f2.offer # None
      BY <1>2
    <3> QED BY <2>1, <3>2, <3>3, <3>4, <3>5 DEF Publishing
  <2> QED BY <2>3, <2>4
<1> QED BY <1>1, <1>3, <1>5, <1>6 DEF Negotiation

\* The engine sends a candidate.
LEMMA EngineTrickles ==
    ASSUME NEW P, NEW T, NEW p, NEW f, NEW f2 \in SfuTypes, Negotiation(P, T, p, f),
           f2.offer = f.offer, f2.timeouts = f.timeouts
    PROVE  Negotiation(Append(P, Candidate), T, p, f2)
<1>0. /\ P \in Seq(AllMessages) /\ T \in Seq(BrowserMessages)
  BY DEF Negotiation, Numbered
<1>1. PICK m : m = Candidate
  OBVIOUS
<1>2. m \in AllMessages /\ m.type = "candidate"
  BY <1>1 DEF AllMessages, Candidate
<1>3. PICK Q : Q = Append(P, m)
  OBVIOUS
<1>4. /\ Q \in Seq(AllMessages) /\ Len(P) \in Nat /\ Len(Q) = Len(P) + 1
      /\ \A i \in 1..Len(P) : Q[i] = P[i]
      /\ Q[Len(P) + 1] = m
      /\ \A i \in 1..Len(Q) : i \in 1..Len(P) \/ i = Len(P) + 1
      /\ \A i, j \in 1..Len(Q) : j < i => j \in 1..Len(P)
  BY <1>0, <1>2, <1>3, AppendAdds
<1>5. Numbered(Q, T, p, f2)
  <2>0. Numbered(P, T, p, f)
    BY DEF Negotiation
  <2>1. \A i \in 1..Len(Q) : Q[i].type = "answer" => 1 <= Q[i].id /\ Q[i].id <= p.offers
    BY <1>2, <1>4, <2>0 DEF Numbered
  <2> QED BY <1>4, <2>0, <2>1 DEF Numbered
<1>6. ASSUME f.timeouts = 0
      PROVE  Outstanding(Q, T, f2) /\ Publishing(Q, T, p, f2)
  <2>0. Outstanding(P, T, f) /\ Publishing(P, T, p, f)
    BY <1>6 DEF Negotiation
  <2>1. \A i \in 1..Len(Q) : Q[i].type # "candidate" => i \in 1..Len(P) /\ Q[i] = P[i]
    BY <1>2, <1>4
  <2>3. Outstanding(Q, T, f2)
    <3>1. \A i \in 1..Len(Q) : Q[i].type = "offer" => Q[i].id = f2.offer
      BY <2>0, <2>1 DEF Outstanding
    <3>2. \A i, j \in 1..Len(Q) : Q[i].type = "offer" /\ Q[j].type = "offer" => i = j
      BY <2>0, <2>1 DEF Outstanding
    <3>3. \A i \in 1..Len(Q) : \A k \in 1..Len(T) : Q[i].type = "offer" => T[k].type = "offer"
      BY <2>0, <2>1 DEF Outstanding
    <3> QED BY <2>0, <3>1, <3>2, <3>3 DEF Outstanding
  <2>4. Publishing(Q, T, p, f2)
    <3>2. \A i \in 1..Len(Q) : Q[i].type = "answer" => Live(p, Q[i].id)
      BY <2>0, <2>1 DEF Publishing
    <3>3. ASSUME NEW i \in 1..Len(Q), NEW j \in 1..Len(Q), Q[i].type = "answer", j < i
          PROVE  Q[j].type = "candidate"
      <4>1. i \in 1..Len(P) /\ j \in 1..Len(P) /\ Q[i] = P[i] /\ Q[j] = P[j]
        BY <1>4, <2>1, <3>3
      <4> QED BY <2>0, <3>3, <4>1 DEF Publishing
    <3>4. \A i \in 1..Len(Q) : \A k \in 1..Len(T) :
              Q[i].type = "answer" /\ T[k].type = "offer" => T[k].id # Q[i].id
      BY <2>0, <2>1 DEF Publishing
    <3> QED BY <2>0, <3>2, <3>3, <3>4 DEF Publishing
  <2> QED BY <2>3, <2>4
<1> QED BY <1>1, <1>3, <1>5, <1>6 DEF Negotiation

\* U is T without its first message.
Taken(T, U) ==
    /\ 1 \in 1..Len(T) /\ Head(T) = T[1] /\ T[1] \in BrowserMessages
    /\ \A k \in 1..Len(U) : k + 1 \in 1..Len(T) /\ U[k] = T[k + 1] /\ 1 < k + 1 /\ k + 1 # 1
    /\ \A k, l \in 1..Len(U) : k + 1 = l + 1 => k = l
    /\ \A k, l \in 1..Len(U) : l < k => l + 1 < k + 1

\* The engine takes a message of the browser, whatever it does with it.
LEMMA TakenNumbered ==
    ASSUME NEW P, NEW T, NEW U, NEW p, NEW f, Numbered(P, T, p, f), T # <<>>, U = Tail(T)
    PROVE  Numbered(P, U, p, f) /\ Taken(T, U)
<1>0. T \in Seq(BrowserMessages)
  BY DEF Numbered
<1>1. /\ Len(T) \in Nat /\ 1 \in 1..Len(T) /\ Head(T) = T[1]
      /\ U \in Seq(BrowserMessages) /\ Dropped(T, 1, U)
  BY <1>0, TailDrops
<1>2. /\ \A k \in 1..Len(U) : k + 1 \in 1..Len(T) /\ U[k] = T[k + 1] /\ 1 < k + 1 /\ k + 1 # 1
      /\ \A k, l \in 1..Len(U) : k + 1 = l + 1 => k = l
      /\ \A k, l \in 1..Len(U) : l < k => l + 1 < k + 1
  BY <1>1 DEF Dropped
<1>3. Numbered(P, U, p, f)
  <2>1. \A k \in 1..Len(U) : U[k].type = "offer" => 1 <= U[k].id /\ U[k].id <= p.offers
    BY <1>2 DEF Numbered
  <2>2. ASSUME NEW k \in 1..Len(U), NEW l \in 1..Len(U), U[k].type = "offer", U[l].type = "offer", U[k].id = U[l].id
        PROVE  k = l
    <3>1. k + 1 = l + 1
      BY <1>2, <2>2 DEF Numbered
    <3> QED BY <1>2, <3>1
  <2>3. \A k \in 1..Len(U) : U[k].type = "answer" => U[k].requestid = U[k].id
    BY <1>2 DEF Numbered
  <2> QED BY <1>1, <2>1, <2>2, <2>3 DEF Numbered
<1> QED BY <1>0, <1>1, <1>2, <1>3 DEF Taken

\* It rejects a publish offer that collides with its own.
LEMMA EngineIgnores ==
    ASSUME NEW P, NEW T, NEW p, NEW f, Negotiation(P, T, p, f), T # <<>>
    PROVE  Negotiation(P, Tail(T), p, f)
<1>0. PICK U : U = Tail(T)
  OBVIOUS
<1>1. /\ Numbered(P, U, p, f)
      /\ \A k \in 1..Len(U) : k + 1 \in 1..Len(T) /\ U[k] = T[k + 1]
      /\ \A k, l \in 1..Len(U) : k + 1 = l + 1 => k = l
      /\ \A k, l \in 1..Len(U) : l < k => l + 1 < k + 1
  <2>1. Numbered(P, U, p, f) /\ Taken(T, U)
    BY <1>0, TakenNumbered DEF Negotiation
  <2> QED BY <2>1 DEF Taken
<1>2. ASSUME f.timeouts = 0
      PROVE  Outstanding(P, U, f) /\ Publishing(P, U, p, f)
  <2>0. Outstanding(P, T, f) /\ Publishing(P, T, p, f)
    BY <1>2 DEF Negotiation
  <2>1. \A i \in 1..Len(P) : \A k \in 1..Len(U) : P[i].type = "offer" => U[k].type = "offer"
    BY <1>1, <2>0 DEF Outstanding
  <2>2. \A k \in 1..Len(U) : U[k].type = "answer" => U[k].id = f.offer /\ f.offer # None
    BY <1>1, <2>0 DEF Outstanding
  <2>3. ASSUME NEW k \in 1..Len(U), NEW l \in 1..Len(U), U[k].type = "answer", U[l].type = "answer"
        PROVE  k = l
    <3>1. k + 1 = l + 1
      BY <1>1, <2>0, <2>3 DEF Outstanding
    <3> QED BY <1>1, <3>1
  <2>4. \A i \in 1..Len(P) : \A k \in 1..Len(U) :
            P[i].type = "answer" /\ U[k].type = "offer" => U[k].id # P[i].id
    BY <1>1, <2>0 DEF Publishing
  <2>5. \A k \in 1..Len(U) : U[k].type = "offer" /\ ~Live(p, U[k].id) => f.offer # None
    BY <1>1, <2>0 DEF Publishing
  <2>6. ASSUME NEW k \in 1..Len(U), NEW l \in 1..Len(U), U[k].type = "offer", ~Live(p, U[k].id), l < k
        PROVE  U[l].type = "offer"
    <3>1. k + 1 \in 1..Len(T) /\ l + 1 \in 1..Len(T) /\ U[k] = T[k + 1] /\ U[l] = T[l + 1] /\ l + 1 < k + 1
      BY <1>1, <2>6
    <3> QED BY <2>0, <2>6, <3>1 DEF Publishing
  <2> QED BY <2>0, <2>1, <2>2, <2>3, <2>4, <2>5, <2>6 DEF Outstanding, Publishing
<1> QED BY <1>0, <1>1, <1>2 DEF Negotiation

\* It answers a publish offer while none of its own is outstanding.
LEMMA EngineAnswers ==
    ASSUME NEW P, NEW T, NEW p, NEW f, Negotiation(P, T, p, f), T # <<>>,
           Head(T).type = "offer", f.offer = None
    PROVE  Negotiation(Append(P, Answer(Head(T).id)), Tail(T), p, f)
<1>0. PICK U : U = Tail(T)
  OBVIOUS
<1>1. /\ Numbered(P, U, p, f)
      /\ 1 \in 1..Len(T) /\ Head(T) = T[1] /\ T[1] \in BrowserMessages
      /\ \A k \in 1..Len(U) : k + 1 \in 1..Len(T) /\ U[k] = T[k + 1] /\ 1 < k + 1 /\ k + 1 # 1
  <2>1. Numbered(P, U, p, f) /\ Taken(T, U)
    BY <1>0, TakenNumbered DEF Negotiation
  <2> QED BY <2>1 DEF Taken
<1>2. PICK o : o = Head(T).id
  OBVIOUS
<1>3. o \in Nat /\ 1 <= o /\ o <= p.offers
  <2>1. o \in Nat
    BY <1>1, <1>2, BrowserTypes
  <2> QED BY <1>1, <1>2, <2>1 DEF Negotiation, Numbered
<1>4. PICK m : m = Answer(o)
  OBVIOUS
<1>5. m \in AllMessages /\ m.type = "answer" /\ m.id = o
  BY <1>3, <1>4 DEF AllMessages, Answer
<1>6. PICK Q : Q = Append(P, m)
  OBVIOUS
<1>7. P \in Seq(AllMessages)
  BY DEF Negotiation, Numbered
<1>8. /\ Q \in Seq(AllMessages) /\ Len(P) \in Nat /\ Len(Q) = Len(P) + 1
      /\ \A i \in 1..Len(P) : Q[i] = P[i]
      /\ Q[Len(P) + 1] = m
      /\ \A i \in 1..Len(Q) : i \in 1..Len(P) \/ i = Len(P) + 1
      /\ \A i, j \in 1..Len(Q) : j < i => j \in 1..Len(P)
  BY <1>5, <1>6, <1>7, AppendAdds
<1>9. Numbered(Q, U, p, f)
  <2>1. \A i \in 1..Len(Q) : Q[i].type = "answer" => 1 <= Q[i].id /\ Q[i].id <= p.offers
    BY <1>1, <1>3, <1>5, <1>8 DEF Numbered
  <2> QED BY <1>1, <1>8, <2>1 DEF Numbered
<1>10. ASSUME f.timeouts = 0
       PROVE  Outstanding(Q, U, f) /\ Publishing(Q, U, p, f)
  <2>0. Outstanding(P, T, f) /\ Publishing(P, T, p, f)
    BY <1>10 DEF Negotiation
  <2>1. Negotiation(P, U, p, f)
    BY <1>0, EngineIgnores
  <2>2. Outstanding(P, U, f) /\ Publishing(P, U, p, f)
    BY <1>10, <2>1 DEF Negotiation
  <2>3. Live(p, o)
    BY <1>1, <1>2, <2>0 DEF Publishing
  <2>4. \A i \in 1..Len(P) : P[i].type = "candidate"
    <3>1. SUFFICES ASSUME NEW i \in 1..Len(P), P[i].type # "candidate"
                   PROVE  FALSE
      OBVIOUS
    <3>2. P[i] \in AllMessages
      BY <1>7
    <3>3. P[i].type # "offer"
      BY <2>0, <3>2, MessageTypes DEF Outstanding
    <3>4. P[i].type = "answer"
      BY <3>1, <3>2, <3>3, MessageTypes
    <3>5. Live(p, P[i].id)
      BY <2>0, <3>4 DEF Publishing
    <3>6. P[i].id = o
      BY <2>3, <3>5 DEF Live
    <3>7. T[1].id # P[i].id
      BY <1>1, <2>0, <3>4 DEF Publishing
    <3> QED BY <1>1, <1>2, <3>6, <3>7
  <2>5. \A i \in 1..Len(Q) : Q[i].type # "candidate" => i = Len(P) + 1 /\ Q[i] = m
    BY <1>8, <2>4
  <2>6. Outstanding(Q, U, f)
    <3>1. \A i \in 1..Len(Q) : Q[i].type # "offer"
      BY <1>5, <2>5
    <3> QED BY <2>2, <3>1 DEF Outstanding
  <2>7. Publishing(Q, U, p, f)
    <3>1. \A i \in 1..Len(Q) : Q[i].type = "answer" => Live(p, Q[i].id)
      BY <1>5, <2>3, <2>5
    <3>2. \A i, j \in 1..Len(Q) : Q[i].type = "answer" /\ j < i => Q[j].type = "candidate"
      BY <1>8, <2>4
    <3>3. ASSUME NEW i \in 1..Len(Q), NEW k \in 1..Len(U), Q[i].type = "answer", U[k].type = "offer"
          PROVE  U[k].id # Q[i].id
      <4>1. k + 1 \in 1..Len(T) /\ U[k] = T[k + 1] /\ k + 1 # 1
        BY <1>1
      <4>2. T[k + 1].id # T[1].id
        BY <1>1, <3>3, <4>1 DEF Negotiation, Numbered
      <4>3. Q[i].id = o
        BY <1>5, <2>5, <3>3
      <4> QED BY <1>1, <1>2, <4>1, <4>2, <4>3
    <3> QED BY <2>2, <3>1, <3>2, <3>3 DEF Publishing
  <2> QED BY <2>6, <2>7
<1> QED BY <1>0, <1>2, <1>4, <1>6, <1>9, <1>10 DEF Negotiation

\* It takes the browser's answer, and its own offer is concluded if it names it.
LEMMA EngineConcludes ==
    ASSUME NEW P, NEW T, NEW p, NEW f, NEW f2 \in SfuTypes, Negotiation(P, T, p, f), T # <<>>,
           Head(T).type # "offer", f2.timeouts = f.timeouts,
           f2.offer = IF Head(T).requestid = f.offer THEN None ELSE f.offer
    PROVE  Negotiation(P, Tail(T), p, f2)
<1>0. PICK U : U = Tail(T)
  OBVIOUS
<1>1. /\ Numbered(P, U, p, f)
      /\ 1 \in 1..Len(T) /\ Head(T) = T[1] /\ T[1] \in BrowserMessages
      /\ \A k \in 1..Len(U) : k + 1 \in 1..Len(T) /\ U[k] = T[k + 1] /\ 1 < k + 1 /\ k + 1 # 1
  <2>1. Numbered(P, U, p, f) /\ Taken(T, U)
    BY <1>0, TakenNumbered DEF Negotiation
  <2> QED BY <2>1 DEF Taken
<1>2. T[1].type = "answer"
  BY <1>1, BrowserTypes
<1>3. Numbered(P, U, p, f2)
  BY <1>1 DEF Numbered
<1>4. ASSUME f.timeouts = 0
      PROVE  Outstanding(P, U, f2) /\ Publishing(P, U, p, f2)
  <2>0. Outstanding(P, T, f) /\ Publishing(P, T, p, f)
    BY <1>4 DEF Negotiation
  <2>1. \A i \in 1..Len(P) : P[i].type # "offer"
    BY <1>1, <1>2, <2>0 DEF Outstanding
  <2>2. ASSUME NEW k \in 1..Len(U)
        PROVE  U[k].type # "answer"
    <3>1. k + 1 \in 1..Len(T) /\ U[k] = T[k + 1] /\ k + 1 # 1
      BY <1>1
    <3> QED BY <1>1, <1>2, <2>0, <3>1 DEF Outstanding
  <2>3. ASSUME NEW k \in 1..Len(U), U[k].type = "offer"
        PROVE  Live(p, U[k].id)
    <3>1. k + 1 \in 1..Len(T) /\ U[k] = T[k + 1] /\ 1 < k + 1
      BY <1>1
    <3> QED BY <1>1, <1>2, <2>0, <2>3, <3>1 DEF Publishing
  <2>4. \A i \in 1..Len(P) : \A k \in 1..Len(U) :
            P[i].type = "answer" /\ U[k].type = "offer" => U[k].id # P[i].id
    BY <1>1, <2>0 DEF Publishing
  <2>5. Outstanding(P, U, f2)
    BY <2>1, <2>2 DEF Outstanding
  <2>6. Publishing(P, U, p, f2)
    BY <2>0, <2>3, <2>4 DEF Publishing
  <2> QED BY <2>5, <2>6
<1> QED BY <1>0, <1>3, <1>4 DEF Negotiation

-----------------------------------------------------------------------------
(* The pipe as the client consumes it.                                      *)

LEMMA PipeHead ==
    ASSUME NEW S, NEW b \in Seq(S), NEW q \in Seq(S), NEW w \in Seq(S), b # <<>>
    PROVE  LET P == (b \o q) \o w
           IN  P \in Seq(S) /\ P # <<>> /\ Head(P) = Head(b) /\ Tail(P) = (Tail(b) \o q) \o w
<1>1. Len(b) \in Nat /\ Len(b) # 0 /\ Len(q) \in Nat /\ Len(w) \in Nat
  OBVIOUS
<1>2. PICK c : c = b \o q
  OBVIOUS
<1>3. c \in Seq(S) /\ Len(c) = Len(b) + Len(q) /\ c # <<>> /\ Head(c) = Head(b)
  <2>1. c \in Seq(S) /\ Len(c) = Len(b) + Len(q)
    BY <1>2
  <2>2. Len(c) # 0
    BY <1>1, <2>1
  <2>3. c # <<>>
    BY <2>2
  <2>4. c[1] = b[1]
    BY <1>1, <1>2
  <2> QED BY <2>1, <2>3, <2>4
<1>4. Tail(c) = Tail(b) \o q
  BY <1>1, <1>2
<1>5. Head(c \o w) = Head(c) /\ c \o w # <<>> /\ c \o w \in Seq(S)
  <2>0. Len(c) \in Nat /\ Len(c) # 0
    BY <1>1, <1>3
  <2>1. c \o w \in Seq(S) /\ Len(c \o w) = Len(c) + Len(w)
    BY <1>3
  <2>2. Len(c \o w) # 0
    BY <1>1, <2>0, <2>1
  <2>3. c \o w # <<>>
    BY <2>2
  <2>4. (c \o w)[1] = c[1]
    BY <1>3, <2>0
  <2> QED BY <1>3, <2>1, <2>3, <2>4
<1>6. Tail(c \o w) = Tail(c) \o w
  <2>0. Len(c) \in Nat /\ Len(c) # 0
    BY <1>1, <1>3
  <2> QED BY <1>3, <2>0
<1> QED BY <1>2, <1>3, <1>4, <1>5, <1>6

LEMMA PipeDrop ==
    ASSUME NEW S, NEW b \in Seq(S), NEW q \in Seq(S), NEW w \in Seq(S)
    PROVE  /\ q \o w \in Seq(S) /\ (b \o q) \o w \in Seq(S)
           /\ Dropped((b \o q) \o w, Len(b), q \o w)
<1>0. Len(b) \in Nat /\ Len(q) \in Nat /\ Len(w) \in Nat
  OBVIOUS
<1>1. (b \o q) \o w = b \o (q \o w)
  BY ConcatAssociative
<1>2. PICK c \in Seq(S) : c = q \o w
  <2>1. q \o w \in Seq(S)
    OBVIOUS
  <2> QED BY <2>1
<1>3. Len(c) \in Nat /\ Len(b \o c) = Len(b) + Len(c)
  OBVIOUS
<1>4. \A i \in 1..Len(c) : (b \o c)[i + Len(b)] = c[i]
  BY <1>0, <1>3
<1>5. Dropped(b \o c, Len(b), c)
  BY <1>0, <1>3, <1>4 DEF Dropped
<1> QED BY <1>1, <1>2, <1>5

LEMMA PipeShift ==
    ASSUME NEW S, NEW b \in Seq(S), NEW q \in Seq(S), NEW w \in Seq(S), w # <<>>
    PROVE  (b \o Append(q, Head(w))) \o Tail(w) = (b \o q) \o w
<1>1. PICK h \in S : h = Head(w)
  OBVIOUS
<1>2. PICK u \in Seq(S) : u = Tail(w)
  <2>1. Tail(w) \in Seq(S)
    OBVIOUS
  <2> QED BY <2>1
<1>3. <<h>> \in Seq(S) /\ <<h>> \o u = w
  BY <1>1, <1>2
<1>4. Append(q, h) = q \o <<h>>
  OBVIOUS
<1>5. b \o (q \o <<h>>) = (b \o q) \o <<h>> /\ b \o q \in Seq(S)
  BY <1>3, ConcatAssociative
<1>6. ((b \o q) \o <<h>>) \o u = (b \o q) \o (<<h>> \o u)
  BY <1>3, <1>5, ConcatAssociative
<1> QED BY <1>1, <1>2, <1>3, <1>4, <1>5, <1>6

-----------------------------------------------------------------------------
(* Every step keeps the invariant.                                          *)

LEMMA ClientFields ==
    ASSUME ClientFits(Client)
    PROVE  /\ cl \in ClTypes /\ queue \in Seq(AllMessages) /\ batch \in Seq(AllMessages)
           /\ offering \in [step : OfferSteps, rev : Nat] /\ draining \in DrainSteps
           /\ pc \in PcTypes /\ ops \in Seq({"offer", "drain"})
           /\ cl.started \in BOOLEAN /\ cl.isDrainingMessages \in BOOLEAN /\ cl.makingOffer \in BOOLEAN
<1>1. Client \in ClientTypes
  BY DEF ClientFits
<1>2. /\ Client.cl = cl /\ Client.queue = queue /\ Client.batch = batch /\ Client.offering = offering
      /\ Client.draining = draining /\ Client.pc = pc /\ Client.ops = ops
  BY DEF Client
<1> QED BY <1>1, <1>2, Fields

LEMMA Rebuilt ==
    ASSUME NEW t, ClientFits(t)
    PROVE  ClientFits([cl |-> t.cl, queue |-> t.queue, batch |-> t.batch, offering |-> t.offering,
                       draining |-> t.draining, pc |-> t.pc, ops |-> t.ops, out |-> <<>>])
<1>1. PICK r : r = [cl |-> t.cl, queue |-> t.queue, batch |-> t.batch, offering |-> t.offering,
                    draining |-> t.draining, pc |-> t.pc, ops |-> t.ops, out |-> <<>>]
  OBVIOUS
<1>2. /\ r.cl = t.cl /\ r.queue = t.queue /\ r.batch = t.batch /\ r.offering = t.offering
      /\ r.draining = t.draining /\ r.pc = t.pc /\ r.ops = t.ops
  BY <1>1
<1>3. r \in ClientTypes
  <2>1. t \in ClientTypes
    BY DEF ClientFits
  <2>2. <<>> \in Seq(BrowserMessages)
    OBVIOUS
  <2>3. PICK e \in Seq(BrowserMessages) : e = <<>>
    BY <2>2
  <2>4. r = [cl |-> t.cl, queue |-> t.queue, batch |-> t.batch, offering |-> t.offering,
             draining |-> t.draining, pc |-> t.pc, ops |-> t.ops, out |-> e]
    BY <1>1, <2>3
  <2> QED BY <2>1, <2>4, Fields DEF ClientTypes
<1>4. OfferingFits(r, r.cl.isDrainingMessages)
  BY <1>2 DEF ClientFits, OfferingFits
<1>5. DrainingFits(r)
  BY <1>2 DEF ClientFits, DrainingFits
<1> QED BY <1>1, <1>3, <1>4, <1>5 DEF ClientFits

\* A step of the client.
LEMMA ClientStep ==
    ASSUME NEW t, ClientFits(t), Become(t), toBrowser' \in Seq(AllMessages),
           Negotiation((t.batch \o t.queue) \o toBrowser', toSfu \o t.out, t.pc, sfu')
    PROVE  Inv'
<1>1. /\ cl' = t.cl /\ queue' = t.queue /\ batch' = t.batch /\ offering' = t.offering
      /\ draining' = t.draining /\ pc' = t.pc /\ ops' = t.ops /\ toSfu' = toSfu \o t.out
  BY DEF Become
<1>2. ClientFits(Client')
  <2>1. Client' = [cl |-> t.cl, queue |-> t.queue, batch |-> t.batch, offering |-> t.offering,
                   draining |-> t.draining, pc |-> t.pc, ops |-> t.ops, out |-> <<>>]
    BY <1>1 DEF Client
  <2> QED BY <2>1, Rebuilt
<1>3. Negotiation(Pipe', toSfu', pc', sfu')
  BY <1>1 DEF Pipe
<1> QED BY <1>2, <1>3 DEF Inv

\* The draining chain does not see the offering chain.
LEMMA DrainingKept ==
    ASSUME NEW s, NEW t, DrainingFits(s), SameDraining(s, t)
    PROVE  DrainingFits(t)
BY DEF DrainingFits, SameDraining

\* A step of the offering chain that leaves the connection and the engine alone.
LEMMA QuietStep ==
    ASSUME Inv, NEW t, ClientFits(t), Become(t), t.out = <<>>,
           t.batch = batch, t.queue = queue, toBrowser' = toBrowser, sfu' = sfu,
           t.pc.signalingState = pc.signalingState, t.pc.localOffer = pc.localOffer,
           t.pc.offers = pc.offers
    PROVE  Inv'
<1>1. Negotiation(Pipe, toSfu, pc, sfu) /\ toBrowser \in Seq(AllMessages)
  BY DEF Inv
<1>2. /\ Pipe \in Seq(AllMessages) /\ sfu \in SfuTypes /\ toSfu \in Seq(BrowserMessages)
  BY <1>1 DEF Negotiation, Numbered
<1>3. Dropped(Pipe, 0, Pipe)
  <2>1. Len(Pipe) \in Nat
    BY <1>2
  <2>2. 0 \in 0..Len(Pipe) /\ Len(Pipe) = Len(Pipe) - 0 /\ \A i \in 1..Len(Pipe) : i + 0 = i
    BY <2>1
  <2> QED BY <2>2 DEF Dropped
<1>4. Negotiation(Pipe, toSfu, t.pc, sfu)
  <2>1. PICK P \in Seq(AllMessages) : P = Pipe
    BY <1>2
  <2>2. Negotiation(P, toSfu, pc, sfu) /\ Dropped(P, 0, P)
    BY <1>1, <1>3, <2>1
  <2>3. Negotiation(P, toSfu, t.pc, sfu)
    BY <1>2, <2>2, Consumed
  <2> QED BY <2>1, <2>3
<1>5. toSfu \o t.out = toSfu
  BY <1>2, ConcatEmptySeq
<1>6. Negotiation((t.batch \o t.queue) \o toBrowser', toSfu \o t.out, t.pc, sfu')
  BY <1>4, <1>5 DEF Pipe
<1> QED BY <1>1, <1>6, ClientStep

LEMMA StartAsCallerStep ==
    ASSUME Inv, StartAsCaller
    PROVE  Inv'
<1>0. ClientFits(Client) /\ Client \in ClientTypes
  BY DEF Inv, ClientFits
<1>1. /\ Client.cl = cl /\ Client.queue = queue /\ Client.batch = batch /\ Client.offering = offering
      /\ Client.draining = draining /\ Client.pc = pc /\ Client.ops = ops /\ Client.out = <<>>
  BY DEF Client
<1>2. PICK c : c = [cl EXCEPT !.started = TRUE]
  OBVIOUS
<1>3. c \in ClTypes
  BY <1>0, <1>1, <1>2, Fields, ClUpdates
<1>4. PICK u : u = [Client EXCEPT !.cl = c]
  OBVIOUS
<1>5. u \in ClientTypes
  BY <1>0, <1>3, <1>4, ClientUpdates, Fields
<1>6. /\ u.cl = c /\ u.queue = queue /\ u.batch = batch /\ u.offering = offering
      /\ u.draining = draining /\ u.pc = pc /\ u.ops = ops /\ u.out = <<>>
  BY <1>4 DEF Client
<1>7. /\ c.started = TRUE /\ c.isDrainingMessages = cl.isDrainingMessages
      /\ c.makingOffer = cl.makingOffer /\ c.pendingRemoteRequestId = cl.pendingRemoteRequestId
  BY <1>0, <1>2, ClientFields DEF ClTypes
<1>8. ~cl.started
  BY DEF StartAsCaller
<1>9. OfferingFits(u, cl.isDrainingMessages) /\ DrainingFits(u) /\ u.pc.signalingState = "stable"
  <2>1. OfferingFits(u, cl.isDrainingMessages)
    BY <1>0, <1>1, <1>6, <1>7 DEF ClientFits, OfferingFits
  <2>2. DrainingFits(u)
    BY <1>0, <1>1, <1>6, <1>7 DEF ClientFits, DrainingFits
  <2>3. u.pc.signalingState = "stable"
    BY <1>0, <1>1, <1>6, <1>8 DEF ClientFits, DrainingFits
  <2> QED BY <2>1, <2>2, <2>3
<1>10. PICK t : t = makeOffer(u)
  OBVIOUS
<1>11. t \in ClientTypes /\ OfferingFits(t, cl.isDrainingMessages) /\ SameDraining(u, t)
  BY <1>0, <1>5, <1>6, <1>7, <1>9, <1>10, MakeOfferFits, ClientFields
<1>12. ClientFits(t)
  <2>1. DrainingFits(t)
    BY <1>9, <1>11, DrainingKept
  <2>2. t.cl.isDrainingMessages = cl.isDrainingMessages
    BY <1>6, <1>7, <1>11 DEF SameDraining
  <2> QED BY <1>11, <2>1, <2>2 DEF ClientFits
<1>13. Become(t) /\ toBrowser' = toBrowser /\ sfu' = sfu
  BY <1>1, <1>2, <1>4, <1>10 DEF StartAsCaller
<1>14. t.batch = batch /\ t.queue = queue /\ t.out = <<>> /\ t.pc = pc
  BY <1>6, <1>11 DEF SameDraining
<1> QED BY <1>12, <1>13, <1>14, QuietStep

LEMMA NegotiationNeededStep ==
    ASSUME Inv, onNegotiationNeeded
    PROVE  Inv'
<1>0. ClientFits(Client) /\ Client \in ClientTypes
  BY DEF Inv, ClientFits
<1>1. /\ Client.cl = cl /\ Client.queue = queue /\ Client.batch = batch /\ Client.offering = offering
      /\ Client.draining = draining /\ Client.pc = pc /\ Client.ops = ops /\ Client.out = <<>>
  BY DEF Client
<1>2. PICK p : p = [pc EXCEPT !.notified = TRUE]
  OBVIOUS
<1>3. /\ p \in PcTypes /\ p.signalingState = pc.signalingState /\ p.localOffer = pc.localOffer
      /\ p.offers = pc.offers /\ p.remoteOffer = pc.remoteOffer
  BY <1>0, <1>2, ClientFields DEF PcTypes
<1>4. PICK u : u = [Client EXCEPT !.pc = p]
  OBVIOUS
<1>5. u \in ClientTypes
  BY <1>0, <1>3, <1>4, ClientUpdates, Fields
<1>6. /\ u.cl = cl /\ u.queue = queue /\ u.batch = batch /\ u.offering = offering
      /\ u.draining = draining /\ u.pc = p /\ u.ops = ops /\ u.out = <<>>
  BY <1>4 DEF Client
<1>8. cl.started /\ pc.signalingState = "stable"
  BY DEF onNegotiationNeeded
<1>9. OfferingFits(u, cl.isDrainingMessages) /\ DrainingFits(u)
  <2>1. OfferingFits(u, cl.isDrainingMessages)
    BY <1>0, <1>1, <1>3, <1>6 DEF ClientFits, OfferingFits
  <2>2. DrainingFits(u)
    BY <1>0, <1>1, <1>3, <1>6 DEF ClientFits, DrainingFits
  <2> QED BY <2>1, <2>2
<1>10. PICK t : t = makeOffer(u)
  OBVIOUS
<1>11. t \in ClientTypes /\ OfferingFits(t, cl.isDrainingMessages) /\ SameDraining(u, t)
  BY <1>0, <1>3, <1>5, <1>6, <1>8, <1>9, <1>10, MakeOfferFits, ClientFields
<1>12. ClientFits(t)
  <2>1. DrainingFits(t)
    BY <1>9, <1>11, DrainingKept
  <2>2. t.cl.isDrainingMessages = cl.isDrainingMessages
    BY <1>6, <1>11 DEF SameDraining
  <2> QED BY <1>11, <2>1, <2>2 DEF ClientFits
<1>13. Become(t) /\ toBrowser' = toBrowser /\ sfu' = sfu
  BY <1>1, <1>2, <1>4, <1>10 DEF onNegotiationNeeded
<1>14. t.batch = batch /\ t.queue = queue /\ t.out = <<>> /\ t.pc = p
  BY <1>6, <1>11 DEF SameDraining
<1> QED BY <1>3, <1>12, <1>13, <1>14, QuietStep

LEMMA ReceiveStep ==
    ASSUME Inv, ReceiveSignalingMessage
    PROVE  Inv'
<1>0. ClientFits(Client) /\ Client \in ClientTypes /\ toBrowser \in Seq(AllMessages)
  BY DEF Inv, ClientFits
<1>1. /\ Client.cl = cl /\ Client.queue = queue /\ Client.batch = batch /\ Client.offering = offering
      /\ Client.draining = draining /\ Client.pc = pc /\ Client.ops = ops /\ Client.out = <<>>
  BY DEF Client
<1>a. toBrowser # <<>> /\ toBrowser' = Tail(toBrowser) /\ sfu' = sfu
  BY DEF ReceiveSignalingMessage
<1>b. PICK m : m = Head(toBrowser)
  OBVIOUS
<1>c. m \in AllMessages
  BY <1>0, <1>a, <1>b
<1>2. PICK h : h = (cl.hasRemoteSdp \/ m.type # "candidate")
  OBVIOUS
<1>3. h \in BOOLEAN
  BY <1>0, <1>1, <1>2, Fields
<1>4. PICK c : c = [cl EXCEPT !.hasRemoteSdp = h]
  OBVIOUS
<1>5. c \in ClTypes
  BY <1>0, <1>1, <1>3, <1>4, Fields, ClUpdates
<1>6. PICK q : q = Append(queue, m)
  OBVIOUS
<1>7. q \in Seq(AllMessages) /\ q # <<>>
  <2>1. q \in Seq(AllMessages) /\ Len(q) = Len(queue) + 1 /\ Len(queue) \in Nat
    BY <1>0, <1>6, <1>c, ClientFields
  <2>2. Len(q) # 0
    BY <2>1
  <2> QED BY <2>1, <2>2
<1>8. PICK u : u = [Client EXCEPT !.cl = c, !.queue = q]
  OBVIOUS
<1>9. u \in ClientTypes
  BY <1>0, <1>5, <1>7, <1>8, ClientUpdates, Fields
<1>10. /\ u.cl = c /\ u.queue = q /\ u.batch = batch /\ u.offering = offering
       /\ u.draining = draining /\ u.pc = pc /\ u.ops = ops /\ u.out = <<>>
  BY <1>8 DEF Client
<1>11. /\ c.started = cl.started /\ c.isDrainingMessages = cl.isDrainingMessages
       /\ c.makingOffer = cl.makingOffer /\ c.pendingRemoteRequestId = cl.pendingRemoteRequestId
  BY <1>0, <1>4, ClientFields DEF ClTypes
<1>12. ClientFits(u)
  <2>1. OfferingFits(u, u.cl.isDrainingMessages)
    BY <1>0, <1>1, <1>10, <1>11 DEF ClientFits, OfferingFits
  <2>2. DrainingFits(u)
    BY <1>0, <1>1, <1>10, <1>11 DEF ClientFits, DrainingFits
  <2> QED BY <1>9, <2>1, <2>2 DEF ClientFits
<1>13. PICK t : t = drainMessageQueue(u)
  OBVIOUS
<1>14. ClientFits(t) /\ SamePc(u, t) /\ t.batch \o t.queue = u.batch \o u.queue
  BY <1>7, <1>10, <1>12, <1>13, DrainFits
<1>15. Become(t)
  BY <1>1, <1>2, <1>4, <1>6, <1>8, <1>13, <1>b DEF ReceiveSignalingMessage
<1>16. t.pc = pc /\ t.out = <<>>
  BY <1>10, <1>14 DEF SamePc
<1>17. (t.batch \o t.queue) \o toBrowser' = Pipe
  <2>1. (batch \o Append(queue, Head(toBrowser))) \o Tail(toBrowser) = (batch \o queue) \o toBrowser
    <3>1. batch \in Seq(AllMessages) /\ queue \in Seq(AllMessages)
      BY <1>0, ClientFields
    <3>2. toBrowser \in Seq(AllMessages) /\ toBrowser # <<>>
      BY <1>0, <1>a
    <3>3. \A b, q1, w \in Seq(AllMessages) :
              w # <<>> => (b \o Append(q1, Head(w))) \o Tail(w) = (b \o q1) \o w
      BY PipeShift
    <3> QED BY <3>1, <3>2, <3>3
  <2> QED BY <1>6, <1>10, <1>14, <1>a, <1>b, <2>1 DEF Pipe
<1>18. toSfu \in Seq(BrowserMessages) /\ Negotiation(Pipe, toSfu, pc, sfu)
  BY DEF Inv, Negotiation, Numbered
<1>19. toSfu \o t.out = toSfu
  BY <1>16, <1>18, ConcatEmptySeq
<1>20. Tail(toBrowser) \in Seq(AllMessages)
  BY <1>0, <1>a
<1>21. Negotiation((t.batch \o t.queue) \o toBrowser', toSfu \o t.out, t.pc, sfu')
  BY <1>16, <1>17, <1>18, <1>19, <1>a
<1> QED BY <1>14, <1>15, <1>20, <1>21, <1>a, ClientStep

LEMMA CloseStep ==
    ASSUME Inv, Close
    PROVE  Inv'
<1>0. ClientFits(Client) /\ Client \in ClientTypes
  BY DEF Inv, ClientFits
<1>1. /\ Client.cl = cl /\ Client.queue = queue /\ Client.batch = batch /\ Client.offering = offering
      /\ Client.draining = draining /\ Client.pc = pc /\ Client.ops = ops /\ Client.out = <<>>
  BY DEF Client
<1>2. PICK c : c = [cl EXCEPT !.closed = TRUE]
  OBVIOUS
<1>3. c \in ClTypes
  BY <1>0, <1>1, <1>2, Fields, ClUpdates
<1>4. PICK t : t = [Client EXCEPT !.cl = c]
  OBVIOUS
<1>5. t \in ClientTypes
  BY <1>0, <1>3, <1>4, ClientUpdates, Fields
<1>6. /\ t.cl = c /\ t.queue = queue /\ t.batch = batch /\ t.offering = offering
      /\ t.draining = draining /\ t.pc = pc /\ t.ops = ops /\ t.out = <<>>
  BY <1>4 DEF Client
<1>7. /\ c.started = cl.started /\ c.isDrainingMessages = cl.isDrainingMessages
      /\ c.makingOffer = cl.makingOffer /\ c.pendingRemoteRequestId = cl.pendingRemoteRequestId
  BY <1>0, <1>2, ClientFields DEF ClTypes
<1>8. ClientFits(t)
  <2>1. OfferingFits(t, t.cl.isDrainingMessages)
    BY <1>0, <1>1, <1>6, <1>7 DEF ClientFits, OfferingFits
  <2>2. DrainingFits(t)
    BY <1>0, <1>1, <1>6, <1>7 DEF ClientFits, DrainingFits
  <2> QED BY <1>5, <2>1, <2>2 DEF ClientFits
<1>9. toBrowser' = toBrowser /\ sfu' = sfu
  BY DEF Close
<1>10. Become(t)
  <2>1. toSfu \o t.out = toSfu
    BY <1>6, ConcatEmptySeq DEF Inv, Negotiation, Numbered
  <2> QED BY <1>2, <1>6, <2>1 DEF Close, Become
<1> QED BY <1>6, <1>8, <1>9, <1>10, QuietStep

\* The operation at the head of the chain is taken out of it.
LEMMA PoppedFits ==
    ASSUME ClientFits(Client), ops # <<>>
    PROVE  /\ Popped \in ClientTypes
           /\ Popped.cl = cl /\ Popped.queue = queue /\ Popped.batch = batch /\ Popped.offering = offering
           /\ Popped.draining = draining /\ Popped.pc = pc /\ Popped.ops = Tail(ops) /\ Popped.out = <<>>
           /\ Head(ops) = "offer" =>
                 cl.makingOffer /\ OpsHold(Tail(ops), FALSE, cl.isDrainingMessages)
           /\ Head(ops) = "drain" =>
                 cl.isDrainingMessages /\ OpsHold(Tail(ops), cl.makingOffer, FALSE)
<1>0. Client \in ClientTypes
  BY DEF ClientFits
<1>1. OpsHold(ops, cl.makingOffer, cl.isDrainingMessages)
  BY DEF ClientFits, OfferingFits, Client
<1>2. /\ Tail(ops) \in Seq({"offer", "drain"})
      /\ Head(ops) = "offer" => cl.makingOffer /\ OpsHold(Tail(ops), FALSE, cl.isDrainingMessages)
      /\ Head(ops) = "drain" => cl.isDrainingMessages /\ OpsHold(Tail(ops), cl.makingOffer, FALSE)
  BY <1>1, OpsTail, ClientFields
<1>3. Popped = [Client EXCEPT !.ops = Tail(ops)]
  BY DEF Popped, Client
<1>4. Popped \in ClientTypes
  BY <1>0, <1>2, <1>3, ClientUpdates, Fields
<1>5. /\ Popped.cl = cl /\ Popped.queue = queue /\ Popped.batch = batch /\ Popped.offering = offering
      /\ Popped.draining = draining /\ Popped.pc = pc /\ Popped.ops = Tail(ops) /\ Popped.out = <<>>
  BY <1>3 DEF Client
<1> QED BY <1>2, <1>4, <1>5

\* A continuation of the offering chain that ends it.
LEMMA OfferEnds ==
    ASSUME Inv, Runs("offer"), Become(endOffer(Popped)), toBrowser' = toBrowser, sfu' = sfu
    PROVE  Inv'
<1>0. ClientFits(Client) /\ ops # <<>> /\ Head(ops) = "offer"
  BY DEF Inv, Runs
<1>1. PICK s : s = Popped
  OBVIOUS
<1>2. /\ s \in ClientTypes
      /\ s.cl = cl /\ s.queue = queue /\ s.batch = batch /\ s.offering = offering
      /\ s.draining = draining /\ s.pc = pc /\ s.ops = Tail(ops) /\ s.out = <<>>
      /\ cl.makingOffer /\ OpsHold(Tail(ops), FALSE, cl.isDrainingMessages)
  BY <1>0, <1>1, PoppedFits
<1>3. cl.started
  BY <1>0, <1>2 DEF ClientFits, OfferingFits, Client
<1>4. PICK t : t = endOffer(s)
  OBVIOUS
<1>5. t \in ClientTypes /\ OfferingFits(t, cl.isDrainingMessages) /\ SameDraining(s, t)
  BY <1>0, <1>2, <1>3, <1>4, EndOfferFits, ClientFields
<1>6. ClientFits(t)
  <2>1. DrainingFits(s)
    BY <1>0, <1>2 DEF ClientFits, DrainingFits, Client
  <2>2. DrainingFits(t)
    BY <1>5, <2>1, DrainingKept
  <2>3. t.cl.isDrainingMessages = cl.isDrainingMessages
    BY <1>2, <1>5 DEF SameDraining
  <2> QED BY <1>5, <2>2, <2>3 DEF ClientFits
<1>7. t.batch = batch /\ t.queue = queue /\ t.out = <<>> /\ t.pc = pc
  BY <1>2, <1>5 DEF SameDraining
<1>8. Become(t)
  BY <1>1, <1>4
<1> QED BY <1>6, <1>7, <1>8, QuietStep

LEMMA OfferCreatedStep ==
    ASSUME Inv, OfferCreated
    PROVE  Inv'
<1>0. ClientFits(Client) /\ ops # <<>> /\ Head(ops) = "offer" /\ Runs("offer")
  BY DEF Inv, OfferCreated, Runs
<1>a. toBrowser' = toBrowser /\ sfu' = sfu
  BY DEF OfferCreated
<1>1. CASE offering.rev = cl.offerRevision /\ pc.signalingState = "stable"
  <2>1. PICK s : s = Popped
    OBVIOUS
  <2>2. /\ s \in ClientTypes
        /\ s.cl = cl /\ s.queue = queue /\ s.batch = batch /\ s.offering = offering
        /\ s.draining = draining /\ s.pc = pc /\ s.ops = Tail(ops) /\ s.out = <<>>
        /\ cl.makingOffer /\ OpsHold(Tail(ops), FALSE, cl.isDrainingMessages)
    BY <1>0, <2>1, PoppedFits
  <2>3. PICK o : o = [offering EXCEPT !.step = "set"]
    OBVIOUS
  <2>4. o \in [step : OfferSteps, rev : Nat] /\ o.step = "set"
    BY <1>0, <2>3, ClientFields DEF OfferSteps
  <2>5. PICK q : q = Append(Tail(ops), "offer")
    OBVIOUS
  <2>6. q \in Seq({"offer", "drain"}) /\ OpsHold(q, TRUE, cl.isDrainingMessages)
    BY <1>0, <2>2, <2>5, OpsAppend, ClientFields, Fields
  <2>7. PICK t : t = [s EXCEPT !.offering = o, !.ops = q]
    OBVIOUS
  <2>8. t \in ClientTypes
    BY <2>2, <2>4, <2>6, <2>7, ClientUpdates, Fields
  <2>9. /\ t.cl = cl /\ t.queue = queue /\ t.batch = batch /\ t.offering = o
        /\ t.draining = draining /\ t.pc = pc /\ t.ops = q /\ t.out = <<>>
    BY <2>2, <2>7 DEF ClientTypes
  <2>10. ClientFits(t)
    <3>1. DrainingFits(t)
      BY <1>0, <2>9 DEF ClientFits, DrainingFits, Client
    <3>2. cl.makingOffer = TRUE /\ cl.started /\ pc.signalingState # "have-local-offer"
      BY <1>0, <2>2, ClientFields DEF ClientFits, OfferingFits, Client
    <3>3. OpsHold(t.ops, t.cl.makingOffer, t.cl.isDrainingMessages)
      BY <2>6, <2>9, <3>2
    <3>4. t.offering.step # "idle"
      BY <2>4, <2>9
    <3>5. OfferingFits(t, t.cl.isDrainingMessages)
      BY <2>9, <3>2, <3>3, <3>4 DEF OfferingFits
    <3> QED BY <2>8, <3>1, <3>5 DEF ClientFits
  <2>11. Become(t)
    <3>1. t = [Popped EXCEPT !.offering.step = "set", !.ops = Append(@, "offer")]
      BY <2>1, <2>2, <2>3, <2>5, <2>7 DEF ClientTypes
    <3> QED BY <1>1, <3>1 DEF OfferCreated
  <2> QED BY <1>a, <2>9, <2>10, <2>11, QuietStep
<1>2. CASE ~(offering.rev = cl.offerRevision /\ pc.signalingState = "stable")
  <2>1. Become(endOffer(Popped))
    BY <1>2 DEF OfferCreated
  <2> QED BY <1>0, <1>a, <2>1, OfferEnds
<1> QED BY <1>1, <1>2

LEMMA OfferSetStep ==
    ASSUME Inv, OfferSet
    PROVE  Inv'
<1>0. ClientFits(Client) /\ ops # <<>> /\ Head(ops) = "offer" /\ Runs("offer")
  BY DEF Inv, OfferSet, Runs
<1>a. toBrowser' = toBrowser /\ sfu' = sfu
  BY DEF OfferSet
<1>1. CASE pc.signalingState = "have-remote-offer"
  <2>1. Become(endOffer(Popped))
    BY <1>1 DEF OfferSet
  <2> QED BY <1>0, <1>a, <2>1, OfferEnds
<1>2. CASE pc.signalingState # "have-remote-offer"
  <2>1. PICK s : s = Popped
    OBVIOUS
  <2>2. /\ s \in ClientTypes
        /\ s.cl = cl /\ s.queue = queue /\ s.batch = batch /\ s.offering = offering
        /\ s.draining = draining /\ s.pc = pc /\ s.ops = Tail(ops) /\ s.out = <<>>
        /\ cl.makingOffer /\ OpsHold(Tail(ops), FALSE, cl.isDrainingMessages)
    BY <1>0, <2>1, PoppedFits
  <2>3. cl.started /\ pc.signalingState # "have-local-offer"
    BY <1>0, <2>2 DEF ClientFits, OfferingFits, Client
  <2>4. PICK p : p = LocalOffer(pc)
    OBVIOUS
  <2>5. /\ pc.offers \in Nat
        /\ p \in PcTypes /\ p.signalingState = "have-local-offer"
        /\ p.offers = pc.offers + 1 /\ p.localOffer = pc.offers + 1 /\ p.remoteOffer = pc.remoteOffer
    <3>1. pc \in PcTypes /\ pc.offers \in Nat
      BY <1>0, ClientFields DEF PcTypes
    <3>2. PICK n \in Nat : n = pc.offers + 1
      <4>1. pc.offers + 1 \in Nat
        BY <3>1
      <4> QED BY <4>1
    <3>3. p = [pc EXCEPT !.signalingState = "have-local-offer", !.offers = n, !.localOffer = n]
      BY <2>4, <3>1, <3>2 DEF LocalOffer, PcTypes
    <3> QED BY <3>1, <3>2, <3>3 DEF PcTypes
  <2>6. PICK m : m = Offer(pc.offers + 1)
    OBVIOUS
  <2>7. m \in BrowserMessages /\ <<m>> \in Seq(BrowserMessages)
    <3>1. m \in BrowserMessages
      BY <2>5, <2>6 DEF BrowserMessages
    <3> QED BY <3>1
  <2>8. PICK w \in Seq(BrowserMessages) : w = <<m>>
    BY <2>7
  <2>9. PICK u : u = [s EXCEPT !.pc = p, !.out = w]
    OBVIOUS
  <2>10. u \in ClientTypes
    BY <2>2, <2>5, <2>9, ClientUpdates, Fields
  <2>11. /\ u.cl = cl /\ u.queue = queue /\ u.batch = batch /\ u.offering = offering
         /\ u.draining = draining /\ u.pc = p /\ u.ops = Tail(ops) /\ u.out = w
    BY <2>2, <2>9 DEF ClientTypes
  <2>12. PICK t : t = endOffer(u)
    OBVIOUS
  <2>13. t \in ClientTypes /\ OfferingFits(t, cl.isDrainingMessages) /\ SameDraining(u, t)
    BY <1>0, <2>2, <2>3, <2>10, <2>11, <2>12, EndOfferFits, ClientFields
  <2>14. ClientFits(t)
    <3>1. DrainingFits(u)
      BY <1>0, <1>2, <2>3, <2>5, <2>11 DEF ClientFits, DrainingFits, Client
    <3>2. DrainingFits(t)
      BY <2>13, <3>1, DrainingKept
    <3>3. t.cl.isDrainingMessages = cl.isDrainingMessages
      BY <2>11, <2>13 DEF SameDraining
    <3> QED BY <2>13, <3>2, <3>3 DEF ClientFits
  <2>15. t.batch = batch /\ t.queue = queue /\ t.out = w /\ t.pc = p
    BY <2>11, <2>13 DEF SameDraining
  <2>16. Become(t)
    <3>1. u = [Popped EXCEPT !.pc = LocalOffer(@), !.out = <<Offer(pc.offers + 1)>>]
      BY <2>1, <2>2, <2>4, <2>6, <2>8, <2>9 DEF ClientTypes
    <3> QED BY <1>2, <2>12, <3>1 DEF OfferSet
  <2>17. toSfu \o t.out = Append(toSfu, m)
    <3>1. toSfu \in Seq(BrowserMessages)
      BY DEF Inv, Negotiation, Numbered
    <3>2. toSfu \o <<m>> = Append(toSfu, m)
      BY <2>7, <3>1, AppendIsConcat
    <3> QED BY <2>8, <2>15, <3>2
  <2>18. Negotiation(Pipe, Append(toSfu, Offer(pc.offers + 1)), p, sfu)
    <3>1. Negotiation(Pipe, toSfu, pc, sfu)
      BY DEF Inv
    <3> QED BY <2>3, <2>5, <3>1, Published
  <2>19. Negotiation((t.batch \o t.queue) \o toBrowser', toSfu \o t.out, t.pc, sfu')
    BY <1>a, <2>6, <2>15, <2>17, <2>18 DEF Pipe
  <2>20. toBrowser' \in Seq(AllMessages)
    BY <1>a DEF Inv
  <2> QED BY <2>14, <2>16, <2>19, <2>20, ClientStep
<1> QED BY <1>1, <1>2

\* The operation of the message in progress has settled.
LEMMA Settled ==
    ASSUME Inv, Runs("drain")
    PROVE  /\ Popped \in ClientTypes /\ OfferingFits(Popped, FALSE)
           /\ Popped.cl = cl /\ Popped.queue = queue /\ Popped.batch = batch /\ Popped.offering = offering
           /\ Popped.draining = draining /\ Popped.pc = pc /\ Popped.ops = Tail(ops) /\ Popped.out = <<>>
           /\ cl.started /\ cl.isDrainingMessages /\ batch # <<>>
           /\ Head(batch) \in AllMessages
           /\ pc.signalingState = "have-remote-offer" <=> draining \in {"answer", "local"}
           /\ draining = "candidate" <=> Head(batch).type = "candidate"
           /\ draining \in {"rollback", "answer", "local"} => Head(batch).type = "offer"
           /\ Head(batch).type = "offer" => cl.pendingRemoteRequestId = Head(batch).id
           /\ draining \in {"answer", "local"} => pc.remoteOffer = Head(batch).id
           /\ toBrowser \in Seq(AllMessages) /\ Negotiation(Pipe, toSfu, pc, sfu)
           /\ toSfu \in Seq(BrowserMessages) /\ sfu \in SfuTypes
<1>0. ClientFits(Client) /\ ops # <<>> /\ Head(ops) = "drain"
  BY DEF Inv, Runs
<1>1. /\ Popped \in ClientTypes
      /\ Popped.cl = cl /\ Popped.queue = queue /\ Popped.batch = batch /\ Popped.offering = offering
      /\ Popped.draining = draining /\ Popped.pc = pc /\ Popped.ops = Tail(ops) /\ Popped.out = <<>>
      /\ cl.isDrainingMessages /\ OpsHold(Tail(ops), cl.makingOffer, FALSE)
  BY <1>0, PoppedFits
<1>2. OfferingFits(Popped, FALSE)
  <2>1. /\ cl.makingOffer <=> offering.step # "idle"
        /\ cl.makingOffer => cl.started /\ pc.signalingState # "have-local-offer"
    BY <1>0 DEF ClientFits, OfferingFits, Client
  <2> QED BY <1>1, <2>1 DEF OfferingFits
<1>3. DrainingFits(Client)
  BY <1>0 DEF ClientFits
<1>4. /\ Client.cl = cl /\ Client.batch = batch /\ Client.draining = draining /\ Client.pc = pc
  BY DEF Client
<1>5. draining # "idle" /\ batch # <<>> /\ cl.started
  <2>1. draining # "idle"
    BY <1>1, <1>3, <1>4 DEF DrainingFits
  <2>2. batch # <<>>
    BY <1>3, <1>4, <2>1 DEF DrainingFits
  <2>3. cl.started
    BY <1>3, <1>4, <2>1 DEF DrainingFits
  <2> QED BY <2>1, <2>2, <2>3
<1>6. Head(batch) \in AllMessages
  BY <1>0, <1>5, ClientFields
<1>7. /\ pc.signalingState = "have-remote-offer" <=> draining \in {"answer", "local"}
      /\ draining = "candidate" <=> Head(batch).type = "candidate"
      /\ draining \in {"rollback", "answer", "local"} => Head(batch).type = "offer"
      /\ Head(batch).type = "offer" => cl.pendingRemoteRequestId = Head(batch).id
      /\ draining \in {"answer", "local"} => pc.remoteOffer = Head(batch).id
  BY <1>3, <1>4, <1>5 DEF DrainingFits
<1>8. /\ toBrowser \in Seq(AllMessages) /\ Negotiation(Pipe, toSfu, pc, sfu)
      /\ toSfu \in Seq(BrowserMessages) /\ sfu \in SfuTypes
  BY DEF Inv, Negotiation, Numbered
<1> QED BY <1>1, <1>2, <1>5, <1>6, <1>7, <1>8

\* A step of the draining chain that consumes n messages and sends nothing.
LEMMA ConsumeStep ==
    ASSUME Inv, NEW t, NEW n, ClientFits(t), Become(t), t.out = <<>>, t.pc = pc, toBrowser' = toBrowser,
           Dropped(Pipe, n, (t.batch \o t.queue) \o toBrowser),
           sfu' \in SfuTypes, sfu'.offer = sfu.offer, sfu'.timeouts = sfu.timeouts
    PROVE  Inv'
<1>1. /\ toBrowser \in Seq(AllMessages) /\ Negotiation(Pipe, toSfu, pc, sfu)
      /\ toSfu \in Seq(BrowserMessages) /\ t \in ClientTypes
  BY DEF Inv, Negotiation, Numbered, ClientFits
<1>2. t.batch \in Seq(AllMessages) /\ t.queue \in Seq(AllMessages)
  BY <1>1, Fields
<1>3. (t.batch \o t.queue) \o toBrowser \in Seq(AllMessages)
  BY <1>1, <1>2
<1>4. PICK Q \in Seq(AllMessages) : Q = (t.batch \o t.queue) \o toBrowser
  BY <1>3
<1>5. Dropped(Pipe, n, Q)
  BY <1>4
<1>6. Negotiation(Q, toSfu, pc, sfu')
  BY <1>1, <1>5, Consumed
<1>7. toSfu \o t.out = toSfu
  BY <1>1, ConcatEmptySeq
<1>8. Negotiation((t.batch \o t.queue) \o toBrowser', toSfu \o t.out, t.pc, sfu')
  BY <1>4, <1>6, <1>7
<1> QED BY <1>1, <1>8, ClientStep

\* The rest of a batch is skipped: a rejected description, a rejected candidate.
LEMMA BatchSkipped ==
    ASSUME Inv, NEW s \in ClientTypes, OfferingFits(s, FALSE), s.cl.started, s.pc = pc, s.queue = queue,
           s.out = <<>>, pc.signalingState # "have-remote-offer", Become(endDrain(s)),
           toBrowser' = toBrowser,
           sfu' \in SfuTypes, sfu'.offer = sfu.offer, sfu'.timeouts = sfu.timeouts
    PROVE  Inv'
<1>1. PICK t : t = endDrain(s)
  OBVIOUS
<1>2. ClientFits(t) /\ SamePc(s, t) /\ t.batch \o t.queue = queue
  BY <1>1, EndDrainFits
<1>3. t.pc = pc /\ t.out = <<>>
  BY <1>2 DEF SamePc
<1>4. batch \in Seq(AllMessages) /\ queue \in Seq(AllMessages) /\ toBrowser \in Seq(AllMessages)
  BY ClientFields DEF Inv
<1>5. Dropped(Pipe, Len(batch), (t.batch \o t.queue) \o toBrowser)
  <2>1. Dropped((batch \o queue) \o toBrowser, Len(batch), queue \o toBrowser)
    BY <1>4, PipeDrop
  <2> QED BY <1>2, <2>1 DEF Pipe
<1>6. Become(t)
  BY <1>1
<1> QED BY <1>2, <1>3, <1>5, <1>6, ConsumeStep

LEMMA DescriptionFails ==
    ASSUME Inv, Runs("drain"), pc.signalingState # "have-remote-offer", Become(failDescription(Popped)),
           toBrowser' = toBrowser, sfu' = sfu
    PROVE  Inv'
<1>1. PICK s : s = settleDescription(Popped)
  OBVIOUS
<1>2. s \in ClientTypes /\ OfferingFits(s, FALSE) /\ SameDraining(Popped, s)
  BY <1>1, Settled, SettleFits
<1>3. s.cl.started /\ s.pc = pc /\ s.queue = queue /\ s.out = <<>>
  BY <1>2, Settled DEF SameDraining
<1>4. Become(endDrain(s))
  BY <1>1 DEF failDescription
<1>5. sfu \in SfuTypes
  BY Settled
<1> QED BY <1>2, <1>3, <1>4, <1>5, BatchSkipped

LEMMA CandidateAddedStep ==
    ASSUME Inv, CandidateAdded
    PROVE  Inv'
<1>0. Runs("drain") /\ draining = "candidate" /\ toBrowser' = toBrowser
  BY DEF CandidateAdded
<1>1. PICK s : s = Popped
  OBVIOUS
<1>2. /\ s \in ClientTypes /\ OfferingFits(s, FALSE)
      /\ s.cl = cl /\ s.queue = queue /\ s.batch = batch /\ s.pc = pc /\ s.out = <<>>
      /\ cl.started /\ cl.isDrainingMessages /\ batch # <<>>
      /\ pc.signalingState # "have-remote-offer"
      /\ toBrowser \in Seq(AllMessages) /\ sfu \in SfuTypes
  BY <1>0, <1>1, Settled
<1>3. CASE Become(nextMessage(Popped)) /\ sfu' = sfu
  <2>1. PICK t : t = nextMessage(s)
    OBVIOUS
  <2>2. ClientFits(t) /\ SamePc(s, t) /\ t.batch \o t.queue = Tail(batch) \o queue
    BY <1>2, <2>1, NextMessageFits
  <2>3. t.pc = pc /\ t.out = <<>>
    BY <1>2, <2>2 DEF SamePc
  <2>4. batch \in Seq(AllMessages) /\ queue \in Seq(AllMessages)
    BY ClientFields DEF Inv
  <2>5. /\ (batch \o queue) \o toBrowser \in Seq(AllMessages) /\ (batch \o queue) \o toBrowser # <<>>
        /\ Tail((batch \o queue) \o toBrowser) = (Tail(batch) \o queue) \o toBrowser
    BY <1>2, <2>4, PipeHead
  <2>6. Dropped(Pipe, 1, (t.batch \o t.queue) \o toBrowser)
    <3>1. Dropped(Pipe, 1, Tail(Pipe))
      BY <2>5, TailDrops DEF Pipe
    <3> QED BY <2>2, <2>5, <3>1 DEF Pipe
  <2>7. Become(t)
    BY <1>1, <1>3, <2>1
  <2> QED BY <1>0, <1>2, <1>3, <2>2, <2>3, <2>6, <2>7, ConsumeStep
<1>4. CASE /\ sfu.rejects < MaxRejects /\ Become(endDrain(Popped))
           /\ sfu' = [sfu EXCEPT !.rejects = @ + 1]
  <2>1. sfu' \in SfuTypes /\ sfu'.offer = sfu.offer /\ sfu'.timeouts = sfu.timeouts
    <3>1. sfu.rejects \in 0..MaxRejects
      BY <1>2 DEF SfuTypes
    <3>2. sfu.rejects + 1 \in 0..MaxRejects
      BY <1>4, <3>1, PccAssumption
    <3>3. PICK n \in 0..MaxRejects : n = sfu.rejects + 1
      BY <3>2
    <3>4. sfu' = [sfu EXCEPT !.rejects = n]
      BY <1>4, <3>3
    <3> QED BY <1>2, <3>4 DEF SfuTypes
  <2>2. Become(endDrain(s))
    BY <1>1, <1>4
  <2> QED BY <1>0, <1>2, <2>1, <2>2, BatchSkipped
<1> QED BY <1>3, <1>4 DEF CandidateAdded

\* The message in progress waits for its next operation.
LEMMA WaitsAgain ==
    ASSUME Inv, Runs("drain"), NEW p \in PcTypes, NEW d \in {"remote", "answer", "local"},
           Head(batch).type # "candidate", p.signalingState # "have-local-offer",
           p.signalingState = "have-remote-offer" <=> d \in {"answer", "local"},
           d \in {"answer", "local"} => Head(batch).type = "offer" /\ p.remoteOffer = Head(batch).id
    PROVE  LET t == [Popped EXCEPT !.pc = p, !.draining = d, !.ops = Append(@, "drain")]
           IN  ClientFits(t) /\ t.batch = batch /\ t.queue = queue /\ t.out = <<>> /\ t.pc = p
<1>1. PICK s : s = Popped
  OBVIOUS
<1>2. /\ s \in ClientTypes /\ OfferingFits(s, FALSE)
      /\ s.cl = cl /\ s.queue = queue /\ s.batch = batch /\ s.offering = offering /\ s.ops = Tail(ops)
      /\ s.out = <<>>
      /\ cl.started /\ cl.isDrainingMessages /\ batch # <<>>
      /\ Head(batch).type = "offer" => cl.pendingRemoteRequestId = Head(batch).id
  BY <1>1, Settled
<1>3. PICK q : q = Append(Tail(ops), "drain")
  OBVIOUS
<1>4. cl.makingOffer \in BOOLEAN /\ cl.isDrainingMessages = TRUE
  BY <1>2, ClientFields DEF Inv
<1>5. q \in Seq({"offer", "drain"}) /\ OpsHold(q, cl.makingOffer, TRUE)
  <2>1. s.ops \in Seq({"offer", "drain"}) /\ OpsHold(s.ops, cl.makingOffer, FALSE)
    BY <1>2, Fields DEF OfferingFits
  <2> QED BY <1>2, <1>3, <1>4, <2>1, OpsAppend
<1>6. d \in DrainSteps
  BY DEF DrainSteps
<1>7. PICK t : t = [s EXCEPT !.pc = p, !.draining = d, !.ops = q]
  OBVIOUS
<1>8. t \in ClientTypes
  BY <1>2, <1>5, <1>6, <1>7, ClientUpdates, Fields
<1>9. /\ t.cl = cl /\ t.queue = queue /\ t.batch = batch /\ t.offering = offering
      /\ t.draining = d /\ t.pc = p /\ t.ops = q /\ t.out = <<>>
  BY <1>2, <1>7 DEF ClientTypes
<1>10. OfferingFits(t, t.cl.isDrainingMessages)
  <2>1. OpsHold(t.ops, t.cl.makingOffer, t.cl.isDrainingMessages)
    BY <1>4, <1>5, <1>9
  <2>2. cl.makingOffer <=> offering.step # "idle"
    BY <1>2 DEF OfferingFits
  <2> QED BY <1>2, <1>9, <2>1, <2>2 DEF OfferingFits
<1>11. DrainingFits(t)
  <2>1. d # "idle" /\ d # "candidate" /\ d # "rollback"
    OBVIOUS
  <2> QED BY <1>2, <1>9, <2>1 DEF DrainingFits
<1>12. t = [Popped EXCEPT !.pc = p, !.draining = d, !.ops = Append(@, "drain")]
  BY <1>1, <1>2, <1>3, <1>7 DEF ClientTypes
<1> QED BY <1>8, <1>9, <1>10, <1>11, <1>12 DEF ClientFits

\* The message in progress is at the head of the pipe.
LEMMA InProgress ==
    ASSUME Inv, Runs("drain")
    PROVE  /\ Pipe \in Seq(AllMessages) /\ Pipe # <<>> /\ Head(Pipe) = Head(batch)
           /\ Tail(Pipe) = (Tail(batch) \o queue) \o toBrowser
           /\ 1 \in 1..Len(Pipe) /\ Pipe[1] = Head(batch)
<1>1. /\ batch \in Seq(AllMessages) /\ queue \in Seq(AllMessages) /\ toBrowser \in Seq(AllMessages)
      /\ batch # <<>>
  BY Settled, ClientFields DEF Inv
<1>2. /\ Pipe \in Seq(AllMessages) /\ Pipe # <<>> /\ Head(Pipe) = Head(batch)
      /\ Tail(Pipe) = (Tail(batch) \o queue) \o toBrowser
  BY <1>1, PipeHead DEF Pipe
<1>3. 1 \in 1..Len(Pipe) /\ Head(Pipe) = Pipe[1]
  BY <1>2, TailDrops
<1> QED BY <1>2, <1>3

\* The effect of the operations on the connection.
LEMMA PcUpdates ==
    ASSUME NEW p \in PcTypes, NEW r \in RequestIds
    PROVE  /\ Stable(p) \in PcTypes /\ Stable(p).signalingState = "stable"
           /\ Stable(p).localOffer = None /\ Stable(p).offers = p.offers
           /\ RemoteOffer(p, r) \in PcTypes /\ RemoteOffer(p, r).signalingState = "have-remote-offer"
           /\ RemoteOffer(p, r).localOffer = None /\ RemoteOffer(p, r).offers = p.offers
           /\ RemoteOffer(p, r).remoteOffer = r
           /\ [Stable(p) EXCEPT !.published = TRUE] \in PcTypes
           /\ [Stable(p) EXCEPT !.published = TRUE].signalingState = "stable"
           /\ [Stable(p) EXCEPT !.published = TRUE].localOffer = None
           /\ [Stable(p) EXCEPT !.published = TRUE].offers = p.offers
<1>1. None \in Nat /\ None \in RequestIds
  BY PccAssumption DEF None, RequestIds
<1>2. PICK q : q = Stable(p)
  OBVIOUS
<1>3. q \in PcTypes /\ q.signalingState = "stable" /\ q.localOffer = None /\ q.offers = p.offers
  BY <1>1, <1>2 DEF Stable, PcTypes
<1>4. /\ RemoteOffer(p, r) \in PcTypes /\ RemoteOffer(p, r).signalingState = "have-remote-offer"
      /\ RemoteOffer(p, r).localOffer = None /\ RemoteOffer(p, r).offers = p.offers
      /\ RemoteOffer(p, r).remoteOffer = r
  BY <1>1 DEF RemoteOffer, PcTypes
<1>5. /\ [q EXCEPT !.published = TRUE] \in PcTypes
      /\ [q EXCEPT !.published = TRUE].signalingState = "stable"
      /\ [q EXCEPT !.published = TRUE].localOffer = None
      /\ [q EXCEPT !.published = TRUE].offers = p.offers
  BY <1>3 DEF PcTypes
<1> QED BY <1>2, <1>3, <1>4, <1>5

LEMMA RolledBackStep ==
    ASSUME Inv, RolledBack
    PROVE  Inv'
<1>0. Runs("drain") /\ draining = "rollback" /\ toBrowser' = toBrowser /\ sfu' = sfu
  BY DEF RolledBack
<1>1. /\ Popped.pc = pc /\ pc.signalingState # "have-remote-offer"
      /\ Head(batch).type = "offer" /\ toBrowser \in Seq(AllMessages)
      /\ Negotiation(Pipe, toSfu, pc, sfu) /\ toSfu \in Seq(BrowserMessages)
  BY <1>0, Settled
<1>2. CASE pc.signalingState # "have-local-offer"
  <2>1. Become(failDescription(Popped))
    BY <1>2 DEF RolledBack
  <2> QED BY <1>0, <1>1, <2>1, DescriptionFails
<1>3. CASE pc.signalingState = "have-local-offer"
  <2>1. PICK p : p = Stable(pc)
    OBVIOUS
  <2>2. p \in PcTypes /\ p.signalingState = "stable" /\ p.localOffer = None /\ p.offers = pc.offers
    <3>1. pc \in PcTypes /\ pc.remoteOffer \in RequestIds
      BY ClientFields DEF Inv, PcTypes
    <3> QED BY <2>1, <3>1, PcUpdates
  <2>3. PICK t : t = [Popped EXCEPT !.pc = p, !.draining = "remote", !.ops = Append(@, "drain")]
    OBVIOUS
  <2>4. ClientFits(t) /\ t.batch = batch /\ t.queue = queue /\ t.out = <<>> /\ t.pc = p
    BY <1>0, <1>1, <2>2, <2>3, WaitsAgain
  <2>5. Become(t)
    <3>1. Popped \in ClientTypes
      BY <1>0, Settled
    <3>2. t = [Popped EXCEPT !.pc = Stable(@), !.draining = "remote", !.ops = Append(@, "drain")]
      BY <1>1, <2>1, <2>3, <3>1 DEF ClientTypes
    <3> QED BY <1>3, <3>2 DEF RolledBack
  <2>6. Negotiation(Pipe, toSfu, p, sfu)
    BY <1>0, <1>1, <2>2, InProgress, Yielded
  <2>7. toSfu \o t.out = toSfu
    BY <1>1, <2>4, ConcatEmptySeq
  <2>8. Negotiation((t.batch \o t.queue) \o toBrowser', toSfu \o t.out, t.pc, sfu')
    BY <1>0, <2>4, <2>6, <2>7 DEF Pipe
  <2> QED BY <1>0, <1>1, <2>4, <2>5, <2>8, ClientStep
<1> QED BY <1>2, <1>3

LEMMA AnswerCreatedStep ==
    ASSUME Inv, AnswerCreated
    PROVE  Inv'
<1>0. Runs("drain") /\ draining = "answer" /\ toBrowser' = toBrowser /\ sfu' = sfu
  BY DEF AnswerCreated
<1>1. /\ Popped \in ClientTypes /\ Popped.pc = pc /\ pc.signalingState = "have-remote-offer"
      /\ Head(batch).type = "offer" /\ pc.remoteOffer = Head(batch).id /\ pc \in PcTypes
  BY <1>0, Settled, ClientFields DEF Inv
<1>2. PICK t : t = [Popped EXCEPT !.pc = pc, !.draining = "local", !.ops = Append(@, "drain")]
  OBVIOUS
<1>3. ClientFits(t) /\ t.batch = batch /\ t.queue = queue /\ t.out = <<>> /\ t.pc = pc
  BY <1>0, <1>1, <1>2, WaitsAgain
<1>4. Become(t)
  <2>1. t = [Popped EXCEPT !.draining = "local", !.ops = Append(@, "drain")]
    BY <1>1, <1>2 DEF ClientTypes
  <2> QED BY <1>1, <2>1 DEF AnswerCreated
<1> QED BY <1>0, <1>3, <1>4, QuietStep

\* A description is done and the next message follows.
LEMMA DescriptionDone ==
    ASSUME Inv, Runs("drain"), NEW s \in ClientTypes, OfferingFits(s, FALSE),
           s.pc.signalingState # "have-remote-offer", s.cl.started, s.cl.isDrainingMessages,
           s.batch = batch, s.queue = queue
    PROVE  LET t == nextMessage(settleDescription(s))
           IN  ClientFits(t) /\ t.pc = s.pc /\ t.out = s.out /\ (t.batch \o t.queue) \o toBrowser = Tail(Pipe)
<1>1. PICK u : u = settleDescription(s)
  OBVIOUS
<1>2. u \in ClientTypes /\ OfferingFits(u, FALSE) /\ SameDraining(s, u)
  BY <1>1, SettleFits
<1>3. batch # <<>>
  BY Settled
<1>4. PICK t : t = nextMessage(u)
  OBVIOUS
<1>5. /\ u.batch = batch /\ u.queue = queue /\ u.pc = s.pc /\ u.out = s.out
      /\ u.cl.started /\ u.cl.isDrainingMessages
  BY <1>2 DEF SameDraining
<1>6. ClientFits(t) /\ SamePc(u, t) /\ t.batch \o t.queue = Tail(batch) \o queue
  BY <1>2, <1>3, <1>4, <1>5, NextMessageFits
<1>7. Tail(Pipe) = (Tail(batch) \o queue) \o toBrowser
  BY InProgress
<1> QED BY <1>1, <1>4, <1>5, <1>6, <1>7 DEF SamePc

LEMMA RemoteSetStep ==
    ASSUME Inv, RemoteSet
    PROVE  Inv'
<1>0. Runs("drain") /\ draining = "remote" /\ toBrowser' = toBrowser /\ sfu' = sfu
  BY DEF RemoteSet
<1>1. /\ Popped \in ClientTypes /\ OfferingFits(Popped, FALSE)
      /\ Popped.cl = cl /\ Popped.queue = queue /\ Popped.batch = batch /\ Popped.offering = offering
      /\ Popped.pc = pc /\ Popped.ops = Tail(ops) /\ Popped.out = <<>>
      /\ pc.signalingState # "have-remote-offer" /\ cl.started /\ cl.isDrainingMessages
      /\ Head(batch).type # "candidate" /\ toBrowser \in Seq(AllMessages) /\ Head(batch) \in AllMessages
      /\ Negotiation(Pipe, toSfu, pc, sfu) /\ toSfu \in Seq(BrowserMessages)
  BY <1>0, Settled
<1>2. pc \in PcTypes /\ pc.remoteOffer \in RequestIds
  BY ClientFields DEF Inv, PcTypes
<1>3. CASE Head(batch).type = "offer"
  <2>1. PICK p : p = RemoteOffer(pc, Head(batch).id)
    OBVIOUS
  <2>2. /\ p \in PcTypes /\ p.signalingState = "have-remote-offer" /\ p.localOffer = None
        /\ p.offers = pc.offers /\ p.remoteOffer = Head(batch).id
    <3>1. Head(batch).id \in RequestIds
      BY <1>1, <1>3, MessageTypes
    <3> QED BY <1>2, <2>1, <3>1, PcUpdates
  <2>3. PICK t : t = [Popped EXCEPT !.pc = p, !.draining = "answer", !.ops = Append(@, "drain")]
    OBVIOUS
  <2>4. ClientFits(t) /\ t.batch = batch /\ t.queue = queue /\ t.out = <<>> /\ t.pc = p
    BY <1>0, <1>1, <1>3, <2>2, <2>3, WaitsAgain
  <2>5. Become(t)
    <3>1. t = [Popped EXCEPT !.pc = RemoteOffer(@, Head(batch).id), !.draining = "answer",
                             !.ops = Append(@, "drain")]
      BY <1>1, <2>1, <2>3 DEF ClientTypes
    <3> QED BY <1>3, <3>1 DEF RemoteSet
  <2>6. Negotiation(Pipe, toSfu, p, sfu)
    BY <1>0, <1>1, <1>3, <2>2, InProgress, Yielded
  <2>7. toSfu \o t.out = toSfu
    BY <1>1, <2>4, ConcatEmptySeq
  <2>8. Negotiation((t.batch \o t.queue) \o toBrowser', toSfu \o t.out, t.pc, sfu')
    BY <1>0, <2>4, <2>6, <2>7 DEF Pipe
  <2> QED BY <1>0, <1>1, <2>4, <2>5, <2>8, ClientStep
<1>4. CASE Head(batch).type = "answer" /\ pc.signalingState = "have-local-offer"
  <2>1. PICK p : p = [Stable(pc) EXCEPT !.published = TRUE]
    OBVIOUS
  <2>2. p \in PcTypes /\ p.signalingState = "stable" /\ p.localOffer = None /\ p.offers = pc.offers
    BY <1>2, <2>1, PcUpdates
  <2>3. PICK s : s = [Popped EXCEPT !.pc = p]
    OBVIOUS
  <2>4. s \in ClientTypes
    BY <1>1, <2>2, <2>3, ClientUpdates, Fields
  <2>5. /\ s.cl = cl /\ s.queue = queue /\ s.batch = batch /\ s.offering = offering
        /\ s.pc = p /\ s.ops = Tail(ops) /\ s.out = <<>>
    BY <1>1, <2>3 DEF ClientTypes
  <2>6. OfferingFits(s, FALSE)
    BY <1>1, <2>2, <2>5 DEF OfferingFits
  <2>7. PICK t : t = nextMessage(settleDescription(s))
    OBVIOUS
  <2>8. ClientFits(t) /\ t.pc = p /\ t.out = <<>> /\ (t.batch \o t.queue) \o toBrowser = Tail(Pipe)
    BY <1>0, <1>1, <2>2, <2>4, <2>5, <2>6, <2>7, DescriptionDone
  <2>9. Become(t)
    <3>1. s = [Popped EXCEPT !.pc = [Stable(@) EXCEPT !.published = TRUE]]
      BY <1>1, <2>1, <2>3 DEF ClientTypes
    <3> QED BY <1>4, <2>7, <3>1 DEF RemoteSet
  <2>10. Negotiation(Tail(Pipe), toSfu, p, sfu)
    BY <1>0, <1>1, <1>4, <2>2, InProgress, Concluded
  <2>11. toSfu \o t.out = toSfu
    BY <1>1, <2>8, ConcatEmptySeq
  <2>12. Negotiation((t.batch \o t.queue) \o toBrowser', toSfu \o t.out, t.pc, sfu')
    BY <1>0, <2>8, <2>10, <2>11
  <2> QED BY <1>0, <1>1, <2>8, <2>9, <2>12, ClientStep
<1>5. CASE Head(batch).type # "offer" /\ ~(Head(batch).type = "answer" /\ pc.signalingState = "have-local-offer")
  <2>1. Become(failDescription(Popped))
    BY <1>5 DEF RemoteSet
  <2> QED BY <1>0, <1>1, <2>1, DescriptionFails
<1> QED BY <1>3, <1>4, <1>5

LEMMA AnswerSetStep ==
    ASSUME Inv, AnswerSet
    PROVE  Inv'
<1>0. Runs("drain") /\ draining = "local" /\ toBrowser' = toBrowser /\ sfu' = sfu
  BY DEF AnswerSet
<1>1. /\ Popped \in ClientTypes /\ OfferingFits(Popped, FALSE)
      /\ Popped.cl = cl /\ Popped.queue = queue /\ Popped.batch = batch /\ Popped.offering = offering
      /\ Popped.pc = pc /\ Popped.ops = Tail(ops) /\ Popped.out = <<>>
      /\ pc.signalingState = "have-remote-offer" /\ cl.started /\ cl.isDrainingMessages
      /\ Head(batch).type = "offer" /\ toBrowser \in Seq(AllMessages) /\ Head(batch) \in AllMessages
      /\ Negotiation(Pipe, toSfu, pc, sfu) /\ toSfu \in Seq(BrowserMessages)
      /\ cl.pendingRemoteRequestId = Head(batch).id /\ pc.remoteOffer = Head(batch).id
  BY <1>0, Settled
<1>2. pc \in PcTypes /\ pc.remoteOffer \in RequestIds /\ cl \in ClTypes
  BY ClientFields DEF Inv, PcTypes
<1>3. PICK r : r = Head(batch).id
  OBVIOUS
<1>4. PICK p : p = Stable(pc)
  OBVIOUS
<1>5. p \in PcTypes /\ p.signalingState = "stable" /\ p.localOffer = None /\ p.offers = pc.offers
  BY <1>2, <1>4, PcUpdates
<1>6. PICK c : c = [cl EXCEPT !.pendingRemoteRequestId = None]
  OBVIOUS
<1>7. /\ c \in ClTypes /\ c.started = cl.started /\ c.isDrainingMessages = cl.isDrainingMessages
      /\ c.makingOffer = cl.makingOffer
  <2>1. None \in RequestIds
    BY PccAssumption DEF None, RequestIds
  <2> QED BY <1>2, <1>6, <2>1 DEF ClTypes
<1>8. PICK m : m = Reply(r, r)
  OBVIOUS
<1>9. m \in BrowserMessages /\ <<m>> \in Seq(BrowserMessages)
  <2>1. r \in Nat
    BY <1>1, <1>2, <1>3, PccAssumption DEF RequestIds
  <2>2. m \in BrowserMessages
    BY <1>8, <2>1 DEF BrowserMessages
  <2> QED BY <2>2
<1>10. PICK w \in Seq(BrowserMessages) : w = <<m>>
  BY <1>9
<1>11. PICK s : s = [Popped EXCEPT !.pc = p, !.cl = c, !.out = w]
  OBVIOUS
<1>12. s \in ClientTypes
  BY <1>1, <1>5, <1>7, <1>11, ClientUpdates, Fields
<1>13. /\ s.cl = c /\ s.queue = queue /\ s.batch = batch /\ s.offering = offering
       /\ s.pc = p /\ s.ops = Tail(ops) /\ s.out = w
  BY <1>1, <1>11 DEF ClientTypes
<1>14. OfferingFits(s, FALSE)
  BY <1>1, <1>5, <1>7, <1>13 DEF OfferingFits
<1>15. PICK t : t = nextMessage(settleDescription(s))
  OBVIOUS
<1>16. ClientFits(t) /\ t.pc = p /\ t.out = w /\ (t.batch \o t.queue) \o toBrowser = Tail(Pipe)
  BY <1>0, <1>1, <1>5, <1>7, <1>12, <1>13, <1>14, <1>15, DescriptionDone
<1>17. Become(t)
  <2>1. s = [Popped EXCEPT !.pc = Stable(@), !.cl.pendingRemoteRequestId = None,
                           !.out = <<Reply(pc.remoteOffer, cl.pendingRemoteRequestId)>>]
    BY <1>1, <1>3, <1>4, <1>6, <1>8, <1>10, <1>11 DEF ClientTypes
  <2> QED BY <1>1, <1>15, <2>1 DEF AnswerSet
<1>18. toSfu \o t.out = Append(toSfu, Reply(r, r))
  <2>1. toSfu \o <<m>> = Append(toSfu, m)
    BY <1>1, <1>9, AppendIsConcat
  <2> QED BY <1>8, <1>10, <1>16, <2>1
<1>19. Negotiation(Tail(Pipe), Append(toSfu, Reply(r, r)), p, sfu)
  BY <1>0, <1>1, <1>3, <1>5, InProgress, Replied
<1>20. Negotiation((t.batch \o t.queue) \o toBrowser', toSfu \o t.out, t.pc, sfu')
  BY <1>0, <1>16, <1>18, <1>19
<1> QED BY <1>0, <1>1, <1>16, <1>17, <1>20, ClientStep

\* A step of the engine.
LEMMA EngineStep ==
    ASSUME Inv, SfuUnchanged, toBrowser' \in Seq(AllMessages), NEW P, NEW T,
           (batch \o queue) \o toBrowser' = P, toSfu' = T, Negotiation(P, T, pc, sfu')
    PROVE  Inv'
<1>1. /\ cl' = cl /\ queue' = queue /\ batch' = batch /\ offering' = offering
      /\ draining' = draining /\ pc' = pc /\ ops' = ops
  BY DEF SfuUnchanged
<1>2. ClientFits(Client')
  <2>1. Client' = Client
    BY <1>1 DEF Client
  <2> QED BY <2>1 DEF Inv
<1>3. Negotiation(Pipe', toSfu', pc', sfu')
  BY <1>1 DEF Pipe
<1> QED BY <1>2, <1>3 DEF Inv

\* What the engine sends joins the end of the pipe.
LEMMA PipeAppend ==
    ASSUME Inv, NEW m \in AllMessages
    PROVE  /\ Append(toBrowser, m) \in Seq(AllMessages)
           /\ (batch \o queue) \o Append(toBrowser, m) = Append(Pipe, m)
<1>1. /\ batch \in Seq(AllMessages) /\ queue \in Seq(AllMessages) /\ toBrowser \in Seq(AllMessages)
  BY ClientFields DEF Inv
<1>2. batch \o queue \in Seq(AllMessages) /\ <<m>> \in Seq(AllMessages)
  BY <1>1
<1>3. Append(toBrowser, m) = toBrowser \o <<m>> /\ Append(toBrowser, m) \in Seq(AllMessages)
  BY <1>1, AppendIsConcat
<1>4. (batch \o queue) \o (toBrowser \o <<m>>) = ((batch \o queue) \o toBrowser) \o <<m>>
  BY <1>1, <1>2, ConcatAssociative
<1>5. Pipe \in Seq(AllMessages)
  BY <1>1, <1>2 DEF Pipe
<1>6. Pipe \o <<m>> = Append(Pipe, m)
  BY <1>5, AppendIsConcat
<1> QED BY <1>3, <1>4, <1>6 DEF Pipe

LEMMA SfuOffersStep ==
    ASSUME Inv, SfuOffers
    PROVE  Inv'
<1>1. /\ sfu.offer = None /\ sfu.requests < MaxSfuOffers /\ SfuUnchanged /\ toSfu' = toSfu
      /\ sfu' = [sfu EXCEPT !.offer = sfu.requests + 1, !.requests = sfu.requests + 1]
      /\ toBrowser' = Append(toBrowser, Offer(sfu.requests + 1))
  BY DEF SfuOffers
<1>2. sfu \in SfuTypes /\ Negotiation(Pipe, toSfu, pc, sfu)
  BY DEF Inv, Negotiation, Numbered
<1>3. PICK r : r = sfu.requests + 1
  OBVIOUS
<1>4. r \in 1..MaxSfuOffers /\ r \in RequestIds
  <2>1. sfu.requests \in RequestIds
    BY <1>2 DEF SfuTypes
  <2> QED BY <1>1, <1>3, <2>1, PccAssumption DEF RequestIds
<1>5. sfu' \in SfuTypes /\ sfu'.offer = r /\ sfu'.timeouts = sfu.timeouts
  <2>1. sfu' = [sfu EXCEPT !.offer = r, !.requests = r]
    BY <1>1, <1>3
  <2> QED BY <1>2, <1>4, <2>1 DEF SfuTypes
<1>6. Offer(r) \in AllMessages
  BY <1>4 DEF AllMessages
<1>7. toBrowser' \in Seq(AllMessages) /\ (batch \o queue) \o toBrowser' = Append(Pipe, Offer(r))
  BY <1>1, <1>3, <1>6, PipeAppend
<1>8. Negotiation(Append(Pipe, Offer(r)), toSfu, pc, sfu')
  BY <1>1, <1>2, <1>4, <1>5, EngineOffers
<1> QED BY <1>1, <1>7, <1>8, EngineStep

LEMMA SfuCandidateStep ==
    ASSUME Inv, SfuCandidate
    PROVE  Inv'
<1>1. /\ sfu.candidates < MaxCandidates /\ SfuUnchanged /\ toSfu' = toSfu
      /\ sfu' = [sfu EXCEPT !.candidates = sfu.candidates + 1]
      /\ toBrowser' = Append(toBrowser, Candidate)
  BY DEF SfuCandidate
<1>2. sfu \in SfuTypes /\ Negotiation(Pipe, toSfu, pc, sfu)
  BY DEF Inv, Negotiation, Numbered
<1>3. PICK n \in 0..MaxCandidates : n = sfu.candidates + 1
  <2>1. sfu.candidates \in 0..MaxCandidates
    BY <1>2 DEF SfuTypes
  <2>2. sfu.candidates + 1 \in 0..MaxCandidates
    BY <1>1, <2>1, PccAssumption
  <2> QED BY <2>2
<1>4. sfu' \in SfuTypes /\ sfu'.offer = sfu.offer /\ sfu'.timeouts = sfu.timeouts
  <2>1. sfu' = [sfu EXCEPT !.candidates = n]
    BY <1>1, <1>3
  <2> QED BY <1>2, <2>1 DEF SfuTypes
<1>5. Candidate \in AllMessages
  BY DEF AllMessages
<1>6. toBrowser' \in Seq(AllMessages) /\ (batch \o queue) \o toBrowser' = Append(Pipe, Candidate)
  BY <1>1, <1>5, PipeAppend
<1>7. Negotiation(Append(Pipe, Candidate), toSfu, pc, sfu')
  BY <1>2, <1>4, EngineTrickles
<1> QED BY <1>1, <1>6, <1>7, EngineStep

LEMMA SfuTimesOutStep ==
    ASSUME Inv, SfuTimesOut
    PROVE  Inv'
<1>1. /\ sfu.timeouts < MaxTimeouts /\ SfuUnchanged /\ toSfu' = toSfu /\ toBrowser' = toBrowser
      /\ sfu' = [sfu EXCEPT !.offer = None, !.timeouts = sfu.timeouts + 1]
  BY DEF SfuTimesOut
<1>2. /\ sfu \in SfuTypes /\ Numbered(Pipe, toSfu, pc, sfu) /\ toBrowser \in Seq(AllMessages)
  BY DEF Inv, Negotiation, Numbered
<1>3. PICK n \in 0..MaxTimeouts : n = sfu.timeouts + 1 /\ n # 0
  <2>1. sfu.timeouts \in 0..MaxTimeouts
    BY <1>2 DEF SfuTypes
  <2>2. sfu.timeouts + 1 \in 0..MaxTimeouts /\ sfu.timeouts + 1 # 0
    BY <1>1, <2>1, PccAssumption
  <2> QED BY <2>2
<1>4. sfu' \in SfuTypes /\ sfu'.timeouts = n
  <2>1. sfu' = [sfu EXCEPT !.offer = None, !.timeouts = n]
    BY <1>1, <1>3
  <2>2. None \in RequestIds
    BY PccAssumption DEF None, RequestIds
  <2> QED BY <1>2, <2>1, <2>2 DEF SfuTypes
<1>5. Negotiation(Pipe, toSfu, pc, sfu')
  <2>1. Numbered(Pipe, toSfu, pc, sfu')
    BY <1>2, <1>4 DEF Numbered
  <2> QED BY <1>3, <1>4, <2>1 DEF Negotiation
<1>6. (batch \o queue) \o toBrowser' = Pipe
  BY <1>1 DEF Pipe
<1> QED BY <1>1, <1>2, <1>5, <1>6, EngineStep

LEMMA SfuReceivesStep ==
    ASSUME Inv, SfuReceives
    PROVE  Inv'
<1>1. /\ toSfu # <<>> /\ toSfu' = Tail(toSfu) /\ SfuUnchanged
  BY DEF SfuReceives
<1>2. /\ sfu \in SfuTypes /\ Negotiation(Pipe, toSfu, pc, sfu) /\ toBrowser \in Seq(AllMessages)
      /\ toSfu \in Seq(BrowserMessages)
  BY DEF Inv, Negotiation, Numbered
<1>3. PICK m : m = Head(toSfu)
  OBVIOUS
<1>4. CASE m.type = "offer" /\ sfu.offer # None
  <2>1. toBrowser' = toBrowser /\ sfu' = sfu
    BY <1>3, <1>4 DEF SfuReceives
  <2>2. Negotiation(Pipe, Tail(toSfu), pc, sfu)
    BY <1>1, <1>2, EngineIgnores
  <2>3. (batch \o queue) \o toBrowser' = Pipe
    BY <2>1 DEF Pipe
  <2> QED BY <1>1, <1>2, <2>1, <2>2, <2>3, EngineStep
<1>5. CASE m.type = "offer" /\ sfu.offer = None
  <2>1. toBrowser' = Append(toBrowser, Answer(Head(toSfu).id)) /\ sfu' = sfu
    BY <1>3, <1>5 DEF SfuReceives
  <2>2. Negotiation(Append(Pipe, Answer(Head(toSfu).id)), Tail(toSfu), pc, sfu)
    BY <1>1, <1>2, <1>3, <1>5, EngineAnswers
  <2>3. Answer(Head(toSfu).id) \in AllMessages
    <3>1. m \in BrowserMessages
      BY <1>1, <1>2, <1>3
    <3>2. m.id \in Nat
      BY <3>1, BrowserTypes
    <3> QED BY <1>3, <3>2 DEF AllMessages
  <2>4. /\ toBrowser' \in Seq(AllMessages)
        /\ (batch \o queue) \o toBrowser' = Append(Pipe, Answer(Head(toSfu).id))
    BY <2>1, <2>3, PipeAppend
  <2> QED BY <1>1, <2>1, <2>2, <2>4, EngineStep
<1>6. CASE m.type # "offer"
  <2>1. /\ toBrowser' = toBrowser
        /\ sfu' = IF Head(toSfu).requestid = sfu.offer THEN [sfu EXCEPT !.offer = None] ELSE sfu
    BY <1>3, <1>6 DEF SfuReceives
  <2>2. /\ sfu' \in SfuTypes /\ sfu'.timeouts = sfu.timeouts
        /\ sfu'.offer = IF Head(toSfu).requestid = sfu.offer THEN None ELSE sfu.offer
    <3>1. None \in RequestIds
      BY PccAssumption DEF None, RequestIds
    <3> QED BY <1>2, <2>1, <3>1 DEF SfuTypes
  <2>3. Negotiation(Pipe, Tail(toSfu), pc, sfu')
    BY <1>1, <1>2, <1>3, <1>6, <2>2, EngineConcludes
  <2>4. (batch \o queue) \o toBrowser' = Pipe
    BY <2>1 DEF Pipe
  <2> QED BY <1>1, <1>2, <2>1, <2>3, <2>4, EngineStep
<1> QED BY <1>4, <1>5, <1>6

-----------------------------------------------------------------------------
LEMMA InitInv == Init => Inv
<1> SUFFICES ASSUME Init PROVE Inv
  OBVIOUS
<1>0. None \in Nat /\ None \in RequestIds /\ 0 \in RequestIds /\ None = 0
  BY PccAssumption DEF None, RequestIds
<1>1. cl \in ClTypes
  BY <1>0 DEF Init, ClTypes
<1>2. pc \in PcTypes
  BY <1>0 DEF Init, PcTypes
<1>3. offering \in [step : OfferSteps, rev : Nat]
  BY DEF Init, OfferSteps
<1>4. sfu \in SfuTypes
  <2>1. 0 \in 0..MaxCandidates /\ 0 \in 0..MaxTimeouts /\ 0 \in 0..MaxRejects
    BY PccAssumption
  <2> QED BY <1>0, <2>1 DEF Init, SfuTypes
<1>5. /\ queue = <<>> /\ batch = <<>> /\ ops = <<>> /\ toSfu = <<>> /\ toBrowser = <<>>
      /\ draining = "idle"
  BY DEF Init
<1>6. /\ queue \in Seq(AllMessages) /\ batch \in Seq(AllMessages) /\ toBrowser \in Seq(AllMessages)
      /\ toSfu \in Seq(BrowserMessages) /\ ops \in Seq({"offer", "drain"})
  BY <1>5
<1>7. Client \in ClientTypes
  <2>1. PICK e \in Seq(BrowserMessages) : e = <<>>
    BY <1>5, <1>6
  <2>2. Client = [cl |-> cl, queue |-> queue, batch |-> batch, offering |-> offering,
                  draining |-> draining, pc |-> pc, ops |-> ops, out |-> e]
    BY <2>1 DEF Client
  <2>3. draining \in DrainSteps
    BY <1>5 DEF DrainSteps
  <2> QED BY <1>1, <1>2, <1>3, <1>6, <2>2, <2>3 DEF ClientTypes
<1>8. /\ Client.cl = cl /\ Client.queue = queue /\ Client.batch = batch /\ Client.offering = offering
      /\ Client.draining = draining /\ Client.pc = pc /\ Client.ops = ops
  BY DEF Client
<1>9. /\ cl.started = FALSE /\ cl.isDrainingMessages = FALSE /\ cl.makingOffer = FALSE
      /\ pc.signalingState = "stable" /\ pc.offers = 0 /\ pc.localOffer = 0 /\ offering.step = "idle"
      /\ sfu.offer = None
  BY <1>0 DEF Init
<1>10. OpsHold(ops, FALSE, FALSE)
  <2>1. Len(ops) = 0
    BY <1>5
  <2>2. \A i \in 1..Len(ops) : FALSE
    BY <2>1
  <2> QED BY <2>2 DEF OpsHold
<1>11. OfferingFits(Client, Client.cl.isDrainingMessages)
  <2>1. OpsHold(Client.ops, Client.cl.makingOffer, Client.cl.isDrainingMessages)
    BY <1>8, <1>9, <1>10
  <2> QED BY <1>8, <1>9, <2>1 DEF OfferingFits
<1>12. DrainingFits(Client)
  BY <1>5, <1>8, <1>9 DEF DrainingFits
<1>13. Negotiation(Pipe, toSfu, pc, sfu)
  <2>1. Pipe = <<>> /\ Pipe \in Seq(AllMessages)
    <3>1. <<>> \o <<>> = <<>>
      OBVIOUS
    <3> QED BY <1>5, <3>1 DEF Pipe
  <2>2. \A i \in 1..Len(Pipe) : FALSE
    BY <2>1
  <2>3. \A i \in 1..Len(toSfu) : FALSE
    BY <1>5
  <2>4. Numbered(Pipe, toSfu, pc, sfu)
    BY <1>4, <1>6, <1>9, <2>1, <2>2, <2>3 DEF Numbered
  <2>5. Outstanding(Pipe, toSfu, sfu) /\ Publishing(Pipe, toSfu, pc, sfu)
    BY <2>2, <2>3 DEF Outstanding, Publishing
  <2> QED BY <2>4, <2>5 DEF Negotiation
<1> QED BY <1>6, <1>7, <1>11, <1>12, <1>13 DEF Inv, ClientFits

LEMMA NextInv == Inv /\ [Next]_vars => Inv'
<1> SUFFICES ASSUME Inv, [Next]_vars PROVE Inv'
  OBVIOUS
<1>1. CASE StartAsCaller
  BY <1>1, StartAsCallerStep
<1>2. CASE ReceiveSignalingMessage
  BY <1>2, ReceiveStep
<1>3. CASE OfferCreated
  BY <1>3, OfferCreatedStep
<1>4. CASE OfferSet
  BY <1>4, OfferSetStep
<1>5. CASE RolledBack
  BY <1>5, RolledBackStep
<1>6. CASE RemoteSet
  BY <1>6, RemoteSetStep
<1>7. CASE AnswerCreated
  BY <1>7, AnswerCreatedStep
<1>8. CASE AnswerSet
  BY <1>8, AnswerSetStep
<1>9. CASE CandidateAdded
  BY <1>9, CandidateAddedStep
<1>10. CASE onNegotiationNeeded
  BY <1>10, NegotiationNeededStep
<1>11. CASE Close
  BY <1>11, CloseStep
<1>12. CASE SfuOffers
  BY <1>12, SfuOffersStep
<1>13. CASE SfuReceives
  BY <1>13, SfuReceivesStep
<1>14. CASE SfuCandidate
  BY <1>14, SfuCandidateStep
<1>15. CASE SfuTimesOut
  BY <1>15, SfuTimesOutStep
<1>16. CASE UNCHANGED vars
  <2>1. /\ Client' = Client /\ Pipe' = Pipe /\ toSfu' = toSfu /\ pc' = pc /\ sfu' = sfu
        /\ toBrowser' = toBrowser
    BY <1>16 DEF vars, Client, Pipe
  <2> QED BY <2>1 DEF Inv
<1> QED
  BY <1>1, <1>2, <1>3, <1>4, <1>5, <1>6, <1>7, <1>8, <1>9, <1>10, <1>11, <1>12, <1>13, <1>14,
     <1>15, <1>16 DEF Next, Operation

\* The invariant holds of every reachable state of the negotiation between
\* peerconnectionclient.js and the engine.
THEOREM Invariance == Spec => []Inv
BY InitInv, NextInv, PTL DEF Spec

\* Type correctness: in particular only answers to offers that the client has
\* really made reach its message queue.
THEOREM TypeCorrect == Spec => []TypeOK
<1>1. Inv => TypeOK
  <2> SUFFICES ASSUME Inv PROVE TypeOK
    OBVIOUS
  <2>1. /\ cl \in ClTypes /\ queue \in Seq(AllMessages) /\ batch \in Seq(AllMessages)
        /\ offering \in [step : OfferSteps, rev : Nat] /\ draining \in DrainSteps
        /\ pc \in PcTypes /\ ops \in Seq({"offer", "drain"}) /\ toBrowser \in Seq(AllMessages)
    BY ClientFields DEF Inv
  <2>2. Numbered(Pipe, toSfu, pc, sfu) /\ sfu \in SfuTypes /\ Pipe \in Seq(AllMessages) /\ pc.offers \in Nat
    BY DEF Inv, Negotiation, Numbered
  <2>3. ASSUME NEW i \in 1..Len(Pipe)
        PROVE  Pipe[i] \in Messages
    <3>1. PICK m \in AllMessages : m = Pipe[i]
      BY <2>2
    <3>2. CASE \E r \in 1..MaxSfuOffers : m = Offer(r)
      BY <3>1, <3>2 DEF Messages
    <3>3. CASE m = Candidate
      BY <3>1, <3>3 DEF Messages
    <3>4. CASE \E o \in Nat : m = Answer(o)
      <4>1. PICK o \in Nat : m = Answer(o)
        BY <3>4
      <4>2. m.type = "answer" /\ m.id = o
        BY <4>1 DEF Answer
      <4>3. 1 <= o /\ o <= pc.offers
        BY <2>2, <3>1, <4>2 DEF Numbered
      <4>4. o \in 1..pc.offers
        BY <2>2, <4>3
      <4> QED BY <3>1, <4>1, <4>4 DEF Messages
    <3> QED BY <3>2, <3>3, <3>4 DEF AllMessages
  <2>4. Len(batch) \in Nat /\ Len(queue) \in Nat /\ Len(toBrowser) \in Nat
    BY <2>1
  <2>5. PICK P : P = batch \o queue
    OBVIOUS
  <2>6. /\ P \in Seq(AllMessages) /\ Len(P) = Len(batch) + Len(queue)
        /\ \A i \in 1..Len(batch) : P[i] = batch[i]
        /\ \A i \in 1..Len(queue) : P[i + Len(batch)] = queue[i]
    BY <2>1, <2>4, <2>5
  <2>7. /\ Len(P) \in Nat /\ Len(Pipe) = Len(P) + Len(toBrowser)
        /\ \A i \in 1..Len(P) : Pipe[i] = P[i]
        /\ \A i \in 1..Len(toBrowser) : Pipe[i + Len(P)] = toBrowser[i]
    BY <2>1, <2>4, <2>5, <2>6 DEF Pipe
  <2>8. /\ \A i \in 1..Len(batch) : i \in 1..Len(P) /\ i \in 1..Len(Pipe)
        /\ \A i \in 1..Len(queue) : i + Len(batch) \in 1..Len(P) /\ i + Len(batch) \in 1..Len(Pipe)
        /\ \A i \in 1..Len(toBrowser) : i + Len(P) \in 1..Len(Pipe)
    BY <2>4, <2>6, <2>7
  <2>9. /\ \A i \in 1..Len(batch) : batch[i] \in Messages
        /\ \A i \in 1..Len(queue) : queue[i] \in Messages
        /\ \A i \in 1..Len(toBrowser) : toBrowser[i] \in Messages
    BY <2>3, <2>6, <2>7, <2>8
  <2>10. ASSUME NEW s \in Seq(AllMessages), \A i \in 1..Len(s) : s[i] \in Messages
         PROVE  s \in Seq(Messages)
    <3>1. Len(s) \in Nat /\ s = [i \in 1..Len(s) |-> s[i]]
      OBVIOUS
    <3> QED BY <2>10, <3>1
  <2>11. queue \in Seq(Messages) /\ batch \in Seq(Messages) /\ toBrowser \in Seq(Messages)
    BY <2>1, <2>9, <2>10
  <2> QED BY <2>1, <2>2, <2>11 DEF TypeOK, ClTypes, PcTypes, SfuTypes, RequestIds
<1> QED BY Invariance, <1>1, PTL

\* makingOffer_ and isDrainingMessages_ tell exactly which of the two promise
\* chains of the client is under way, with one operation of it in the chain.
THEOREM FlagsTellTheChainsHolds == Spec => []FlagsTellTheChains
<1>1. Inv => FlagsTellTheChains
  <2> SUFFICES ASSUME Inv PROVE FlagsTellTheChains
    OBVIOUS
  <2>0. ClientFits(Client)
    BY DEF Inv
  <2>1. /\ cl.makingOffer <=> offering.step # "idle"
        /\ cl.isDrainingMessages <=> draining # "idle"
        /\ OpsHold(ops, cl.makingOffer, cl.isDrainingMessages)
    BY <2>0 DEF ClientFits, OfferingFits, DrainingFits, Client
  <2>2. ops \in Seq({"offer", "drain"})
    BY <2>0, ClientFields
  <2>3. DOMAIN ops = 1..Len(ops)
    BY <2>2
  <2>4. IsInjective(ops)
    BY <2>1, <2>3 DEF IsInjective, OpsHold
  <2>5. \A x : x \in ToSet(ops) <=> \E i \in 1..Len(ops) : ops[i] = x
    BY <2>3 DEF ToSet
  <2> QED BY <2>1, <2>4, <2>5 DEF FlagsTellTheChains, OpsHold
<1> QED BY Invariance, <1>1, PTL

\* A browser answer carries the requestid of the subscribe offer it answers,
\* for any number of offers, collisions and expired engine timeouts.
THEOREM AnswerNamesItsOfferHolds == Spec => []AnswerNamesItsOffer
<1>1. Inv => AnswerNamesItsOffer
  BY DEF Inv, Negotiation, Numbered, AnswerNamesItsOffer
<1> QED BY Invariance, <1>1, PTL

\* Until the engine's negotiation timeout expires, setRemoteSdp_ applies a
\* publish answer to the very offer it answers, however the offers collide.
THEOREM AnswerMeetsItsOfferHolds == Spec => []AnswerMeetsItsOffer
<1>1. Inv => AnswerMeetsItsOffer
  <2>1. SUFFICES ASSUME Inv, sfu.timeouts = 0, Runs("drain"), Head(batch).type = "answer"
                 PROVE  pc.signalingState = "have-local-offer" /\ pc.localOffer = Head(batch).id
    BY DEF AnswerMeetsItsOffer
  <2>2. 1 \in 1..Len(Pipe) /\ Pipe[1] = Head(batch)
    BY <2>1, InProgress
  <2>3. Publishing(Pipe, toSfu, pc, sfu)
    BY <2>1 DEF Inv, Negotiation
  <2>4. Live(pc, Pipe[1].id)
    BY <2>1, <2>2, <2>3 DEF Publishing
  <2> QED BY <2>2, <2>4 DEF Live
<1> QED BY Invariance, <1>1, PTL
=============================================================================
