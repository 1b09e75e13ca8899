------------------------- MODULE PeerConnectionClient -------------------------
(***************************************************************************)
(* A browser's peer connection to the SFU: web/js/peerconnectionclient.js  *)
(* with params.sfuMode = true and params.signalingVersion = 2, the perfect *)
(* negotiation between a polite browser and the impolite media engine.     *)
(*                                                                         *)
(* Two promise chains of the client share one RTCPeerConnection:           *)
(*   - the offering chain of makeOffer_ (createOffer, then                 *)
(*     setLocalDescription(offer), then send, then its finally block);     *)
(*   - the draining chain of drainMessageQueue_, which runs the queued     *)
(*     messages one after the other (rollback, setRemoteDescription,       *)
(*     createAnswer, setLocalDescription(answer), send, finally block).    *)
(* Each operation on the RTCPeerConnection waits in the connection's       *)
(* operations chain (ops) and its effect, with the continuation that the   *)
(* promise runs, is one step; the arrival of a message, the start of the   *)
(* call and the negotiationneeded event fall between two of them.  Session *)
(* descriptions are abstracted to the identity of the offer they make or   *)
(* answer, and ICE candidates to one value.                                *)
(*                                                                         *)
(* The RTCPeerConnection (W3C WebRTC, with its implicit rollback), the     *)
(* signaling hub (two FIFO channels) and the media engine are external.    *)
(***************************************************************************)
EXTENDS Integers, Sequences, FiniteSets, SequencesExt

CONSTANTS
    EarlyMessages,   \* may messages arrive before startAsCaller?  TRUE for a
                     \* member that joins a room already in SFU mode
    MaxSfuOffers,    \* subscribe offers the engine makes
    MaxCandidates,   \* ICE candidates the engine sends
    MaxRejects,      \* candidates that addIceCandidate rejects
    MaxTimeouts      \* expiries of the engine's negotiation timeout

ASSUME PccAssumption ==
    /\ EarlyMessages \in BOOLEAN
    /\ MaxSfuOffers \in Nat /\ MaxCandidates \in Nat
    /\ MaxRejects \in Nat /\ MaxTimeouts \in Nat

VARIABLES
    cl,         \* the fields of the PeerConnectionClient
    queue,      \* messageQueue_
    batch,      \* the messages of the running drain, the one in progress first
    offering,   \* the operation makeOffer_ waits for
    draining,   \* the operation the message in progress waits for
    pc,         \* the RTCPeerConnection
    ops,        \* its operations chain: which promise chain each belongs to
    toSfu, toBrowser,   \* the two directions of the signaling connection
    sfu         \* the engine's side of this negotiation

vars == <<cl, queue, batch, offering, draining, pc, ops, toSfu, toBrowser, sfu>>

None == 0

Offer(r)  == [type |-> "offer", id |-> r]
Answer(o) == [type |-> "answer", id |-> o]
Candidate == [type |-> "candidate", id |-> None]

\* A browser's answer: the offer it really answers, and the requestid it carries.
Reply(r, q) == [type |-> "answer", id |-> r, requestid |-> q]

OfferSteps == {"idle", "create", "set"}
DrainSteps == {"idle", "rollback", "remote", "answer", "local", "candidate"}

-----------------------------------------------------------------------------
(* The client.  An operator ...Fx(s) takes and returns the client part of   *)
(* the state, s, so that a continuation can run several methods in order.   *)

Client == [cl |-> cl, queue |-> queue, batch |-> batch, offering |-> offering,
           draining |-> draining, pc |-> pc, ops |-> ops, out |-> <<>>]

\* Write back s: what it sent goes to the hub in the order it was sent.
Become(s) ==
    /\ cl' = s.cl /\ queue' = s.queue /\ batch' = s.batch
    /\ offering' = s.offering /\ draining' = s.draining
    /\ pc' = s.pc /\ ops' = s.ops
    /\ toSfu' = toSfu \o s.out

\* makeOffer_ up to its createOffer: the revision is captured there.
makeOffer(s) ==
    IF s.cl.makingOffer THEN s
    ELSE [s EXCEPT !.cl.makingOffer = TRUE,
                   !.cl.offerRevision = @ + 1,
                   !.offering = [step |-> "create", rev |-> s.cl.offerRevision + 1],
                   !.ops = Append(@, "offer")]

\* maybeRenegotiate_: publish again once a collision has been resolved.
maybeRenegotiate(s) ==
    IF ~s.cl.renegotiationPending \/ s.cl.makingOffer \/ s.pc.signalingState # "stable"
    THEN s
    ELSE makeOffer([s EXCEPT !.cl.renegotiationPending = FALSE])

\* The finally block of makeOffer_.
endOffer(s) ==
    maybeRenegotiate([s EXCEPT !.cl.makingOffer = FALSE,
                               !.offering = [step |-> "idle", rev |-> 0]])

\* processV2Description_ up to its first wait, for the polite SFU-mode client:
\* ignoreOffer_ stays false.
processV2Description(s, m) ==
    LET isOffer == m.type = "offer"
        readyForOffer == /\ ~s.cl.makingOffer
                         /\ \/ s.pc.signalingState = "stable"
                            \/ s.cl.isSettingRemoteAnswerPending
        collision == isOffer /\ ~readyForOffer
        rollback == collision /\ s.pc.signalingState # "stable"
    IN  [s EXCEPT
            !.cl.offerRevision = IF collision THEN @ + 1 ELSE @,
            !.cl.renegotiationPending = @ \/ collision,
            !.cl.pendingRemoteRequestId = IF isOffer THEN m.id ELSE @,
            !.cl.isSettingRemoteAnswerPending = ~isOffer,
            !.draining = IF rollback THEN "rollback" ELSE "remote",
            !.ops = Append(@, "drain")]

\* processSignalingMessage_: a candidate goes straight to addIceCandidate.
processSignalingMessage(s, m) ==
    IF m.type = "candidate"
    THEN [s EXCEPT !.draining = "candidate", !.ops = Append(@, "drain")]
    ELSE processV2Description(s, m)

\* drainMessageQueue_: take the whole queue as one batch and start it.
drainMessageQueue(s) ==
    IF ~s.cl.started \/ ~s.cl.hasRemoteSdp \/ s.cl.isDrainingMessages THEN s
    ELSE processSignalingMessage(
             [s EXCEPT !.cl.isDrainingMessages = TRUE,
                       !.batch = s.queue, !.queue = <<>>], Head(s.queue))

\* Mutant of endDrain: what was queued meanwhile waits for the next arrival.
endDrainOnce(s) ==
    [s EXCEPT !.cl.isDrainingMessages = FALSE, !.batch = <<>>, !.draining = "idle"]

\* The end of a batch: the next drain takes what has been queued meanwhile.
endDrain(s) ==
    LET t == [s EXCEPT !.cl.isDrainingMessages = FALSE, !.batch = <<>>,
                       !.draining = "idle"]
    IN  IF t.queue = <<>> THEN t ELSE drainMessageQueue(t)

\* A message is done; the next one of the batch follows in the same turn.
nextMessage(s) ==
    LET t == [s EXCEPT !.batch = Tail(@), !.draining = "idle"]
    IN  IF t.batch = <<>> THEN endDrain(t)
        ELSE processSignalingMessage(t, Head(t.batch))

\* The finally block of processV2Description_.
settleDescription(s) ==
    maybeRenegotiate([s EXCEPT !.cl.isSettingRemoteAnswerPending = FALSE])

\* Mutant of failDescription: the rejection is not caught by the drain.
failDescriptionUncaught(s) == settleDescription(s)

\* A rejected message: its finally block runs, then the rest of the batch is
\* skipped, because every message was chained behind it with then.
failDescription(s) == endDrain(settleDescription(s))

-----------------------------------------------------------------------------
(* The RTCPeerConnection: the effect of one operation on its state.         *)

\* Reaching the stable state clears the negotiation-needed flag.
Stable(p) == [p EXCEPT !.signalingState = "stable", !.notified = FALSE,
                       !.localOffer = None, !.remoteOffer = None]

\* setRemoteDescription(offer) is legal in have-local-offer too: the local
\* offer is rolled back implicitly.
RemoteOffer(p, r) == [p EXCEPT !.signalingState = "have-remote-offer",
                               !.localOffer = None, !.remoteOffer = r]

LocalOffer(p) == [p EXCEPT !.signalingState = "have-local-offer",
                           !.offers = @ + 1, !.localOffer = p.offers + 1]

-----------------------------------------------------------------------------
Init ==
    /\ cl = [started |-> FALSE, hasRemoteSdp |-> FALSE, isDrainingMessages |-> FALSE,
             makingOffer |-> FALSE, offerRevision |-> 0,
             renegotiationPending |-> FALSE, pendingRemoteRequestId |-> None,
             isSettingRemoteAnswerPending |-> FALSE, closed |-> FALSE]
    /\ queue = <<>> /\ batch = <<>>
    /\ offering = [step |-> "idle", rev |-> 0]
    /\ draining = "idle"
    /\ pc = [signalingState |-> "stable", localOffer |-> None, remoteOffer |-> None,
             offers |-> 0, published |-> FALSE, notified |-> FALSE]
    /\ ops = <<>> /\ toSfu = <<>> /\ toBrowser = <<>>
    /\ sfu = [offer |-> None, requests |-> 0, candidates |-> 0, timeouts |-> 0,
              rejects |-> 0]

Open == ~cl.closed

\* startAsCaller: the local tracks were added in the same turn.
StartAsCaller ==
    /\ Open /\ ~cl.started
    /\ Become(makeOffer([Client EXCEPT !.cl.started = TRUE]))
    /\ UNCHANGED <<toBrowser, sfu>>

\* Mutant of ReceiveSignalingMessage: descriptions overtake what is queued.
ReceiveDescriptionsFirst ==
    /\ Open /\ toBrowser # <<>>
    /\ EarlyMessages \/ cl.started
    /\ LET m == Head(toBrowser)
       IN  Become(drainMessageQueue(
               [Client EXCEPT !.cl.hasRemoteSdp = @ \/ m.type # "candidate",
                              !.queue = IF m.type = "candidate" THEN Append(@, m)
                                        ELSE <<m>> \o @]))
    /\ toBrowser' = Tail(toBrowser)
    /\ UNCHANGED sfu

\* Mutant of ReceiveSignalingMessage: the request id is noted on arrival.
ReceiveNotingRequest ==
    /\ Open /\ toBrowser # <<>>
    /\ EarlyMessages \/ cl.started
    /\ LET m == Head(toBrowser)
       IN  Become(drainMessageQueue(
               [Client EXCEPT !.cl.hasRemoteSdp = @ \/ m.type # "candidate",
                              !.cl.pendingRemoteRequestId =
                                    IF m.type = "offer" THEN m.id ELSE @,
                              !.queue = Append(@, m)]))
    /\ toBrowser' = Tail(toBrowser)
    /\ UNCHANGED sfu

\* receiveSignalingMessage: descriptions and candidates keep their order.
ReceiveSignalingMessage ==
    /\ Open /\ toBrowser # <<>>
    /\ EarlyMessages \/ cl.started
    /\ LET m == Head(toBrowser)
       IN  Become(drainMessageQueue(
               [Client EXCEPT !.cl.hasRemoteSdp = @ \/ m.type # "candidate",
                              !.queue = Append(@, m)]))
    /\ toBrowser' = Tail(toBrowser)
    /\ UNCHANGED sfu

\* The operation at the head of the chain belongs to the given promise chain.
Runs(chain) == Open /\ ops # <<>> /\ Head(ops) = chain

Popped == [Client EXCEPT !.ops = Tail(@)]

\* createOffer settled.  A superseded offer is discarded, and so is one that the
\* connection rejects because a remote offer was applied in between.
OfferCreated ==
    /\ Runs("offer") /\ offering.step = "create"
    /\ LET current == /\ offering.rev = cl.offerRevision
                      /\ pc.signalingState = "stable"
       IN  Become(IF current
                  THEN [Popped EXCEPT !.offering.step = "set",
                                      !.ops = Append(@, "offer")]
                  ELSE endOffer(Popped))
    /\ UNCHANGED <<toBrowser, sfu>>

\* Mutant of OfferSet: what is sent was read before the description was set.
OfferSetReadEarly ==
    /\ Runs("offer") /\ offering.step = "set"
    /\ Become(endOffer([Popped EXCEPT !.pc = LocalOffer(@),
                                      !.out = <<Offer(pc.localOffer)>>]))
    /\ UNCHANGED <<toBrowser, sfu>>

\* setLocalDescription(offer) settled: the offer is sent and the chain ends.
OfferSet ==
    /\ Runs("offer") /\ offering.step = "set"
    /\ Become(IF pc.signalingState = "have-remote-offer" THEN endOffer(Popped)
              ELSE endOffer([Popped EXCEPT !.pc = LocalOffer(@),
                                           !.out = <<Offer(pc.offers + 1)>>]))
    /\ UNCHANGED <<toBrowser, sfu>>

\* setLocalDescription(rollback) settled.
RolledBack ==
    /\ Runs("drain") /\ draining = "rollback"
    /\ Become(IF pc.signalingState # "have-local-offer" THEN failDescription(Popped)
              ELSE [Popped EXCEPT !.pc = Stable(@), !.draining = "remote",
                                  !.ops = Append(@, "drain")])
    /\ UNCHANGED <<toBrowser, sfu>>

\* setRemoteDescription settled: an offer is answered next; an answer concludes
\* the local offer, and is rejected when there is none.
RemoteSet ==
    /\ Runs("drain") /\ draining = "remote"
    /\ LET m == Head(batch)
       IN  Become(CASE m.type = "offer" ->
                         [Popped EXCEPT !.pc = RemoteOffer(@, m.id),
                                        !.draining = "answer",
                                        !.ops = Append(@, "drain")]
                    [] m.type = "answer" /\ pc.signalingState = "have-local-offer" ->
                         nextMessage(settleDescription(
                             [Popped EXCEPT !.pc = [Stable(@) EXCEPT !.published = TRUE]]))
                    [] OTHER -> failDescription(Popped))
    /\ UNCHANGED <<toBrowser, sfu>>

\* createAnswer settled (doAnswer_).
AnswerCreated ==
    /\ Runs("drain") /\ draining = "answer"
    /\ Become(IF pc.signalingState # "have-remote-offer" THEN failDescription(Popped)
              ELSE [Popped EXCEPT !.draining = "local", !.ops = Append(@, "drain")])
    /\ UNCHANGED <<toBrowser, sfu>>

\* setLocalDescription(answer) settled: the answer leaves with the request id
\* remembered for it, and the finally block may publish again.
AnswerSet ==
    /\ Runs("drain") /\ draining = "local"
    /\ Become(IF pc.signalingState # "have-remote-offer" THEN failDescription(Popped)
              ELSE nextMessage(settleDescription(
                     [Popped EXCEPT
                        !.pc = Stable(@),
                        !.cl.pendingRemoteRequestId = None,
                        !.out = <<Reply(pc.remoteOffer, cl.pendingRemoteRequestId)>>])))
    /\ UNCHANGED <<toBrowser, sfu>>

\* addIceCandidate settled, or rejected.
CandidateAdded ==
    /\ Runs("drain") /\ draining = "candidate"
    /\ UNCHANGED toBrowser
    /\ \/ Become(nextMessage(Popped)) /\ UNCHANGED sfu
       \/ /\ sfu.rejects < MaxRejects
          /\ Become(endDrain(Popped))
          /\ sfu' = [sfu EXCEPT !.rejects = @ + 1]

\* Mutant of onNegotiationNeeded: the handler leaves it to maybeRenegotiate_.
onNegotiationNeededIgnored ==
    /\ Open /\ ops = <<>>
    /\ cl.started /\ pc.signalingState = "stable"
    /\ ~pc.published /\ ~pc.notified
    /\ pc' = [pc EXCEPT !.notified = TRUE]
    /\ UNCHANGED <<cl, queue, batch, offering, draining, ops, toSfu, toBrowser, sfu>>

\* negotiationneeded: fired once per stable state while the local tracks are not
\* negotiated, and only with no operation under way.
onNegotiationNeeded ==
    /\ Open /\ ops = <<>>
    /\ cl.started /\ pc.signalingState = "stable"
    /\ ~pc.published /\ ~pc.notified
    /\ Become(makeOffer([Client EXCEPT !.pc.notified = TRUE]))
    /\ UNCHANGED <<toBrowser, sfu>>

\* close: pending operations of a closed connection never settle.
Close ==
    /\ Open
    /\ cl' = [cl EXCEPT !.closed = TRUE]
    /\ UNCHANGED <<queue, batch, offering, draining, pc, ops, toSfu, toBrowser, sfu>>

-----------------------------------------------------------------------------
(* The media engine, as docs/design section 4.2 describes it.               *)

SfuUnchanged == UNCHANGED <<cl, queue, batch, offering, draining, pc, ops>>

\* Its own offers are serialized per client.
SfuOffers ==
    /\ sfu.offer = None /\ sfu.requests < MaxSfuOffers
    /\ sfu' = [sfu EXCEPT !.offer = sfu.requests + 1, !.requests = @ + 1]
    /\ toBrowser' = Append(toBrowser, Offer(sfu.requests + 1))
    /\ SfuUnchanged /\ UNCHANGED toSfu

\* A browser offer is rejected silently while its own offer is outstanding, and
\* answered otherwise; an answer must carry the outstanding request id.
SfuReceives ==
    /\ toSfu # <<>>
    /\ LET m == Head(toSfu)
       IN  IF m.type = "offer"
           THEN /\ toBrowser' = IF sfu.offer # None THEN toBrowser
                                ELSE Append(toBrowser, Answer(m.id))
                /\ UNCHANGED sfu
           ELSE /\ sfu' = IF m.requestid = sfu.offer THEN [sfu EXCEPT !.offer = None] ELSE sfu
                /\ UNCHANGED toBrowser
    /\ toSfu' = Tail(toSfu)
    /\ SfuUnchanged

SfuCandidate ==
    /\ sfu.requests > 0 /\ sfu.candidates < MaxCandidates
    /\ sfu' = [sfu EXCEPT !.candidates = @ + 1]
    /\ toBrowser' = Append(toBrowser, Candidate)
    /\ SfuUnchanged /\ UNCHANGED toSfu

\* The negotiation timeout: the engine rolls its offer back.
SfuTimesOut ==
    /\ sfu.offer # None /\ sfu.timeouts < MaxTimeouts
    /\ sfu' = [sfu EXCEPT !.offer = None, !.timeouts = @ + 1]
    /\ SfuUnchanged /\ UNCHANGED <<toSfu, toBrowser>>

-----------------------------------------------------------------------------
Operation == \/ OfferCreated \/ OfferSet \/ RolledBack \/ RemoteSet
             \/ AnswerCreated \/ AnswerSet \/ CandidateAdded

Next == \/ StartAsCaller \/ ReceiveSignalingMessage \/ Operation
        \/ onNegotiationNeeded \/ Close
        \/ SfuOffers \/ SfuReceives \/ SfuCandidate \/ SfuTimesOut

Spec == Init /\ [][Next]_vars

\* The page starts the call, the browser settles every operation and fires
\* its events, the hub delivers, the engine handles what it receives.
FairSpec ==
    /\ Spec
    /\ WF_vars(StartAsCaller) /\ WF_vars(ReceiveSignalingMessage)
    /\ WF_vars(Operation) /\ WF_vars(onNegotiationNeeded)
    /\ WF_vars(SfuReceives)
-----------------------------------------------------------------------------
(* Properties.                                                              *)

Messages == {Offer(r) : r \in 1..MaxSfuOffers} \cup {Candidate}
                \cup {Answer(o) : o \in 1..pc.offers}

TypeOK ==
    /\ cl \in [started : BOOLEAN, hasRemoteSdp : BOOLEAN, isDrainingMessages : BOOLEAN,
               makingOffer : BOOLEAN, offerRevision : Nat,
               renegotiationPending : BOOLEAN,
               pendingRemoteRequestId : 0..MaxSfuOffers,
               isSettingRemoteAnswerPending : BOOLEAN, closed : BOOLEAN]
    /\ queue \in Seq(Messages) /\ batch \in Seq(Messages)
    /\ offering \in [step : OfferSteps, rev : Nat]
    /\ draining \in DrainSteps
    /\ pc \in [signalingState : {"stable", "have-local-offer", "have-remote-offer"},
               localOffer : Nat, remoteOffer : 0..MaxSfuOffers, offers : Nat,
               published : BOOLEAN, notified : BOOLEAN]
    /\ ops \in Seq({"offer", "drain"})
    /\ toBrowser \in Seq(Messages)
    /\ sfu \in [offer : 0..MaxSfuOffers, requests : 0..MaxSfuOffers,
                candidates : 0..MaxCandidates, timeouts : 0..MaxTimeouts,
                rejects : 0..MaxRejects]

\* The two guards of the client mean what they say: makingOffer_ holds exactly
\* while a makeOffer_ is under way and isDrainingMessages_ exactly while a batch
\* is, with one operation of each in the chain.  A flag that a rejected
\* operation left set would silence the client for good.
FlagsTellTheChains ==
    /\ cl.makingOffer <=> offering.step # "idle"
    /\ cl.isDrainingMessages <=> draining # "idle"
    /\ IsInjective(ops)
    /\ "offer" \in ToSet(ops) <=> cl.makingOffer
    /\ "drain" \in ToSet(ops) <=> cl.isDrainingMessages

\* The requestid a browser answer carries is the one of the subscribe offer it
\* answers (docs/design section 4.2: the browser answer "must carry the worker
\* requestid"), although the client keeps a single pendingRemoteRequestId_ that
\* the next offer overwrites.
AnswerNamesItsOffer ==
    \A i \in 1..Len(toSfu) :
        toSfu[i].type = "answer" => toSfu[i].requestid = toSfu[i].id

\* As long as the engine's negotiation timeout has not expired, a publish answer
\* is applied to the very publish offer it answers, never to a later one, and it
\* never comes too late: setRemoteSdp_ finds its offer pending.
AnswerMeetsItsOffer ==
    sfu.timeouts = 0 /\ Runs("drain") /\ draining = "remote" /\ Head(batch).type = "answer"
        => pc.signalingState = "have-local-offer" /\ pc.localOffer = Head(batch).id

\* A rolled-back or silently rejected publish offer is made again until the
\* engine answers one: README.md "republish after an offer collision".  The
\* exceptions are a closed client and the faults the client does not recover
\* from, an expired engine timeout and a rejected candidate.
PublishedInTheEnd ==
    <>(pc.published \/ cl.closed \/ sfu.timeouts > 0 \/ sfu.rejects > 0)

\* A subscribe offer that has arrived is processed: the message queue of an open
\* client empties again and again, also after a rejected message.
QueueDrains == (queue # <<>>) ~> (queue = <<>> \/ cl.closed)

=============================================================================
