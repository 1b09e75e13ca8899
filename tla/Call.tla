-------------------------------- MODULE Call --------------------------------
(***************************************************************************)
(* The browser side of a call: the mode machine of web/js/call.js (P2P,    *)
(* upgrading, SFU, downgrading) with the peer connection clients it makes, *)
(* retains and closes, the layout hold of web/js/appcontroller.js, and     *)
(* what both use of web/js/signalingchannel.js, signaling version 2.       *)
(*                                                                         *)
(* One action is one turn of the page's event loop.  Between two turns the *)
(* page waits for: the WebSocket and the join response, the registered     *)
(* snapshot, media and ICE servers (the stages of connectToRoom_), a       *)
(* certificate (each pending createPcClientPromise_), ICE state changes,   *)
(* control messages, the answer to its leave request, the two timers, and  *)
(* the user.  A promise makes exactly one client, so a promise and the     *)
(* client it makes have one number, free again when the client is closed   *)
(* or its failed promise forgotten.  The signaling hub is external: it is  *)
(* the mode of the room.  What the clients negotiate is the subject of     *)
(* PeerConnectionClient.                                                   *)
(***************************************************************************)
EXTENDS Integers, Sequences, FiniteSets

CONSTANTS
    MaxClients,   \* peer connection clients open or being made at one time
    MaxJoins      \* connectToRoom_ calls under way at one time

ASSUME CallAssumption == MaxClients \in Nat \ {0} /\ MaxJoins \in Nat \ {0}

Ids == 1..MaxClients
Joins == 1..MaxJoins
Null == 0

VARIABLES
    call,      \* the fields of Call and of its params_
    clients,   \* the PeerConnectionClients
    waiting,   \* for each creation promise, the starts that wait for it
    ui,        \* the page shown, stage or grid, and the hold at the end of a downgrade
    channel,   \* the SignalingChannel: its WebSocket, ids and registration
    connects,  \* the stage each connectToRoom_ has reached
    hub,       \* the mode of the room
    calm       \* history: no transition has met an unfinished one (see Quiet)

vars == <<call, clients, waiting, ui, channel, connects, hub, calm>>

Modes == {"p2p", "upgrading", "sfu", "downgrading"}
Starts == {"start", "downgrade"}   \* of startSignaling_ or startSfuUpgrade_, of startSfuDowngrade_
Handlers == {"plain", "sfu", "downgrade", "none"}
Pages == {"call", "rejoin", "blank"}

\* The WebSocket: websocket_ is null, or it is connecting, open or closed (it
\* failed to open, or the server closed it, of which nobody is told).
Sockets == {"null", "connecting", "open", "closed"}

\* connectToRoom_ awaits the socket and the join response together: "joining" for
\* both, "opened" or "refused" for the response once the socket is open or has
\* failed, "joined" for the socket.  Then it awaits the registration, and media.
Stages == {"none", "joining", "opened", "refused", "joined", "register", "media"}

\* A client's ICE handler tells its role: "sfu" if it was made in SFU mode.
NoClient == [state |-> "none", handler |-> "none", started |-> FALSE]

\* A client whose callbacks were removed: nothing it does is noticed.
Retired == [NoClient EXCEPT !.state = "open"]

Page == [call |-> call, clients |-> clients, waiting |-> waiting, ui |-> ui]

\* A failed promise that no field holds any more is as good as none.
Forget(s) == [i \in Ids |-> IF s.clients[i].state = "failed" /\ s.call.createPromise # i
                            THEN NoClient ELSE s.clients[i]]

Become(s) == call' = s.call /\ clients' = Forget(s) /\ waiting' = s.waiting /\ ui' = s.ui

-----------------------------------------------------------------------------
(* Methods of Call and AppController, from page state to page state.        *)

\* PeerConnectionClient.close on the client a field holds, if it holds one.
CloseClient(s, c) == IF c = Null THEN s ELSE [s EXCEPT !.clients[c] = NoClient]

\* maybeCreatePcClientAsync_ with the start that waits for its promise.  A client
\* that is there already resolves at once; starting a started client does nothing.
\* A rejected promise is kept and rejects every later caller.
Unused(s) == {i \in Ids : s.waiting[i] = {} /\ Forget(s)[i].state = "none"}

\* The bound on the clients: what must be made can be made.
CanCreate(s) == s.call.pcClient # Null \/ s.call.createPromise # Null \/ Unused(s) # {}

Pending(s) == {i \in Ids : s.waiting[i] # {}}

Fresh(s) == CHOOSE i \in Unused(s) : TRUE

maybeCreatePcClient(s, start) ==
    IF s.call.pcClient # Null THEN [s EXCEPT !.clients[s.call.pcClient].started = TRUE]
    ELSE IF s.call.createPromise # Null
         THEN IF s.clients[s.call.createPromise].state = "failed" THEN s
              ELSE [s EXCEPT !.waiting[s.call.createPromise] = (@ \ {"message"}) \cup {start}]
    ELSE [s EXCEPT !.call.createPromise = Fresh(s), !.waiting[Fresh(s)] = {start},
                   !.clients[Fresh(s)] = NoClient]

BecomeStarting(s, start) == CanCreate(s) /\ Become(maybeCreatePcClient(s, start))

\* closeRetainedPcClients_ and releaseRetiredSfuTransport.
releaseRetiredSfuTransport(s) ==
    [CloseClient(s, s.call.sfuPcClient) EXCEPT !.call.sfuPcClient = Null]

closeRetainedPcClients(s) ==
    releaseRetiredSfuTransport(
        [CloseClient(s, s.call.p2pPcClient) EXCEPT !.call.p2pPcClient = Null,
                                                   !.call.downgradeTimer = FALSE])

\* Close the current client; its promise is forgotten with it, and only with it.
closePcClient(s) ==
    IF s.call.pcClient = Null THEN s
    ELSE [CloseClient(s, s.call.pcClient) EXCEPT !.call.pcClient = Null,
                                                 !.call.createPromise = Null]

\* clearP2pLayoutHold_: only the latest timer is known.
clearP2pLayoutHold(s) ==
    [s EXCEPT !.ui.pending = FALSE]

completeP2pLayout(s) ==
    releaseRetiredSfuTransport([clearP2pLayoutHold(s) EXCEPT !.ui.layout = "stage"])

\* onModeChange_('p2p'): hold the grid while the direct video cannot play yet.
holdP2pLayout(s) ==
    [s EXCEPT !.ui.pending = TRUE, !.ui.stray = @ \/ s.ui.pending]

\* finishSfuDowngrade_; playable says whether the direct video can play.
finishSfuDowngrade(s, playable) ==
    IF s.call.mode # "downgrading" THEN s
    ELSE LET t == [s EXCEPT !.call.downgradeTimer = FALSE, !.call.mode = "p2p"]
         IN  IF playable \/ s.ui.layout = "stage" THEN completeP2pLayout(t)
             ELSE holdP2pLayout(t)

\* Mutant of startDowngradeTimer: the transition is not bounded.
startDowngradeTimerNever(s) == s

startDowngradeTimer(s) == [s EXCEPT !.call.downgradeTimer = TRUE]

\* Mutant of retireSfuClientCallbacks: the callbacks stay.
retireSfuClientCallbacksNot(s, c) == s

retireSfuClientCallbacks(s, c) ==
    IF c = Null THEN s ELSE [s EXCEPT !.clients[c] = Retired]

\* The current client can be connected; whether it is, at the moment, ICE decides.
CanBeConnected(s) == /\ s.call.pcClient # Null
                     /\ s.clients[s.call.pcClient].state = "open"
                     /\ s.clients[s.call.pcClient].started

\* Mutant of onSfuIceConnectionStateChange: the P2P client is forgotten, not closed.
onSfuIceForgetting(s) ==
    IF ~CanBeConnected(s) THEN s
    ELSE [s EXCEPT !.call.p2pPcClient = Null, !.call.mode = "sfu", !.ui.layout = "grid"]

\* onSfuIceConnectionStateChange_ and onModeChange_('sfu').
onSfuIceConnectionStateChange(s) ==
    IF ~CanBeConnected(s) THEN s
    ELSE [CloseClient(s, s.call.p2pPcClient) EXCEPT !.call.p2pPcClient = Null,
                                                    !.call.mode = "sfu",
                                                    !.ui.layout = "grid"]

onDowngradeIceConnectionStateChange(s, playable) ==
    IF CanBeConnected(s) THEN finishSfuDowngrade(s, playable) ELSE s

\* Mutant of createPcClient: the role follows the mode, which is not yet sfu.
createPcClientByMode(s, i) ==
    [s EXCEPT !.call.pcClient = i,
              !.clients[i] = [state |-> "open",
                              handler |-> IF s.call.mode = "sfu" THEN "sfu" ELSE "plain",
                              started |-> FALSE]]

\* createPcClient_: the role and the ICE handler follow params_ as they are now.
createPcClient(s, i) ==
    [s EXCEPT !.call.pcClient = i,
              !.clients[i] =
                  [state |-> "open",
                   handler |-> IF s.call.sfuMode THEN "sfu"
                               ELSE IF s.call.mode = "downgrading" THEN "downgrade"
                               ELSE "plain",
                   started |-> FALSE]]

-----------------------------------------------------------------------------
Init ==
    /\ call = [mode |-> "p2p", sfuMode |-> FALSE,
               pcClient |-> Null, p2pPcClient |-> Null, sfuPcClient |-> Null,
               createPromise |-> Null, downgradeTimer |-> FALSE]
    /\ clients = [i \in Ids |-> NoClient]
    /\ waiting = [i \in Ids |-> {}]
    /\ ui = [layout |-> "stage", page |-> "call", pending |-> FALSE, stray |-> FALSE]
    /\ channel = [socket |-> "connecting", saved |-> FALSE, registering |-> FALSE,
                  registered |-> FALSE]
    /\ connects = [j \in Joins |-> IF j = 1 THEN "joining" ELSE "none"]
    /\ hub \in {"p2p", "sfu"}
    /\ calm = TRUE

\* No creation and no connectToRoom_ is under way.
Settled == /\ Pending(Page) = {}
           /\ \A j \in Joins : connects[j] = "none"

\* No transition of the call or of the layout is under way, and no leave request.
Quiet == Settled /\ call.mode # "downgrading" /\ ~ui.pending /\ ui.page = "call"

\* What the hub sends arrives.
Online == channel.registered /\ channel.socket = "open"

-----------------------------------------------------------------------------
(* SignalingChannel, and the stages of connectToRoom_.                      *)

\* SignalingChannel.register: it resolves at once if it is registered already, or
\* if the socket is not open (any more), in which case it saves its ids.  Whoever
\* registers while a registration is under way waits for that one.
register(j) ==
    IF channel.registered
    THEN connects' = [connects EXCEPT ![j] = "media"] /\ UNCHANGED channel
    ELSE IF channel.socket # "open"
    THEN /\ connects' = [connects EXCEPT ![j] = "media"]
         /\ channel' = [channel EXCEPT !.saved = TRUE]
    ELSE /\ connects' = [connects EXCEPT ![j] = "register"]
         /\ channel' = [channel EXCEPT !.registering = TRUE]

\* SignalingChannel.close: a socket that was still connecting fails, and who waits
\* for the registration waits for ever.
closeChannel ==
    /\ channel' = [socket |-> "null", saved |-> FALSE, registering |-> FALSE, registered |-> FALSE]
    /\ connects' = [j \in Joins |-> CASE connects[j] = "joining" -> "refused"
                                      [] connects[j] \in {"joined", "register"} -> "none"
                                      [] OTHER -> connects[j]]

\* The socket is open: a join that has its response registers, and the ids saved
\* from a call that was over are registered too.
SocketOpens ==
    /\ channel.socket = "connecting"
    /\ connects' = [j \in Joins |-> CASE connects[j] = "joining" -> "opened"
                                      [] connects[j] = "joined" -> "register"
                                      [] OTHER -> connects[j]]
    /\ channel' = [channel EXCEPT !.socket = "open", !.saved = FALSE,
                       !.registering = channel.saved \/ \E j \in Joins : connects[j] = "joined"]
    /\ UNCHANGED <<call, clients, waiting, ui, hub, calm>>

\* The socket cannot be opened: its join ends, once the response is there.
SocketFails ==
    /\ channel.socket = "connecting"
    /\ connects' = [j \in Joins |-> CASE connects[j] = "joining" -> "refused"
                                      [] connects[j] = "joined" -> "none"
                                      [] OTHER -> connects[j]]
    /\ channel' = [channel EXCEPT !.socket = "closed"]
    /\ UNCHANGED <<call, clients, waiting, ui, hub, calm>>

\* The server closes the socket.  onclose is not bound to the channel, which stays
\* registered, and a registration under way is neither resolved nor rejected.
SocketCloses ==
    /\ channel.socket = "open"
    /\ channel' = [channel EXCEPT !.socket = "closed"]
    /\ UNCHANGED <<call, clients, waiting, ui, connects, hub, calm>>

\* The join response: its mode may be out of date by now, and sfuMode is only
\* ever set, also if the socket has failed.
JoinResponse(j, m) ==
    /\ \/ connects[j] = "joining" /\ connects' = [connects EXCEPT ![j] = "joined"] /\ UNCHANGED channel
       \/ connects[j] = "opened" /\ register(j)
       \/ connects[j] = "refused" /\ connects' = [connects EXCEPT ![j] = "none"] /\ UNCHANGED channel
    /\ call' = [call EXCEPT !.mode = m, !.sfuMode = @ \/ m = "sfu"]
    /\ calm' = (calm /\ (m = "sfu" \/ ~call.sfuMode))
    /\ UNCHANGED <<clients, waiting, ui, hub>>

JoinFailure(j) ==
    /\ connects[j] \in {"joining", "opened", "refused"}
    /\ connects' = [connects EXCEPT ![j] = "none"]
    /\ UNCHANGED <<call, clients, waiting, ui, channel, hub, calm>>

\* Mutant of Registered: the name of the control is taken for the mode.
RegisteredStoringControl ==
    /\ channel.registering /\ channel.socket = "open"
    /\ channel' = [channel EXCEPT !.registering = FALSE, !.registered = TRUE]
    /\ call' = [call EXCEPT !.mode = "registered"]
    /\ connects' = [j \in Joins |-> IF connects[j] = "register" THEN "media" ELSE connects[j]]
    /\ UNCHANGED <<clients, waiting, ui, hub, calm>>

\* The registered snapshot is authoritative for the mode; all who wait for it
\* wait for one promise.  Nobody does if the channel has registered saved ids.
Registered ==
    /\ channel.registering /\ channel.socket = "open"
    /\ channel' = [channel EXCEPT !.registering = FALSE, !.registered = TRUE]
    /\ IF \E j \in Joins : connects[j] = "register"
       THEN /\ call' = [call EXCEPT !.mode = hub, !.sfuMode = @ \/ hub = "sfu"]
            /\ calm' = (calm /\ (hub = "sfu" \/ ~call.sfuMode))
       ELSE UNCHANGED <<call, calm>>
    /\ connects' = [j \in Joins |-> IF connects[j] = "register" THEN "media" ELSE connects[j]]
    /\ UNCHANGED <<clients, waiting, ui, hub>>

\* The hub answers with an error, or the socket reports one: connectToRoom_ ends
\* there, with the mode and the flag of the join response.
RegistrationRejected ==
    /\ channel.registering /\ channel.socket = "open"
    /\ channel' = [channel EXCEPT !.registering = FALSE]
    /\ connects' = [j \in Joins |-> IF connects[j] = "register" THEN "none" ELSE connects[j]]
    /\ UNCHANGED <<call, clients, waiting, ui, hub, calm>>

\* Media and ICE servers are there: startSignaling_.
MediaReady(j) ==
    /\ connects[j] = "media"
    /\ BecomeStarting([Page EXCEPT !.call.mode = IF @ = "sfu" THEN "upgrading" ELSE @], "start")
    /\ connects' = [connects EXCEPT ![j] = "none"]
    /\ UNCHANGED <<channel, hub, calm>>

\* A signaling message creates the client if need be and waits for it.
onRecvSignalingChannelMessage ==
    /\ Online
    /\ call.pcClient = Null /\ call.createPromise = Null
    /\ BecomeStarting(Page, "message")
    /\ calm' = (calm /\ ui.page = "call")
    /\ UNCHANGED <<channel, connects, hub>>

\* The certificate is generated: the client is made and every start that waits
\* runs on it.
CertificateReady(i) ==
    /\ i \in Pending(Page)
    /\ Become([createPcClient(Page, i) EXCEPT !.waiting[i] = {},
                  !.clients[i].started = waiting[i] \cap Starts # {}])
    /\ UNCHANGED <<channel, connects, hub, calm>>

\* Certificate generation fails: a downgrade that waits for it is completed.
CertificateFailed(i) ==
    /\ i \in Pending(Page)
    /\ \E playable \in BOOLEAN :
          LET t == [Page EXCEPT !.clients[i].state = "failed", !.waiting[i] = {}]
          IN  Become(IF "downgrade" \in waiting[i]
                     THEN finishSfuDowngrade(t, playable) ELSE t)
    /\ UNCHANGED <<channel, connects, hub, calm>>

\* An ICE connection state change of any open client that has started.  The
\* handlers look at the state of the current client, whoever called them, and do
\* nothing unless it is connected or completed; ICE may connect and disconnect it
\* at any time.
IceStateChange(i) ==
    /\ clients[i].state = "open" /\ clients[i].started
    /\ \E playable \in BOOLEAN :
          Become(CASE clients[i].handler = "sfu" -> onSfuIceConnectionStateChange(Page)
                   [] clients[i].handler = "downgrade" ->
                        onDowngradeIceConnectionStateChange(Page, playable)
                   [] OTHER -> Page)
    /\ UNCHANGED <<channel, connects, hub, calm>>

\* sfu-upgrade: startSfuUpgrade_.
SfuUpgrade ==
    /\ Online /\ hub = "p2p"
    /\ hub' = "sfu"
    /\ IF call.sfuMode \/ call.mode = "upgrading" THEN Become(Page)
       ELSE BecomeStarting([Page EXCEPT !.call.mode = "upgrading", !.call.sfuMode = TRUE,
                                        !.call.p2pPcClient = call.pcClient,
                                        !.call.pcClient = Null, !.call.createPromise = Null],
                           "start")
    /\ calm' = (calm /\ Quiet)
    /\ UNCHANGED <<channel, connects>>

\* sfu-downgrade: startSfuDowngrade_.  The SFU client is retained and silenced,
\* a P2P client of an unfinished upgrade is closed, the timer is armed.
SfuDowngrade ==
    /\ Online /\ hub = "sfu"
    /\ hub' = "p2p"
    /\ IF call.mode \in {"p2p", "downgrading"} THEN Become(Page)
       ELSE BecomeStarting(
               startDowngradeTimer(
                   [CloseClient(retireSfuClientCallbacks(Page, call.pcClient),
                                call.p2pPcClient) EXCEPT
                       !.call.mode = "downgrading", !.call.sfuMode = FALSE,
                       !.call.sfuPcClient = call.pcClient, !.call.p2pPcClient = Null,
                       !.call.pcClient = Null, !.call.createPromise = Null]),
               "downgrade")
    /\ calm' = (calm /\ Quiet)
    /\ UNCHANGED <<channel, connects>>

\* Mutant of RemoteHangup: the hold is dropped and the grid left on the screen.
RemoteHangupDroppingHold ==
    /\ Online /\ hub = "p2p"
    /\ BecomeStarting(closePcClient(clearP2pLayoutHold(Page)), "start")
    /\ calm' = (calm /\ ui.page = "call")
    /\ UNCHANGED <<channel, connects, hub>>

\* p2p-promote: the other member left.  AppController.onRemoteHangup_ and
\* Call.onRemoteHangup, which starts signaling anew.
RemoteHangup ==
    /\ Online /\ hub = "p2p"
    /\ LET t == IF ui.pending THEN completeP2pLayout(Page) ELSE Page
       IN  BecomeStarting(closePcClient(t), "start")
    /\ calm' = (calm /\ ui.page = "call")
    /\ UNCHANGED <<channel, connects, hub>>

DowngradeTimerFires ==
    /\ call.downgradeTimer
    /\ \E playable \in BOOLEAN :
          Become(finishSfuDowngrade([Page EXCEPT !.call.downgradeTimer = FALSE], playable))
    /\ UNCHANGED <<channel, connects, hub, calm>>

\* The direct video can play, or the timer of the hold fires.
LayoutHoldEnds ==
    /\ ui.pending
    /\ Become(completeP2pLayout(Page))
    /\ UNCHANGED <<channel, connects, hub, calm>>

\* The timer or the listener of an earlier hold, which a later one has replaced
\* and nobody can remove any more.
StrayHoldEnds ==
    /\ ui.stray
    /\ Become(completeP2pLayout(Page))
    /\ UNCHANGED <<channel, connects, hub, calm>>

\* hangup_ and hangup up to the leave request.  The rejoin page has no hangup
\* button and no keys.
HangUp ==
    /\ ui.page = "call"
    /\ Become([closeRetainedPcClients(closePcClient(clearP2pLayoutHold(Page))) EXCEPT
                  !.ui.page = "rejoin"])
    /\ calm' = (calm /\ Quiet)
    /\ UNCHANGED <<channel, connects, hub>>

\* The leave request is answered or fails: the rest of hangup.  Until then the
\* channel is open and what arrives is handled.
LeaveAnswered ==
    /\ ui.page # "call" /\ channel.socket # "null"
    /\ closeChannel
    /\ UNCHANGED <<call, clients, waiting, ui, hub, calm>>

\* onRejoinClick_ and restart; the room may be in either mode by now.
Rejoin(j, m) ==
    /\ ui.page = "rejoin" /\ channel.socket = "null" /\ connects[j] = "none"
    /\ \A k \in 1..(j - 1) : connects[k] # "none"
    /\ connects' = [connects EXCEPT ![j] = "joining"]
    /\ channel' = [channel EXCEPT !.socket = "connecting"]
    /\ ui' = [ui EXCEPT !.page = "call"]
    /\ hub' = m
    /\ UNCHANGED <<call, clients, waiting, calm>>

\* A rejoin click before the leave request is answered: open() finds its socket,
\* returns nothing, and connectToRoom_ throws with the rejoin page hidden already.
RejoinTooEarly ==
    /\ ui.page = "rejoin" /\ channel.socket # "null"
    /\ ui' = [ui EXCEPT !.page = "blank"]
    /\ UNCHANGED <<call, clients, waiting, channel, connects, hub, calm>>

-----------------------------------------------------------------------------
Next ==
    \/ \E j \in Joins, m \in {"p2p", "sfu"} : JoinResponse(j, m) \/ Rejoin(j, m)
    \/ \E j \in Joins : JoinFailure(j) \/ MediaReady(j)
    \/ SocketOpens \/ SocketFails \/ SocketCloses \/ Registered \/ RegistrationRejected
    \/ \E i \in Ids : CertificateReady(i) \/ CertificateFailed(i) \/ IceStateChange(i)
    \/ onRecvSignalingChannelMessage
    \/ SfuUpgrade \/ SfuDowngrade \/ RemoteHangup
    \/ DowngradeTimerFires \/ LayoutHoldEnds \/ StrayHoldEnds
    \/ HangUp \/ LeaveAnswered \/ RejoinTooEarly

Spec == Init /\ [][Next]_vars

\* The browser fires the timers it has armed.
FairSpec == Spec /\ WF_vars(DowngradeTimerFires) /\ WF_vars(LayoutHoldEnds)
-----------------------------------------------------------------------------
(* Properties.                                                              *)

TypeOK ==
    /\ call \in [mode : Modes, sfuMode : BOOLEAN,
                 pcClient : Ids \cup {Null}, p2pPcClient : Ids \cup {Null},
                 sfuPcClient : Ids \cup {Null}, createPromise : Ids \cup {Null},
                 downgradeTimer : BOOLEAN]
    /\ clients \in [Ids -> [state : {"none", "open", "failed"}, handler : Handlers,
                            started : BOOLEAN]]
    /\ waiting \in [Ids -> SUBSET (Starts \cup {"message"})]
    /\ ui \in [layout : {"stage", "grid"}, page : Pages, pending : BOOLEAN, stray : BOOLEAN]
    /\ channel \in [socket : Sockets, saved : BOOLEAN, registering : BOOLEAN,
                    registered : BOOLEAN]
    /\ connects \in [Joins -> Stages]
    /\ hub \in {"p2p", "sfu"}
    /\ calm \in BOOLEAN

\* Clients are kept track of.  Whatever crosses whatever, the three fields that
\* hold a client hold different ones, none of them closed: nothing is done to a
\* connection that is gone, and no close is done twice.  And none is leaked as
\* long as every transition finds the previous one finished: each open client is
\* the current one or a retained one, which hangup closes, so that none is open
\* on the rejoin page.
ClientsAccounted ==
    /\ LET held == <<call.pcClient, call.p2pPcClient, call.sfuPcClient>>
       IN  \A a, b \in 1..3 : held[a] # Null => /\ clients[held[a]].state = "open"
                                                /\ held[a] = held[b] => a = b
    /\ calm => \A i \in Ids : clients[i].state = "open" =>
                   /\ i \in {call.pcClient, call.p2pPcClient, call.sfuPcClient}
                   /\ ui.page = "call"

\* The current client negotiates in the role of the mode it was made for: polite
\* towards the engine, not towards another browser.  startSfuDowngrade_: a direct
\* peer connection "must not use the SFU's always-polite negotiation role".
RoleFitsMode ==
    calm /\ Settled /\ call.pcClient # Null
        => (clients[call.pcClient].handler = "sfu" <=> call.mode \in {"upgrading", "sfu"})

\* Nothing but the completion of an upgrade leads to SFU mode: no late event of a
\* retired connection flips the session back (retireSfuClientCallbacks_).
OnlyUpgradesLeadToSfu ==
    [][calm /\ Settled /\ call.mode # "sfu" /\ call'.mode = "sfu" /\ connects' = connects
        => call.mode = "upgrading"]_vars

\* Who is in a group call sees the grid, and in P2P mode the grid is gone once the
\* hold is over.
LayoutFitsMode ==
    calm /\ Settled /\ ui.page = "call"
        => /\ call.mode = "sfu" /\ call.pcClient # Null => ui.layout = "grid"
           /\ call.mode = "p2p" /\ ~ui.pending => ui.layout = "stage"

\* A downgrade and the hold of the grid at its end are bounded whatever the peer
\* and the rest of the page do: the two fallback timers end them.
TransitionsEnd ==
    /\ (call.mode = "downgrading" /\ channel.registered /\ ui.page = "call")
          ~> (call.mode # "downgrading" \/ ~channel.registered \/ ui.page # "call")
    /\ ui.pending ~> ~ui.pending
=============================================================================
