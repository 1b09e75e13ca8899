----------------------------- MODULE SfuSession -----------------------------
(***************************************************************************)
(* An SFU worker process, but for what its engine does.  The service       *)
(* (src/sfu_server.rs) is one task that runs gRPC sessions with signaling  *)
(* one after the other (run, run_session, dispatch_command, queue_health), *)
(* one task per media shard (media_loop, drain_engine) and a bounded       *)
(* channel that carries the shards' events to the session task.  main      *)
(* (src/bin/sfu.rs) starts it, beside an optional redirect server, and     *)
(* takes both down.                                                        *)
(*                                                                         *)
(* What a command does to the engine is the subject of MediaShards; here a *)
(* shard answers it and may emit events.  Signaling is external: it        *)
(* acknowledges events, and after a reconnect it sends again every command *)
(* that it has no result for.                                              *)
(***************************************************************************)
EXTENDS Integers, Sequences, FiniteSets, SequencesExt, Functions

CONSTANTS
    Shards,            \* the media shards, one per port of the range
    Health,            \* the session task, as the source of health events
    Commands,          \* the commands signaling issues: their request_ids
    ShardOf,           \* the shard that owns the room of a command
    EventCapacity,     \* CHANNEL_CAPACITY of the event channel
    OutgoingCapacity,  \* CHANNEL_CAPACITY of outgoing_tx
    MaxBatch,          \* bound: events the engine emits at once
    MaxEvents,         \* bound: event ids handed out
    MaxBreaks,         \* bound: lost connections and failed attempts
    MayStop            \* whether the process is interrupted

ASSUME SessionAssumption ==
    /\ Shards # {} /\ IsFiniteSet(Shards) /\ Health \notin Shards
    /\ Commands \subseteq Nat \ {0} /\ ShardOf \in [Commands -> Shards]
    /\ EventCapacity \in Nat \ {0} /\ OutgoingCapacity \in Nat \ {0}
    /\ MaxBatch \in Nat /\ MaxEvents \in Nat /\ MaxBreaks \in Nat
    /\ MayStop \in BOOLEAN

VARIABLES
    main,       \* where main is
    stop,       \* the stop signal has been sent
    session,    \* where the service's own task is
    inHand,     \* the message it is sending, or the command it dispatches
    replay,     \* pending events it has still to send again
    pending,    \* pending_events: not acknowledged yet
    source,     \* who drew the event ids so far: a shard, or the session task
    eventQ,     \* the event channel
    receiver,   \* whether event_rx exists
    shard,      \* where each shard is
    outbox,     \* events the engine has emitted and drain_engine has not sent
    held,       \* the numbered event drain_engine waits to send
    request,    \* the command in the shard's channel
    reply,      \* its oneshot: "empty", "result" or "gone"
    link,       \* the gRPC stream: "down", "up", "registered"
    upstream,   \* messages on their way to signaling
    downstream, \* messages on their way to the worker
    breaks,     \* connections lost so far
    unacked,    \* signaling: commands without a result, in order
    answered,   \* signaling: commands it has a result for
    received,   \* signaling: events in the order it first accepted them
    replayed    \* events that were sent again

mainVars == <<main, stop>>
sessionVars == <<session, inHand, replay, pending, replayed>>
channelVars == <<source, eventQ, receiver>>
shardVars == <<shard, outbox, held, request, reply>>
linkVars == <<link, upstream, downstream, breaks>>
signalingVars == <<unacked, answered, received>>
vars == <<mainVars, sessionVars, channelVars, shardVars, linkVars, signalingVars>>

None == 0
EventIds == 1..MaxEvents

\* next_event_id: the counter gives out 1, 2, ... (next_nonzero).
nextId == Len(source) + 1

Register == [kind |-> "register"]
Registered == [kind |-> "registered"]
Rejected == [kind |-> "rejected"]
Event(id) == [kind |-> "event", id |-> id]
Ack(id) == [kind |-> "ack", id |-> id]
Command(c) == [kind |-> "command", command |-> c]
Result(c) == [kind |-> "result", command |-> c]

\* The stages of run() after its session loop.
Closing == session \in {"closing", "done"}

\* What the engines have emitted and drain_engine has still to number.
Unnumbered ==
    LET Left(s) == IF held[s] = None THEN outbox[s] ELSE outbox[s] - 1
    IN  {e \in Shards \X (1..MaxBatch) : e[2] <= Left(e[1])}

\* Event ids left under the bound, when everything emitted so far has got its.
Budget == MaxEvents - Len(source) - Cardinality(Unnumbered)

-----------------------------------------------------------------------------
\* main has spawned the redirect server, if one is configured, and the service.
Init ==
    /\ main = "running" /\ stop = FALSE
    /\ session = "starting" /\ inHand = None /\ replay = {} /\ pending = {}
    /\ source = <<>> /\ eventQ = <<>> /\ receiver = FALSE
    /\ shard = [s \in Shards |-> "unborn"]
    /\ outbox = [s \in Shards |-> 0]
    /\ held = [s \in Shards |-> None]
    /\ request = [s \in Shards |-> None]
    /\ reply = [s \in Shards |-> "empty"]
    /\ link = "down" /\ upstream = <<>> /\ downstream = <<>> /\ breaks = 0
    /\ unacked = <<>> /\ answered = {} /\ received = <<>> /\ replayed = {}

\* The message goes into outgoing_tx and the task continues at `then`; it
\* waits while the channel is full, and the session fails if its stream is
\* gone.
Transmit(msg, then) ==
    \/ /\ link # "down"
       /\ Len(upstream) < OutgoingCapacity
       /\ upstream' = Append(upstream, msg)
       /\ session' = then
       /\ UNCHANGED <<link, downstream, breaks>>
    \/ /\ link = "down"
       /\ session' = "backoff"
       /\ UNCHANGED linkVars

CloseLink == link' = "down" /\ upstream' = <<>> /\ downstream' = <<>> /\ UNCHANGED breaks

-----------------------------------------------------------------------------
\* run() up to its loop: the configuration is checked, the URL parsed and every
\* socket bound before the first shard is spawned.
Start ==
    /\ session = "starting"
    /\ \/ /\ session' = "connecting" /\ receiver' = TRUE
          /\ shard' = [s \in Shards |-> "select"]
       \/ /\ session' = "failed"
          /\ UNCHANGED <<receiver, shard>>
    /\ UNCHANGED <<mainVars, inHand, replay, pending, replayed, source, eventQ, outbox, held,
                   request, reply, linkVars, signalingVars>>

\* Mutant of Connect: each session starts with its own, empty, pending_events.
ConnectForgetting ==
    /\ session = "connecting"
    /\ session' = "registering"
    /\ pending' = {}
    /\ link' = "up" /\ upstream' = <<Register>> /\ downstream' = <<>>
    /\ UNCHANGED <<mainVars, inHand, replay, replayed, channelVars, shardVars, breaks,
                   signalingVars>>

\* endpoint.connect, the registration message and open_sfu_session.  The number
\* registration draws from next_event_id only leaves a gap and is left out.
Connect ==
    /\ session = "connecting"
    /\ session' = "registering"
    /\ link' = "up" /\ upstream' = <<Register>> /\ downstream' = <<>>
    /\ UNCHANGED <<mainVars, inHand, replay, pending, replayed, channelVars, shardVars, breaks,
                   signalingVars>>

\* The attempt fails.
ConnectFails ==
    /\ session = "connecting"
    /\ breaks < MaxBreaks
    /\ breaks' = breaks + 1
    /\ session' = "backoff"
    /\ UNCHANGED <<mainVars, inHand, replay, pending, replayed, channelVars, shardVars, link,
                   upstream, downstream, signalingVars>>

\* Mutant of FinishRegistration: what came in behind the response is discarded.
FinishRegistrationDiscarding ==
    /\ session = "registering"
    /\ \/ /\ downstream # <<>> /\ Head(downstream) = Registered
          /\ downstream' = <<>>
          /\ session' = "replaying"
          /\ replay' = pending
          /\ UNCHANGED <<link, upstream, breaks>>
       \/ /\ \/ link = "down"
             \/ downstream # <<>> /\ Head(downstream) = Rejected
          /\ session' = "backoff"
          /\ CloseLink
          /\ UNCHANGED replay
    /\ UNCHANGED <<mainVars, inHand, pending, replayed, channelVars, shardVars, signalingVars>>

\* decode_registration of the first message; a rejection, or the end of the
\* stream before it, fails the session.
FinishRegistration ==
    /\ session = "registering"
    /\ \/ /\ downstream # <<>> /\ Head(downstream) = Registered
          /\ downstream' = Tail(downstream)
          /\ session' = "replaying"
          /\ replay' = pending
          /\ UNCHANGED <<link, upstream, breaks>>
       \/ /\ \/ link = "down"
             \/ downstream # <<>> /\ Head(downstream) = Rejected
          /\ session' = "backoff"
          /\ CloseLink
          /\ UNCHANGED replay
    /\ UNCHANGED <<mainVars, inHand, pending, replayed, channelVars, shardVars, signalingVars>>

\* One of the pending events goes out again; they come in HashMap order.
ReplayEvent(id) ==
    /\ session = "replaying"
    /\ id \in replay
    /\ Transmit(Event(id), "replaying")
    /\ replay' = replay \ {id}
    /\ replayed' = replayed \cup {id}
    /\ UNCHANGED <<mainVars, inHand, pending, channelVars, shardVars, signalingVars>>

\* queue_health: the health event is a reliable event like the others.
QueueHealth ==
    /\ \/ session = "replaying" /\ replay = {}
       \/ session = "select"
    /\ IF Budget > 0
       THEN /\ source' = Append(source, Health)
            /\ pending' = pending \cup {nextId}
            /\ inHand' = Event(nextId)
            /\ session' = "sending"
       ELSE /\ session = "replaying"
            /\ session' = "select"
            /\ UNCHANGED <<source, pending, inHand>>
    /\ UNCHANGED <<mainVars, replay, replayed, eventQ, receiver, shardVars, linkVars,
                   signalingVars>>

\* Mutant of TakeEvent: new events are not held back while pending ones are
\* sent again.
TakeEventWhileReplaying ==
    /\ eventQ # <<>>
    /\ eventQ' = Tail(eventQ)
    /\ pending' = pending \cup {Head(eventQ)}
    /\ \/ /\ session = "select"
          /\ inHand' = Event(Head(eventQ)) /\ session' = "sending"
          /\ UNCHANGED linkVars
       \/ /\ session = "replaying"
          /\ Transmit(Event(Head(eventQ)), "replaying")
          /\ UNCHANGED inHand
    /\ UNCHANGED <<mainVars, replay, replayed, source, receiver, shardVars, signalingVars>>

\* run_session's event_rx arm: remember the event, then send it.
TakeEvent ==
    /\ session = "select"
    /\ eventQ # <<>>
    /\ eventQ' = Tail(eventQ)
    /\ pending' = pending \cup {Head(eventQ)}
    /\ inHand' = Event(Head(eventQ))
    /\ session' = "sending"
    /\ UNCHANGED <<mainVars, replay, replayed, source, receiver, shardVars, linkVars,
                   signalingVars>>

\* outgoing_tx.send(..).await of the select arms.
FinishSend ==
    /\ session = "sending"
    /\ Transmit(inHand, "select")
    /\ inHand' = None
    /\ UNCHANGED <<mainVars, replay, pending, replayed, channelVars, shardVars, signalingVars>>

\* run_session's incoming arm: an acknowledgement retires a pending event, a
\* command is dispatched, the end of the stream ends the session.
TakeMessage ==
    /\ session = "select"
    /\ \/ /\ downstream # <<>>
          /\ downstream' = Tail(downstream)
          /\ \/ /\ Head(downstream).kind = "ack"
                /\ pending' = pending \ {Head(downstream).id}
                /\ UNCHANGED <<session, inHand>>
             \/ /\ Head(downstream).kind = "command"
                /\ inHand' = Head(downstream).command
                /\ session' = "dispatching"
                /\ UNCHANGED pending
          /\ UNCHANGED <<link, upstream, breaks>>
       \/ /\ link = "down"
          /\ session' = "backoff"
          /\ UNCHANGED <<inHand, pending, linkVars>>
    /\ UNCHANGED <<mainVars, replay, replayed, channelVars, shardVars, signalingVars>>

\* dispatch_command puts the command into its shard's channel and waits.  Only
\* this task sends commands, one at a time, so the channel has room.
Dispatch ==
    /\ session = "dispatching"
    /\ LET s == ShardOf[inHand] IN
       IF shard[s] = "stopped"
       THEN /\ session' = "sending"
            /\ inHand' = Result(inHand)
            /\ UNCHANGED shardVars
       ELSE /\ session' = "awaiting"
            /\ request' = [request EXCEPT ![s] = inHand]
            /\ UNCHANGED <<inHand, shard, outbox, held, reply>>
    /\ UNCHANGED <<mainVars, replay, pending, replayed, channelVars, linkVars, signalingVars>>

\* Its oneshot resolves: with the shard's result, or with an error when the
\* shard is gone.
FinishDispatch ==
    /\ session = "awaiting"
    /\ LET s == ShardOf[inHand] IN
       /\ reply[s] # "empty"
       /\ reply' = [reply EXCEPT ![s] = "empty"]
       /\ session' = "sending"
       /\ inHand' = Result(inHand)
    /\ UNCHANGED <<mainVars, replay, pending, replayed, channelVars, shard, outbox, held, request,
                   linkVars, signalingVars>>

\* The reconnect delay passes.
Retry ==
    /\ session = "backoff"
    /\ session' = "connecting"
    /\ inHand' = None /\ replay' = {}
    /\ UNCHANGED <<mainVars, pending, replayed, channelVars, shardVars, linkVars, signalingVars>>

\* Mutant of ObserveStop: the shards are awaited while event_rx still exists.
ObserveStopKeepingReceiver ==
    /\ \/ stop /\ session \in {"select", "backoff"}
       \/ /\ session = "select" /\ eventQ = <<>>
          /\ \A s \in Shards : shard[s] = "stopped"
    /\ session' = "closing"
    /\ CloseLink
    /\ inHand' = None /\ replay' = {}
    /\ UNCHANGED <<mainVars, pending, replayed, channelVars, shardVars, signalingVars>>

\* The stop arms of run_session and run, or the end of the event channel; the
\* stream is closed and event_rx dropped.
ObserveStop ==
    /\ \/ stop /\ session \in {"select", "backoff"}
       \/ /\ session = "select" /\ eventQ = <<>>
          /\ \A s \in Shards : shard[s] = "stopped"
    /\ session' = "closing"
    /\ CloseLink
    /\ receiver' = FALSE /\ eventQ' = <<>>
    /\ inHand' = None /\ replay' = {}
    /\ UNCHANGED <<mainVars, pending, replayed, source, shardVars, signalingVars>>

\* Every media handle has been awaited.
Finish ==
    /\ session = "closing"
    /\ \A s \in Shards : shard[s] = "stopped"
    /\ session' = "done"
    /\ UNCHANGED <<mainVars, inHand, replay, pending, replayed, channelVars, shardVars, linkVars,
                   signalingVars>>

-----------------------------------------------------------------------------
\* After any arm of its select the shard drains what the engine has emitted.
Emit(s, least) ==
    \E n \in least..MaxBatch :
        /\ n <= Budget
        /\ outbox' = [outbox EXCEPT ![s] = n]
        /\ shard' = [shard EXCEPT ![s] = "drain"]

\* media_loop's command arm.
ShardCommand(s) ==
    /\ shard[s] = "select"
    /\ request[s] # None
    /\ request' = [request EXCEPT ![s] = None]
    /\ reply' = [reply EXCEPT ![s] = "result"]
    /\ Emit(s, 0)
    /\ UNCHANGED <<mainVars, sessionVars, channelVars, held, linkVars, signalingVars>>

\* media_loop's packet and timeout arms.
ShardMedia(s) ==
    /\ shard[s] = "select"
    /\ Emit(s, 1)
    /\ UNCHANGED <<mainVars, sessionVars, channelVars, held, request, reply, linkVars,
                   signalingVars>>

\* drain_engine numbers the next event.
NumberEvent(s) ==
    /\ shard[s] = "drain"
    /\ outbox[s] > 0 /\ held[s] = None
    /\ held' = [held EXCEPT ![s] = nextId]
    /\ source' = Append(source, s)
    /\ UNCHANGED <<mainVars, sessionVars, eventQ, receiver, shard, outbox, request, reply,
                   linkVars, signalingVars>>

\* Mutant of SendEvent: the channel is not bounded.
SendEventUnbounded(s) ==
    /\ shard[s] = "drain"
    /\ held[s] # None
    /\ held' = [held EXCEPT ![s] = None]
    /\ \/ /\ receiver
          /\ eventQ' = Append(eventQ, held[s])
          /\ outbox' = [outbox EXCEPT ![s] = @ - 1]
          /\ UNCHANGED shard
       \/ /\ ~receiver
          /\ outbox' = [outbox EXCEPT ![s] = 0]
          /\ shard' = [shard EXCEPT ![s] = "select"]
          /\ UNCHANGED eventQ
    /\ UNCHANGED <<mainVars, sessionVars, source, receiver, request, reply, linkVars,
                   signalingVars>>

\* events.send(event).await: it waits for room in the channel; once event_rx is
\* gone drain_engine returns.
SendEvent(s) ==
    /\ shard[s] = "drain"
    /\ held[s] # None
    /\ held' = [held EXCEPT ![s] = None]
    /\ \/ /\ receiver
          /\ Len(eventQ) < EventCapacity
          /\ eventQ' = Append(eventQ, held[s])
          /\ outbox' = [outbox EXCEPT ![s] = @ - 1]
          /\ UNCHANGED shard
       \/ /\ ~receiver
          /\ outbox' = [outbox EXCEPT ![s] = 0]
          /\ shard' = [shard EXCEPT ![s] = "select"]
          /\ UNCHANGED eventQ
    /\ UNCHANGED <<mainVars, sessionVars, source, receiver, request, reply, linkVars,
                   signalingVars>>

\* The engine has nothing left: back to select.
FinishDrain(s) ==
    /\ shard[s] = "drain"
    /\ outbox[s] = 0
    /\ shard' = [shard EXCEPT ![s] = "select"]
    /\ UNCHANGED <<mainVars, sessionVars, channelVars, outbox, held, request, reply, linkVars,
                   signalingVars>>

\* media_loop's stop arm: a command still in the channel is dropped with it.
ShardStop(s) ==
    /\ shard[s] = "select"
    /\ stop
    /\ shard' = [shard EXCEPT ![s] = "stopped"]
    /\ reply' = [reply EXCEPT ![s] = IF request[s] # None THEN "gone" ELSE @]
    /\ request' = [request EXCEPT ![s] = None]
    /\ UNCHANGED <<mainVars, sessionVars, channelVars, outbox, held, linkVars, signalingVars>>

-----------------------------------------------------------------------------
\* main's ctrl_c arm: stop_tx.send(()).
Interrupt ==
    /\ MayStop
    /\ main = "running"
    /\ main' = "stopping" /\ stop' = TRUE
    /\ UNCHANGED <<sessionVars, channelVars, shardVars, linkVars, signalingVars>>

\* service.await?? in the ctrl_c arm: then main is done, unless it has a redirect
\* server to join.
JoinService ==
    /\ main = "stopping"
    /\ \/ session = "failed" /\ main' = "failed"
       \/ session = "done" /\ main' \in {"down", "joining"}
    /\ UNCHANGED <<stop, sessionVars, channelVars, shardVars, linkVars, signalingVars>>

\* redirect.await??: the redirect server keeps no state of this model.  Of it main
\* only sees that it ended on the same stop signal, or that it failed, long before
\* perhaps because it could not bind its port, and it learns of that only now.
JoinRedirect ==
    /\ main = "joining"
    /\ main' \in {"down", "failed"}
    /\ UNCHANGED <<stop, sessionVars, channelVars, shardVars, linkVars, signalingVars>>

\* main's other arm: the service ends by itself.
ServiceEnded ==
    /\ main = "running"
    /\ session \in {"failed", "done"}
    /\ main' = "failed"
    /\ UNCHANGED <<stop, sessionVars, channelVars, shardVars, linkVars, signalingVars>>

-----------------------------------------------------------------------------
\* Signaling issues a command; it goes out at once if the worker is registered.
Issue(c) ==
    /\ ~Contains(unacked, c) /\ c \notin answered
    /\ unacked' = Append(unacked, c)
    /\ downstream' = IF link = "registered" THEN Append(downstream, Command(c)) ELSE downstream
    /\ UNCHANGED <<mainVars, sessionVars, channelVars, shardVars, link, upstream, breaks,
                   answered, received>>

\* Signaling takes a message: it registers the worker and sends it every
\* command without a result, or rejects it; it accepts and acknowledges an
\* event, one sent again too; it notes a result.
SignalingReceive ==
    /\ upstream # <<>>
    /\ upstream' = Tail(upstream)
    /\ LET msg == Head(upstream) IN
       \/ /\ msg = Register
          /\ link' = "registered"
          /\ downstream' = <<Registered>> \o [i \in DOMAIN unacked |-> Command(unacked[i])]
          /\ UNCHANGED <<breaks, signalingVars>>
       \/ /\ msg = Register
          /\ breaks < MaxBreaks
          /\ breaks' = breaks + 1
          /\ downstream' = <<Rejected>>
          /\ UNCHANGED <<link, signalingVars>>
       \/ /\ msg.kind = "event"
          /\ received' = IF Contains(received, msg.id) THEN received ELSE Append(received, msg.id)
          /\ downstream' = Append(downstream, Ack(msg.id))
          /\ UNCHANGED <<link, breaks, unacked, answered>>
       \/ /\ msg.kind = "result"
          /\ unacked' = IF Contains(unacked, msg.command)
                        THEN RemoveAt(unacked, CHOOSE i \in DOMAIN unacked :
                                                   unacked[i] = msg.command)
                        ELSE unacked
          /\ answered' = answered \cup {msg.command}
          /\ UNCHANGED <<link, breaks, downstream, received>>
    /\ UNCHANGED <<mainVars, sessionVars, channelVars, shardVars>>

\* The stream breaks, or signaling closes it, or the worker ends it over a
\* message it does not understand; what was on its way is lost.
BreakLink ==
    /\ link # "down"
    /\ breaks < MaxBreaks
    /\ breaks' = breaks + 1
    /\ link' = "down" /\ upstream' = <<>> /\ downstream' = <<>>
    /\ UNCHANGED <<mainVars, sessionVars, channelVars, shardVars, signalingVars>>

-----------------------------------------------------------------------------
SessionStep ==
    \/ Start \/ Connect \/ FinishRegistration
    \/ (\E id \in replay : ReplayEvent(id)) \/ QueueHealth
    \/ TakeEvent \/ TakeMessage \/ FinishSend \/ Dispatch \/ FinishDispatch
    \/ Retry \/ ObserveStop \/ Finish

ShardStep(s) ==
    ShardCommand(s) \/ NumberEvent(s) \/ SendEvent(s) \/ FinishDrain(s) \/ ShardStop(s)

MainStep == JoinService \/ JoinRedirect \/ ServiceEnded

\* A process that is down takes no more steps: its tasks end with it.
Running == main \notin {"down", "failed"}

WorkerStep ==
    /\ Running
    /\ \/ SessionStep \/ ConnectFails
       \/ \E s \in Shards : ShardStep(s) \/ ShardMedia(s)
       \/ Interrupt \/ MainStep

Next ==
    \/ WorkerStep
    \/ (\E c \in Commands : Issue(c)) \/ SignalingReceive \/ BreakLink

Spec == Init /\ [][Next]_vars

\* Tokio polls every task that can move, timers fire, and signaling reads its
\* stream.  select! polls its arms in random order, so a shard that is told to
\* stop does so however much media keeps arriving.  Nothing makes media arrive,
\* commands be issued, the stream break or the process be interrupted.
FairSpec ==
    /\ Spec
    /\ WF_vars(Running /\ SessionStep)
    /\ \A s \in Shards : WF_vars(Running /\ ShardStep(s)) /\ SF_vars(Running /\ ShardStop(s))
    /\ WF_vars(Running /\ MainStep)
    /\ WF_vars(SignalingReceive)

-----------------------------------------------------------------------------
\* Every variable has the shape the code gives it.
TypeOK ==
    /\ main \in {"running", "stopping", "joining", "down", "failed"}
    /\ session \in {"starting", "failed", "connecting", "registering", "replaying", "select",
                    "sending", "dispatching", "awaiting", "backoff", "closing", "done"}
    /\ replay \subseteq EventIds /\ pending \subseteq EventIds /\ replayed \subseteq EventIds
    /\ source \in Seq(Shards \cup {Health}) /\ Len(source) <= MaxEvents
    /\ eventQ \in Seq(EventIds) /\ Len(eventQ) <= EventCapacity
    /\ receiver \in BOOLEAN /\ stop \in BOOLEAN
    /\ shard \in [Shards -> {"unborn", "select", "drain", "stopped"}]
    /\ outbox \in [Shards -> 0..MaxBatch]
    /\ held \in [Shards -> EventIds \cup {None}]
    /\ request \in [Shards -> Commands \cup {None}]
    /\ reply \in [Shards -> {"empty", "result", "gone"}]
    /\ link \in {"down", "up", "registered"}
    /\ Len(upstream) <= OutgoingCapacity
    /\ breaks \in 0..MaxBreaks
    /\ unacked \in Seq(Commands) /\ answered \subseteq Commands
    /\ received \in Seq(EventIds)

\* Until the worker shuts down, every event with a number is in the hands of a
\* draining shard, in the channel, retained as pending, or accepted by
\* signaling: no loss of the stream, at whichever point of a session, loses one.
NoEventLost ==
    Closing \/ 1..(nextId - 1) \subseteq
        ToSet(received) \cup pending \cup ToSet(eventQ) \cup Range(held)

\* Two events of one shard reach signaling out of order only when both were
\* sent again at a reconnect (run_session goes through the HashMap
\* pending_events in no order): an event that was never sent before does not
\* overtake one that was.
FreshNeverOvertakes ==
    \A i, j \in DOMAIN received :
        /\ i < j /\ received[i] > received[j]
        /\ source[received[i]] = source[received[j]] /\ source[received[i]] # Health
        => {received[i], received[j]} \subseteq replayed

\* The session task waits for the answer of a shard that waits for the session
\* task to make room in the event channel (dispatch_command against
\* drain_engine).  Nothing ends it.
CircularWait ==
    /\ session = "awaiting"
    /\ Len(eventQ) = EventCapacity
    /\ LET s == ShardOf[inHand] IN shard[s] = "drain" /\ outbox[s] > 0 /\ reply[s] = "empty"

\* The phase of the process that its callers can tell.
phase ==
    IF ~Running THEN "down"
    ELSE IF CircularWait THEN "jammed"
    ELSE IF session \in {"starting", "failed"} THEN "starting"
    ELSE IF stop THEN "stopping" ELSE "up"

\* What signaling sees of the worker.
Worker == INSTANCE SfuWorker WITH
    Events <- EventIds,
    phase <- phase,
    produced <- 1..(nextId - 1),
    accepted <- ToSet(received),
    issued <- ToSet(unacked) \cup answered

\* The worker keeps the promise of SfuWorker: through every reconnect each
\* event is accepted and each command answered, unless it jams; service starts
\* whole or not at all and ends only when told to; an interrupt takes session
\* task, shards, redirect server and process down.
KeepsWorkerPromise == Worker!Spec

\* A shard that drains gets back to its socket, however full the event channel
\* and whatever the stream does: nothing but the circular wait blocks it.
OnlyCircularWaitBlocks ==
    \A s \in Shards : shard[s] = "drain" ~> (shard[s] # "drain" \/ CircularWait)

\* Section 5 of the design document: backpressure is "never a reason to block
\* the media UDP loop".  A shard that starts to drain gets back to its socket.
MediaLoopReturns ==
    \A s \in Shards : shard[s] = "drain" ~> shard[s] # "drain"
=============================================================================
