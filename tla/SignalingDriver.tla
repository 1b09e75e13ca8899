--------------------------- MODULE SignalingDriver ---------------------------
(***************************************************************************)
(* The signaling service around its Collider: one event loop owns the      *)
(* Collider (src/signaling_server.rs), one task per browser WebSocket      *)
(* (src/ws_server.rs) and one per SFU stream (open_sfu_session in          *)
(* src/grpc_server.rs) talk to it through bounded channels, and main       *)
(* (src/bin/signaling.rs) stops them in order.                             *)
(*                                                                         *)
(* The Collider is external.  It may emit outputs for the connections it   *)
(* knows whenever it is given something; the outputs are numbered as they  *)
(* are emitted.  RPCs of the HTTP edge are the subject of RequestCache.    *)
(***************************************************************************)
EXTENDS Integers, Sequences, FiniteSets, SequencesExt

CONSTANTS
    Browsers,         \* WebSocket connections, by connection_id
    Workers,          \* SFU streams, by connection_id
    CommandCapacity,  \* COMMAND_CAPACITY of the channel to the event loop
    OutputCapacity,   \* capacity of the channel to each connection's task
    MaxBatch,         \* bound: outputs the Collider emits at once
    MaxOutputs,       \* bound: outputs it ever emits
    MaxInputs,        \* bound: messages received from the peers
    MayStall,         \* whether a peer may stop reading while connected
    MayFail           \* whether the Collider's timeout may fail

ASSUME DriverAssumption ==
    /\ Browsers \cap Workers = {}
    /\ CommandCapacity \in Nat \ {0} /\ OutputCapacity \in Nat \ {0}
    /\ MaxBatch \in Nat /\ MaxOutputs \in Nat /\ MaxInputs \in Nat
    /\ MayStall \in BOOLEAN /\ MayFail \in BOOLEAN

VARIABLES
    task,       \* where each connection's task is
    frame,      \* the output it is writing
    peer,       \* what the other end does: "open", "stalled" or "gone"
    inputs,     \* messages received from the peers
    queue,      \* its channel of outputs
    delivered,  \* the outputs written to the peer
    commands,   \* the channel of DriverCommands
    senders,    \* sockets and sfu_sessions
    known,      \* Collider: the connections it has
    log,        \* Collider: every output it has emitted
    drained,    \* how many of them poll_write has returned
    dropped,    \* `disconnected` of drain_outputs
    driver,     \* where the event loop is
    stopping,   \* the transports' stop signal
    accepting,  \* whether the accept loop of ws_server::run still loops
    main        \* where main() is

taskVars == <<task, frame, peer, inputs, queue, delivered>>
colliderVars == <<known, log, drained>>
driverVars == <<senders, colliderVars, dropped, driver>>
mainVars == <<stopping, accepting, main>>
vars == <<taskVars, commands, driverVars, mainVars>>

Connections == Browsers \cup Workers

\* A Close the event loop sends by itself; the Collider's outputs count from 1.
CloseFrame == 0

Closes(n) == n = CloseFrame \/ log[n].kind = "close"

Connected(c) == [kind |-> "connected", connection |-> c]
Text(c) == [kind |-> "input", connection |-> c]
Disconnected(c) == [kind |-> "disconnected", connection |-> c]

\* The sender of c's channel travels in its Connected command.
ChannelClosed(c) == c \notin senders /\ ~Contains(commands, Connected(c)) /\ queue[c] = <<>>

Ended(c) == task[c] \in {"idle", "ended"}

-----------------------------------------------------------------------------
Init ==
    /\ task = [c \in Connections |-> "idle"]
    /\ frame = [c \in Connections |-> CloseFrame]
    /\ peer = [c \in Connections |-> "open"]
    /\ inputs = 0
    /\ queue = [c \in Connections |-> <<>>]
    /\ delivered = [c \in Connections |-> <<>>]
    /\ commands = <<>>
    /\ senders = {} /\ known = {} /\ log = <<>> /\ drained = 0 /\ dropped = {}
    /\ driver = "select"
    /\ stopping = FALSE /\ accepting = TRUE /\ main = "serving"

Goto(c, place) == task' = [task EXCEPT ![c] = place]

\* commands.send(cmd).await of c's task: it waits while the channel is full and
\* goes elsewhere when the event loop has dropped its receiver.
SendCommand(c, cmd, then, otherwise) ==
    \/ /\ driver # "stopped"
       /\ Len(commands) < CommandCapacity
       /\ commands' = Append(commands, cmd)
       /\ Goto(c, then)
    \/ /\ driver = "stopped"
       /\ Goto(c, otherwise)
       /\ UNCHANGED commands

-----------------------------------------------------------------------------
\* ws_server::run accepts a connection and spawns its task.
Accept(c) ==
    /\ c \in Browsers /\ task[c] = "idle" /\ accepting
    /\ Goto(c, "handshake")
    /\ UNCHANGED <<frame, peer, inputs, queue, delivered, commands, driverVars, mainVars>>

\* handle_connection: TLS and the request head, or a failure, HANDSHAKE_TIMEOUT
\* or the stop signal.
Handshake(c) ==
    /\ task[c] = "handshake"
    /\ Goto(c, "respond") \/ Goto(c, "ended")
    /\ UNCHANGED <<frame, peer, inputs, queue, delivered, commands, driverVars, mainVars>>

\* The response, an upgrade or not.  Neither a timeout nor the stop signal bounds
\* its write, but it is the first thing the task writes: the socket's buffer takes
\* it whether the peer reads or not.
Respond(c) ==
    /\ task[c] = "respond"
    /\ Goto(c, "announce") \/ Goto(c, "ended")
    /\ UNCHANGED <<frame, peer, inputs, queue, delivered, commands, driverVars, mainVars>>

\* open_sfu_session: the first message is a valid RegisterSfu, or the call
\* fails.  A server that is shutting down takes no new calls.
OpenSfuSession(c) ==
    /\ c \in Workers /\ task[c] = "idle" /\ ~stopping
    /\ Goto(c, "announce") \/ Goto(c, "ended")
    /\ UNCHANGED <<frame, peer, inputs, queue, delivered, commands, driverVars, mainVars>>

\* The task introduces itself to the event loop before it reads or writes.
Announce(c) ==
    /\ task[c] = "announce"
    /\ SendCommand(c, Connected(c), "select", "ended")
    /\ UNCHANGED <<frame, peer, inputs, queue, delivered, driverVars, mainVars>>

\* Mutant of TakeOutput: a closed channel disables the arm.
TakeOutputIgnoringEnd(c) ==
    /\ task[c] = "select"
    /\ queue[c] # <<>>
    /\ queue' = [queue EXCEPT ![c] = Tail(@)]
    /\ frame' = [frame EXCEPT ![c] = Head(queue[c])]
    /\ Goto(c, IF Closes(Head(queue[c])) THEN "leave" ELSE "write")
    /\ UNCHANGED <<peer, inputs, delivered, commands, driverVars, mainVars>>

\* The output arm.  A closed channel, a Close and the end of the task are one
\* to a worker's stream; a browser is sent a Close frame first.
TakeOutput(c) ==
    /\ task[c] = "select"
    /\ LET last == IF c \in Browsers THEN "close" ELSE "leave" IN
       \/ /\ queue[c] # <<>>
          /\ queue' = [queue EXCEPT ![c] = Tail(@)]
          /\ frame' = [frame EXCEPT ![c] = Head(queue[c])]
          /\ Goto(c, IF Closes(Head(queue[c])) THEN last ELSE "write")
       \/ /\ ChannelClosed(c)
          /\ Goto(c, last)
          /\ UNCHANGED <<queue, frame>>
    /\ UNCHANGED <<peer, inputs, delivered, commands, driverVars, mainVars>>

\* writer.send or wire_tx.send: waits for a peer that does not read.
Write(c) ==
    /\ task[c] = "write"
    /\ \/ /\ peer[c] = "open"
          /\ delivered' = [delivered EXCEPT ![c] = Append(@, frame[c])]
          /\ Goto(c, "select")
       \/ /\ peer[c] = "gone"
          /\ Goto(c, "leave")
          /\ UNCHANGED delivered
    /\ UNCHANGED <<frame, peer, inputs, queue, commands, driverVars, mainVars>>

\* writer.send(Message::Close), or wire_tx.send(Err(..)): no timeout bounds it.
WriteClose(c) ==
    /\ task[c] = "close"
    /\ peer[c] # "stalled"
    /\ Goto(c, "leave")
    /\ UNCHANGED <<frame, peer, inputs, queue, delivered, commands, driverVars, mainVars>>

\* The incoming arm: a message for the Collider, or one that ends the task (a
\* browser's binary frame or Close; what a worker sent that cannot be decoded is
\* answered with an error first).
TakeInput(c) ==
    /\ task[c] = "select"
    /\ peer[c] # "gone"
    /\ inputs < MaxInputs
    /\ inputs' = inputs + 1
    /\ Goto(c, "forward") \/ Goto(c, IF c \in Browsers THEN "leave" ELSE "close")
    /\ UNCHANGED <<frame, peer, queue, delivered, commands, driverVars, mainVars>>

Forward(c) ==
    /\ task[c] = "forward"
    /\ SendCommand(c, Text(c), "select", "leave")
    /\ UNCHANGED <<frame, peer, inputs, queue, delivered, driverVars, mainVars>>

\* The incoming arm sees the end of the connection.
TakeEnd(c) ==
    /\ task[c] = "select"
    /\ peer[c] = "gone"
    /\ Goto(c, "leave")
    /\ UNCHANGED <<frame, peer, inputs, queue, delivered, commands, driverVars, mainVars>>

\* Mutant of ObserveStop: ws_session has a stop arm only before its first message.
ObserveStopEarly(c) ==
    /\ c \in Browsers /\ task[c] = "select" /\ stopping /\ delivered[c] = <<>>
    /\ Goto(c, "leave")
    /\ UNCHANGED <<frame, peer, inputs, queue, delivered, commands, driverVars, mainVars>>

\* The stop arm of ws_session; WS_CLOSE_TIMEOUT bounds its flush.  The task of
\* an SFU stream has no such arm.
ObserveStop(c) ==
    /\ c \in Browsers /\ task[c] = "select" /\ stopping
    /\ Goto(c, "leave")
    /\ UNCHANGED <<frame, peer, inputs, queue, delivered, commands, driverVars, mainVars>>

\* WS_IDLE_TIMEOUT passes.
IdleTimeout(c) ==
    /\ c \in Browsers /\ task[c] = "select"
    /\ Goto(c, "leave")
    /\ UNCHANGED <<frame, peer, inputs, queue, delivered, commands, driverVars, mainVars>>

\* Mutant of Leave: a full channel is no reason to wait.
LeaveTrying(c) ==
    /\ task[c] = "leave"
    /\ Goto(c, "ended")
    /\ commands' = IF driver # "stopped" /\ Len(commands) < CommandCapacity
                   THEN Append(commands, Disconnected(c)) ELSE commands
    /\ UNCHANGED <<frame, peer, inputs, queue, delivered, driverVars, mainVars>>

\* The task's last command; its channel goes with it.
Leave(c) ==
    /\ task[c] = "leave"
    /\ SendCommand(c, Disconnected(c), "ended", "ended")
    /\ queue' = [queue EXCEPT ![c] = <<>>]
    /\ frame' = [frame EXCEPT ![c] = CloseFrame]
    /\ UNCHANGED <<peer, inputs, delivered, driverVars, mainVars>>

\* The other end goes away, or stops reading for good, which is felt once the
\* buffers in between are full.  One that only pauses is an open peer whose task is
\* slow to write.
PeerChanges(c) ==
    /\ task[c] \notin {"idle", "ended"}
    /\ \/ /\ MayStall /\ peer[c] = "open" /\ task[c] \notin {"handshake", "respond"}
          /\ peer' = [peer EXCEPT ![c] = "stalled"]
       \/ peer[c] # "gone" /\ peer' = [peer EXCEPT ![c] = "gone"]
    /\ UNCHANGED <<task, frame, inputs, queue, delivered, commands, driverVars, mainVars>>

-----------------------------------------------------------------------------
\* The Collider emits some outputs for connections it has.
Emit(members) ==
    \E n \in 0..MaxBatch :
        /\ n = 0 \/ Len(log) + n <= MaxOutputs
        /\ \E batch \in [1..n -> [connection : members, kind : {"text", "close"}]] :
              log' = log \o batch

\* Mutant of CanTake: the channel takes one more than its capacity.
CanTakeOneMore(c) == task[c] # "ended" /\ Len(queue[c]) <= OutputCapacity

\* try_send: refused by a full channel, and by one whose task has ended.
CanTake(c) == task[c] # "ended" /\ Len(queue[c]) < OutputCapacity

\* try_send of a Close nobody waits for.
TryClose(c, n) ==
    queue' = IF c \in senders /\ CanTake(c) THEN [queue EXCEPT ![c] = Append(@, n)] ELSE queue

\* handle_command: the Collider is given the command; what it refuses costs a
\* browser its socket.  The sender of a worker's stream is not removed when the
\* stream disconnects.
HandleCommand(cmd) ==
    LET c == cmd.connection IN
    \/ /\ cmd.kind = "connected"
       /\ \/ senders' = senders \cup {c} /\ known' = known \cup {c} /\ Emit(known')
          \/ UNCHANGED <<senders, known, log>>
       /\ UNCHANGED queue
    \/ /\ cmd.kind = "input"
       /\ \/ Emit(known) /\ UNCHANGED <<senders, queue>>
          \/ /\ c \in Browsers
             /\ senders' = senders \ {c}
             /\ TryClose(c, CloseFrame)
             /\ UNCHANGED log
       /\ UNCHANGED known
    \/ /\ cmd.kind = "disconnected"
       /\ senders' = IF c \in Browsers THEN senders \ {c} ELSE senders
       /\ known' = known \ {c}
       /\ Emit(known')
       /\ UNCHANGED queue

\* The event loop receives a command; it drains the Collider next.
Receive ==
    /\ driver = "select"
    /\ commands # <<>>
    /\ commands' = Tail(commands)
    /\ HandleCommand(Head(commands))
    /\ driver' = "drain"
    /\ UNCHANGED <<drained, dropped, task, frame, peer, inputs, delivered, mainVars>>

\* A deadline of the Collider passes, or an RPC is given to it, and there is
\* something to drain.
Tick ==
    /\ driver = "select"
    /\ Emit(known)
    /\ drained < Len(log')
    /\ driver' = "drain"
    /\ UNCHANGED <<senders, known, drained, dropped, taskVars, commands, mainVars>>

\* handle_timeout fails: the event loop ends as if it had been stopped.
TickFails ==
    /\ MayFail
    /\ driver = "select"
    /\ driver' = "close"
    /\ UNCHANGED <<senders, colliderVars, dropped, taskVars, commands, mainVars>>

\* Mutant of Deliver: a worker whose channel refuses an output keeps its sender,
\* as a browser does until the drain ends.
DeliverKeeping(n) ==
    LET c == log[n].connection IN
    /\ queue' = IF c \in senders /\ CanTake(c) THEN [queue EXCEPT ![c] = Append(@, n)] ELSE queue
    /\ dropped' = IF c \in Browsers /\ ~CanTake(c) THEN dropped \cup {c} ELSE dropped
    /\ UNCHANGED senders

\* Mutant of Deliver: an output the channel refused is tried again, after the
\* next one.
DeliverRetrying(n) ==
    LET c == log[n].connection
        refused == {m \in 1..(n - 1) : log[m].connection = c /\ log[m].kind = "text"}
                       \ (ToSet(queue[c]) \cup ToSet(delivered[c]) \cup {frame[c]})
    IN  /\ queue' = IF c \in senders /\ Len(queue[c]) + Cardinality(refused) < OutputCapacity
                    THEN [queue EXCEPT ![c] = Append(@, n) \o SetToSeq(refused)] ELSE queue
        /\ UNCHANGED <<senders, dropped>>

\* One output of drain_outputs.
Deliver(n) ==
    LET c == log[n].connection IN
    \/ /\ c \in Browsers /\ log[n].kind = "text"
       /\ queue' = IF c \in senders /\ CanTake(c) THEN [queue EXCEPT ![c] = Append(@, n)] ELSE queue
       /\ dropped' = IF c \in senders /\ ~CanTake(c) THEN dropped \cup {c} ELSE dropped
       /\ UNCHANGED senders
    \/ /\ c \in Browsers /\ log[n].kind = "close"
       /\ TryClose(c, n)
       /\ senders' = senders \ {c}
       /\ dropped' = dropped \cup {c}
    \/ /\ c \in Workers
       /\ queue' = IF c \in senders /\ CanTake(c) THEN [queue EXCEPT ![c] = Append(@, n)] ELSE queue
       /\ senders' = IF CanTake(c) THEN senders ELSE senders \ {c}
       /\ UNCHANGED dropped

Drain ==
    /\ driver \in {"drain", "close drain"}
    /\ drained < Len(log)
    /\ drained' = drained + 1
    /\ Deliver(drained + 1)
    /\ UNCHANGED <<known, log, driver, task, frame, peer, inputs, delivered, commands, mainVars>>

\* Mutant of FinishDrain: a socket that refused an output keeps its sender.
FinishDrainKeeping ==
    /\ driver \in {"drain", "close drain"}
    /\ drained = Len(log)
    /\ dropped' = {}
    /\ driver' = IF driver = "drain" THEN "select" ELSE "stopping"
    /\ UNCHANGED <<senders, colliderVars, taskVars, commands, mainVars>>

\* The end of drain_outputs: the Collider hears of the sockets that were
\* dropped.  What it emits about them stays with it until the next drain.
FinishDrain ==
    /\ driver \in {"drain", "close drain"}
    /\ drained = Len(log)
    /\ senders' = senders \ dropped
    /\ known' = known \ dropped
    /\ IF dropped = {} THEN UNCHANGED log ELSE Emit(known')
    /\ dropped' = {}
    /\ driver' = IF driver = "drain" THEN "select" ELSE "stopping"
    /\ UNCHANGED <<drained, taskVars, commands, mainVars>>

\* The stop arm of the event loop, once main has sent the signal.
DriverObservesStop ==
    /\ main = "collider"
    /\ driver = "select"
    /\ driver' = "close"
    /\ UNCHANGED <<senders, colliderVars, dropped, taskVars, commands, mainVars>>

\* After the loop: what is queued is applied, the Collider closed (it closes
\* every socket it has) and its outputs drained.
DrainQueued ==
    /\ driver = "close"
    /\ \/ /\ commands # <<>>
          /\ commands' = Tail(commands)
          /\ HandleCommand(Head(commands))
          /\ UNCHANGED driver
       \/ /\ commands = <<>>
          /\ driver' = "close drain"
          /\ log' = log \o SetToSeq([connection : known, kind : {"close"}])
          /\ UNCHANGED <<commands, senders, queue, known>>
    /\ UNCHANGED <<drained, dropped, task, frame, peer, inputs, delivered, mainVars>>

\* run() returns, dropping the receiver and every sender.
DropReceiver ==
    /\ driver = "stopping"
    /\ driver' = "stopped"
    /\ commands' = <<>> /\ senders' = {}
    /\ UNCHANGED <<colliderVars, dropped, taskVars, mainVars>>

-----------------------------------------------------------------------------
\* Ctrl-C: main tells the transports to stop and waits for them.
Interrupt ==
    /\ main = "serving"
    /\ main' = "transports" /\ stopping' = TRUE
    /\ UNCHANGED <<accepting, taskVars, commands, driverVars>>

StopAccepting ==
    /\ stopping /\ accepting
    /\ accepting' = FALSE
    /\ UNCHANGED <<stopping, main, taskVars, commands, driverVars>>

\* Mutant of TransportsDone: the event loop is stopped at once.
TransportsAbandoned ==
    /\ main = "transports"
    /\ main' = "collider"
    /\ UNCHANGED <<stopping, accepting, taskVars, commands, driverVars>>

\* ws_server::run has joined its tasks, and the gRPC server has returned: it
\* serves the streams it has to their end, but does not know of their tasks.
TransportsDone ==
    /\ main = "transports" /\ ~accepting
    /\ \A c \in Connections : Ended(c) \/ (c \in Workers /\ peer[c] = "gone")
    /\ main' = "collider"
    /\ UNCHANGED <<stopping, accepting, taskVars, commands, driverVars>>

ColliderDone ==
    /\ main = "collider" /\ driver = "stopped"
    /\ main' = "down"
    /\ UNCHANGED <<stopping, accepting, taskVars, commands, driverVars>>

-----------------------------------------------------------------------------
TaskStep(c) ==
    \/ Handshake(c) \/ Respond(c) \/ Announce(c) \/ TakeOutput(c) \/ Write(c) \/ WriteClose(c)
    \/ Forward(c) \/ TakeEnd(c) \/ ObserveStop(c) \/ Leave(c)

DriverStep ==
    Receive \/ Drain \/ FinishDrain \/ DriverObservesStop \/ DrainQueued \/ DropReceiver

MainStep == StopAccepting \/ TransportsDone \/ ColliderDone

Next ==
    \/ \E c \in Connections :
          Accept(c) \/ OpenSfuSession(c) \/ TaskStep(c) \/ TakeInput(c) \/ IdleTimeout(c) \/ PeerChanges(c)
    \/ DriverStep \/ Tick \/ TickFails
    \/ Interrupt \/ MainStep

Spec == Init /\ [][Next]_vars

\* Tokio polls every task that can move.  No peer need send, connect or go
\* away, and no deadline of the Collider need pass.
FairSpec ==
    /\ Spec
    /\ \A c \in Connections : WF_vars(TaskStep(c))
    /\ WF_vars(DriverStep)
    /\ WF_vars(MainStep)

-----------------------------------------------------------------------------
\* Every variable has the shape the code gives it, and every channel its bound.
TypeOK ==
    /\ task \in [Connections -> {"idle", "handshake", "respond", "announce", "select",
                                 "write", "close", "forward", "leave", "ended"}]
    /\ frame \in [Connections -> 0..Len(log)]
    /\ peer \in [Connections -> {"open", "stalled", "gone"}]
    /\ inputs \in 0..MaxInputs
    /\ \A c \in Connections : Len(queue[c]) <= OutputCapacity
    /\ Len(commands) <= CommandCapacity
    /\ senders \subseteq Connections /\ known \subseteq Connections /\ dropped \subseteq Browsers
    /\ drained \in 0..Len(log)
    /\ driver \in {"select", "drain", "close", "close drain", "stopping", "stopped"}
    /\ main \in {"serving", "transports", "collider", "down"}

\* Each browser has one FIFO writer: whatever is dropped on the way, what it
\* receives it receives once and in the order the Collider emitted it.
WriterOrder ==
    \A c \in Browsers : \A i, j \in DOMAIN delivered[c] :
        i < j => delivered[c][i] < delivered[c][j]

\* A worker's stream has no holes: an output is delivered only after all that
\* the Collider emitted for the stream before it.
WorkerStreamComplete ==
    \A w \in Workers : \A n \in ToSet(delivered[w]) : \A m \in 1..(n - 1) :
        log[m].connection = w => m \in ToSet(delivered[w])

\* Main stops the Collider only when it has heard of the end of every browser's
\* connection, so closing it cuts nobody off.
NobodyCutOff ==
    main # "serving" /\ driver \in {"close drain", "stopping"} => known \cap Browsers = {}

\* Backpressure is a failure of the client: a browser for which an output was
\* refused is disconnected.
BackpressureDisconnects ==
    \A c \in Browsers : c \in dropped ~> task[c] = "ended"

\* What the Collider emits while the event loop tells it of dropped sockets
\* gets out, even if nobody sends anything more, unless the event loop ends.
OutputsFlushed ==
    drained < Len(log) ~> (drained = Len(log) \/ driver = "stopped")

\* Should the event loop end on its own, no connection is left to talk to nobody:
\* every task that was serving one ends.
OrphansEnd ==
    \A c \in Connections : driver = "stopped" /\ task[c] = "select" ~> task[c] = "ended"

\* The workers' streams have ended, at the other end or at this one.
StreamsClosed == \A w \in Workers : Ended(w) \/ peer[w] = "gone"

\* Interrupted, the service goes down once its SFU streams have ended: "one
\* stalled peer cannot block shutdown" (the comment on WS_CLOSE_TIMEOUT).
ShutdownCompletes == main = "transports" /\ StreamsClosed ~> main = "down"
=============================================================================
