# AppRTC signaling: a verification project

TLA+ models of the Rust signaling service, the Rust SFU worker and the browser
client of this repository, the TLC configurations that check them on small
instances, two abstract specifications of what a component promises and the
refinements that show it does, and TLAPS proofs of every safety property the runs
check, for all values of the constants. Paths are relative to the repository; `design` is `docs/design/apprtc-signaling-architecture-design.md`.

```
tlc -workers 2 -config MCRequestCache_execute.cfg MCRequestCache   # one run
tlapm RequestCacheProofs.tla                                       # one module's proofs
```

`PROJECT.json` lists the runs, the source lines each definition stands for, the
hazards each property is aimed at, and for every property a mutation of the
model that it catches.

## 1. Inventory

Three processes make up a deployment, and every browser runs the fourth part.

```
 browser (web/js) --HTTP--> apprtc (room_server, grpc_client) --unary gRPC--.
    |                                                                       v
    '------WebSocket------> signaling (ws_server, signaling_server, grpc_server)
                                  ^  Collider (the `signaling` crate)
                                  |  bidirectional gRPC stream
                            sfu worker (sfu_server)
                                  SFU engine (the `sfu` crate)
```

The crates `signaling` (the Collider: rooms, members, epochs, modes) and `sfu`
(the media engine) are git submodules without contents in this repository. Both
are *external* here: a model lets them do whatever the code around them has to
be ready for.

| Component | State | Operations | Talks to | Hard behaviour |
|---|---|---|---|---|
| Idempotent RPCs: `grpc_server.rs` `execute`, `RequestCache` | result cache with its eviction queue, in-flight map of watch channels | look up, claim, wait, send to the event loop, await with a timeout, store | event loop (bounded channel and oneshot) | concurrent retries, late answers, dropped handlers, cache at capacity, stop |
| Event loop: `signaling_server.rs` | senders per browser socket and per SFU stream, the Collider | commands, deadlines, `drain_outputs`, dropping sockets, stop | both transports, RPC handlers | full channels in mid-drain, outputs after the drain, failing deadlines |
| WebSocket transport: `ws_server.rs` | one task per browser with an output channel | accept, handshake, text, ping, close, idle timeout, stop | event loop | peers that stall or vanish, stop during a write |
| SFU stream adapter: `grpc_server.rs` `open_sfu_session` | one task per worker stream | register, forward both ways, end | event loop | full output channel, stop |
| SFU process: `bin/sfu.rs` | stop signal, task handles | spawn, interrupt, join the service and the redirect server | worker session | a service or redirect server that ended by itself |
| Signaling process: `bin/signaling.rs` | none | order of shutdown | all of the above | who must be gone before whom |
| Media shards: `sfu_server.rs` `apply_command`, `sync_room` | projection of members, command cache, share of the counters | join, leave, signal, synchronize, drain, stop | engine, session task | redelivery, half-done synchronization, restart of signaling |
| Worker session: `sfu_server.rs` `run`, `run_session` | pending events, event numbers, back-off | connect, register, replay, acknowledge, dispatch, health, stop | signaling stream, shards (event channel, command channel) | broken streams, waiting on each other, stop |
| HTTP edge: `room_server.rs`, `grpc_client.rs`, `bin/apprtc.rs` | request numbers, error count | join with client-id retries, leave, message, pages, status | signaling RPCs | timeouts, late answers, admissions the client cannot use |
| Wire forms: `grpc_server.rs`, `grpc_client.rs`, `sfu_server.rs`, `room_id.rs` | none | encode and decode requests, responses, commands, results, room ids | both ends of each RPC and stream | an error that is told apart only by its text; a result for another command |
| Call: `web/js/call.js`, `signalingchannel.js`, layout of `appcontroller.js` | mode, SFU flag, current and retained clients, timers, the WebSocket and its registration | join, register, upgrade, downgrade, remote hangup, hangup, rejoin | hub, peer connection clients | promises under way when the next control arrives, joins that end half-way, what arrives during the leave request |
| Peer connection: `web/js/peerconnectionclient.js` | message queue, negotiation flags and ids | start, receive, drain, offer, answer, roll back, close | engine or other browser, `RTCPeerConnection` | offers that cross, rejected operations |
| `params.rs`, `templates.rs`, `dashboard.rs`, `config.rs`, `tls.rs`, `sdputils.js`, the rest of the page | none, or presentation | conversions and formatting | | none that a model checker reaches better than a test |

What makes each part correct:

* RPCs: one execution per request key at a time; a replayed result is that of
  the same key and operation and is up to date; cache and queue agree; every
  caller is answered.
* Event loop and transports: one FIFO writer per browser; a worker's stream has
  no holes; who cannot keep up is disconnected; whoever ends is forgotten; the
  service goes down in order and without hanging.
* Shards: the projection is what the engine holds; a command is applied once
  and its answer is its own and true; the counters add up.
* Session: no event is lost and every command answered through reconnects; the
  worker stops; media never waits for control.
* Peer connection: crossing offers are resolved, answers meet the offers they
  answer, the tracks are published in the end.
* Call: no peer connection leaks, each negotiates in the right role, layout and
  mode agree, transitions end.

## 2. Modules

One action stands for what the code does between two awaits (Rust) or in one
turn of the event loop (JavaScript). Payloads are reduced to what the properties
tell apart.

### RequestCache

`GrpcSignalingService::execute` and `RequestCache` of `src/grpc_server.rs`, with
the event loop's side of an authority command. A handler `h` is one unary RPC
with a request key (`instance_id`, `request_id`) and an operation, its
fingerprint class; `pc[h]` is the await it is at. `Lookup` is the critical
section at the head of the loop (`Replay`, `Subscribe` or `Claim`), `Wake` the
watch channel, `Send`, `Receive` and `TimeOut` the timed exchange with the event
loop, `Store` the critical section at the end with `Insert` and its eviction.
`Cancel` is the server dropping the handler's future at any await. `log` is the
history of operations the Collider has applied; a result is a position in it,
so results tell which execution they come from. `Respond` is a deferred answer of
the Collider, `StopDriver` and `DropReceiver` the end of the event loop.

`IdempotentService` is what callers may rely on: a history of applied calls and, per
caller, an answer that is an index into it. `ImplementsService` maps `log` and the
handlers' results to it (section 4).

### SfuWire and MediaShards

`SfuWire` holds the messages between signaling and a worker as pure operators, one per
function: `encode_sfu_output` and `decode_sfu_input` of `src/grpc_server.rs` for commands
and results, `command_room_id`, `apply_signal` and `command_error` of
`src/sfu_server.rs`, and the two conversions of `src/room_id.rs`. A room id on the wire
is a length, a UUID version and a value.

`MediaShards` is `dispatch_command`, `media_loop`, `apply_command`, `sync_room`,
`cache_command`, `update_metrics` of `src/sfu_server.rs`. Per shard: the engine's
members, the adapter's projection (lifecycle and epoch of each), the command
cache and the share of the shared counters. `Command` and `Redeliver` deliver a
numbered command, for the first time or again: signaling encodes it, `Dispatch` finds the
shard, and a cached result, or that of the command with every refusal and with every
engine call free to fail, goes back and is decoded. `answer` is what the Collider
reads, `told` the signal the engine was given: a description under the number the browser
quoted, `sdp_request_id` or the command's, a candidate, or nothing for a bye. Signaling
numbers commands and may repeat its latest `Window` ones; `RestartSignaling` starts its
numbering again.

### SfuSession and SfuWorker

`run`, `run_session`, `queue_health`, `dispatch_command` and `drain_engine` of
`src/sfu_server.rs`, and `main` of `src/bin/sfu.rs` from the spawn of its tasks to their
join. The session task, the shards' tasks, the event channel, the command and oneshot
channels and the stream with both directions in flight. `Start` binds everything or
fails as a whole. An event is drawn a number (`NumberEvent`) before it waits for the
channel (`SendEvent`); `source` remembers who drew each number. A registration may be
rejected. What a command does to a shard is MediaShards' subject; here the shard
answers and may emit events. Signaling is external: it acknowledges events and after a
registration sends again every command it has no result for.

`SfuWorker` is what signaling and the operator may rely on: the phases of the
process, the events numbered and accepted, the commands issued and answered.

### SignalingDriver

`src/signaling_server.rs`, `src/ws_server.rs`, `open_sfu_session` of
`src/grpc_server.rs` and the shutdown of `src/bin/signaling.rs`: tasks, bounded
channels, the event loop's drain output by output, peers that read, stall or go
away. A stalled peer is one whose buffers are full, so it stops a session's writes and
not the response to its handshake, the first thing written to it. The Collider is external: for connections it knows it emits anything, in
answer to any command, deadline or disconnect.

### PeerConnectionClient

`web/js/peerconnectionclient.js` in SFU mode: the message queue and its drain, one
step per promise, `makeOffer_`, collisions with rollback, renegotiation, close.
`ops` is the operations chain of the `RTCPeerConnection`, which settles
operations in the order they were called. The engine is external, as `design`
sections 4.2 and following state it: it serializes its own offers, silently
rejects a browser offer while one is outstanding, and rolls its offer back after a
timeout.

### Call

`web/js/call.js` in signaling version 2, with the layout hold of
`appcontroller.js` and what both see of `signalingchannel.js`. `connects` holds the
stage each `connectToRoom_` has reached, `channel` the WebSocket with its saved ids and
its registration, `waiting` the certificate promises under way, `clients` the peer
connection clients. Methods are operators from page to page (`startDowngradeTimer`,
`finishSfuDowngrade`, ...), actions the turns of the event loop that call them. The hub is
external: the mode of the room.

A join waits for the socket and the join response together, in either order, and ends
where one of them fails, with the mode and the flag that the response has set by then
(`SocketFails`, `JoinFailure`). So it does when the registration is rejected
(`RegistrationRejected`); a socket that the server closes settles nothing, as its
`onclose` is not bound to the channel (`SocketCloses`). A hangup is two turns: `HangUp`
closes the clients and shows the rejoin page, `LeaveAnswered` closes the channel once
the leave request is settled. In between the channel is registered and what arrives is
handled. `RejoinTooEarly` is a rejoin click in that time.

ICE may connect and disconnect the current client at any time, so whether it is
connected is not part of the state: an ICE event may find it so whenever it has started
(`CanBeConnected`).

The history variable `calm` says that so far every transition has found the one
before it finished (`Quiet`: no creation, join or leave request under way, no downgrade or
layout hold unfinished), that no message and no p2p-promote arrived during a leave
request, and that no P2P join has met the SFU flag of an earlier call. Four of the
properties are claimed for calm histories, because TLC refutes them otherwise; section 6
lists how. What `ClientsAccounted` says of the three fields holds of every history.

### RpcWire and Edge

`RpcWire` holds the unary RPCs as pure operators: which requests `src/grpc_server.rs`
accepts (`Acceptable`), how it writes a result of the authority (`Serve`,
`operation_response`, `domain_error`) and what `src/grpc_client.rs` reads from it
(`read_response`, `operation_result`, `admit_v2`). The text of the reason is all that
reaches a handler: `v2_join` recognizes a taken id by it.

`Edge` is the handlers of `src/room_server.rs` over `src/grpc_client.rs`, for one room:
joins of both versions with the client-id attempts of `v2_join`, leaves, messages, the V1
room page, status, and the handlers that make no call as one kind. `Call` is one
unary RPC with a fresh request number, `Receive` and `TimeOut` its end, `Conclude` the next
attempt or the HTTP answer, `Drop` the browser going away. A call outlives the handler that
gave it up. The authority is external: a set of members that admits a free id, or
refuses; a V2 admission may be to a room in transition or lack a field.
`admitted` remembers which request each admission was for.

### The proof modules and the MC modules

`RequestCacheProofs`, `MediaShardsProofs`, `SfuSessionProofs`, `SignalingDriverProofs`,
`EdgeProofs`, `PeerConnectionClientProofs` and `CallProofs` each extend the module they
are named after with its inductive invariant, lemmas and theorems (section 5). A
model states nothing twice: the theorems are about the properties the runs check.
`MC*` modules hold what a configuration needs beyond numbers:
`RemainderShard`, command sets, symmetry, and `CanonicalSpec` for the cache.

## 3. Runs

| Run | Instance | Shows |
|---|---|---|
| `rpc_execute` | 3 handlers, 2 keys, 2 operations, cache and command channel of one slot, timeouts, dropped futures, stop | `SingleFlight`, `ReplayFaithful`, `NoMutationPastCache`, `ImplementsService`; `RpcAnswered`: every caller is answered unless a handler of its key was dropped |
| `edge_join` | 3 HTTP requests of any kinds, 2 client ids, 2 attempts, request numbers that wrap | `JoinAccounted`, `RequestsAnswered` |
| `shard_room` | 1 room, 2 clients, 2 lifecycles, signals of 3 contents, 4 commands, repeats from a window of 2 | `EngineMatchesProjection`, `AppliedOnce`, `AnswersItsCommand`, `OkMeansApplied` |
| `shard_fleet` | 2 shards with a room each, numbers from 0, stops and a restart of signaling | `MetricsExact` |
| `session_relay` | 2 shards, channels of one slot, 2 events, a command, a break, a stop | `NoEventLost`, `FreshNeverOvertakes`, `KeepsWorkerPromise`; `OnlyCircularWaitBlocks`: nothing but the circular wait of finding 1 blocks a shard |
| `session_media` | 1 shard, 1 command, 3 events | violated: `MediaLoopReturns` (finding 1) |
| `driver_order` | a browser and a worker stream, output channels of two slots, a command channel of one, 4 outputs, stalls, interrupt | `WriterOrder`, `WorkerStreamComplete`, `NobodyCutOff` |
| `driver_live` | the same with channels of one slot, 2 outputs, peers that read or go away and an event loop that may fail | `BackpressureDisconnects`, `OutputsFlushed`, `OrphansEnd`, `ShutdownCompletes` |
| `driver_stalled` | a browser that stalls | violated: `ShutdownCompletes` (finding 2) |
| `publish` | 3 subscribe offers, 2 candidates, one of them rejected, one engine timeout | `FlagsTellTheChains`, `AnswerNamesItsOffer`, `AnswerMeetsItsOffer`, `PublishedInTheEnd`, `QueueDrains` |
| `publish_early` | 1 subscribe offer before the start | violated: `QueueDrains` (finding 3) |
| `call_modes` | up to 2 clients at once, one join at a time, sockets and registrations that fail, any number of transitions | `ClientsAccounted`, `RoleFitsMode`, `LayoutFitsMode`, `OnlyUpgradesLeadToSfu`, `TransitionsEnd` |

One passing run per module checks its `TypeOK` too. For MediaShards it includes
`CacheCoherent` (command cache and eviction queue in step, within the capacity), for
SignalingDriver and SfuSession the bounds of the channels, for Edge that no call is
numbered 0.

### Bounds

* Channels of one slot are full as soon as anything is in them: the smallest that
  can overflow, so that every wait and every refusal occurs. The code has 1024. Where
  the order within a channel matters (`driver_order`) the output channels have two.
* Three handlers: one that runs, one that waits for it, and a third that meets
  what both left. Two keys with a cache of one force evictions.
* `CanonicalSpec` starts the handlers in the order of their inputs. Handlers, keys
  and operations are interchangeable and every property treats them alike, so each
  initial state is a renaming of one of these and its behaviours are renamings.
  (TLC's own symmetry reduction is not sound for `RpcAnswered`.) The `MediaShards`
  runs use `SYMMETRY` on clients, with safety properties only.
* Four commands on one room: join, change, change, repeat. `Window` equal to the
  cache capacity states what `AppliedOnce` assumes of signaling.
  The run has one assignment epoch, two lifecycles: with two epochs it was checked for
  three commands (1.0 million states), four are out of reach. That the projection is
  right for any epochs is what `EngineMatchesHolds` proves.
* Two events and batches of two: both may be a shard's own, or one of each shard or of
  the health timer, so one can be retained while the other is in the channel or waits for
  it. One break takes every point of a session; the run also passes with two breaks
  (281 000 states), kept at one for time. `session_media` has three events, which the
  circular wait needs: one in the channel, one waiting, one before.
* Three signal contents: an answer that quotes one number while `sdp_request_id` has
  another, a candidate and a bye.
* Four outputs: two that fill the channel, one refused, one after it; `MaxBatch` 2 puts
  the refusal in the middle of a drain. One message from a peer, whichever it is: what the
  Collider emits does not depend on how many there were.
* Three subscribe offers: one under way, one in the batch, one queued, so that
  `pendingRemoteRequestId_` is overwritten while an answer is on its way.
* Three requests with two ids: a join that meets a taken id, a leave that frees it, and
  a third that interferes. Requests are numbered as they come, which loses nothing.
  `Modulus` 8 from `FirstId` 6 makes the counter pass 0; six calls at most keep the
  numbers in use apart, as 2^64 does.
* Two clients: a transition needs the old one and the new one, and as the bound counts
  after the closes of the turn, so does the downgrade of an unfinished upgrade; a calm
  history never needs a third. Histories that leak clients stop at the bound.
  `MaxClients` and `MaxJoins` bound what is there at one time,
  not the length of a history: the state space is closed under any number of
  upgrades, downgrades, hangups and rejoins. Two joins at once were checked for the
  invariants only (8.6 million states).

`CHECK_DEADLOCK FALSE` is set throughout: all these systems may come to rest, with no
caller, no peer, a stopped service or a page whose call is over. What must not stop is
stated as a liveness property.

### Fairness

* Rust: weak fairness of each task's steps. Tokio polls every woken task; timers
  fire; the event loop receives. Callers, media, breaks, deferred answers, deadlines
  of the Collider and the stop signal get none. One condition covers all arms of a
  task, since a task that can move is polled whichever arm is ready; where an arm must
  not be starved by another, the comment at `FairSpec` names the random order in which
  `select!` polls them.
* Browser: promises settle, armed timers fire, `negotiationneeded` is fired, messages
  are delivered. ICE need not connect, certificates may fail, users do nothing.
* `SfuSession`: a task runs only while the process does (`Running`). Strong fairness of
  `ShardStop` is the random order of `select!`: media that keeps arriving does not keep a
  shard from its stop arm.
* `driver_live` has peers that read or go away (`MayStall = FALSE`): a peer that
  does neither is the subject of `driver_stalled`.

## 4. Refinements

`SfuSession` implements `SfuWorker` (`KeepsWorkerPromise`, checked in `session_relay`).
Sessions, channels, numbering, replay and shards are gone from the abstract
specification; what is left is a set of numbered events, a set of accepted ones, the
commands issued and answered, and the phase. The mapping takes the events from the
numbers drawn, the accepted ones from what signaling received, and the phase from
`main`, `stop` and the session. Retransmission maps to stuttering, an event is
accepted once however often it is sent. The jam of finding 1 is a phase of its own: the
abstract worker owes nothing from there on, and owes everything before. Its liveness is
stated with leads-to (`Kept`) rather than with fairness of its actions: under the
refinement mapping a fairness condition asks when a mapped action is enabled, which
TLC cannot evaluate.

`RequestCache` implements `IdempotentService` (`ImplementsService`, checked in
`rpc_execute`). Keys and operations map to themselves, the abstract history is the
Collider's, an answer is the index of the execution it comes from. The abstract action
`Answer` only hands out the *latest* application under the caller's key: that a replay is
still current when it is given is the step the cache could get wrong. An error, also
that of a timeout after which the operation is applied, is an answer that says nothing.

## 5. What is proved

Every invariant and every action property of a passing run, and the safety half of both
refinements, for every value of the constants that the assumptions admit: any number
of handlers, keys, shards, rooms, connections, requests, offers, clients and joins, and
any positive capacities. The assumptions are those of the modules: capacities are positive as
in the code, a worker has at least one and finitely many shards
(`sfu_server.rs:64`), the roster of a synchronization is finite.

| Module | Theorems | Hypotheses beyond the module's assumptions |
|---|---|---|
| `RequestCacheProofs` | `TypeCorrect`, `SingleFlightHolds`, `ReplayFaithfulHolds`, `NoMutationPastCacheHolds`, `CacheCoherentHolds`, `CachedResultStableHolds`, `ImplementsServiceHolds` | none |
| `MediaShardsProofs` | `TypeCorrect`, `EngineMatchesHolds`, `MetricsExactHolds`, `OkMeansAppliedHolds` | none |
| | `AnswersItsCommandHolds` | `~MayRestart` |
| | `AppliedOnceHolds` | `~MayRestart`, `Window <= CacheCapacity` |
| `SfuSessionProofs` | `TypeCorrect`, `NoEventLostHolds`, `FreshNeverOvertakesHolds`, `KeepsWorkerSafety` | none |
| `SignalingDriverProofs` | `TypeCorrect`, `WriterOrderHolds`, `WorkerStreamCompleteHolds` | none |
| | `NobodyCutOffHolds` | `~MayFail` |
| `EdgeProofs` | `TypeCorrect`, `JoinAccountedHolds` | none |
| `PeerConnectionClientProofs` | `TypeCorrect`, `FlagsTellTheChainsHolds`, `AnswerNamesItsOfferHolds`, `AnswerMeetsItsOfferHolds` | none |
| `CallProofs` | `TypeCorrect`, `ClientsAccountedHolds`, `RoleFitsModeHolds`, `LayoutFitsModeHolds`, `OnlyUpgradesLeadToSfuHolds` | none |

The hypotheses are the ones the runs make, and each is needed. A restarted signaling service
numbers its commands anew and a shard's cache answers for the old ones (section 6).
A command repeated after its entry has been evicted is applied again, so the cache has to
hold as many results as signaling may repeat. An event loop that ends because a
deadline of the Collider failed tells it about nobody.

### Along which argument

None of the properties is inductive as it stands. What was added, per module:

**RequestCache.** `Claims`: a running handler is the one that made its key's in-flight
entry, and a key in flight is not cached. The second half is what lets `Store` insert
without overwriting, from which `CachedResultStable` follows. `Provenance`: every result
anywhere (oneshot, deferred answer, handler, cache) is a position in the Collider's
history with the right handler, or key and operation. `NotYetSent`, `LastOfItsKey`,
`CachedLast` are over `Attempts`, the history followed by the queued commands: a handler
that has not sent has no command in it, the command of a handler that may still cache
its result is the last of its key, and so is the one behind a cached result. An
attempt given up by a timeout is either before the cached one, or there is no cached
one, because the result of a timed-out attempt is never cached and the next attempt of
the key queues behind it. `ImplementsServiceHolds` is a simulation from the same
invariant: each action maps to `Apply` or `Answer` of `IdempotentService`, or to a stutter; the mapped answer is the latest of its key by `CachedLast`.

**MediaShards.** First what one command does: `Sound` says of every outcome of
`apply_command` and `sync_room`, those that an engine refusal cuts short included, that
engine and projection stay equal, that only members of the command's room come in, and
that the result is the command's own and true. The invariant then has the shards
(`ShardsOK`: a member is in the engine of the shard its room belongs to and in no other),
the numbering (`NumbersOK`), cache and queue (`CachesOK`) and the shares of the counters
(`SharesOK`). `MetricsExact` counts rooms and clients of all shards together; as rooms
are spread over the shards by id, replacing one shard's share keeps the sums exact. For
`AnswersItsCommand` the caches hold results of the commands with their numbers
(`CacheAnswers`). For `AppliedOnce`, a shard's queue is in the order of the numbers, and
a running shard remembers a command or has filled its cache with later ones
(`Remembered`); the latter puts the command out of signaling's window by counting
(`OutOfWindow`).

**SfuSession.** `TypeInv` adds what travels on the stream, who holds what at which point
of the session, and that every event an engine has emitted will find a number within
the bound. `NoEventLost` needs `AckedReceived`: an event is forgotten only on an
acknowledgement, and an acknowledgement on its way is of an accepted event.
`OrderInv` follows the events of one shard: numbers are drawn in order (`Drawn`), the
channel keeps it (`ChannelOrder`), and what is on its way in this session and was never
sent before is above everything of its shard that was (`FreshInOrder`,
`FreshAccepted`). Steps fall into nine kinds by what they do to events. `KeepsWorkerSafety` is
the step simulation of `SfuWorker`: besides `TypeInv` and `OrderInv` it needs `MainInv`
(the service ends only on the stop signal, `main` only after the service) and
`CommandsIssued`.

**SignalingDriver.** For each connection, `Ordered`: what was written, what is being
written and what is queued are in the order of the Collider's log; `Stranger`: nothing
in the log is for a connection the Collider has not heard of. For each worker,
`Piped`: the stream has no holes, and while the stream has its sender nothing drained is
missing. `NobodyCutOff` needs `Farewell` (once a browser's task has ended, its
`Disconnected` is behind its `Connected` in the command channel, or both are
consumed) and `StoppedLast` (the order of shutdown in `main`).

**Edge.** `OneCall`: a request has at most one call at the authority, and none once a
member was admitted for it. `Stage(r)`: what a handler waits for is really under way,
and what it makes of its answer, through `Serve` and `read_response`, is true of the room.

**PeerConnectionClient.** `ClientFits`: the flags, the steps of the two promise chains, the
operations chain and the signaling state determine one another. `Negotiation` is about everything on its
way in both directions (`Pipe` is batch, queue and wire in order): publish offers are numbered and sent once
(`Numbered`), and until a timeout expires a subscribe offer on its way is the engine's
outstanding one, as is the one an answer names (`Outstanding`), and a publish answer on
its way belongs to the live offer with no description before it, while an offer that
was rolled back reaches the engine before the answer to the one it lost to, and is
ignored (`Publishing`).

**Call.** The invariant is about a page state, so that it is followed through the methods.
`Basic` holds of every history: the three fields hold different open clients, a promise
is pending, failed or has its client. `Orderly` and `Connecting` hold of calm ones: who
owns each client and which has the SFU's handler (`Owned`), what is held for the end of
a downgrade (`Held`), that nothing is left off the call page, that no join overlaps a
downgrade, and, of the channel, that a registration under way is that of a join, that
the call page has a socket, and that a join which is not registered yet is alone and has
no client. Without the last the rest is still an invariant but not inductive: a join
response could set the SFU mode under a client made for P2P.

Each inductive invariant was checked with TLC on the run's instance, or one with larger
bounds, before it was proved.

### Forms chosen for the proofs

Where a property used an operator the provers cannot unfold, it is stated in a form that
says the same: `MetricsExact` with the cardinality of a union instead of a sum over shards
(rooms and members of different shards differ), `Budget` of `SfuSession` with the
cardinality of the set `Unnumbered`, `FlagsTellTheChains` with `IsInjective` and `ToSet`
of the chain, `Apply` of `IdempotentService` with any longer history in which no call
is twice. `Fresh` of
`Call` is any unused number, which is all a promise is told apart by. `TypeOK` of
`SignalingDriver` bounds a frame by the log, not by the bound of the model.

### Only model-checked

* Liveness: `RpcAnswered`, `RequestsAnswered`, `OnlyCircularWaitBlocks`,
  `BackpressureDisconnects`, `OutputsFlushed`, `OrphansEnd`, `ShutdownCompletes`,
  `PublishedInTheEnd`, `QueueDrains`, `TransitionsEnd`, and the leads-to half of
  `KeepsWorkerPromise`. Fairness and `ENABLED` are outside the prover's reach.
* The three violations of section 6, which are counterexamples.

## 6. What the checks found

Three runs end in a violation of what the repository says of itself.

1. `session_media`: `drain_engine` waits for room in the event channel, which only
   the session task empties, while that task waits in `dispatch_command` for that same
   shard. Media stops (`design:380` "never a reason to block the media UDP loop") and so
   does the stop of the worker.
2. `driver_stalled`: a task already writing to a stalled browser never reaches its stop
   arm; only the Close of that arm is bounded (`ws_server.rs:37`).
3. `publish_early`: a subscribe offer that arrives between registration and
   `startAsCaller` is never processed, as `startAsCaller` does not drain the queue; the
   publish offer is rejected because of it and both sides rest (`design:320`).

Met while modelling, not the subject of a run; the models do what the code does:

* A handler that is dropped at an await (`grpc_server.rs:186-225`) leaves its in-flight
  entry behind; an identical retry then waits for a channel nobody signals, where
  `design:672` promises the cached result. `RpcAnswered` excepts exactly the keys of
  dropped handlers. The edge of this repository never repeats a request number
  (`Edge`, `Number`), so it takes another client, or a retrying proxy, to meet it.
* A join that times out at the edge may still be admitted; nobody then knows the id or
  token of that member. `JoinAccounted` bounds it to one per join.
* A retry after an authority timeout applies the operation again, because a
  timed-out result is not cached (`design:672`).
* A shard looks commands up by `request_id` alone: after a restart of signaling a new
  command may be given an old one's cached result (`design:703` has it keyed by the
  signaling instance). `AnswersItsCommand` is checked without restarts.
* Nothing is kept of a member that has left, so a stale join that arrives after the
  leave is applied (`design:250` has it ignored), and a synchronization with an older
  epoch is carried out (`design:713` has it rejected).
* `DrainSfu` names no room, so `dispatch_command` refuses it before a shard could
  acknowledge it (`design:711` "The current adapter acknowledges it").
* A replay sends pending events in `HashMap` order (`sfu_server.rs:194`), so two
  candidates of a client can change places (`design:755`). `FreshNeverOvertakes` shows
  that of one shard's events only those that were both replayed do.
* `decode_sfu_input` keeps the reason of a failed command and drops its code, so the
  Collider tells errors apart by their text.
* An admission to a room that is neither P2P nor SFU reaches the browser as
  `ROOM_TRANSITION`, an incomplete one as an error text (`grpc_client.rs:281-328`); the
  member is in the room all the same and nobody holds its token. `JoinAccounted` claims
  "nothing left behind" for the authority's other reasons.
* `domain_error` marks every error as not retryable (`grpc_server.rs:325`), where `design:336`
  has a "retryable `ROOM_TRANSITION`"; the edge drops the mark anyway.
* A redirect server that could not bind its port is noticed only when the process stops
  (`bin/sfu.rs:194`).
* An SFU stream's task has no stop arm, so a connected worker keeps signaling from
  going down (`docs/deployment/README-appr.tc.md:180`).
* `reconnect_delay` is never reset, and the sender of an ended SFU stream stays in
  `sfu_sessions` until a send to it fails.
* Frames that a retained P2P client sends during an upgrade are stamped with the new
  epoch (`design:309`), since the channel stamps what it sends and not who sent it.

In the browser, four properties of `Call` need calm histories. TLC refutes

* `ClientsAccounted` (that no client is leaked) when an upgrade arrives while a certificate
  is being generated (both promises make a client, one is lost), when the user hangs up
  while a join is under way (a client is opened after the hangup), when a message or a
  p2p-promote arrives during the leave request (a client is opened on the rejoin page),
  and when an upgrade arrives before a downgrade has ended (the retained SFU client is
  overwritten by the next downgrade);
* `RoleFitsMode` when a member of an SFU room hangs up and rejoins a P2P room, as `sfuMode`
  is still set, and when a client opened during the leave request is taken over by the
  rejoin of a room in the other mode;
* `OnlyUpgradesLeadToSfu` when two creations overlap;
* `LayoutFitsMode` when an upgrade completes during the layout hold, whose timer
  then hides the grid in SFU mode.

Also in the browser:

* A socket that fails to open, or a registration that is rejected, after an SFU join
  response leaves the page in mode `sfu` with the stage shown, the flag set and no client.
* `onclose` is assigned without `bind` (`signalingchannel.js:60`): when the server closes
  the socket the channel stays registered, and a registration under way is neither resolved
  nor rejected.
* A join that registers after its channel was closed saves its ids, and the next `open`
  registers them without anybody waiting for it (`signalingchannel.js:72`).
* A rejoin click before the leave request is settled finds the old socket; `open` returns
  nothing, `connectToRoom_` throws (`call.js:270`), and neither page is shown.

## 7. What is not modelled

* The Collider and the engine (contents not in the repository), other than as
  environment.
* Bytes: HTTP heads, frames, protobuf framing, SDP text, templates, TLS. Where they can fail,
  failing is an alternative of the action.
* Time: a timeout may happen whenever its wait is under way; back-off delays are
  "eventually".
* Direct connections between two browsers (only the initiator offers), the V1 signaling
  paths, mute, statistics, presentation.
* What a page, a parameter set or a status report contains; `occupancy_v2`, which has no
  caller; the decoding of events at signaling.
* Command lines, logging, static files, the graceful shutdown of `bin/apprtc`, which is
  axum's.

## 8. Plan

1. RequestCache with its proofs, MediaShards, SfuSession, SignalingDriver: done.
2. PeerConnectionClient and Call: done for signaling version 2 and SFU mode.
3. Edge and the wire forms of its RPCs and of the worker's commands: done.
4. Abstract specifications of the worker and of the idempotent service, with their
   refinements: done, model-checked and, for safety, proved.
5. Proofs of the safety properties of all seven specifications: done (section 5).
6. Left: theorems about the wire forms by themselves (that `decode_sfu_input` and
   `read_response` never take a refusal for a success, so far lemmas inside the proofs of
   `MediaShards` and `Edge`), and what remains true of a restart of signaling or of a
   history that is not calm.
