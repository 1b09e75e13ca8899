---------------------------- MODULE MediaShards ----------------------------
(***************************************************************************)
(* The media side of an SFU worker (src/sfu_server.rs): dispatch_command   *)
(* routes a signaling command to the shard that owns its room, and the     *)
(* shard's media_loop answers it from its command cache or applies it to   *)
(* the Sans-I/O engine, keeping a projection of the engine's membership,   *)
(* the cache, and its share of the worker's metrics.                       *)
(*                                                                         *)
(* The engine (the sfu crate) is external: all that matters here is whom   *)
(* it has as members and that it may refuse a call.  Signaling numbers its *)
(* commands and may deliver one again under the same number, whenever a    *)
(* result is lost or the stream reconnects.                                *)
(***************************************************************************)
EXTENDS Integers, Sequences, FiniteSets, SequencesExt, Functions, SfuWire

CONSTANTS
    Rooms, Clients,       \* room and client ids
    Shards,               \* one media shard per UDP port of the range
    ShardOf,              \* room_id % media.len()
    Lifecycles, Epochs,   \* lifecycle_id and assignment_epoch values
    Contents,             \* what signals say
    Commands,             \* the commands signaling sends in this instance
    FirstId, MaxCommands, \* it numbers them FirstId, FirstId + 1, ...
    Window,               \* how many of the latest it may deliver again
    CacheCapacity,        \* COMMAND_CACHE_CAPACITY
    MayRestart            \* whether signaling restarts and numbers anew

Members == Rooms \X Clients

MemberCommands == [type : {"join", "leave"}, member : Members,
                   lifecycle : Lifecycles, epoch : Epochs]

SignalCommands == [type : {"signal"}, member : Members, lifecycle : Lifecycles,
                   epoch : Epochs, content : Contents]

\* The roster of a SyncRoom: the lifecycle of each member it lists.
Rosters == UNION {[cs -> Lifecycles] : cs \in SUBSET Clients}

SyncCommands == [type : {"sync"}, room : Rooms, roster : Rosters, epoch : Epochs]

\* The worker knows a command that this signaling never sends.
Drain == [type |-> "drain"]

ASSUME ShardAssumption == Rooms \subseteq Nat /\ ShardOf \in [Rooms -> Shards]
ASSUME CommandAssumption ==
    /\ Contents \subseteq [kind : STRING, requestid : Nat, sdp_request_id : Nat]
    /\ Commands \subseteq MemberCommands \cup SignalCommands \cup SyncCommands \cup {Drain}
    /\ \A cmd \in Commands : cmd.type = "sync" => IsFiniteSet(DOMAIN cmd.roster)
    /\ FirstId \in Nat /\ MaxCommands \in Nat /\ Window \in Nat
ASSUME CacheAssumption == CacheCapacity \in Nat \ {0}
ASSUME RestartAssumption == MayRestart \in BOOLEAN

VARIABLES
    engine,      \* per shard, the members the engine has
    projection,  \* per shard, member -> <<lifecycle_id, assignment_epoch>>
    cache,       \* per shard, command_cache: request_id -> result
    cacheOrder,  \* per shard, command_order
    previous,    \* per shard, metric_rooms and metric_clients
    running,     \* per shard, whether media_loop still loops
    metrics,     \* the worker's Metrics
    issued,      \* signaling: what it numbered with each request_id
    applied,     \* how often each number was applied (history)
    told,        \* the signal the engine was given in the latest step, if any
    answer       \* what the Collider was told in it

shardVars == <<engine, projection, cache, cacheOrder, previous, running>>
vars == <<shardVars, metrics, issued, applied, told, answer>>

Ids == FirstId..(FirstId + MaxCommands - 1)

NoSignal == [member |-> <<>>, ask |-> NothingToDo]
NoAnswer == [type |-> "none"]

\* A shard's share of the metrics: the rooms and clients of its projection.
Contribution(members) ==
    [rooms |-> Cardinality({m[1] : m \in members}), clients |-> Cardinality(members)]

Put(f, k, v) == [x \in DOMAIN f \cup {k} |-> IF x = k THEN v ELSE f[x]]
Without(f, ks) == [x \in DOMAIN f \ ks |-> f[x]]

-----------------------------------------------------------------------------
Init ==
    /\ engine = [s \in Shards |-> {}]
    /\ projection = [s \in Shards |-> <<>>]
    /\ cache = [s \in Shards |-> <<>>]
    /\ cacheOrder = [s \in Shards |-> <<>>]
    /\ previous = [s \in Shards |-> [rooms |-> 0, clients |-> 0]]
    /\ running = [s \in Shards |-> TRUE]
    /\ metrics = [rooms |-> 0, clients |-> 0]
    /\ issued = <<>>
    /\ applied = [id \in Ids |-> 0]
    /\ told = NoSignal /\ answer = NoAnswer

-----------------------------------------------------------------------------
\* What applying a command does: the membership of the engine and the
\* projection after it, the signal it passes to the engine and the result.
Outcome(eng, proj, result) ==
    [engine |-> eng, projection |-> proj, told |-> NoSignal, result |-> result]

\* Commands the engine is not asked about, or refuses, change nothing.
Unchanged(s, result) == Outcome(engine[s], projection[s], result)

\* apply_command(Join): repeated under the same lifecycle it is acknowledged,
\* under another it is refused, otherwise the engine decides.
JoinOutcomes(s, id, command) ==
    LET proj == projection[s]
        key == MemberKey(command)
        joined == Ok(id, MemberPayload("MemberJoined", command))
    IN  IF key \notin DOMAIN proj
        THEN {Outcome(engine[s] \cup {key}, Put(proj, key, MemberTag(command)), joined),
              Unchanged(s, command_error(id, "INTERNAL", "SFU join failed"))}
        ELSE IF proj[key] = MemberTag(command) THEN {Unchanged(s, joined)}
        ELSE {Unchanged(s, command_error(id, "STALE_LIFECYCLE", "conflicting member lifecycle"))}

\* Mutant of LeaveOutcomes: the projection forgets the member before the engine
\* has agreed.
LeaveForgettingFirst(s, id, command) ==
    LET proj == projection[s]
        key == MemberKey(command)
        left == Ok(id, MemberPayload("MemberLeft", command))
    IN  IF key \notin DOMAIN proj THEN {Unchanged(s, left)}
        ELSE IF proj[key] # MemberTag(command)
        THEN {Unchanged(s, command_error(id, "STALE_LIFECYCLE", "stale member lifecycle"))}
        ELSE {Outcome(eng, Without(proj, {key}), left) : eng \in {engine[s], engine[s] \ {key}}}

\* apply_command(Leave): a member the projection does not have is gone already.
LeaveOutcomes(s, id, command) ==
    LET proj == projection[s]
        key == MemberKey(command)
        left == Ok(id, MemberPayload("MemberLeft", command))
    IN  IF key \notin DOMAIN proj THEN {Unchanged(s, left)}
        ELSE IF proj[key][2] # command.assignment_epoch
        THEN {Unchanged(s, command_error(id, "STALE_ASSIGNMENT_EPOCH", "stale assignment epoch"))}
        ELSE IF proj[key][1] # command.lifecycle_id
        THEN {Unchanged(s, command_error(id, "STALE_LIFECYCLE", "stale member lifecycle"))}
        ELSE {Outcome(engine[s] \ {key}, Without(proj, {key}), left),
              Unchanged(s, command_error(id, "INTERNAL", "SFU leave failed"))}

\* apply_command(Signal): only the current lifecycle may signal; the message may
\* make no sense, and the engine may reject what it says.
SignalOutcomes(s, id, command) ==
    LET key == MemberKey(command)
        ask == apply_signal(id, command.content)
        done == Unchanged(s, Ok(id, Acknowledged))
        invalid == Unchanged(s, command_error(id, "INVALID_SIGNAL", "rejected"))
    IN  IF key \notin DOMAIN projection[s] \/ projection[s][key] # MemberTag(command)
        THEN {Unchanged(s, command_error(id, "STALE_LIFECYCLE", "stale signal lifecycle"))}
        ELSE IF ask = Rejected THEN {invalid}
        ELSE IF ask = NothingToDo THEN {done}
        ELSE {[done EXCEPT !.told = [member |-> key, ask |-> ask]], invalid}

\* Mutant of SyncOutcomes: a failed leave is skipped instead of ending the sync.
SyncIgnoringLeaveFailures(s, id, command) ==
    LET room == room_id_from_bytes(command.room_id)
        proj == projection[s]
        listed == {<<room, m.client_id>> : m \in command.members}
        stale == {m \in DOMAIN proj : m[1] = room} \ listed
        Listed(m) == CHOOSE x \in command.members : x.client_id = m[2]
    IN  {Outcome((engine[s] \ gone) \cup listed,
                 [m \in (DOMAIN proj \ gone) \cup listed |->
                     IF m \in listed THEN <<Listed(m).lifecycle_id, command.assignment_epoch>>
                     ELSE proj[m]],
                 Ok(id, RoomSynced(command))) : gone \in SUBSET stale}

\* sync_room: members that are not listed leave, in any order, then those that
\* are listed join or take over the listed lifecycle, in the order listed.  A
\* call the engine refuses ends it there, with what was done so far.
SyncOutcomes(s, id, command) ==
    LET room == room_id_from_bytes(command.room_id)
        proj == projection[s]
        listed == {<<room, m.client_id>> : m \in command.members}
        stale == {m \in DOMAIN proj : m[1] = room} \ listed
        Listed(m) == CHOOSE x \in command.members : x.client_id = m[2]
        Synced(done) == [m \in (DOMAIN proj \ stale) \cup done |->
                            IF m \in done
                            THEN <<Listed(m).lifecycle_id, command.assignment_epoch>>
                            ELSE proj[m]]
    IN  {Outcome(engine[s] \ gone, Without(proj, gone),
                 command_error(id, "INTERNAL", "SFU room sync leave failed")) :
            gone \in SUBSET stale \ {stale}}
        \cup
        {Outcome((engine[s] \ stale) \cup done, Synced(done),
                 command_error(id, "INTERNAL", "SFU room sync join failed")) :
            done \in {d \in SUBSET listed : ~(listed \ d \subseteq DOMAIN proj)}}
        \cup
        {Outcome((engine[s] \ stale) \cup listed, Synced(listed), Ok(id, RoomSynced(command)))}

\* apply_command; dispatch_command lets no command without a room come here.
Outcomes(s, id, command) ==
    IF id = 0
    THEN {Unchanged(s, command_error(id, "INVALID_REQUEST", "request_id must be nonzero"))}
    ELSE CASE command.type = "join"   -> JoinOutcomes(s, id, command)
           [] command.type = "leave"  -> LeaveOutcomes(s, id, command)
           [] command.type = "signal" -> SignalOutcomes(s, id, command)
           [] command.type = "sync"   -> SyncOutcomes(s, id, command)

-----------------------------------------------------------------------------
\* Mutant of CacheCommand: eviction starts one command too early.
CacheCommandShort(s, result) ==
    LET id == result.request_id
        order == IF id \in DOMAIN cache[s] THEN cacheOrder[s] ELSE Append(cacheOrder[s], id)
        surplus == IF Len(order) >= CacheCapacity THEN Len(order) - CacheCapacity + 1 ELSE 0
    IN  /\ cacheOrder' = [cacheOrder EXCEPT ![s] = SubSeq(order, surplus + 1, Len(order))]
        /\ cache' = [cache EXCEPT ![s] =
                        Without(Put(@, id, result), {order[i] : i \in 1..surplus})]

\* Mutant of CacheCommand: evicted numbers leave the queue and stay in the map.
CacheCommandLeaking(s, result) ==
    LET id == result.request_id
        order == IF id \in DOMAIN cache[s] THEN cacheOrder[s] ELSE Append(cacheOrder[s], id)
    IN  /\ cacheOrder' = [cacheOrder EXCEPT ![s] =
                             IF Len(order) > CacheCapacity THEN Tail(order) ELSE order]
        /\ cache' = [cache EXCEPT ![s] = Put(@, id, result)]

\* cache_command: a new number is queued, and the oldest are forgotten.
CacheCommand(s, result) ==
    LET id == result.request_id
        order == IF id \in DOMAIN cache[s] THEN cacheOrder[s] ELSE Append(cacheOrder[s], id)
        surplus == IF Len(order) > CacheCapacity THEN Len(order) - CacheCapacity ELSE 0
    IN  /\ cacheOrder' = [cacheOrder EXCEPT ![s] = SubSeq(order, surplus + 1, Len(order))]
        /\ cache' = [cache EXCEPT ![s] =
                        Without(Put(@, id, result), {order[i] : i \in 1..surplus})]

\* update_metrics and replace_contribution.  The two counters are two atomics the
\* code changes one after the other; no decision reads them together, and what is
\* said of each of them does not depend on the other.
UpdateMetrics(s, now) ==
    /\ metrics' = [rooms |-> metrics.rooms + now.rooms - previous[s].rooms,
                   clients |-> metrics.clients + now.clients - previous[s].clients]
    /\ previous' = [previous EXCEPT ![s] = now]

\* media_loop receives a command it has no cached result for.
Apply(s, id, command) ==
    /\ id \notin DOMAIN cache[s]
    /\ \E o \in Outcomes(s, id, command) :
          /\ engine' = [engine EXCEPT ![s] = o.engine]
          /\ projection' = [projection EXCEPT ![s] = o.projection]
          /\ told' = o.told
          /\ answer' = decode_sfu_input(o.result)
          /\ CacheCommand(s, o.result)
          /\ UpdateMetrics(s, Contribution(DOMAIN o.projection))
    /\ applied' = [applied EXCEPT ![id] = @ + 1]
    /\ UNCHANGED running

\* A result that nothing was applied for.
AnswerOnly(result) ==
    /\ answer' = decode_sfu_input(result)
    /\ told' = NoSignal
    /\ UNCHANGED <<shardVars, metrics, applied>>

\* Mutant of Replay: whatever was answered last is answered again.
ReplayLatest(s, id) ==
    /\ id \in DOMAIN cache[s]
    /\ AnswerOnly([cache[s][Last(cacheOrder[s])] EXCEPT !.request_id = id])

\* media_loop finds the command's number in its cache: the result goes out
\* again and nothing else happens.
Replay(s, id) ==
    /\ id \in DOMAIN cache[s]
    /\ AnswerOnly(cache[s][id])

\* dispatch_command hands the command to the shard of its room, unless it names
\* none or the shard has stopped.
Dispatch(id, command) ==
    LET room == command_room_id(command) IN
    \/ /\ room = NoRoom
       /\ AnswerOnly(command_error(id, "INVALID_REQUEST", "unsupported command"))
    \/ /\ room # NoRoom /\ ~running[ShardOf[room]]
       /\ AnswerOnly(command_error(id, "WORKER_UNAVAILABLE", "media shard stopped"))
    \/ /\ room # NoRoom /\ running[ShardOf[room]]
       /\ Apply(ShardOf[room], id, command) \/ Replay(ShardOf[room], id)

Deliver(id, cmd) == LET wire == encode_sfu_output(id, cmd) IN Dispatch(wire.request_id, wire.command)

\* Signaling numbers a command and it reaches the worker.
Command(cmd) ==
    LET id == FirstId + Cardinality(DOMAIN issued) IN
    /\ id \in Ids
    /\ issued' = Put(issued, id, cmd)
    /\ Deliver(id, cmd)

\* A command reaches the worker again, with its number.
Redeliver(id) ==
    /\ id \in DOMAIN issued
    /\ Cardinality({n \in DOMAIN issued : n >= id}) <= Window
    /\ Deliver(id, issued[id])
    /\ UNCHANGED issued

\* Signaling restarts: its numbers begin again, the worker carries on.
RestartSignaling ==
    /\ MayRestart
    /\ issued # <<>>
    /\ issued' = <<>>
    /\ applied' = [id \in Ids |-> 0]
    /\ UNCHANGED <<shardVars, metrics, told, answer>>

\* Mutant of StopShard: the shard's share stays in the metrics.
StopShardSilently(s) ==
    /\ running[s]
    /\ running' = [running EXCEPT ![s] = FALSE]
    /\ engine' = [engine EXCEPT ![s] = {}]
    /\ projection' = [projection EXCEPT ![s] = <<>>]
    /\ cache' = [cache EXCEPT ![s] = <<>>]
    /\ cacheOrder' = [cacheOrder EXCEPT ![s] = <<>>]
    /\ previous' = [previous EXCEPT ![s] = [rooms |-> 0, clients |-> 0]]
    /\ UNCHANGED <<metrics, issued, applied, told, answer>>

\* media_loop observes the stop signal: the engine closes and the shard takes
\* its share out of the metrics.
StopShard(s) ==
    /\ running[s]
    /\ running' = [running EXCEPT ![s] = FALSE]
    /\ engine' = [engine EXCEPT ![s] = {}]
    /\ projection' = [projection EXCEPT ![s] = <<>>]
    /\ cache' = [cache EXCEPT ![s] = <<>>]
    /\ cacheOrder' = [cacheOrder EXCEPT ![s] = <<>>]
    /\ previous' = [previous EXCEPT ![s] = [rooms |-> 0, clients |-> 0]]
    /\ metrics' = [rooms |-> metrics.rooms - previous[s].rooms,
                   clients |-> metrics.clients - previous[s].clients]
    /\ UNCHANGED <<issued, applied, told, answer>>

Next ==
    \/ \E cmd \in Commands : Command(cmd)
    \/ \E id \in Ids : Redeliver(id)
    \/ RestartSignaling
    \/ \E s \in Shards : StopShard(s)

Spec == Init /\ [][Next]_vars

-----------------------------------------------------------------------------
\* Command cache and eviction queue hold the same numbers, each once, within
\* the capacity.
CacheCoherent ==
    \A s \in Shards :
        /\ DOMAIN cache[s] = ToSet(cacheOrder[s])
        /\ IsInjective(cacheOrder[s])
        /\ Len(cacheOrder[s]) <= CacheCapacity

\* Every variable has the shape the code gives it, the command caches included.
TypeOK ==
    /\ engine \in [Shards -> SUBSET Members]
    /\ DOMAIN projection = Shards
    /\ \A s \in Shards :
          /\ DOMAIN projection[s] \subseteq Members
          /\ \A m \in DOMAIN projection[s] : projection[s][m] \in Lifecycles \X Epochs
    /\ DOMAIN cache = Shards
    /\ \A s \in Shards :
          /\ DOMAIN cache[s] \subseteq Ids
          /\ \A id \in DOMAIN cache[s] : cache[s][id].request_id = id
    /\ cacheOrder \in [Shards -> Seq(Ids)]
    /\ CacheCoherent
    /\ previous \in [Shards -> [rooms : Nat, clients : Nat]]
    /\ running \in [Shards -> BOOLEAN]
    /\ metrics \in [rooms : Nat, clients : Nat]
    /\ DOMAIN issued \subseteq Ids
    /\ \A id \in DOMAIN issued : issued[id] \in Commands
    /\ applied \in [Ids -> Nat]
    /\ told.member \in Members \cup {<<>>}
    /\ answer.type \in {"none", "Ok", "Err", "Status"}

\* The engine has exactly the members the adapter believes it has, also after
\* a room synchronization that the engine cut short.  Were it otherwise, a
\* later join or leave would be refused or a peer would live on unreachable.
EngineMatchesProjection ==
    \A s \in Shards : engine[s] = DOMAIN projection[s]

\* The counters the worker reports to signaling are the rooms and clients of
\* its running shards together, whatever failed half-way and whoever stopped.
MetricsExact ==
    LET members == UNION {engine[s] : s \in Shards}
    IN  metrics = [rooms |-> Cardinality({m[1] : m \in members}), clients |-> Cardinality(members)]

\* A command that is delivered again is not applied again, as long as signaling
\* repeats no more of its latest commands than a shard's cache holds.
AppliedOnce == \A id \in Ids : applied[id] <= 1

\* What the Collider should read in the result of a command that succeeded.
Confirms(cmd) ==
    CASE cmd.type = "join" -> [type |-> "MemberJoined", member |-> cmd.member,
                               lifecycle |-> cmd.lifecycle, epoch |-> cmd.epoch]
      [] cmd.type = "leave" -> [type |-> "MemberLeft", member |-> cmd.member,
                                lifecycle |-> cmd.lifecycle, epoch |-> cmd.epoch]
      [] cmd.type = "sync" -> [type |-> "RoomSynced", room |-> cmd.room, epoch |-> cmd.epoch]
      [] OTHER -> Acknowledged

\* Through the encoding, the shard, its cache, and the decoding, what the
\* Collider reads under a number is about the member, lifecycle and epoch of the
\* command it numbered so, first time or repeated.
AnswersItsCommand ==
    answer.type = "Ok" /\ answer.request_id \in DOMAIN issued =>
        answer.value = Confirms(issued[answer.request_id])

\* A fresh result "ok" tells the truth about the engine: a joined member is
\* there under its lifecycle and epoch, a left one is gone, a synchronized room
\* has exactly the listed members, and a signal other than a bye was passed on
\* for its member, an answer under the number the browser quoted.
OkIsTrue(cmd, eng, proj, signal) ==
    CASE cmd.type = "join" -> cmd.member \in eng /\ proj[cmd.member] = <<cmd.lifecycle, cmd.epoch>>
      [] cmd.type = "leave" -> cmd.member \notin eng
      [] cmd.type = "sync" ->
            /\ {m[2] : m \in {m \in eng : m[1] = cmd.room}} = DOMAIN cmd.roster
            /\ \A c \in DOMAIN cmd.roster : proj[<<cmd.room, c>>] = <<cmd.roster[c], cmd.epoch>>
      [] cmd.type = "signal" /\ cmd.content.kind # "bye" ->
            /\ signal.member = cmd.member /\ cmd.member \in eng
            /\ cmd.content.kind = "answer" /\ cmd.content.requestid # NoId =>
                  signal.ask = Description(cmd.content.requestid)
      [] OTHER -> TRUE

OkMeansApplied ==
    [][\A s \in Shards : \A id \in DOMAIN cache'[s] \ DOMAIN cache[s] :
          cache'[s][id].ok => OkIsTrue(issued'[id], engine'[s], projection'[s], told')]_vars
=============================================================================
