---------------------------- MODULE RequestCache ----------------------------
(***************************************************************************)
(* The idempotent execution of AppRTC unary RPCs by the signaling service  *)
(* (src/grpc_server.rs): concurrent handlers share one RequestCache behind *)
(* a mutex, the first handler of a request key runs the operation through  *)
(* the event loop that owns the Collider (src/signaling_server.rs), later  *)
(* ones wait for it or replay its cached result.                           *)
(*                                                                         *)
(* A handler is a Rust future: it moves between its await points, and the  *)
(* server drops it at any of them when the caller goes away.               *)
(***************************************************************************)
EXTENDS Integers, Sequences, FiniteSets, SequencesExt

CONSTANTS
    Rpcs,            \* RPC invocations (each handler future runs once)
    Keys,            \* RequestKey: the (instance_id, request_id) pairs
    Ops,             \* operation fingerprints: classes of equal operations
    CacheCapacity,   \* REQUEST_CACHE_CAPACITY
    CommandCapacity, \* COMMAND_CAPACITY of the channel to the event loop
    MayTimeOut,      \* whether AUTHORITY_TIMEOUT can fire
    MayCancel        \* whether the server drops futures of gone callers

ASSUME CapacityAssumption ==
    /\ CacheCapacity \in Nat \ {0}
    /\ CommandCapacity \in Nat \ {0}

ASSUME SwitchAssumption == MayTimeOut \in BOOLEAN /\ MayCancel \in BOOLEAN

VARIABLES
    pc,        \* where each handler is
    key,       \* its RequestKey
    op,        \* its operation fingerprint
    owner,     \* the handler whose watch channel a waiting handler subscribed to
    status,    \* how it ended
    result,    \* the result it holds: an index into log, 0 for none
    reply,     \* its oneshot: 0 empty, -1 sender dropped, otherwise the result
    entries,   \* RequestCache.entries
    order,     \* RequestCache.order
    inFlight,  \* RequestCache.in_flight
    commands,  \* the mpsc channel of DriverCommand::Authority
    pending,   \* pending_authority: applied operations not yet answered
    log,       \* every operation the Collider has processed, in order
    driver     \* the event loop

handlerVars == <<pc, key, op, owner, status, result, reply>>
cacheVars == <<entries, order, inFlight>>
driverVars == <<commands, pending, log, driver>>
vars == <<handlerVars, cacheVars, driverVars>>

None == 0
Dropped == -1

\* Operations the Collider has processed so far, and the results they gave.
Results == DOMAIN log

\* The handler has claimed its key and has not released it.
Executing(h) == pc[h] \in {"send", "await", "store"}

Completed(h) == pc[h] = "done" /\ status[h] # "cancelled"

-----------------------------------------------------------------------------
Init ==
    /\ pc = [h \in Rpcs |-> "idle"]
    /\ key \in [Rpcs -> Keys]
    /\ op \in [Rpcs -> Ops]
    /\ owner = [h \in Rpcs |-> h]
    /\ status = [h \in Rpcs |-> "none"]
    /\ result = [h \in Rpcs |-> None]
    /\ reply = [h \in Rpcs |-> None]
    /\ entries = <<>>
    /\ order = <<>>
    /\ inFlight = <<>>
    /\ commands = <<>>
    /\ pending = {}
    /\ log = <<>>
    /\ driver = "running"

\* An RPC with a valid context arrives and its handler enters execute().
Arrive(h) ==
    /\ pc[h] = "idle"
    /\ pc' = [pc EXCEPT ![h] = "lookup"]
    /\ UNCHANGED <<key, op, owner, status, result, reply, cacheVars, driverVars>>

Finish(h, how) ==
    /\ pc' = [pc EXCEPT ![h] = "done"]
    /\ status' = [status EXCEPT ![h] = how]

\* The method refuses the call before execute(): its context is not that of an
\* AppRTC instance, its request_id is zero, or an id it names is empty or no
\* room id.
Refuse(h) ==
    /\ pc[h] = "idle"
    /\ Finish(h, "invalid")
    /\ UNCHANGED <<key, op, owner, result, reply, cacheVars, driverVars>>

\* Mutant of Replay: the fingerprint comparison is missing.
ReplayAnyOperation(h) ==
    /\ key[h] \in DOMAIN entries
    /\ Finish(h, "replayed")
    /\ result' = [result EXCEPT ![h] = entries[key[h]].result]
    /\ UNCHANGED <<owner, inFlight>>

\* The key has a cached result: replay it, or refuse a different operation.
Replay(h) ==
    /\ key[h] \in DOMAIN entries
    /\ IF entries[key[h]].op = op[h]
       THEN /\ Finish(h, "replayed")
            /\ result' = [result EXCEPT ![h] = entries[key[h]].result]
       ELSE /\ Finish(h, "already_exists")
            /\ UNCHANGED result
    /\ UNCHANGED <<owner, inFlight>>

\* Another handler runs the key: subscribe to its completion, or refuse.
Subscribe(h) ==
    /\ key[h] \notin DOMAIN entries
    /\ key[h] \in DOMAIN inFlight
    /\ IF inFlight[key[h]].op = op[h]
       THEN /\ pc' = [pc EXCEPT ![h] = "waiting"]
            /\ owner' = [owner EXCEPT ![h] = inFlight[key[h]].by]
            /\ UNCHANGED status
       ELSE /\ Finish(h, "already_exists")
            /\ UNCHANGED owner
    /\ UNCHANGED <<result, inFlight>>

\* Mutant of Claim: the key is claimed without looking at in_flight.
ClaimRegardless(h) ==
    /\ key[h] \notin DOMAIN entries
    /\ inFlight' = [k \in DOMAIN inFlight \cup {key[h]} |->
                        IF k = key[h] THEN [op |-> op[h], by |-> h] ELSE inFlight[k]]
    /\ pc' = [pc EXCEPT ![h] = "send"]
    /\ UNCHANGED <<owner, status, result>>

\* Nobody runs the key: claim it.
Claim(h) ==
    /\ key[h] \notin DOMAIN entries \cup DOMAIN inFlight
    /\ inFlight' = [k \in DOMAIN inFlight \cup {key[h]} |->
                        IF k = key[h] THEN [op |-> op[h], by |-> h] ELSE inFlight[k]]
    /\ pc' = [pc EXCEPT ![h] = "send"]
    /\ UNCHANGED <<owner, status, result>>

\* The locked block at the top of execute()'s loop.
Lookup(h) ==
    /\ pc[h] = "lookup"
    /\ Replay(h) \/ Subscribe(h) \/ Claim(h)
    /\ UNCHANGED <<key, op, reply, entries, order, driverVars>>

\* Mutant of Wake: a waiter runs the operation itself instead of looking again.
WakeAndRun(h) ==
    /\ pc[h] = "waiting"
    /\ Completed(owner[h])
    /\ pc' = [pc EXCEPT ![h] = "send"]
    /\ UNCHANGED <<key, op, owner, status, result, reply, cacheVars, driverVars>>

\* The watch channel reports completion: look the key up again.
Wake(h) ==
    /\ pc[h] = "waiting"
    /\ Completed(owner[h])
    /\ pc' = [pc EXCEPT ![h] = "lookup"]
    /\ UNCHANGED <<key, op, owner, status, result, reply, cacheVars, driverVars>>

\* Mutant of Send: the key is released as soon as the operation is queued.
SendReleasing(h) ==
    /\ pc[h] = "send"
    /\ \/ /\ driver # "stopped"
          /\ Len(commands) < CommandCapacity
          /\ commands' = Append(commands, h)
          /\ pc' = [pc EXCEPT ![h] = "await"]
          /\ inFlight' = [k \in DOMAIN inFlight \ {key[h]} |-> inFlight[k]]
          /\ UNCHANGED status
       \/ /\ driver = "stopped"
          /\ pc' = [pc EXCEPT ![h] = "store"]
          /\ status' = [status EXCEPT ![h] = "unavailable"]
          /\ UNCHANGED <<commands, inFlight>>
    /\ UNCHANGED <<key, op, owner, result, reply, entries, order, pending, log, driver>>

\* commands.send(Authority): waits for room in the channel, fails once the
\* event loop has dropped its receiver.
Send(h) ==
    /\ pc[h] = "send"
    /\ \/ /\ driver # "stopped"
          /\ Len(commands) < CommandCapacity
          /\ commands' = Append(commands, h)
          /\ pc' = [pc EXCEPT ![h] = "await"]
          /\ UNCHANGED status
       \/ /\ driver = "stopped"
          /\ pc' = [pc EXCEPT ![h] = "store"]
          /\ status' = [status EXCEPT ![h] = "unavailable"]
          /\ UNCHANGED commands
    /\ UNCHANGED <<key, op, owner, result, reply, cacheVars, pending, log, driver>>

\* Mutant of Receive: a dropped sender is taken for a response.
ReceiveUnchecked(h) ==
    /\ pc[h] = "await"
    /\ reply[h] # None
    /\ pc' = [pc EXCEPT ![h] = "store"]
    /\ status' = [status EXCEPT ![h] = "ok"]
    /\ result' = [result EXCEPT ![h] = reply[h]]
    /\ UNCHANGED <<key, op, owner, reply, cacheVars, driverVars>>

\* The oneshot resolves, with a response or because its sender is gone.
Receive(h) ==
    /\ pc[h] = "await"
    /\ reply[h] # None
    /\ pc' = [pc EXCEPT ![h] = "store"]
    /\ IF reply[h] = Dropped
       THEN /\ status' = [status EXCEPT ![h] = "unavailable"]
            /\ UNCHANGED result
       ELSE /\ status' = [status EXCEPT ![h] = "ok"]
            /\ result' = [result EXCEPT ![h] = reply[h]]
    /\ UNCHANGED <<key, op, owner, reply, cacheVars, driverVars>>

\* tokio::time::timeout(AUTHORITY_TIMEOUT, ..) gives up; the operation may
\* still be queued, or applied and unanswered.
TimeOut(h) ==
    /\ MayTimeOut
    /\ pc[h] = "await"
    /\ pc' = [pc EXCEPT ![h] = "store"]
    /\ status' = [status EXCEPT ![h] = "deadline_exceeded"]
    /\ UNCHANGED <<key, op, owner, result, reply, cacheVars, driverVars>>

\* RequestCache::insert: append a new key to the queue, then evict the oldest
\* keys until the capacity is respected.
Insert(k, value) ==
    LET queue == IF k \in DOMAIN entries THEN order ELSE Append(order, k)
        keys == DOMAIN entries \cup {k}
        surplus == IF Cardinality(keys) > CacheCapacity
                   THEN Cardinality(keys) - CacheCapacity ELSE 0
        evicted == {queue[i] : i \in 1..surplus}
    IN  /\ order' = SubSeq(queue, surplus + 1, Len(queue))
        /\ entries' = [x \in keys \ evicted |->
                          IF x = k THEN value ELSE entries[x]]

\* Mutant of Store: the key is released only when there is a result to cache.
StoreReleasingOnSuccess(h) ==
    /\ pc[h] = "store"
    /\ pc' = [pc EXCEPT ![h] = "done"]
    /\ IF status[h] = "ok"
       THEN /\ inFlight' = [k \in DOMAIN inFlight \ {key[h]} |-> inFlight[k]]
            /\ Insert(key[h], [op |-> op[h], result |-> result[h]])
       ELSE UNCHANGED cacheVars
    /\ UNCHANGED <<key, op, owner, status, result, reply, driverVars>>

\* The locked block at the end of execute(): release the key, cache a result,
\* tell the waiting handlers.
Store(h) ==
    /\ pc[h] = "store"
    /\ pc' = [pc EXCEPT ![h] = "done"]
    /\ inFlight' = [k \in DOMAIN inFlight \ {key[h]} |-> inFlight[k]]
    /\ IF status[h] = "ok"
       THEN Insert(key[h], [op |-> op[h], result |-> result[h]])
       ELSE UNCHANGED <<entries, order>>
    /\ UNCHANGED <<key, op, owner, status, result, reply, driverVars>>

\* The server drops the handler's future at an await point: its caller
\* disconnected or gave up.  Nothing in execute() runs on drop.
Cancel(h) ==
    /\ MayCancel
    /\ pc[h] \notin {"idle", "done"}
    /\ Finish(h, "cancelled")
    /\ UNCHANGED <<key, op, owner, result, reply, cacheVars, driverVars>>

-----------------------------------------------------------------------------
\* handle_command(Authority): the Collider applies the operation.  It answers
\* at once, or later (an admission waiting for an SFU worker).
HandleAuthority ==
    /\ driver = "running"
    /\ commands # <<>>
    /\ commands' = Tail(commands)
    /\ log' = Append(log, Head(commands))
    /\ \/ /\ reply' = [reply EXCEPT ![Head(commands)] = Len(log) + 1]
          /\ UNCHANGED pending
       \/ /\ pending' = pending \cup {Len(log) + 1}
          /\ UNCHANGED reply
    /\ UNCHANGED <<pc, key, op, owner, status, result, cacheVars, driver>>

\* drain_authority_responses: a deferred operation is answered.
Respond(r) ==
    /\ driver = "running"
    /\ r \in pending
    /\ pending' = pending \ {r}
    /\ reply' = [reply EXCEPT ![log[r]] = r]
    /\ UNCHANGED <<pc, key, op, owner, status, result, cacheVars, commands, log, driver>>

\* The event loop leaves its loop, applies what is queued, closes the Collider
\* and delivers the answers it has; senders may still enqueue behind it.
StopDriver ==
    /\ driver = "running"
    /\ driver' = "closing"
    /\ commands' = <<>>
    /\ log' = log \o commands
    /\ \E answered \in SUBSET (pending \cup (Len(log) + 1)..(Len(log) + Len(commands))) :
          /\ pending' = (pending \cup (Len(log) + 1)..(Len(log) + Len(commands))) \ answered
          /\ reply' = [h \in Rpcs |->
                IF \E r \in answered : log'[r] = h
                THEN CHOOSE r \in answered : log'[r] = h
                ELSE reply[h]]
    /\ UNCHANGED <<pc, key, op, owner, status, result, cacheVars>>

\* run() returns: the receiver, the commands in it and the pending senders go.
DropReceiver ==
    /\ driver = "closing"
    /\ driver' = "stopped"
    /\ commands' = <<>>
    /\ pending' = {}
    /\ reply' = [h \in Rpcs |->
          IF (\E i \in DOMAIN commands : commands[i] = h) \/ (\E r \in pending : log[r] = h)
          THEN Dropped ELSE reply[h]]
    /\ UNCHANGED <<pc, key, op, owner, status, result, cacheVars, log>>

\* The operations of one handler that its own progress depends on.
HandlerStep(h) == Lookup(h) \/ Wake(h) \/ Send(h) \/ Receive(h) \/ TimeOut(h) \/ Store(h)

Next ==
    \/ \E h \in Rpcs : Arrive(h) \/ Refuse(h) \/ HandlerStep(h) \/ Cancel(h)
    \/ HandleAuthority
    \/ \E r \in Results : Respond(r)
    \/ StopDriver
    \/ DropReceiver

Spec == Init /\ [][Next]_vars

\* Tokio polls every woken task and the event loop keeps receiving; callers
\* need not arrive, deferred answers need not come and nothing need stop.
Fairness ==
    /\ \A h \in Rpcs : WF_vars(HandlerStep(h))
    /\ WF_vars(HandleAuthority)
    /\ WF_vars(DropReceiver)

FairSpec == Spec /\ Fairness

-----------------------------------------------------------------------------
\* Every variable has the shape the code gives it.
TypeOK ==
    /\ pc \in [Rpcs -> {"idle", "lookup", "waiting", "send", "await", "store", "done"}]
    /\ key \in [Rpcs -> Keys]
    /\ op \in [Rpcs -> Ops]
    /\ owner \in [Rpcs -> Rpcs]
    /\ status \in [Rpcs -> {"none", "ok", "replayed", "already_exists", "invalid",
                            "unavailable", "deadline_exceeded", "cancelled"}]
    /\ result \in [Rpcs -> Nat]
    /\ reply \in [Rpcs -> Nat \cup {Dropped}]
    /\ DOMAIN entries \subseteq Keys
    /\ IsFiniteSet(DOMAIN entries)
    /\ \A k \in DOMAIN entries : entries[k] \in [op : Ops, result : Nat]
    /\ order \in Seq(Keys)
    /\ DOMAIN inFlight \subseteq Keys
    /\ \A k \in DOMAIN inFlight : inFlight[k] \in [op : Ops, by : Rpcs]
    /\ commands \in Seq(Rpcs)
    /\ pending \subseteq Nat
    /\ log \in Seq(Rpcs)
    /\ driver \in {"running", "closing", "stopped"}

\* Two handlers of one request key never run its operation at the same time,
\* whatever timed out, was cancelled or was evicted before (execute()'s
\* in_flight claim).
SingleFlight ==
    \A g, h \in Rpcs : Executing(g) /\ Executing(h) /\ key[g] = key[h] => g = h

\* A handler that answers with a result answers with one the Collider gave for
\* its own request key and its own operation, never another caller's.
ReplayFaithful ==
    \A h \in Rpcs : status[h] \in {"ok", "replayed"} =>
        /\ result[h] \in Results
        /\ key[log[result[h]]] = key[h]
        /\ op[log[result[h]]] = op[h]

\* While a result is cached, the operation of its key is not applied again:
\* the cached result is the last thing the Collider did for the key, and no
\* abandoned attempt is still queued behind it.
NoMutationPastCache ==
    \A k \in DOMAIN entries :
        /\ \A r \in Results : key[log[r]] = k => r <= entries[k].result
        /\ \A i \in DOMAIN commands : key[commands[i]] # k

\* entries and order describe the same keys, each once, within the capacity.
CacheCoherent ==
    /\ DOMAIN entries = ToSet(order)
    /\ IsInjective(order)
    /\ Cardinality(DOMAIN entries) <= CacheCapacity

\* A result never changes while it stays cached: every replay of a key is the
\* same answer.
CachedResultStable ==
    [][\A k \in DOMAIN entries \cap DOMAIN entries' : entries'[k] = entries[k]]_vars

\* What the callers see of the service.
Service == INSTANCE IdempotentService WITH
    Callers <- Rpcs,
    history <- log,
    answer <- [h \in Rpcs |-> IF pc[h] # "done" THEN 0
                             ELSE IF status[h] \in {"ok", "replayed"} THEN result[h] ELSE -1]

\* execute() is the idempotent service: whatever is retried, times out, is
\* dropped, evicted or still queued, a call is applied at most once and no
\* caller is told a result that a later application under its key has
\* overtaken.
ImplementsService == Service!Spec

\* Every RPC gets an answer or an error, also one that waits for another handler
\* of its key, unless the server dropped a handler of that key (execute()'s loop).
RpcAnswered ==
    \A h \in Rpcs : pc[h] = "lookup" ~>
        \/ pc[h] = "done"
        \/ \E g \in Rpcs : key[g] = key[h] /\ status[g] = "cancelled"
=============================================================================
