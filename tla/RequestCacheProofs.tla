------------------------- MODULE RequestCacheProofs -------------------------
(***************************************************************************)
(* Proofs about RequestCache for any set of handlers, keys and operations  *)
(* and any capacities.                                                     *)
(***************************************************************************)
EXTENDS RequestCache, FiniteSetTheorems, TLAPS

\* Every command that reached the event loop's channel, applied or queued, in
\* the order the channel gives them.
Attempts == log \o commands

\* A running handler is the one its key's in_flight entry was made by, and a
\* key in flight has no cached result.
Claims ==
    /\ \A h \in Rpcs : Executing(h) =>
          key[h] \in DOMAIN inFlight /\ inFlight[key[h]].by = h
    /\ \A k \in DOMAIN inFlight : k \notin DOMAIN entries

\* Every result in the system was given by the Collider to an operation of the
\* right handler, or of the right key and fingerprint.
Provenance ==
    /\ \A h \in Rpcs : reply[h] \notin {None, Dropped} =>
          reply[h] \in Results /\ log[reply[h]] = h
    /\ pending \subseteq Results
    /\ \A h \in Rpcs : status[h] = "ok" => result[h] \in Results /\ log[result[h]] = h
    /\ \A h \in Rpcs : status[h] = "replayed" =>
          /\ result[h] \in Results
          /\ key[log[result[h]]] = key[h]
          /\ op[log[result[h]]] = op[h]
    /\ \A k \in DOMAIN entries :
          /\ entries[k].result \in Results
          /\ key[log[entries[k].result]] = k
          /\ op[log[entries[k].result]] = entries[k].op

\* A handler that has not passed its send has no command in the system.
Unsent(h) == pc[h] \in {"idle", "lookup", "waiting", "send"}

NotYetSent ==
    \A h \in Rpcs : Unsent(h) => \A i \in DOMAIN Attempts : Attempts[i] # h

\* The command of a handler that may still cache its result is the last one of
\* its key.
MayCache(h) == pc[h] = "await" \/ (pc[h] = "store" /\ status[h] = "ok")

LastOfItsKey ==
    \A h \in Rpcs : MayCache(h) =>
        \A i, j \in DOMAIN Attempts :
            Attempts[i] = h /\ j > i => key[Attempts[j]] # key[h]

\* The operation behind a cached result is the last one of its key.
CachedLast ==
    \A k \in DOMAIN entries : \A j \in DOMAIN Attempts :
        j > entries[k].result => key[Attempts[j]] # k

IndInv == TypeOK /\ Claims /\ Provenance /\ NotYetSent /\ LastOfItsKey /\ CachedLast

-----------------------------------------------------------------------------

\* What RequestCache::insert leaves behind has the shape of a cache again: a
\* finite map and a queue of keys.
LEMMA InsertType ==
    ASSUME TypeOK,
           NEW k \in Keys, NEW value \in [op : Ops, result : Nat],
           Insert(k, value)
    PROVE  /\ DOMAIN entries' \subseteq Keys
           /\ IsFiniteSet(DOMAIN entries')
           /\ \A x \in DOMAIN entries' : entries'[x] \in [op : Ops, result : Nat]
           /\ order' \in Seq(Keys)
<1> DEFINE queue == IF k \in DOMAIN entries THEN order ELSE Append(order, k)
           keys == DOMAIN entries \cup {k}
           surplus == IF Cardinality(keys) > CacheCapacity
                      THEN Cardinality(keys) - CacheCapacity ELSE 0
           evicted == {queue[i] : i \in 1..surplus}
<1>1. IsFiniteSet(keys) /\ Cardinality(keys) \in Nat
  BY FS_AddElement, FS_CardinalityType DEF TypeOK
<1>2. queue \in Seq(Keys) /\ surplus \in Nat
  BY <1>1, CapacityAssumption DEF TypeOK
<1>3. order' = SubSeq(queue, surplus + 1, Len(queue))
  BY DEF Insert
<1>4. entries' = [x \in keys \ evicted |-> IF x = k THEN value ELSE entries[x]]
  BY DEF Insert
<1>5. order' \in Seq(Keys)
  <2> HIDE DEF queue, surplus
  <2> QED BY <1>2, <1>3
<1>6. DOMAIN entries' = keys \ evicted
  BY <1>4
<1>7. IsFiniteSet(DOMAIN entries') /\ DOMAIN entries' \subseteq Keys
  <2> HIDE DEF evicted
  <2> QED BY <1>1, <1>6, FS_Difference, FS_Subset DEF TypeOK
<1>8. \A x \in DOMAIN entries' : entries'[x] \in [op : Ops, result : Nat]
  <2> HIDE DEF evicted
  <2> QED BY <1>4 DEF TypeOK
<1> QED BY <1>5, <1>7, <1>8

\* Every step preserves the type invariant.
LEMMA TypeStep == TypeOK /\ [Next]_vars => TypeOK'
<1> SUFFICES ASSUME TypeOK, [Next]_vars PROVE TypeOK'
  OBVIOUS
<1> USE DEF TypeOK, Dropped, None
<1>1. ASSUME NEW h \in Rpcs, Arrive(h) PROVE TypeOK'
  BY <1>1 DEF Arrive, cacheVars, driverVars
<1>2. ASSUME NEW h \in Rpcs, Lookup(h) PROVE TypeOK'
  <2>1. CASE Replay(h)
    BY <1>2, <2>1 DEF Lookup, Replay, Finish, cacheVars, driverVars
  <2>2. CASE Subscribe(h)
    BY <1>2, <2>2 DEF Lookup, Subscribe, Finish, cacheVars, driverVars
  <2>3. CASE Claim(h)
    BY <1>2, <2>3 DEF Lookup, Claim, cacheVars, driverVars
  <2> QED BY <1>2, <2>1, <2>2, <2>3 DEF Lookup
<1>3. ASSUME NEW h \in Rpcs, Wake(h) PROVE TypeOK'
  BY <1>3 DEF Wake, cacheVars, driverVars
<1>4. ASSUME NEW h \in Rpcs, Send(h) PROVE TypeOK'
  <2>1. commands' \in Seq(Rpcs)
    <3>1. commands' = Append(commands, h) \/ commands' = commands
      BY <1>4 DEF Send
    <3>2. Append(commands, h) \in Seq(Rpcs) /\ commands \in Seq(Rpcs)
      OBVIOUS
    <3> QED BY ONLY <3>1, <3>2
  <2>2. pc' \in [Rpcs -> {"idle", "lookup", "waiting", "send", "await", "store", "done"}]
    BY <1>4 DEF Send
  <2> QED BY <1>4, <2>1, <2>2 DEF Send, cacheVars
<1>5. ASSUME NEW h \in Rpcs, Receive(h) PROVE TypeOK'
  BY <1>5 DEF Receive, cacheVars, driverVars
<1>6. ASSUME NEW h \in Rpcs, TimeOut(h) PROVE TypeOK'
  BY <1>6 DEF TimeOut, cacheVars, driverVars
<1>7. ASSUME NEW h \in Rpcs, Store(h) PROVE TypeOK'
  <2>1. /\ DOMAIN entries' \subseteq Keys
        /\ IsFiniteSet(DOMAIN entries')
        /\ \A x \in DOMAIN entries' : entries'[x] \in [op : Ops, result : Nat]
        /\ order' \in Seq(Keys)
    <3>1. CASE status[h] = "ok"
      <4>1. [op |-> op[h], result |-> result[h]] \in [op : Ops, result : Nat]
        OBVIOUS
      <4>2. Insert(key[h], [op |-> op[h], result |-> result[h]]) /\ key[h] \in Keys
        BY <1>7, <3>1 DEF Store
      <4> QED BY <4>1, <4>2, InsertType
    <3>2. CASE status[h] # "ok"
      BY <1>7, <3>2 DEF Store
    <3> QED BY <3>1, <3>2
  <2> QED BY <1>7, <2>1 DEF Store, driverVars
<1>8. ASSUME NEW h \in Rpcs, Cancel(h) \/ Refuse(h) PROVE TypeOK'
  BY <1>8 DEF Cancel, Refuse, Finish, cacheVars, driverVars
<1>9. CASE HandleAuthority
  <2>1. commands' \in Seq(Rpcs) /\ log' \in Seq(Rpcs)
    BY <1>9 DEF HandleAuthority
  <2>2. Len(log) + 1 \in Nat /\ Head(commands) \in Rpcs
    BY <1>9 DEF HandleAuthority
  <2>3. reply' \in [Rpcs -> Nat \cup {Dropped}] /\ pending' \subseteq Nat
    <3>1. \/ /\ reply' = [reply EXCEPT ![Head(commands)] = Len(log) + 1]
             /\ pending' = pending
          \/ /\ pending' = pending \cup {Len(log) + 1}
             /\ reply' = reply
      BY <1>9 DEF HandleAuthority
    <3>2. reply \in [Rpcs -> Nat \cup {Dropped}] /\ pending \subseteq Nat
      OBVIOUS
    <3> HIDE DEF TypeOK
    <3> QED BY <2>2, <3>1, <3>2
  <2> QED BY <1>9, <2>1, <2>3 DEF HandleAuthority, cacheVars
<1>10. ASSUME NEW r \in Results, Respond(r) PROVE TypeOK'
  BY <1>10 DEF Respond, cacheVars, Results
<1>11. CASE StopDriver
  <2> DEFINE open == pending \cup (Len(log) + 1)..(Len(log) + Len(commands))
  <2>1. open \subseteq Nat
    <3>1. Len(log) \in Nat /\ Len(commands) \in Nat /\ pending \subseteq Nat
      OBVIOUS
    <3>2. \A m, n \in Nat : (m + 1)..(m + n) \subseteq Nat
      OBVIOUS
    <3> QED BY ONLY <3>1, <3>2
  <2>2. PICK answered \in SUBSET open :
          /\ pending' = open \ answered
          /\ reply' = [h \in Rpcs |->
                IF \E r \in answered : log'[r] = h
                THEN CHOOSE r \in answered : log'[r] = h
                ELSE reply[h]]
    BY <1>11 DEF StopDriver
  <2>3. reply' \in [Rpcs -> Nat \cup {Dropped}]
    BY <2>1, <2>2
  <2>4. pending' \subseteq Nat
    BY <2>1, <2>2
  <2>5. commands' \in Seq(Rpcs) /\ log' \in Seq(Rpcs)
    BY <1>11 DEF StopDriver
  <2> QED BY <1>11, <2>3, <2>4, <2>5 DEF StopDriver, cacheVars
<1>12. CASE DropReceiver
  BY <1>12 DEF DropReceiver, cacheVars
<1>13. CASE UNCHANGED vars
  BY <1>13 DEF vars, handlerVars, cacheVars, driverVars
<1> QED BY <1>1, <1>2, <1>3, <1>4, <1>5, <1>6, <1>7, <1>8, <1>9, <1>10, <1>11,
           <1>12, <1>13 DEF Next, HandlerStep

\* In every reachable state every variable has its type.
THEOREM TypeCorrect == Spec => []TypeOK
<1>1. Init => TypeOK
  BY FS_EmptySet DEF Init, TypeOK, None, Dropped
<1> QED BY <1>1, TypeStep, PTL DEF Spec

-----------------------------------------------------------------------------
\* RequestCache::insert adds its key with its value and changes no other
\* value it keeps.
LEMMA InsertValues ==
    ASSUME NEW k, NEW value, Insert(k, value)
    PROVE  /\ DOMAIN entries' \subseteq DOMAIN entries \cup {k}
           /\ \A x \in DOMAIN entries' :
                 entries'[x] = IF x = k THEN value ELSE entries[x]
BY DEF Insert

\* Claims is preserved: a key is claimed only when it is neither in flight nor
\* cached, and it is cached only as its own handler releases it.
LEMMA ClaimsStep == TypeOK /\ Claims /\ [Next]_vars => Claims'
<1> SUFFICES ASSUME TypeOK, Claims, [Next]_vars PROVE Claims'
  OBVIOUS
<1> USE DEF Claims, Executing
<1>1. ASSUME NEW h \in Rpcs, Arrive(h) PROVE Claims'
  BY <1>1 DEF Arrive, cacheVars, TypeOK
<1>2. ASSUME NEW h \in Rpcs, Lookup(h) PROVE Claims'
  <2>1. CASE Replay(h)
    BY <1>2, <2>1 DEF Lookup, Replay, Finish, TypeOK
  <2>2. CASE Subscribe(h)
    BY <1>2, <2>2 DEF Lookup, Subscribe, Finish, TypeOK
  <2>3. CASE Claim(h)
    BY <1>2, <2>3 DEF Lookup, Claim, TypeOK
  <2> QED BY <1>2, <2>1, <2>2, <2>3 DEF Lookup
<1>3. ASSUME NEW h \in Rpcs, Wake(h) PROVE Claims'
  BY <1>3 DEF Wake, cacheVars, TypeOK
<1>4. ASSUME NEW h \in Rpcs, Send(h) PROVE Claims'
  BY <1>4 DEF Send, cacheVars, TypeOK
<1>5. ASSUME NEW h \in Rpcs, Receive(h) PROVE Claims'
  BY <1>5 DEF Receive, cacheVars, TypeOK
<1>6. ASSUME NEW h \in Rpcs, TimeOut(h) PROVE Claims'
  BY <1>6 DEF TimeOut, cacheVars, TypeOK
<1>7. ASSUME NEW h \in Rpcs, Store(h) PROVE Claims'
  <2>1. DOMAIN entries' \subseteq DOMAIN entries \cup {key[h]}
    BY <1>7, InsertValues DEF Store
  <2>2. \A g \in Rpcs : Executing(g)' => g # h /\ Executing(g) /\ key[g] # key[h]
    BY <1>7 DEF Store, TypeOK
  <2> QED BY <1>7, <2>1, <2>2 DEF Store, TypeOK
<1>8. ASSUME NEW h \in Rpcs, Cancel(h) \/ Refuse(h) PROVE Claims'
  BY <1>8 DEF Cancel, Refuse, Finish, cacheVars, TypeOK
<1>9. CASE HandleAuthority
  BY <1>9 DEF HandleAuthority, cacheVars
<1>10. ASSUME NEW r \in Results, Respond(r) PROVE Claims'
  BY <1>10 DEF Respond, cacheVars
<1>11. CASE StopDriver
  BY <1>11 DEF StopDriver, cacheVars
<1>12. CASE DropReceiver
  BY <1>12 DEF DropReceiver, cacheVars
<1>13. CASE UNCHANGED vars
  BY <1>13 DEF vars, handlerVars, cacheVars
<1> QED BY <1>1, <1>2, <1>3, <1>4, <1>5, <1>6, <1>7, <1>8, <1>9, <1>10, <1>11,
           <1>12, <1>13 DEF Next, HandlerStep

\* At most one handler of a request key is between its claim and its release,
\* whatever times out, is cancelled or is evicted: an operation never runs
\* twice at the same time.
THEOREM SingleFlightHolds == Spec => []SingleFlight
<1>1. Init => TypeOK /\ Claims
  BY FS_EmptySet DEF Init, TypeOK, Claims, Executing, None, Dropped
<1>2. Claims => SingleFlight
  BY DEF Claims, SingleFlight
<1> QED BY <1>1, <1>2, TypeStep, ClaimsStep, PTL DEF Spec

\* A cached result never changes while it is cached, so every replay of a
\* request gives the same answer.
THEOREM CachedResultStableHolds == Spec => CachedResultStable
<1> DEFINE Stable == \A k \in DOMAIN entries \cap DOMAIN entries' : entries'[k] = entries[k]
<1>1. Init => TypeOK /\ Claims
  BY FS_EmptySet DEF Init, TypeOK, Claims, Executing, None, Dropped
<1>2. ASSUME Claims, Next PROVE Stable
  <2>1. ASSUME NEW h \in Rpcs, Store(h) PROVE Stable
    <3>1. key[h] \notin DOMAIN entries
      BY <1>2, <2>1 DEF Claims, Executing, Store
    <3>2. CASE status[h] = "ok"
      BY <2>1, <3>1, <3>2, InsertValues DEF Store
    <3>3. CASE status[h] # "ok"
      BY <2>1, <3>3 DEF Store
    <3> QED BY <3>2, <3>3
  <2>2. CASE ~\E h \in Rpcs : Store(h)
    <3>1. UNCHANGED entries
      BY <1>2, <2>2 DEF Next, HandlerStep, Arrive, Lookup, Wake, Send, Receive,
         TimeOut, Cancel, Refuse, HandleAuthority, Respond, StopDriver, DropReceiver, cacheVars
    <3> QED BY <3>1
  <2> QED BY <2>1, <2>2
<1>3. TypeOK /\ Claims /\ [Next]_vars => [Stable]_vars
  BY <1>2
<1> QED BY <1>1, <1>3, TypeStep, ClaimsStep, PTL DEF Spec, CachedResultStable

-----------------------------------------------------------------------------
\* No step changes what a handler asked for, or what the Collider has done.
LEMMA LogGrows ==
    ASSUME TypeOK, [Next]_vars
    PROVE  /\ key' = key /\ op' = op
           /\ \A r \in Results : r \in Results' /\ log'[r] = log[r]
<1>1. key' = key /\ op' = op
  BY DEF Next, HandlerStep, Arrive, Lookup, Wake, Send, Receive, TimeOut, Store,
     Cancel, Refuse, HandleAuthority, Respond, StopDriver, DropReceiver, vars, handlerVars
<1>2. log' = log \/ log' = Append(log, Head(commands)) \/ log' = log \o commands
  BY DEF Next, HandlerStep, Arrive, Lookup, Wake, Send, Receive, TimeOut, Store,
     Cancel, Refuse, HandleAuthority, Respond, StopDriver, DropReceiver, vars, driverVars
<1>3. log \in Seq(Rpcs) /\ commands \in Seq(Rpcs)
  BY DEF TypeOK
<1>4. CASE log' = log
  BY <1>1, <1>4 DEF Results
<1>5. CASE log' = Append(log, Head(commands))
  BY <1>1, <1>3, <1>5 DEF Results
<1>6. CASE log' = log \o commands
  BY <1>1, <1>3, <1>6 DEF Results
<1> QED BY <1>1, <1>2, <1>4, <1>5, <1>6

\* Provenance is preserved: a result moves from the Collider to its handler's
\* oneshot, from there to the cache, and from there to identical requests.
LEMMA ProvenanceStep == TypeOK /\ Provenance /\ [Next]_vars => Provenance'
<1> SUFFICES ASSUME TypeOK, Provenance, [Next]_vars PROVE Provenance'
  OBVIOUS
<1> DEFINE Answered(h) == reply[h] \notin {None, Dropped} =>
                             reply[h] \in Results /\ log[reply[h]] = h
           Held(h) == /\ status[h] = "ok" => result[h] \in Results /\ log[result[h]] = h
                      /\ status[h] = "replayed" =>
                            /\ result[h] \in Results
                            /\ key[log[result[h]]] = key[h]
                            /\ op[log[result[h]]] = op[h]
           Cached(k) == /\ entries[k].result \in Results
                        /\ key[log[entries[k].result]] = k
                        /\ op[log[entries[k].result]] = entries[k].op
<1>0. /\ key' = key /\ op' = op
      /\ \A r \in Results : r \in Results' /\ log'[r] = log[r]
  BY LogGrows
<1>1. \A h \in Rpcs : Answered(h) /\ Held(h)
  BY DEF Provenance
<1>2. \A k \in DOMAIN entries : Cached(k)
  BY DEF Provenance
<1>3. \A h \in Rpcs : reply'[h] = reply[h] => Answered(h)'
  BY <1>0, <1>1 DEF None, Dropped
<1>4. \A h \in Rpcs : status'[h] = status[h] /\ result'[h] = result[h] => Held(h)'
  BY <1>0, <1>1
<1>5. \A k \in DOMAIN entries' : k \in DOMAIN entries /\ entries'[k] = entries[k] => Cached(k)'
  BY <1>0, <1>2
<1>6. ASSUME \A h \in Rpcs : Answered(h)' /\ Held(h)',
             pending' \subseteq Results',
             \A k \in DOMAIN entries' : Cached(k)'
      PROVE  Provenance'
  BY <1>6 DEF Provenance
<1>7. pending \subseteq Results'
  BY <1>0 DEF Provenance
<1> HIDE DEF Answered, Held, Cached
<1>8. ASSUME UNCHANGED <<status, result, entries>>,
             \A h \in Rpcs : Answered(h)', pending' \subseteq Results'
      PROVE  Provenance'
  BY <1>4, <1>5, <1>6, <1>8
<1>9. ASSUME UNCHANGED <<reply, pending, entries>>, \A h \in Rpcs : Held(h)'
      PROVE  Provenance'
  BY <1>3, <1>5, <1>6, <1>7, <1>9
<1>10. ASSUME NEW h \in Rpcs, Arrive(h) \/ Wake(h) PROVE Provenance'
  BY <1>3, <1>7, <1>8, <1>10 DEF Arrive, Wake, cacheVars, driverVars
<1>11. ASSUME NEW h \in Rpcs, Lookup(h) PROVE Provenance'
  <2>1. UNCHANGED <<reply, pending, entries>>
    BY <1>11 DEF Lookup, driverVars
  <2>2. \A g \in Rpcs \ {h} : status'[g] = status[g] /\ result'[g] = result[g]
    BY <1>11 DEF Lookup, Replay, Subscribe, Claim, Finish, TypeOK
  <2>3. Held(h)'
    <3>1. CASE Replay(h)
      <4>1. CASE entries[key[h]].op = op[h]
        <5>1. /\ status'[h] = "replayed" /\ result'[h] = entries[key[h]].result
              /\ Cached(key[h])
          BY <3>1, <4>1, <1>2 DEF Replay, Finish, TypeOK
        <5> QED BY <1>0, <4>1, <5>1 DEF Held, Cached
      <4>2. CASE entries[key[h]].op # op[h]
        BY <3>1, <4>2 DEF Replay, Finish, Held, TypeOK
      <4> QED BY <4>1, <4>2
    <3>2. CASE Subscribe(h)
      <4>1. CASE inFlight[key[h]].op = op[h]
        BY <1>4, <3>2, <4>1 DEF Subscribe
      <4>2. CASE inFlight[key[h]].op # op[h]
        BY <3>2, <4>2 DEF Subscribe, Finish, Held, TypeOK
      <4> QED BY <4>1, <4>2
    <3>3. CASE Claim(h)
      BY <1>4, <3>3 DEF Claim
    <3> QED BY <1>11, <3>1, <3>2, <3>3 DEF Lookup
  <2> QED BY <1>4, <1>9, <2>1, <2>2, <2>3
<1>12. ASSUME NEW h \in Rpcs, Send(h) PROVE Provenance'
  <2>1. UNCHANGED <<reply, pending, entries>>
    BY <1>12 DEF Send, cacheVars
  <2>2. \A g \in Rpcs : result'[g] = result[g]
                        /\ (status'[g] = status[g] \/ status'[g] = "unavailable")
    BY <1>12 DEF Send, TypeOK
  <2>3. \A g \in Rpcs : status'[g] = "unavailable" => Held(g)'
    BY DEF Held
  <2> QED BY <1>4, <1>9, <2>1, <2>2, <2>3
<1>13. ASSUME NEW h \in Rpcs, Receive(h) PROVE Provenance'
  <2>1. UNCHANGED <<reply, pending, entries>>
    BY <1>13 DEF Receive, cacheVars, driverVars
  <2>2. \A g \in Rpcs \ {h} : status'[g] = status[g] /\ result'[g] = result[g]
    BY <1>13 DEF Receive, TypeOK
  <2>3. Held(h)'
    <3>1. CASE reply[h] = Dropped
      BY <1>13, <3>1 DEF Receive, Held, TypeOK
    <3>2. CASE reply[h] # Dropped
      <4>1. status'[h] = "ok" /\ result'[h] = reply[h] /\ reply[h] # None
        BY <1>13, <3>2 DEF Receive, TypeOK
      <4> QED BY <1>0, <1>1, <3>2, <4>1 DEF Held, Answered
    <3> QED BY <3>1, <3>2
  <2> QED BY <1>4, <1>9, <2>1, <2>2, <2>3
<1>14. ASSUME NEW h \in Rpcs, TimeOut(h) PROVE Provenance'
  <2>1. UNCHANGED <<reply, pending, entries>>
    BY <1>14 DEF TimeOut, cacheVars, driverVars
  <2>2. \A g \in Rpcs : result'[g] = result[g]
                        /\ (status'[g] = status[g] \/ status'[g] = "deadline_exceeded")
    BY <1>14 DEF TimeOut, TypeOK
  <2>3. \A g \in Rpcs : status'[g] = "deadline_exceeded" => Held(g)'
    BY DEF Held
  <2> QED BY <1>4, <1>9, <2>1, <2>2, <2>3
<1>15. ASSUME NEW h \in Rpcs, Store(h) PROVE Provenance'
  <2>1. UNCHANGED <<reply, pending, status, result>>
    BY <1>15 DEF Store, driverVars
  <2>2. ASSUME NEW k \in DOMAIN entries' PROVE Cached(k)'
    <3>1. CASE status[h] = "ok"
      <4>1. CASE k = key[h]
        <5>1. entries'[k] = [op |-> op[h], result |-> result[h]]
          BY <1>15, <3>1, <4>1, <2>2, InsertValues DEF Store
        <5>2. result[h] \in Results /\ log[result[h]] = h
          BY <1>1, <3>1 DEF Held
        <5> QED BY <1>0, <4>1, <5>1, <5>2 DEF Cached
      <4>2. CASE k # key[h]
        <5>1. k \in DOMAIN entries /\ entries'[k] = entries[k]
          BY <1>15, <3>1, <4>2, <2>2, InsertValues DEF Store
        <5> QED BY <1>5, <2>2, <5>1
      <4> QED BY <4>1, <4>2
    <3>2. CASE status[h] # "ok"
      BY <1>5, <1>15, <2>2, <3>2 DEF Store
    <3> QED BY <3>1, <3>2
  <2> QED BY <1>3, <1>4, <1>6, <1>7, <2>1, <2>2
<1>16. ASSUME NEW h \in Rpcs, Cancel(h) \/ Refuse(h) PROVE Provenance'
  <2>1. UNCHANGED <<reply, pending, entries>>
    BY <1>16 DEF Cancel, Refuse, cacheVars, driverVars
  <2>2. \A g \in Rpcs : result'[g] = result[g]
                        /\ (status'[g] = status[g] \/ status'[g] \in {"cancelled", "invalid"})
    BY <1>16 DEF Cancel, Refuse, Finish, TypeOK
  <2>3. \A g \in Rpcs : status'[g] \in {"cancelled", "invalid"} => Held(g)'
    BY DEF Held
  <2> QED BY <1>4, <1>9, <2>1, <2>2, <2>3
<1>17. CASE HandleAuthority
  <2>1. /\ log \in Seq(Rpcs) /\ commands \in Seq(Rpcs) /\ commands # <<>>
        /\ log' = Append(log, Head(commands))
        /\ UNCHANGED <<status, result, entries>>
    BY <1>17 DEF HandleAuthority, cacheVars, TypeOK
  <2>2. Len(log) + 1 \in Results' /\ log'[Len(log) + 1] = Head(commands)
    BY <2>1 DEF Results
  <2>3. CASE UNCHANGED pending
    <3>1. reply' = [reply EXCEPT ![Head(commands)] = Len(log) + 1]
          \/ reply' = reply
      BY <1>17 DEF HandleAuthority
    <3>2. \A h \in Rpcs : reply'[h] = reply[h]
                          \/ (h = Head(commands) /\ reply'[h] = Len(log) + 1)
      BY <3>1 DEF TypeOK
    <3>3. \A h \in Rpcs : Answered(h)'
      BY <1>3, <2>2, <3>2 DEF Answered
    <3> QED BY <1>7, <1>8, <2>1, <2>3, <3>3
  <2>4. CASE pending' = pending \cup {Len(log) + 1} /\ UNCHANGED reply
    BY <1>3, <1>7, <1>8, <2>1, <2>2, <2>4
  <2> QED BY <1>17, <2>3, <2>4 DEF HandleAuthority
<1>18. ASSUME NEW r \in Results, Respond(r) PROVE Provenance'
  <2>1. /\ UNCHANGED <<status, result, entries>>
        /\ pending' \subseteq pending
        /\ reply' = [reply EXCEPT ![log[r]] = r]
    BY <1>18 DEF Respond, cacheVars
  <2>2. \A h \in Rpcs : reply'[h] = reply[h] \/ (h = log[r] /\ reply'[h] = r)
    BY <2>1 DEF TypeOK
  <2>3. \A h \in Rpcs : Answered(h)'
    BY <1>0, <1>3, <2>2 DEF Answered
  <2> QED BY <1>7, <1>8, <2>1, <2>3
<1>19. CASE StopDriver
  <2> DEFINE open == pending \cup (Len(log) + 1)..(Len(log) + Len(commands))
  <2>1. /\ log \in Seq(Rpcs) /\ commands \in Seq(Rpcs) /\ log' = log \o commands
        /\ UNCHANGED <<status, result, entries>>
    BY <1>19 DEF StopDriver, cacheVars, TypeOK
  <2>2. PICK answered \in SUBSET open :
          /\ pending' = open \ answered
          /\ reply' = [h \in Rpcs |->
                IF \E r \in answered : log'[r] = h
                THEN CHOOSE r \in answered : log'[r] = h
                ELSE reply[h]]
    BY <1>19 DEF StopDriver
  <2>3. (Len(log) + 1)..(Len(log) + Len(commands)) \subseteq Results'
    BY <2>1 DEF Results
  <2>4. open \subseteq Results'
    BY <1>7, <2>3
  <2> HIDE DEF open
  <2>5. \A h \in Rpcs : reply'[h] = reply[h] \/ (reply'[h] \in Results' /\ log'[reply'[h]] = h)
    BY <2>2, <2>4
  <2>6. \A h \in Rpcs : Answered(h)'
    BY <1>3, <2>5 DEF Answered
  <2>7. pending' \subseteq Results'
    BY <2>2, <2>4
  <2> QED BY <1>8, <2>1, <2>6, <2>7
<1>20. CASE DropReceiver
  <2>1. /\ UNCHANGED <<status, result, entries>> /\ pending' = {}
        /\ \A h \in Rpcs : reply'[h] = reply[h] \/ reply'[h] = Dropped
    BY <1>20 DEF DropReceiver, cacheVars
  <2>2. \A h \in Rpcs : Answered(h)'
    BY <1>3, <2>1 DEF Answered
  <2> QED BY <1>8, <2>1, <2>2
<1>21. CASE UNCHANGED vars
  BY <1>3, <1>7, <1>8, <1>21 DEF vars, handlerVars, cacheVars, driverVars
<1> QED BY <1>10, <1>11, <1>12, <1>13, <1>14, <1>15, <1>16, <1>17, <1>18, <1>19,
           <1>20, <1>21 DEF Next, HandlerStep

\* A handler that answers with a result answers with one the Collider gave for
\* its own key and operation, whether it ran the operation or replayed it.
THEOREM ReplayFaithfulHolds == Spec => []ReplayFaithful
<1>1. Init => TypeOK /\ Provenance
  BY FS_EmptySet DEF Init, TypeOK, Provenance, Results, None, Dropped
<1>2. TypeOK /\ Provenance => ReplayFaithful
  BY DEF TypeOK, Provenance, ReplayFaithful
<1> QED BY <1>1, <1>2, TypeStep, ProvenanceStep, PTL DEF Spec

-----------------------------------------------------------------------------
\* A handler's send puts its command behind all others, or fails.
LEMMA SendStep ==
    ASSUME TypeOK, NEW h \in Rpcs, Send(h)
    PROVE  /\ UNCHANGED <<key, entries, inFlight>>
           /\ \/ Attempts' = Append(Attempts, h) /\ pc' = [pc EXCEPT ![h] = "await"]
                                                 /\ status' = status
              \/ Attempts' = Attempts /\ pc' = [pc EXCEPT ![h] = "store"]
                                      /\ status' = [status EXCEPT ![h] = "unavailable"]
<1>1. log \in Seq(Rpcs) /\ commands \in Seq(Rpcs) /\ log' = log
  BY DEF TypeOK, Send
<1>2. CASE pc' = [pc EXCEPT ![h] = "await"] /\ commands' = Append(commands, h)
                                            /\ status' = status
  <2>1. log \o Append(commands, h) = Append(log \o commands, h)
    BY <1>1
  <2> QED BY <1>1, <1>2, <2>1 DEF Send, cacheVars, Attempts
<1>3. CASE pc' = [pc EXCEPT ![h] = "store"] /\ commands' = commands
                         /\ status' = [status EXCEPT ![h] = "unavailable"]
  BY <1>1, <1>3 DEF Send, cacheVars, Attempts
<1> QED BY <1>2, <1>3 DEF Send

\* The channel is first in, first out: any other step leaves the attempts and
\* their order alone, or drops the queued ones at the end.
LEMMA AttemptsStep ==
    ASSUME TypeOK, [Next]_vars, ~\E h \in Rpcs : Send(h)
    PROVE  \A i \in DOMAIN Attempts' : i \in DOMAIN Attempts /\ Attempts'[i] = Attempts[i]
<1>0. log \in Seq(Rpcs) /\ commands \in Seq(Rpcs) /\ Attempts \in Seq(Rpcs)
  BY DEF TypeOK, Attempts
<1>1. CASE UNCHANGED <<log, commands>>
  BY <1>0, <1>1 DEF Attempts
<1>2. CASE HandleAuthority
  <2>1. commands # <<>> /\ log' = Append(log, Head(commands)) /\ commands' = Tail(commands)
    BY <1>2 DEF HandleAuthority
  <2>2. Append(log, Head(commands)) \o Tail(commands) = log \o commands
    BY <1>0, <2>1
  <2> QED BY <1>0, <2>1, <2>2 DEF Attempts
<1>3. CASE StopDriver
  <2>1. log' = log \o commands /\ commands' = <<>>
    BY <1>3 DEF StopDriver
  <2>2. (log \o commands) \o <<>> = log \o commands
    BY <1>0
  <2> QED BY <1>0, <2>1, <2>2 DEF Attempts
<1>4. CASE DropReceiver
  <2>1. log' = log /\ commands' = <<>> /\ log \o <<>> = log
    BY <1>0, <1>4 DEF DropReceiver
  <2> QED BY <1>0, <2>1 DEF Attempts
<1>5. UNCHANGED <<log, commands>> \/ HandleAuthority \/ StopDriver \/ DropReceiver
  BY DEF Next, HandlerStep, Arrive, Lookup, Wake, Receive, TimeOut, Store,
     Cancel, Refuse, Respond, vars, driverVars
<1> QED BY <1>1, <1>2, <1>3, <1>4, <1>5

\* Handlers only move forward: one that may cache a result next could do so
\* before or sends now, and none goes back to where it has not sent.
LEMMA ForwardStep ==
    ASSUME TypeOK, [Next]_vars, NEW h \in Rpcs, ~Send(h)
    PROVE  /\ MayCache(h)' => MayCache(h)
           /\ Unsent(h)' => Unsent(h)
<1> DEFINE Forward == (MayCache(h)' => MayCache(h)) /\ (Unsent(h)' => Unsent(h))
<1> USE DEF TypeOK, MayCache, Unsent
<1>1. ASSUME NEW g \in Rpcs, Arrive(g) PROVE Forward
  BY <1>1 DEF Arrive
<1>2. ASSUME NEW g \in Rpcs, Lookup(g) PROVE Forward
  BY <1>2 DEF Lookup, Replay, Subscribe, Claim, Finish
<1>3. ASSUME NEW g \in Rpcs, Wake(g) PROVE Forward
  BY <1>3 DEF Wake
<1>4. ASSUME NEW g \in Rpcs, Send(g) PROVE Forward
  BY <1>4 DEF Send
<1>5. ASSUME NEW g \in Rpcs, Receive(g) \/ TimeOut(g) PROVE Forward
  BY <1>5 DEF Receive, TimeOut
<1>6. ASSUME NEW g \in Rpcs, Store(g) PROVE Forward
  BY <1>6 DEF Store
<1>7. ASSUME NEW g \in Rpcs, Cancel(g) \/ Refuse(g) PROVE Forward
  BY <1>7 DEF Cancel, Refuse, Finish
<1>8. CASE UNCHANGED <<pc, status>>
  BY <1>8
<1> QED BY <1>1, <1>2, <1>3, <1>4, <1>5, <1>6, <1>7, <1>8 DEF Next, HandlerStep,
           HandleAuthority, Respond, StopDriver, DropReceiver, vars, handlerVars

\* The order of the attempts is preserved as the cache needs it.
LEMMA OrderStep == IndInv /\ [Next]_vars => (NotYetSent /\ LastOfItsKey /\ CachedLast)'
<1> SUFFICES ASSUME IndInv, [Next]_vars PROVE (NotYetSent /\ LastOfItsKey /\ CachedLast)'
  OBVIOUS
<1> USE DEF IndInv
<1>0. key' = key /\ key \in [Rpcs -> Keys] /\ Attempts \in Seq(Rpcs)
  BY LogGrows DEF TypeOK, Attempts
<1>1. CASE \E h \in Rpcs : Send(h)
  <2>1. PICK h \in Rpcs : Send(h)
    BY <1>1
  <2>2. /\ pc[h] = "send" /\ UNCHANGED <<key, entries, inFlight>>
        /\ pc' = [pc EXCEPT ![h] = "await"] \/ pc' = [pc EXCEPT ![h] = "store"]
        /\ \A g \in Rpcs \ {h} : status'[g] = status[g]
        /\ status'[h] = "ok" => status[h] = "ok"
    BY <2>1, SendStep DEF Send, TypeOK
  <2>3. \A i \in DOMAIN Attempts : Attempts[i] # h
    BY <2>2 DEF NotYetSent, Unsent
  <2>4. CASE Attempts' = Append(Attempts, h) /\ pc' = [pc EXCEPT ![h] = "await"] /\ status' = status
    <3>1. \A i \in DOMAIN Attempts' : \/ i \in DOMAIN Attempts /\ Attempts'[i] = Attempts[i]
                                      \/ i = Len(Attempts) + 1 /\ Attempts'[i] = h
      BY <1>0, <2>4
    <3>2. \A i \in DOMAIN Attempts : i < Len(Attempts) + 1 /\ i \in Nat /\ Len(Attempts) \in Nat
      BY <1>0
    <3>3. NotYetSent'
      BY <1>0, <2>2, <2>4, <3>1 DEF NotYetSent, Unsent, TypeOK
    <3>4. \A g \in Rpcs : MayCache(g) => key[g] # key[h]
      BY <2>2 DEF MayCache, Claims, Executing
    <3>5. \A g \in Rpcs \ {h} : MayCache(g)' => MayCache(g)
      BY <2>2, <2>4 DEF MayCache, TypeOK
    <3>6. LastOfItsKey'
      <4> SUFFICES ASSUME NEW g \in Rpcs, MayCache(g)',
                          NEW i \in DOMAIN Attempts', NEW j \in DOMAIN Attempts',
                          Attempts'[i] = g, j > i
                   PROVE  key[Attempts'[j]] # key[g]
        BY <1>0 DEF LastOfItsKey
      <4>1. CASE g = h
        BY <2>3, <3>1, <3>2, <4>1
      <4>2. CASE g # h
        <5>1. i \in DOMAIN Attempts /\ Attempts[i] = g
          BY <3>1, <4>2
        <5>2. CASE j \in DOMAIN Attempts /\ Attempts'[j] = Attempts[j]
          BY <3>5, <4>2, <5>1, <5>2 DEF LastOfItsKey
        <5>3. CASE Attempts'[j] = h
          BY <3>4, <3>5, <4>2, <5>3
        <5> QED BY <3>1, <5>2, <5>3
      <4> QED BY <4>1, <4>2
    <3>7. CachedLast'
      <4>1. key[h] \notin DOMAIN entries
        BY <2>2 DEF Claims, Executing
      <4> QED BY <1>0, <2>2, <3>1, <4>1 DEF CachedLast
    <3> QED BY <3>3, <3>6, <3>7
  <2>5. CASE Attempts' = Attempts /\ pc' = [pc EXCEPT ![h] = "store"]
                                  /\ status' = [status EXCEPT ![h] = "unavailable"]
    <3>1. \A g \in Rpcs : (MayCache(g)' => MayCache(g)) /\ (Unsent(g)' => Unsent(g))
      BY <2>2, <2>5 DEF MayCache, Unsent, TypeOK
    <3> QED BY <1>0, <2>2, <2>5, <3>1 DEF NotYetSent, LastOfItsKey, CachedLast
  <2> QED BY <2>1, <2>4, <2>5, SendStep
<1>2. CASE ~\E h \in Rpcs : Send(h)
  <2>1. \A i \in DOMAIN Attempts' : i \in DOMAIN Attempts /\ Attempts'[i] = Attempts[i]
    BY <1>2, AttemptsStep
  <2>2. \A g \in Rpcs : (MayCache(g)' => MayCache(g)) /\ (Unsent(g)' => Unsent(g))
    BY <1>2, ForwardStep
  <2>3. NotYetSent'
    BY <2>1, <2>2 DEF NotYetSent
  <2>4. LastOfItsKey'
    BY <1>0, <2>1, <2>2 DEF LastOfItsKey
  <2>5. CachedLast'
    <3>1. CASE \E h \in Rpcs : Store(h)
      <4>1. PICK h \in Rpcs : Store(h)
        BY <3>1
      <4> SUFFICES ASSUME NEW k \in DOMAIN entries', NEW j \in DOMAIN Attempts',
                          j > entries'[k].result
                   PROVE  key[Attempts'[j]] # k
        BY <1>0 DEF CachedLast
      <4>2. CASE status[h] = "ok" /\ k = key[h]
        <5>1. entries'[k] = [op |-> op[h], result |-> result[h]]
          BY <4>1, <4>2, InsertValues DEF Store
        <5>2. result[h] \in DOMAIN log /\ log[result[h]] = h
          BY <4>2 DEF Provenance, Results
        <5>3. log \in Seq(Rpcs) /\ commands \in Seq(Rpcs)
          BY DEF TypeOK
        <5>4. result[h] \in DOMAIN Attempts /\ Attempts[result[h]] = h
          BY <5>2, <5>3 DEF Attempts
        <5>5. MayCache(h)
          BY <4>1, <4>2 DEF MayCache, Store
        <5> QED BY <2>1, <4>2, <5>1, <5>4, <5>5 DEF LastOfItsKey
      <4>3. CASE ~(status[h] = "ok" /\ k = key[h])
        <5>1. k \in DOMAIN entries /\ entries'[k] = entries[k]
          BY <4>1, <4>3, InsertValues DEF Store
        <5> QED BY <2>1, <5>1 DEF CachedLast
      <4> QED BY <4>2, <4>3
    <3>2. CASE ~\E h \in Rpcs : Store(h)
      <4>1. UNCHANGED entries
        BY <1>2, <3>2 DEF Next, HandlerStep, Arrive, Lookup, Wake, Receive, TimeOut,
           Cancel, Refuse, HandleAuthority, Respond, StopDriver, DropReceiver, cacheVars, vars
      <4> QED BY <1>0, <2>1, <4>1 DEF CachedLast
    <3> QED BY <3>1, <3>2
  <2> QED BY <2>3, <2>4, <2>5
<1> QED BY <1>1, <1>2

\* The inductive invariant holds initially and no step leaves it.
LEMMA IndInvHolds == Spec => []IndInv
<1>1. Init => IndInv
  <2>1. Init => TypeOK
    BY FS_EmptySet DEF Init, TypeOK, None, Dropped
  <2>2. Init => Claims /\ Provenance
    BY DEF Init, Claims, Executing, Provenance, Results, None, Dropped
  <2>3. Init => NotYetSent /\ LastOfItsKey /\ CachedLast
    BY DEF Init, NotYetSent, LastOfItsKey, CachedLast, Attempts, MayCache
  <2> QED BY <2>1, <2>2, <2>3 DEF IndInv
<1>2. IndInv /\ [Next]_vars => IndInv'
  BY TypeStep, ClaimsStep, ProvenanceStep, OrderStep DEF IndInv
<1> QED BY <1>1, <1>2, PTL DEF Spec

\* While a result is cached its operation is not applied again: retries after
\* an authority timeout can leave older commands of the key behind, but the
\* channel's order puts all of them before the one whose result is cached.
THEOREM NoMutationPastCacheHolds == Spec => []NoMutationPastCache
<1>1. IndInv => NoMutationPastCache
  <2> SUFFICES ASSUME IndInv, NEW k \in DOMAIN entries
               PROVE  /\ \A r \in Results : key[log[r]] = k => r <= entries[k].result
                      /\ \A i \in DOMAIN commands : key[commands[i]] # k
    BY DEF NoMutationPastCache
  <2>1. /\ log \in Seq(Rpcs) /\ commands \in Seq(Rpcs)
        /\ entries[k].result \in DOMAIN log
    BY DEF IndInv, TypeOK, Provenance, Results
  <2>2. \A r \in DOMAIN log : r \in DOMAIN Attempts /\ Attempts[r] = log[r]
    BY <2>1 DEF Attempts
  <2>3. \A i \in DOMAIN commands : /\ Len(log) + i \in DOMAIN Attempts
                                   /\ Attempts[Len(log) + i] = commands[i]
                                   /\ Len(log) + i > entries[k].result
    BY <2>1 DEF Attempts
  <2>4. \A j \in DOMAIN Attempts : j > entries[k].result => key[Attempts[j]] # k
    BY DEF IndInv, CachedLast
  <2>5. \A r \in Results : key[log[r]] = k => r <= entries[k].result
    BY <2>1, <2>2, <2>4 DEF Results
  <2> QED BY <2>3, <2>4, <2>5
<1> QED BY <1>1, IndInvHolds, PTL

-----------------------------------------------------------------------------
\* insert() keeps the map and its eviction queue in step, at the capacity too.
LEMMA InsertCoherent ==
    ASSUME TypeOK, CacheCoherent, NEW k \in Keys, k \notin DOMAIN entries,
           NEW value \in [op : Ops, result : Nat], Insert(k, value)
    PROVE  CacheCoherent'
<1> DEFINE queue == IF k \in DOMAIN entries THEN order ELSE Append(order, k)
           keys == DOMAIN entries \cup {k}
           surplus == IF Cardinality(keys) > CacheCapacity
                      THEN Cardinality(keys) - CacheCapacity ELSE 0
<1>a. queue = Append(order, k)
  OBVIOUS
<1>b. order' = SubSeq(queue, surplus + 1, Len(queue))
  BY DEF Insert
<1>c. DOMAIN entries' = keys \ {queue[i] : i \in 1..surplus}
  BY DEF Insert
<1> HIDE DEF queue, surplus
<1>0. /\ CacheCapacity \in Nat \ {0} /\ order \in Seq(Keys) /\ queue \in Seq(Keys)
      /\ IsFiniteSet(DOMAIN entries) /\ Cardinality(DOMAIN entries) \in Nat
      /\ Cardinality(DOMAIN entries) <= CacheCapacity
  BY <1>a, CapacityAssumption, FS_CardinalityType DEF TypeOK, CacheCoherent
<1>1. IsFiniteSet(keys) /\ Cardinality(keys) = Cardinality(DOMAIN entries) + 1
  BY <1>0, FS_AddElement
<1>2. keys = ToSet(queue) /\ IsInjective(queue) /\ Len(queue) >= 1
  <2>1. DOMAIN entries = ToSet(order) /\ IsInjective(order)
    BY DEF CacheCoherent
  <2>2. DOMAIN queue = 1..(Len(order) + 1) /\ queue[Len(order) + 1] = k
    BY <1>0, <1>a
  <2>3. \A i \in DOMAIN order : i \in DOMAIN queue /\ queue[i] = order[i] /\ order[i] # k
    BY <1>0, <1>a, <2>1 DEF ToSet
  <2>4. DOMAIN queue = DOMAIN order \cup {Len(order) + 1}
    BY <1>0, <2>2
  <2> HIDE DEF queue
  <2>5. keys = ToSet(queue)
    BY <2>1, <2>2, <2>3, <2>4 DEF ToSet
  <2>6. IsInjective(queue)
    BY <2>1, <2>2, <2>3, <2>4 DEF IsInjective
  <2> QED BY <1>0, <2>2, <2>5, <2>6
<1>3. CASE Cardinality(keys) <= CacheCapacity
  <2>1. surplus = 0
    BY <1>0, <1>1, <1>3 DEF surplus
  <2>2. order' = queue
    BY <1>0, <1>b, <2>1
  <2>3. DOMAIN entries' = keys
    BY <1>c, <2>1
  <2> QED BY <1>2, <1>3, <2>2, <2>3 DEF CacheCoherent
<1>4. CASE Cardinality(keys) > CacheCapacity
  <2>1. surplus = 1
    BY <1>0, <1>1, <1>4 DEF surplus
  <2>2. order' = SubSeq(queue, 2, Len(queue))
    BY <1>b, <2>1
  <2>3. 1..surplus = {1}
    BY <2>1
  <2>4. DOMAIN entries' = keys \ {queue[1]}
    BY <1>c, <2>3
  <2> HIDE DEF keys
  <2>5. /\ DOMAIN order' = 1..(Len(queue) - 1)
        /\ \A i \in 1..(Len(queue) - 1) : order'[i] = queue[i + 1]
        /\ DOMAIN queue = 1..Len(queue) /\ Len(queue) \in Nat
    BY <1>0, <1>2, <2>2
  <2>6. IsInjective(order)'
    BY <1>2, <2>5 DEF IsInjective
  <2>7. queue[1] \in keys
    BY <1>2, <2>5 DEF ToSet
  <2>8. \A i \in DOMAIN queue : i # 1 => i - 1 \in 1..(Len(queue) - 1) /\ queue[i] = order'[i - 1]
    BY <2>5
  <2>9. \A i \in 1..(Len(queue) - 1) : i + 1 \in DOMAIN queue /\ queue[i + 1] # queue[1]
    BY <1>2, <2>5 DEF IsInjective
  <2>10. DOMAIN entries' = ToSet(order)'
    <3>1. ASSUME NEW x \in DOMAIN entries' PROVE x \in ToSet(order')
      <4>1. PICK i \in DOMAIN queue : queue[i] = x
        BY <1>2, <2>4 DEF ToSet
      <4>2. i # 1
        BY <2>4, <4>1
      <4> QED BY <2>5, <2>8, <4>1, <4>2 DEF ToSet
    <3>2. ASSUME NEW x \in ToSet(order') PROVE x \in DOMAIN entries'
      <4>1. PICK i \in 1..(Len(queue) - 1) : order'[i] = x
        BY <2>5 DEF ToSet
      <4>2. x = queue[i + 1] /\ i + 1 \in DOMAIN queue /\ x # queue[1]
        BY <2>5, <2>9, <4>1
      <4> QED BY <1>2, <2>4, <4>2 DEF ToSet
    <3> QED BY <3>1, <3>2
  <2>11. Cardinality(DOMAIN entries') = Cardinality(keys) - 1
    BY <1>1, <2>4, <2>7, FS_RemoveElement
  <2> QED BY <1>0, <1>1, <2>6, <2>10, <2>11 DEF CacheCoherent
<1> QED BY <1>0, <1>1, <1>3, <1>4

\* The replay cache never exceeds its capacity, and every cached key is in the
\* eviction queue exactly once: nothing is leaked and nothing evicted twice.
THEOREM CacheCoherentHolds == Spec => []CacheCoherent
<1>1. Init => TypeOK /\ Claims /\ CacheCoherent
  <2>1. Init => TypeOK /\ Claims
    BY FS_EmptySet DEF Init, TypeOK, Claims, Executing, None, Dropped
  <2>2. Init => CacheCoherent
    <3> SUFFICES ASSUME Init PROVE CacheCoherent
      OBVIOUS
    <3>1. DOMAIN entries = {} /\ DOMAIN order = {}
      BY DEF Init
    <3>2. Cardinality(DOMAIN entries) <= CacheCapacity
      BY <3>1, FS_EmptySet, CapacityAssumption
    <3> QED BY <3>1, <3>2 DEF CacheCoherent, ToSet, IsInjective
  <2> QED BY <2>1, <2>2
<1>2. TypeOK /\ Claims /\ CacheCoherent /\ [Next]_vars => CacheCoherent'
  <2> SUFFICES ASSUME TypeOK, Claims, CacheCoherent, [Next]_vars PROVE CacheCoherent'
    OBVIOUS
  <2>1. ASSUME NEW h \in Rpcs, Store(h), status[h] = "ok" PROVE CacheCoherent'
    <3>1. key[h] \in Keys /\ [op |-> op[h], result |-> result[h]] \in [op : Ops, result : Nat]
      BY DEF TypeOK
    <3>2. key[h] \notin DOMAIN entries
      BY <2>1 DEF Claims, Executing, Store
    <3>3. Insert(key[h], [op |-> op[h], result |-> result[h]])
      BY <2>1 DEF Store
    <3> QED BY <3>1, <3>2, <3>3, InsertCoherent
  <2>2. CASE UNCHANGED <<entries, order>>
    BY <2>2 DEF CacheCoherent
  <2>3. (\E h \in Rpcs : Store(h) /\ status[h] = "ok") \/ UNCHANGED <<entries, order>>
    BY DEF Next, HandlerStep, Arrive, Lookup, Wake, Send, Receive, TimeOut, Store,
       Cancel, Refuse, HandleAuthority, Respond, StopDriver, DropReceiver, cacheVars, vars
  <2> QED BY <2>1, <2>2, <2>3
<1> QED BY <1>1, <1>2, TypeStep, ClaimsStep, PTL DEF Spec

-----------------------------------------------------------------------------
\* A handler sends at most once, so no command is twice in the system.
SentOnce == \A i, j \in DOMAIN Attempts : Attempts[i] = Attempts[j] => i = j

\* Only a send adds a command, and its handler had none before.
LEMMA SentOnceStep == IndInv /\ SentOnce /\ [Next]_vars => SentOnce'
<1> SUFFICES ASSUME IndInv, SentOnce, [Next]_vars PROVE SentOnce'
  OBVIOUS
<1>1. Attempts \in Seq(Rpcs)
  BY DEF IndInv, TypeOK, Attempts
<1>2. CASE ~\E h \in Rpcs : Send(h)
  BY <1>2, AttemptsStep DEF IndInv, SentOnce
<1>3. ASSUME NEW h \in Rpcs, Send(h) PROVE SentOnce'
  <2>1. \A i \in DOMAIN Attempts : Attempts[i] # h
    BY <1>3 DEF IndInv, NotYetSent, Unsent, Send
  <2>2. Attempts' = Append(Attempts, h) \/ Attempts' = Attempts
    BY <1>3, SendStep DEF IndInv
  <2> QED BY <1>1, <2>1, <2>2 DEF SentOnce
<1> QED BY <1>2, <1>3

\* A handler that replays a result is done with it.
ReplayEnds == \A h \in Rpcs : status[h] = "replayed" => pc[h] = "done"

\* No handler leaves "done", and only the replay of a result reports one.
LEMMA ReplayEndsStep == TypeOK /\ ReplayEnds /\ [Next]_vars => ReplayEnds'
<1> SUFFICES ASSUME TypeOK, ReplayEnds, [Next]_vars PROVE ReplayEnds'
  OBVIOUS
<1> USE DEF TypeOK, ReplayEnds
<1>1. ASSUME NEW h \in Rpcs, Arrive(h) \/ Refuse(h) \/ Cancel(h) PROVE ReplayEnds'
  BY <1>1 DEF Arrive, Refuse, Cancel, Finish
<1>2. ASSUME NEW h \in Rpcs, Lookup(h) PROVE ReplayEnds'
  BY <1>2 DEF Lookup, Replay, Subscribe, Claim, Finish
<1>3. ASSUME NEW h \in Rpcs, Wake(h) \/ Send(h) \/ Receive(h) \/ TimeOut(h) \/ Store(h)
      PROVE  ReplayEnds'
  BY <1>3 DEF Wake, Send, Receive, TimeOut, Store
<1>4. CASE UNCHANGED <<pc, status>>
  BY <1>4
<1> QED BY <1>1, <1>2, <1>3, <1>4 DEF Next, HandlerStep, HandleAuthority, Respond, StopDriver,
           DropReceiver, vars, handlerVars

\* What each caller has been told, as the abstract service sees it.
Told(h) == IF pc[h] # "done" THEN 0
           ELSE IF status[h] \in {"ok", "replayed"} THEN result[h] ELSE -1

\* A step that ends no call and applies none is a stutter of the service.
LEMMA QuietStep ==
    ASSUME TypeOK, UNCHANGED <<key, op, log>>, \A h \in Rpcs : Told(h)' = Told(h)
    PROVE  UNCHANGED Service!vars
BY DEF Service!vars, Told

\* A step that applies calls behind those applied so far is an Apply.
LEMMA ApplyStep ==
    ASSUME TypeOK, TypeOK', SentOnce', UNCHANGED <<key, op>>,
           \A h \in Rpcs : Told(h)' = Told(h),
           Len(log') > Len(log), \A r \in Results : log'[r] = log[r]
    PROVE  Service!Apply
<1>1. log \in Seq(Rpcs) /\ log' \in Seq(Rpcs) /\ commands' \in Seq(Rpcs)
  BY DEF TypeOK
<1>2. \A i, j \in DOMAIN log' : log'[i] = log'[j] => i = j
  <2>1. \A i \in DOMAIN log' : i \in DOMAIN Attempts' /\ Attempts'[i] = log'[i]
    BY <1>1 DEF Attempts
  <2> QED BY <2>1 DEF SentOnce
<1>3. Service!IsInjective(log')
  BY <1>2 DEF Service!IsInjective
<1>4. Service!IsStrictPrefix(log, log')
  <2>1. SubSeq(log, 1, Len(log)) = SubSeq(log', 1, Len(log))
    BY <1>1 DEF Results
  <2> QED BY <1>1, <2>1 DEF Service!IsStrictPrefix, Service!IsPrefix
<1> QED BY <1>1, <1>3, <1>4 DEF Service!Apply, Told

\* A step that ends one call, with an error or with what the latest application
\* under its key gave, is an Answer.
LEMMA AnswerStep ==
    ASSUME TypeOK, UNCHANGED <<key, op, log>>, NEW h \in Rpcs, Told(h) = 0,
           \A g \in Rpcs \ {h} : Told(g)' = Told(g),
           Told(h)' = -1 \/ (Told(h)' \in Results /\ Service!Current(h, Told(h)'))
    PROVE  Service!Answer(h)
BY DEF Service!Answer, Service!Waiting, Service!Failed, Told, Results

\* Every step of execute(), of the event loop and of a caller that goes away is
\* a step of the abstract service, or one it does not see.
LEMMA ServiceStep ==
    ASSUME IndInv, ReplayEnds, TypeOK', SentOnce', [Next]_vars
    PROVE  [Service!Next]_(Service!vars)
<1>0. TypeOK /\ UNCHANGED <<key, op>>
  BY LogGrows DEF IndInv
<1> DEFINE Quiet == \A h \in Rpcs : Told(h)' = Told(h)
           QuietBut(h) == \A g \in Rpcs \ {h} : Told(g)' = Told(g)
<1>1. CASE Quiet /\ UNCHANGED log
  BY <1>0, <1>1, QuietStep
<1>2. ASSUME Quiet, Len(log') > Len(log), \A r \in Results : log'[r] = log[r]
      PROVE  Service!Next
  BY <1>0, <1>2, ApplyStep DEF Service!Next
<1>3. ASSUME NEW h \in Rpcs, QuietBut(h), Told(h) = 0, UNCHANGED log,
             Told(h)' = -1 \/ (Told(h)' \in Results /\ Service!Current(h, Told(h)'))
      PROVE  Service!Next
  BY <1>0, <1>3, AnswerStep DEF Service!Next
<1>4. ASSUME NEW h \in Rpcs, Arrive(h) \/ Wake(h) \/ Send(h) \/ Receive(h) \/ TimeOut(h)
      PROVE  Quiet /\ UNCHANGED log
  BY <1>0, <1>4 DEF Arrive, Wake, Send, Receive, TimeOut, Told, TypeOK, driverVars
<1>5. ASSUME NEW h \in Rpcs, Cancel(h) \/ Refuse(h) PROVE Service!Next
  <2>1. QuietBut(h) /\ Told(h) = 0 /\ Told(h)' = -1 /\ UNCHANGED log
    BY <1>0, <1>5 DEF Cancel, Refuse, Finish, Told, TypeOK, driverVars
  <2> QED BY <1>3, <2>1
<1>6. ASSUME NEW h \in Rpcs, Lookup(h) PROVE [Service!Next]_(Service!vars)
  <2>1. UNCHANGED log /\ pc[h] = "lookup" /\ Told(h) = 0 /\ QuietBut(h)
    BY <1>0, <1>6 DEF Lookup, Replay, Subscribe, Claim, Finish, Told, TypeOK, driverVars
  <2>2. CASE key[h] \in DOMAIN entries /\ entries[key[h]].op = op[h]
    <3>1. Told(h)' = entries[key[h]].result
      BY <1>0, <1>6, <2>2 DEF Lookup, Replay, Subscribe, Claim, Finish, Told, TypeOK
    <3>2. /\ entries[key[h]].result \in Results
          /\ key[log[entries[key[h]].result]] = key[h]
          /\ op[log[entries[key[h]].result]] = op[h]
      BY <2>2 DEF IndInv, Provenance
    <3>3. \A r \in Results : r \in Nat /\ r \in DOMAIN Attempts /\ Attempts[r] = log[r]
      BY <1>0 DEF TypeOK, Attempts, Results
    <3>4. \A q \in Results : key[log[q]] = key[h] => q <= entries[key[h]].result
      BY <2>2, <3>2, <3>3 DEF IndInv, CachedLast
    <3>5. Service!Current(h, entries[key[h]].result)
      BY <3>2, <3>4 DEF Service!Current, Results
    <3> QED BY <1>3, <2>1, <3>1, <3>2, <3>5
  <2>3. CASE key[h] \in DOMAIN entries /\ entries[key[h]].op # op[h]
    <3>1. Told(h)' = -1
      BY <1>0, <1>6, <2>3 DEF Lookup, Replay, Subscribe, Claim, Finish, Told, TypeOK
    <3> QED BY <1>3, <2>1, <3>1
  <2>4. CASE key[h] \notin DOMAIN entries
    <3>1. Told(h)' = -1 \/ Told(h)' = 0
      BY <1>0, <1>6, <2>4 DEF Lookup, Replay, Subscribe, Claim, Finish, Told, TypeOK
    <3>2. CASE Told(h)' = 0
      BY <1>1, <2>1, <3>2
    <3> QED BY <1>3, <2>1, <3>1, <3>2
  <2> QED BY <2>2, <2>3, <2>4
<1>7. ASSUME NEW h \in Rpcs, Store(h) PROVE Service!Next
  <2>1. UNCHANGED log /\ pc[h] = "store" /\ Told(h) = 0 /\ QuietBut(h)
    BY <1>0, <1>7 DEF Store, Told, TypeOK, driverVars
  <2>2. CASE status[h] = "ok"
    <3>1. Told(h)' = result[h]
      BY <1>0, <1>7, <2>2 DEF Store, Told, TypeOK
    <3>2. result[h] \in Results /\ log[result[h]] = h
      BY <2>2 DEF IndInv, Provenance
    <3>3. \A r \in Results : r \in Nat /\ r \in DOMAIN Attempts /\ Attempts[r] = log[r]
      BY <1>0 DEF TypeOK, Attempts, Results
    <3>4. \A q \in Results : key[log[q]] = key[h] => q <= result[h]
      BY <2>1, <2>2, <3>2, <3>3 DEF IndInv, LastOfItsKey, MayCache
    <3>5. Service!Current(h, result[h])
      BY <3>2, <3>4 DEF Service!Current, Results
    <3> QED BY <1>3, <2>1, <3>1, <3>2, <3>5
  <2>3. CASE status[h] # "ok"
    <3>1. Told(h)' = -1
      BY <1>0, <1>7, <2>1, <2>3 DEF Store, Told, TypeOK, ReplayEnds
    <3> QED BY <1>3, <2>1, <3>1
  <2> QED BY <2>2, <2>3
<1>8. CASE HandleAuthority \/ StopDriver
  <2>1. Quiet
    BY <1>8 DEF HandleAuthority, StopDriver, Told
  <2>2. log \in Seq(Rpcs) /\ commands \in Seq(Rpcs)
    BY <1>0 DEF TypeOK
  <2>3. \/ log' = Append(log, Head(commands)) /\ commands # <<>>
        \/ log' = log \o commands
    BY <1>8 DEF HandleAuthority, StopDriver
  <2>4. log' = log \/ Len(log') > Len(log)
    BY <2>2, <2>3
  <2>5. \A r \in Results : log'[r] = log[r]
    BY <1>0, LogGrows
  <2> QED BY <1>1, <1>2, <2>1, <2>4, <2>5
<1>9. ASSUME NEW r \in Results, Respond(r) PROVE Quiet /\ UNCHANGED log
  BY <1>9 DEF Respond, Told
<1>10. CASE DropReceiver
  BY <1>1, <1>10 DEF DropReceiver, Told
<1>11. CASE UNCHANGED vars
  BY <1>1, <1>11 DEF vars, handlerVars, driverVars, Told
<1> QED BY <1>1, <1>4, <1>5, <1>6, <1>7, <1>8, <1>9, <1>10, <1>11 DEF Next, HandlerStep

\* execute() with its cache, claims, channel and time-outs implements the
\* idempotent service: a call is applied at most once, and what a caller is
\* told is what the latest application under its key gave.
THEOREM ImplementsServiceHolds == Spec => ImplementsService
<1>1. Init => SentOnce /\ ReplayEnds
  BY DEF Init, SentOnce, Attempts, ReplayEnds
<1>2. Init => Service!Init
  BY DEF Init, Service!Init, Service!Waiting
<1>3. IndInv => TypeOK
  BY DEF IndInv
<1> QED BY <1>1, <1>2, <1>3, IndInvHolds, SentOnceStep, ReplayEndsStep, ServiceStep, PTL
        DEF Spec, ImplementsService, Service!Spec
=============================================================================
