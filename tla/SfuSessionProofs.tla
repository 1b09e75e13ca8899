-------------------------- MODULE SfuSessionProofs --------------------------
(***************************************************************************)
(* Proofs about SfuSession for any number of shards, any commands and any  *)
(* capacities and bounds.                                                  *)
(***************************************************************************)
EXTENDS SfuSession, FiniteSetTheorems, SequenceTheorems, TLAPS

UpMessages ==
    {Register} \cup {Event(id) : id \in EventIds} \cup {Result(c) : c \in Commands}

DownMessages ==
    {Registered, Rejected} \cup {Ack(id) : id \in EventIds} \cup {Command(c) : c \in Commands}

\* What travels on the stream, and what the session task holds where it sends or
\* dispatches it.
Shape ==
    /\ upstream \in Seq(UpMessages)
    /\ downstream \in Seq(DownMessages)
    /\ session = "sending" => inHand \in UpMessages
    /\ session \in {"dispatching", "awaiting"} => inHand \in Commands

\* Shards live from the start of the service, event_rx from there to its end,
\* and only a draining shard has events of its engine left.
Stages ==
    /\ receiver <=> session \notin {"starting", "failed", "closing", "done"}
    /\ session \in {"starting", "failed"} => \A s \in Shards : shard[s] = "unborn"
    /\ \A s \in Shards : shard[s] # "drain" => outbox[s] = 0
    /\ \A s \in Shards : held[s] # None => outbox[s] > 0

\* Every emitted event will get a number under the bound.
WithinBudget == IsFiniteSet(Unnumbered) /\ Budget >= 0

TypeInv == TypeOK /\ Shape /\ Stages /\ WithinBudget

\* Signaling acknowledges only what it has accepted.
AckedReceived ==
    \A i \in DOMAIN downstream :
        downstream[i].kind = "ack" => downstream[i].id \in ToSet(received)

-----------------------------------------------------------------------------
\* A batch of n events of one shard.
Batch(s, n) == {<<s, i>> : i \in 1..n}

\* It has no more than n of them.
LEMMA BatchSize ==
    ASSUME NEW s, NEW n \in Nat
    PROVE  /\ IsFiniteSet(Batch(s, n))
           /\ Cardinality(Batch(s, n)) \in Nat /\ Cardinality(Batch(s, n)) <= n
<1> DEFINE f == [i \in 1..n |-> <<s, i>>]
<1>1. f \in Surjection(1..n, Batch(s, n))
  BY DEF Surjection, Batch
<1>2. IsFiniteSet(1..n) /\ Cardinality(1..n) = n
  BY FS_Interval
<1>3. IsFiniteSet(Batch(s, n)) /\ Cardinality(Batch(s, n)) <= n
  <2> HIDE DEF f
  <2> QED BY <1>1, <1>2, FS_Surjection
<1> QED BY <1>3, FS_CardinalityType

\* No step promises more numbers than the bound leaves: a shard emits within the
\* budget, a number given takes the place of an event without one.
LEMMA BudgetStep == TypeOK /\ Stages /\ WithinBudget /\ [Next]_vars => WithinBudget'
<1> SUFFICES ASSUME TypeOK, Stages, WithinBudget, [Next]_vars PROVE WithinBudget'
  OBVIOUS
<1>0. /\ Cardinality(Unnumbered) \in Nat /\ Len(source) \in Nat
      /\ MaxEvents \in Nat /\ MaxBatch \in Nat
      /\ source \in Seq(Shards \cup {Health})
  BY FS_CardinalityType, SessionAssumption DEF WithinBudget, TypeOK
<1>1. CASE UNCHANGED <<source, held, outbox>>
  BY <1>1 DEF WithinBudget, Budget, Unnumbered
<1>2. CASE QueueHealth
  <2>1. Unnumbered' = Unnumbered
    BY <1>2 DEF QueueHealth, shardVars, Unnumbered
  <2>2. CASE Budget > 0
    <3>1. Len(source') = Len(source) + 1
      BY <1>0, <1>2, <2>2 DEF QueueHealth
    <3> QED BY <1>0, <2>1, <2>2, <3>1 DEF WithinBudget, Budget
  <2>3. CASE ~(Budget > 0)
    BY <1>2, <2>1, <2>3 DEF QueueHealth, WithinBudget, Budget
  <2> QED BY <2>2, <2>3
<1>3. ASSUME NEW s \in Shards, ShardCommand(s) \/ ShardMedia(s) PROVE WithinBudget'
  <2>1. PICK n \in 0..MaxBatch : n <= Budget /\ outbox' = [outbox EXCEPT ![s] = n]
    BY <1>0, <1>3 DEF ShardCommand, ShardMedia, Emit
  <2>2. UNCHANGED <<held, source>> /\ shard[s] = "select"
    BY <1>3 DEF ShardCommand, ShardMedia, channelVars
  <2>3. outbox[s] = 0 /\ held[s] = None /\ outbox \in [Shards -> 0..MaxBatch]
    BY <2>2 DEF Stages, TypeOK
  <2> DEFINE T == Batch(s, n)
  <2>4. Unnumbered' = Unnumbered \cup T
    <3>1. ASSUME NEW x \in Unnumbered' PROVE x \in Unnumbered \cup T
      BY <1>0, <2>1, <2>2, <2>3, <3>1 DEF Unnumbered, Batch
    <3>2. ASSUME NEW x \in Unnumbered \cup T PROVE x \in Unnumbered'
      <4>1. CASE x \in T
        <5>1. PICK i \in 1..n : x = <<s, i>>
          BY <4>1 DEF Batch
        <5> QED BY <1>0, <2>1, <2>2, <2>3, <5>1 DEF Unnumbered
      <4>2. CASE x \in Unnumbered
        BY <1>0, <2>1, <2>2, <2>3, <4>2 DEF Unnumbered
      <4> QED BY <4>1, <4>2
    <3> QED BY <3>1, <3>2
  <2>5. IsFiniteSet(T) /\ Cardinality(T) <= n /\ Cardinality(T) \in Nat /\ n \in Nat
    BY <1>0, BatchSize
  <2> HIDE DEF T
  <2>6. /\ IsFiniteSet(Unnumbered \cup T)
        /\ Cardinality(Unnumbered \cup T) =
               Cardinality(Unnumbered) + Cardinality(T) - Cardinality(Unnumbered \cap T)
    BY <2>5, FS_Union DEF WithinBudget
  <2>7. Cardinality(Unnumbered \cap T) \in Nat
    BY <2>5, FS_Subset, FS_CardinalityType
  <2> QED BY <1>0, <2>1, <2>2, <2>4, <2>5, <2>6, <2>7 DEF WithinBudget, Budget
<1>4. ASSUME NEW s \in Shards, NumberEvent(s) PROVE WithinBudget'
  <2>1. /\ held[s] = None /\ outbox[s] > 0 /\ held' = [held EXCEPT ![s] = nextId]
        /\ outbox' = outbox /\ source' = Append(source, s)
        /\ outbox \in [Shards -> 0..MaxBatch] /\ DOMAIN held = Shards /\ nextId # None
    BY <1>0, <1>4 DEF NumberEvent, TypeOK, nextId, None
  <2>2. <<s, outbox[s]>> \in Unnumbered
    BY <1>0, <2>1 DEF Unnumbered
  <2>3. Unnumbered' = Unnumbered \ {<<s, outbox[s]>>}
    BY <1>0, <2>1 DEF Unnumbered
  <2>4. IsFiniteSet(Unnumbered') /\ Cardinality(Unnumbered') = Cardinality(Unnumbered) - 1
    BY <2>2, <2>3, FS_RemoveElement DEF WithinBudget
  <2>5. Len(source') = Len(source) + 1
    BY <1>0, <2>1
  <2> QED BY <1>0, <2>4, <2>5 DEF WithinBudget, Budget
<1>5. ASSUME NEW s \in Shards, SendEvent(s) PROVE WithinBudget'
  <2>1. /\ held[s] # None /\ held' = [held EXCEPT ![s] = None] /\ source' = source
        /\ outbox' = [outbox EXCEPT ![s] = @ - 1] \/ outbox' = [outbox EXCEPT ![s] = 0]
        /\ outbox \in [Shards -> 0..MaxBatch] /\ DOMAIN held = Shards
    BY <1>5 DEF SendEvent, TypeOK
  <2>2. Unnumbered' \subseteq Unnumbered
    BY <1>0, <2>1 DEF Unnumbered
  <2>3. /\ IsFiniteSet(Unnumbered') /\ Cardinality(Unnumbered') <= Cardinality(Unnumbered)
        /\ Cardinality(Unnumbered') \in Nat
    BY <2>2, FS_Subset, FS_CardinalityType DEF WithinBudget
  <2> QED BY <1>0, <2>1, <2>3 DEF WithinBudget, Budget
<1> QED
  BY <1>1, <1>2, <1>3, <1>4, <1>5 DEF Next, WorkerStep, SessionStep, ShardStep, MainStep,
     Start, Connect, ConnectFails, FinishRegistration, ReplayEvent, TakeEvent, TakeMessage,
     FinishSend, Dispatch, FinishDispatch, Retry, ObserveStop, Finish, FinishDrain, ShardStop,
     Interrupt, JoinService, JoinRedirect, ServiceEnded, Issue, SignalingReceive, BreakLink,
     vars, channelVars, shardVars

-----------------------------------------------------------------------------
\* What the event loop and the shards leave on the stream and in the hand of the
\* session task keeps its shape.
LEMMA ShapeStep == TypeInv /\ [Next]_vars => Shape'
<1> SUFFICES ASSUME TypeInv, [Next]_vars PROVE Shape'
  OBVIOUS
<1> USE DEF TypeInv
<1>0. /\ upstream \in Seq(UpMessages) /\ downstream \in Seq(DownMessages)
      /\ Register \in UpMessages /\ Registered \in DownMessages /\ Rejected \in DownMessages
      /\ \A id \in EventIds : Event(id) \in UpMessages /\ Ack(id) \in DownMessages
      /\ \A c \in Commands : Result(c) \in UpMessages /\ Command(c) \in DownMessages
  BY DEF Shape, UpMessages, DownMessages
<1>1. CASE UNCHANGED <<session, inHand, upstream, downstream>>
  BY <1>1 DEF Shape
<1>2. CASE Start \/ ConnectFails \/ Retry \/ Finish
  BY <1>2 DEF Start, ConnectFails, Retry, Finish, linkVars, Shape
<1>3. CASE Connect
  BY <1>0, <1>3 DEF Connect, Shape
<1>4. CASE FinishRegistration
  <2>1. downstream # <<>> => Tail(downstream) \in Seq(DownMessages)
    BY <1>0
  <2>2. /\ session' \in {"replaying", "backoff"}
        /\ upstream' = upstream \/ upstream' = <<>>
        /\ downstream' = <<>> \/ (downstream # <<>> /\ downstream' = Tail(downstream))
    BY <1>4 DEF FinishRegistration, CloseLink
  <2>3. upstream' \in Seq(UpMessages) /\ downstream' \in Seq(DownMessages)
    <3>1. <<>> \in Seq(UpMessages) /\ <<>> \in Seq(DownMessages)
      OBVIOUS
    <3> QED BY ONLY <1>0, <2>1, <2>2, <3>1
  <2> QED BY <2>2, <2>3 DEF Shape
<1>5. ASSUME NEW id \in replay, ReplayEvent(id) PROVE Shape'
  <2>1. Event(id) \in UpMessages
    BY <1>0 DEF TypeOK
  <2>2. Append(upstream, Event(id)) \in Seq(UpMessages)
    BY <1>0, <2>1
  <2>3. /\ session = "replaying" /\ session' \in {"replaying", "backoff"}
        /\ upstream' = upstream \/ upstream' = Append(upstream, Event(id))
        /\ downstream' = downstream /\ inHand' = inHand
    BY <1>5 DEF ReplayEvent, Transmit, linkVars
  <2> QED BY <1>0, <2>2, <2>3 DEF Shape
<1>6. CASE QueueHealth
  <2>1. CASE Budget > 0
    <3>1. nextId \in EventIds
      BY <2>1, FS_CardinalityType, SessionAssumption DEF WithinBudget, Budget, TypeOK, nextId,
         EventIds
    <3> QED BY <1>0, <1>6, <2>1, <3>1 DEF QueueHealth, linkVars, Shape
  <2>2. CASE ~(Budget > 0)
    BY <1>6, <2>2 DEF QueueHealth, linkVars, Shape
  <2> QED BY <2>1, <2>2
<1>7. CASE TakeEvent
  <2>1. Head(eventQ) \in EventIds
    BY <1>7 DEF TakeEvent, TypeOK
  <2> QED BY <1>0, <1>7, <2>1 DEF TakeEvent, linkVars, Shape
<1>8. CASE FinishSend
  <2>1. Append(upstream, inHand) \in Seq(UpMessages)
    BY <1>0, <1>8 DEF FinishSend, Shape
  <2>2. /\ session' \in {"select", "backoff"}
        /\ upstream' = upstream \/ upstream' = Append(upstream, inHand)
        /\ downstream' = downstream
    BY <1>8 DEF FinishSend, Transmit, linkVars
  <2> QED BY <1>0, <2>1, <2>2 DEF Shape
<1>9. CASE TakeMessage
  <2>1. CASE UNCHANGED <<upstream, downstream>> /\ session' = "backoff"
    BY <2>1 DEF Shape
  <2>2. ASSUME downstream # <<>>, downstream' = Tail(downstream), UNCHANGED upstream,
               UNCHANGED <<session, inHand>>
        PROVE  Shape'
    BY <1>0, <2>2 DEF Shape
  <2>3. ASSUME downstream # <<>>, downstream' = Tail(downstream), UNCHANGED upstream,
               Head(downstream).kind = "command", inHand' = Head(downstream).command,
               session' = "dispatching"
        PROVE  Shape'
    <3>1. Head(downstream) \in DownMessages /\ Tail(downstream) \in Seq(DownMessages)
      BY <1>0, <2>3
    <3>2. Head(downstream).command \in Commands
      BY <2>3, <3>1 DEF DownMessages, Registered, Rejected, Ack, Command
    <3> QED BY <1>0, <2>3, <3>1, <3>2 DEF Shape
  <2> QED BY <1>9, <2>1, <2>2, <2>3 DEF TakeMessage, linkVars
<1>10. CASE Dispatch \/ FinishDispatch
  <2>1. Result(inHand) \in UpMessages
    BY <1>0, <1>10 DEF Dispatch, FinishDispatch, Shape
  <2> QED BY <1>0, <1>10, <2>1 DEF Dispatch, FinishDispatch, linkVars, Shape
<1>11. CASE ObserveStop
  BY <1>11 DEF ObserveStop, CloseLink, Shape
<1>12. ASSUME NEW c \in Commands, Issue(c) PROVE Shape'
  <2>1. Append(downstream, Command(c)) \in Seq(DownMessages)
    BY <1>0
  <2> QED BY <1>0, <1>12, <2>1 DEF Issue, sessionVars, Shape
<1>13. CASE SignalingReceive
  <2>1. /\ Head(upstream) \in UpMessages /\ upstream' \in Seq(UpMessages)
        /\ UNCHANGED <<session, inHand>>
    BY <1>0, <1>13 DEF SignalingReceive, sessionVars
  <2>2. downstream' \in Seq(DownMessages)
    <3>1. CASE Head(upstream) = Register
      <4> DEFINE again == [i \in DOMAIN unacked |-> Command(unacked[i])]
      <4>1. unacked \in Seq(Commands)
        BY DEF TypeOK
      <4>2. again \in Seq(DownMessages)
        BY <1>0, <4>1
      <4>3. <<Registered>> \in Seq(DownMessages) /\ <<Rejected>> \in Seq(DownMessages)
        BY <1>0
      <4>4. <<Registered>> \o again \in Seq(DownMessages)
        <5> HIDE DEF again
        <5> QED BY <4>2, <4>3
      <4>5. downstream' = <<Registered>> \o again \/ downstream' = <<Rejected>>
        BY <1>13, <3>1 DEF SignalingReceive, Register
      <4> QED BY <4>3, <4>4, <4>5
    <3>2. CASE Head(upstream).kind = "event"
      <4>1. Head(upstream).id \in EventIds
        BY <2>1, <3>2 DEF UpMessages, Register, Event, Result
      <4>2. downstream' = Append(downstream, Ack(Head(upstream).id))
        BY <1>13, <3>2 DEF SignalingReceive, Register
      <4> QED BY <1>0, <4>1, <4>2
    <3>3. CASE Head(upstream).kind = "result"
      BY <1>0, <1>13, <3>3 DEF SignalingReceive, Register
    <3> QED BY <1>13, <3>1, <3>2, <3>3 DEF SignalingReceive
  <2> QED BY <2>1, <2>2 DEF Shape
<1>14. CASE BreakLink
  BY <1>14 DEF BreakLink, sessionVars, Shape
<1> QED
  BY <1>1, <1>2, <1>3, <1>4, <1>5, <1>6, <1>7, <1>8, <1>9, <1>10, <1>11, <1>12, <1>13, <1>14
  DEF Next, WorkerStep, SessionStep, ShardStep, MainStep, ShardCommand, ShardMedia, NumberEvent,
      SendEvent, FinishDrain, ShardStop, Interrupt, JoinService, JoinRedirect, ServiceEnded,
      vars, sessionVars, linkVars

\* No step leaves the life cycles of service, channel and shards.
LEMMA StagesStep == TypeOK /\ Stages /\ [Next]_vars => Stages'
<1> SUFFICES ASSUME TypeOK, Stages, [Next]_vars PROVE Stages'
  OBVIOUS
<1>0. MaxBatch \in Nat
  BY SessionAssumption
<1>1. CASE UNCHANGED <<session, receiver, shard, held, outbox>>
  BY <1>1 DEF Stages
<1>2. CASE Start
  BY <1>2 DEF Start, Stages, TypeOK
<1>3. CASE UNCHANGED <<receiver, shard, held, outbox>> /\ session' # session
           /\ {session, session'} \cap {"starting", "failed", "closing", "done"} = {}
  BY <1>3 DEF Stages
<1>4. CASE Finish \/ ObserveStop
  BY <1>4 DEF Finish, ObserveStop, channelVars, shardVars, Stages
<1>5. ASSUME NEW s \in Shards, ShardCommand(s) \/ ShardMedia(s) PROVE Stages'
  <2>1. PICK n \in 0..MaxBatch : /\ outbox' = [outbox EXCEPT ![s] = n]
                                 /\ shard' = [shard EXCEPT ![s] = "drain"]
    BY <1>0, <1>5 DEF ShardCommand, ShardMedia, Emit
  <2>2. UNCHANGED <<session, receiver, held>> /\ shard[s] = "select"
    BY <1>5 DEF ShardCommand, ShardMedia, sessionVars, channelVars
  <2>3. held[s] = None /\ session \notin {"starting", "failed"}
    BY <2>2 DEF Stages
  <2>4. \A t \in Shards : /\ shard'[t] = IF t = s THEN "drain" ELSE shard[t]
                         /\ outbox'[t] = IF t = s THEN n ELSE outbox[t]
    BY <2>1 DEF TypeOK
  <2> QED BY <2>2, <2>3, <2>4 DEF Stages
<1>6. ASSUME NEW s \in Shards, NumberEvent(s) PROVE Stages'
  BY <1>0, <1>6 DEF NumberEvent, sessionVars, Stages, TypeOK
<1>7. ASSUME NEW s \in Shards, SendEvent(s) PROVE Stages'
  BY <1>0, <1>7 DEF SendEvent, sessionVars, Stages, TypeOK
<1>8. ASSUME NEW s \in Shards, FinishDrain(s) \/ ShardStop(s) PROVE Stages'
  BY <1>0, <1>8 DEF FinishDrain, ShardStop, sessionVars, channelVars, Stages, TypeOK
<1>9. CASE Connect \/ ConnectFails \/ FinishRegistration \/ QueueHealth \/ TakeEvent
           \/ TakeMessage \/ FinishSend \/ Dispatch \/ FinishDispatch \/ Retry
           \/ \E id \in replay : ReplayEvent(id)
  <2>1. UNCHANGED <<receiver, shard, held, outbox>>
    BY <1>9 DEF Connect, ConnectFails, FinishRegistration, ReplayEvent, QueueHealth, TakeEvent,
       TakeMessage, FinishSend, Dispatch, FinishDispatch, Retry, channelVars, shardVars
  <2>2. {session, session'} \cap {"starting", "failed", "closing", "done"} = {}
    BY <1>9 DEF Connect, ConnectFails, FinishRegistration, ReplayEvent, QueueHealth, TakeEvent,
       TakeMessage, FinishSend, Dispatch, FinishDispatch, Retry, Transmit
  <2> QED BY <1>1, <1>3, <2>1, <2>2
<1> QED
  BY <1>1, <1>2, <1>4, <1>5, <1>6, <1>7, <1>8, <1>9
  DEF Next, WorkerStep, SessionStep, ShardStep, MainStep, Interrupt, JoinService, JoinRedirect,
      ServiceEnded, Issue, SignalingReceive, BreakLink, vars, sessionVars, channelVars, shardVars

\* Removing a command that has its result leaves a list of the others.
LEMMA RemoveOne ==
    ASSUME NEW S, NEW q \in Seq(S), NEW i \in DOMAIN q
    PROVE  /\ RemoveAt(q, i) \in Seq(S)
           /\ ToSet(RemoveAt(q, i)) \subseteq ToSet(q)
           /\ ToSet(q) \subseteq ToSet(RemoveAt(q, i)) \cup {q[i]}
<1> DEFINE a == SubSeq(q, 1, i - 1)
           b == SubSeq(q, i + 1, Len(q))
<1>0. i \in 1..Len(q) /\ Len(q) \in Nat /\ i \in Nat
  OBVIOUS
<1>1. a \in Seq(S) /\ Len(a) = i - 1 /\ \A j \in 1..(i - 1) : a[j] = q[j]
  BY <1>0
<1>2. b \in Seq(S) /\ Len(b) = Len(q) - i /\ \A j \in 1..(Len(q) - i) : b[j] = q[j + i]
  BY <1>0
<1>3. RemoveAt(q, i) = a \o b
  BY DEF RemoveAt
<1> HIDE DEF a, b
<1>4. /\ a \o b \in Seq(S) /\ Len(a \o b) = Len(q) - 1
      /\ \A j \in 1..(Len(q) - 1) : (a \o b)[j] = IF j < i THEN q[j] ELSE q[j + 1]
  BY <1>0, <1>1, <1>2
<1>5. ASSUME NEW x \in ToSet(a \o b) PROVE x \in ToSet(q)
  <2>1. PICK j \in 1..(Len(q) - 1) : x = (a \o b)[j]
    BY <1>4 DEF ToSet
  <2>2. CASE j < i
    <3>1. x = q[j] /\ j \in DOMAIN q
      BY <1>0, <1>4, <2>1, <2>2
    <3> QED BY <3>1 DEF ToSet
  <2>3. CASE ~(j < i)
    <3>1. x = q[j + 1]
      BY <1>4, <2>1, <2>3
    <3>2. j + 1 \in 1..Len(q)
      BY <1>0, <2>1
    <3>3. DOMAIN q = 1..Len(q)
      OBVIOUS
    <3> QED BY <3>1, <3>2, <3>3 DEF ToSet
  <2> QED BY <2>2, <2>3
<1>6. ASSUME NEW x \in ToSet(q), x # q[i] PROVE x \in ToSet(a \o b)
  <2>1. PICK j \in 1..Len(q) : x = q[j] /\ j # i
    BY <1>6 DEF ToSet
  <2>2. CASE j < i
    <3>1. j \in 1..(Len(q) - 1) /\ (a \o b)[j] = x
      BY <1>0, <1>4, <2>1, <2>2
    <3> QED BY <1>4, <3>1 DEF ToSet
  <2>3. CASE j > i
    <3>1. PICK k \in 1..(Len(q) - 1) : k + 1 = j /\ ~(k < i)
      BY <1>0, <2>1, <2>3
    <3>2. k \in DOMAIN (a \o b) /\ (a \o b)[k] = x
      BY <1>0, <1>4, <2>1, <3>1
    <3> QED BY <3>2 DEF ToSet
  <2> QED BY <1>0, <2>1, <2>2, <2>3
<1> QED BY <1>3, <1>4, <1>5, <1>6

\* The next number is one of the bounded ones wherever one is drawn.
LEMMA NextIdBounded ==
    ASSUME TypeInv,
           Budget > 0 \/ \E s \in Shards : shard[s] = "drain" /\ outbox[s] > 0 /\ held[s] = None
    PROVE  nextId \in EventIds
<1>0. /\ Cardinality(Unnumbered) \in Nat /\ Len(source) \in Nat
      /\ MaxEvents \in Nat /\ MaxBatch \in Nat
  BY FS_CardinalityType, SessionAssumption DEF TypeInv, WithinBudget, TypeOK
<1>1. CASE Budget > 0
  BY <1>0, <1>1 DEF Budget, nextId, EventIds
<1>2. ASSUME NEW s \in Shards, outbox[s] > 0, held[s] = None PROVE nextId \in EventIds
  <2>1. <<s, 1>> \in Unnumbered
    BY <1>0, <1>2 DEF Unnumbered, TypeInv, TypeOK
  <2>2. Cardinality(Unnumbered) # 0
    BY <2>1, FS_EmptySet DEF TypeInv, WithinBudget
  <2> QED BY <1>0, <2>2 DEF TypeInv, WithinBudget, Budget, nextId, EventIds
<1> QED BY <1>1, <1>2

\* Every step preserves the type invariant.
LEMMA TypeStep == TypeInv /\ [Next]_vars => TypeOK'
<1> SUFFICES ASSUME TypeInv, [Next]_vars PROVE TypeOK'
  OBVIOUS
<1>0. /\ MaxBatch \in Nat /\ MaxEvents \in Nat /\ MaxBreaks \in Nat
      /\ EventCapacity \in Nat \ {0} /\ OutgoingCapacity \in Nat \ {0}
      /\ Commands \subseteq Nat \ {0} /\ ShardOf \in [Commands -> Shards]
  BY SessionAssumption
<1>1. TypeOK /\ Shape
  BY DEF TypeInv
<1> USE DEF TypeOK
<1>2. CASE Start \/ Connect \/ Retry \/ Finish
  <2>1. CASE Start
    BY <1>0, <1>1, <1>2, <2>1 DEF Start, mainVars, linkVars, signalingVars
  <2>2. CASE Connect
    <3>1. Len(<<Register>>) <= OutgoingCapacity
      BY <1>0
    <3> QED BY <1>0, <1>1, <2>2, <3>1 DEF Connect, mainVars, channelVars, shardVars, signalingVars
  <2>3. CASE Retry
    BY <1>0, <1>1, <2>3 DEF Retry, mainVars, channelVars, shardVars, linkVars, signalingVars
  <2>4. CASE Finish
    BY <1>0, <1>1, <2>4 DEF Finish, mainVars, channelVars, shardVars, linkVars, signalingVars
  <2> QED BY <1>2, <2>1, <2>2, <2>3, <2>4
<1>3. CASE ConnectFails
  BY <1>0, <1>1, <1>3 DEF ConnectFails, mainVars, channelVars, shardVars, signalingVars
<1>4. CASE FinishRegistration
  BY <1>0, <1>1, <1>4 DEF FinishRegistration, CloseLink, mainVars, channelVars, shardVars,
     signalingVars
<1>5. ASSUME NEW id \in replay, ReplayEvent(id) PROVE TypeOK'
  <2>1. Len(upstream') <= OutgoingCapacity
    BY <1>0, <1>1, <1>5 DEF ReplayEvent, Transmit, linkVars, Shape
  <2> QED BY <1>0, <1>1, <1>5, <2>1 DEF ReplayEvent, Transmit, mainVars, channelVars, shardVars,
         linkVars, signalingVars
<1>6. CASE QueueHealth
  <2>1. CASE Budget > 0
    <3>1. nextId \in EventIds
      BY <2>1, NextIdBounded
    <3>2. Len(Append(source, Health)) = nextId /\ Append(source, Health) \in Seq(Shards \cup {Health})
      BY <1>1 DEF nextId
    <3>3. /\ source' \in Seq(Shards \cup {Health}) /\ Len(source') <= MaxEvents
          /\ pending' \subseteq EventIds /\ session' = "sending"
      <4>1. source' = Append(source, Health) /\ pending' = pending \cup {nextId} /\ session' = "sending"
        BY <1>6, <2>1 DEF QueueHealth
      <4>2. nextId <= MaxEvents
        BY <1>0, <3>1 DEF EventIds
      <4> QED BY <1>1, <3>1, <3>2, <4>1, <4>2
    <3> QED BY <1>0, <1>1, <1>6, <3>3 DEF QueueHealth, mainVars, shardVars, linkVars,
           signalingVars
  <2>2. CASE ~(Budget > 0)
    BY <1>0, <1>1, <1>6, <2>2 DEF QueueHealth, mainVars, shardVars, linkVars, signalingVars
  <2> QED BY <2>1, <2>2
<1>7. CASE TakeEvent
  <2>1. Head(eventQ) \in EventIds /\ Tail(eventQ) \in Seq(EventIds) /\ Len(Tail(eventQ)) <= EventCapacity
    BY <1>0, <1>1, <1>7 DEF TakeEvent
  <2> QED BY <1>0, <1>1, <1>7, <2>1 DEF TakeEvent, mainVars, shardVars, linkVars, signalingVars
<1>8. CASE FinishSend
  <2>1. Len(upstream') <= OutgoingCapacity
    BY <1>0, <1>1, <1>8 DEF FinishSend, Transmit, linkVars, Shape
  <2> QED BY <1>0, <1>1, <1>8, <2>1 DEF FinishSend, Transmit, mainVars, channelVars, shardVars,
         linkVars, signalingVars
<1>9. CASE TakeMessage
  BY <1>0, <1>1, <1>9 DEF TakeMessage, mainVars, channelVars, shardVars, linkVars, signalingVars
<1>10. CASE Dispatch
  BY <1>0, <1>1, <1>10 DEF Dispatch, Shape, mainVars, channelVars, shardVars, linkVars,
     signalingVars
<1>11. CASE FinishDispatch
  BY <1>0, <1>1, <1>11 DEF FinishDispatch, Shape, mainVars, channelVars, linkVars, signalingVars
<1>12. CASE ObserveStop
  <2>1. /\ eventQ' \in Seq(EventIds) /\ Len(eventQ') <= EventCapacity
        /\ Len(upstream') <= OutgoingCapacity
    BY <1>0, <1>12 DEF ObserveStop, CloseLink
  <2>2. UNCHANGED <<mainVars, pending, replayed, source, shardVars, breaks, signalingVars>>
    BY <1>12 DEF ObserveStop, CloseLink
  <2>3. session' = "closing" /\ link' = "down" /\ receiver' = FALSE /\ replay' = {}
    BY <1>12 DEF ObserveStop, CloseLink
  <2> QED BY <1>1, <2>1, <2>2, <2>3 DEF mainVars, shardVars, signalingVars
<1>13. ASSUME NEW s \in Shards, ShardCommand(s) \/ ShardMedia(s) PROVE TypeOK'
  <2>1. PICK n \in 0..MaxBatch : /\ outbox' = [outbox EXCEPT ![s] = n]
                                 /\ shard' = [shard EXCEPT ![s] = "drain"]
    BY <1>0, <1>13 DEF ShardCommand, ShardMedia, Emit
  <2>2. /\ request' \in [Shards -> Commands \cup {None}]
        /\ reply' \in [Shards -> {"empty", "result", "gone"}]
    BY <1>1, <1>13 DEF ShardCommand, ShardMedia
  <2>3. UNCHANGED <<mainVars, sessionVars, channelVars, held, linkVars, signalingVars>>
    BY <1>13 DEF ShardCommand, ShardMedia
  <2> QED BY <1>1, <2>1, <2>2, <2>3 DEF mainVars, sessionVars, channelVars, linkVars, signalingVars
<1>14. ASSUME NEW s \in Shards, NumberEvent(s) PROVE TypeOK'
  <2>1. nextId \in EventIds
    BY <1>14, NextIdBounded DEF NumberEvent
  <2>2. Len(Append(source, s)) = nextId /\ Append(source, s) \in Seq(Shards \cup {Health})
    BY <1>1 DEF nextId
  <2> QED BY <1>0, <1>1, <1>14, <2>1, <2>2 DEF NumberEvent, mainVars, sessionVars, linkVars,
         signalingVars, EventIds
<1>15. ASSUME NEW s \in Shards, SendEvent(s) PROVE TypeOK'
  <2>1. held[s] \in EventIds /\ outbox[s] > 0
    BY <1>1, <1>15 DEF SendEvent, TypeInv, Stages
  <2>2. eventQ' \in Seq(EventIds) /\ Len(eventQ') <= EventCapacity
    <3>1. /\ eventQ \in Seq(EventIds) /\ Append(eventQ, held[s]) \in Seq(EventIds)
          /\ Len(Append(eventQ, held[s])) = Len(eventQ) + 1
          /\ Len(eventQ) \in Nat /\ Len(eventQ) <= EventCapacity
      BY <1>0, <1>1, <2>1
    <3>2. eventQ' = eventQ \/ (Len(eventQ) < EventCapacity /\ eventQ' = Append(eventQ, held[s]))
      BY <1>15 DEF SendEvent
    <3> HIDE DEF TypeOK
    <3> QED BY <1>0, <3>1, <3>2
  <2>3. outbox' \in [Shards -> 0..MaxBatch]
    BY <1>0, <1>1, <1>15, <2>1 DEF SendEvent
  <2>4. held' \in [Shards -> EventIds \cup {None}]
    BY <1>0, <1>1, <1>15 DEF SendEvent
  <2>5. shard' \in [Shards -> {"unborn", "select", "drain", "stopped"}]
    BY <1>0, <1>1, <1>15 DEF SendEvent
  <2> QED BY <1>0, <1>1, <1>15, <2>2, <2>3, <2>4, <2>5 DEF SendEvent, mainVars, sessionVars,
         linkVars, signalingVars
<1>16. ASSUME NEW s \in Shards, FinishDrain(s) \/ ShardStop(s) PROVE TypeOK'
  <2>1. shard' \in [Shards -> {"unborn", "select", "drain", "stopped"}]
    BY <1>1, <1>16 DEF FinishDrain, ShardStop
  <2>2. /\ request' \in [Shards -> Commands \cup {None}]
        /\ reply' \in [Shards -> {"empty", "result", "gone"}]
    BY <1>1, <1>16 DEF FinishDrain, ShardStop
  <2>3. UNCHANGED <<mainVars, sessionVars, channelVars, outbox, held, linkVars, signalingVars>>
    BY <1>16 DEF FinishDrain, ShardStop
  <2> QED BY <1>1, <2>1, <2>2, <2>3 DEF mainVars, sessionVars, channelVars, linkVars, signalingVars
<1>17. CASE Interrupt \/ JoinService \/ JoinRedirect \/ ServiceEnded
  BY <1>0, <1>1, <1>17 DEF Interrupt, JoinService, JoinRedirect, ServiceEnded, sessionVars,
     channelVars, shardVars, linkVars, signalingVars
<1>18. ASSUME NEW c \in Commands, Issue(c) PROVE TypeOK'
  BY <1>0, <1>1, <1>18 DEF Issue, mainVars, sessionVars, channelVars, shardVars
<1>19. CASE SignalingReceive
  <2>1. /\ Head(upstream) \in UpMessages /\ Len(upstream') <= OutgoingCapacity
        /\ UNCHANGED <<mainVars, sessionVars, channelVars, shardVars>>
    BY <1>0, <1>1, <1>19 DEF SignalingReceive, Shape
  <2>2. link' \in {"down", "up", "registered"} /\ breaks' \in 0..MaxBreaks
    BY <1>0, <1>1, <1>19 DEF SignalingReceive, Register
  <2>3. unacked' \in Seq(Commands) /\ answered' \subseteq Commands /\ received' \in Seq(EventIds)
    <3>1. CASE UNCHANGED signalingVars
      BY <1>1, <3>1 DEF signalingVars
    <3>2. CASE Head(upstream).kind = "event"
      <4>1. Head(upstream).id \in EventIds
        BY <2>1, <3>2 DEF UpMessages, Register, Event, Result
      <4>2. /\ UNCHANGED <<unacked, answered>>
            /\ received' = received \/ received' = Append(received, Head(upstream).id)
        BY <1>19, <3>2 DEF SignalingReceive, Register
      <4>3. received \in Seq(EventIds) /\ Append(received, Head(upstream).id) \in Seq(EventIds)
        BY <1>1, <4>1
      <4> QED BY <1>1, <4>2, <4>3
    <3>3. CASE Head(upstream).kind = "result"
      <4> DEFINE c == Head(upstream).command
      <4>1. c \in Commands
        BY <2>1, <3>3 DEF UpMessages, Register, Event, Result
      <4>2. /\ received' = received /\ answered' = answered \cup {c}
            /\ unacked' = IF Contains(unacked, c)
                          THEN RemoveAt(unacked, CHOOSE i \in DOMAIN unacked : unacked[i] = c)
                          ELSE unacked
        BY <1>19, <3>3 DEF SignalingReceive, Register
      <4> HIDE DEF c
      <4>3. ASSUME Contains(unacked, c) PROVE unacked' \in Seq(Commands)
        <5>1. \E i \in DOMAIN unacked : unacked[i] = c
          BY <1>1, <4>3 DEF Contains
        <5>2. (CHOOSE i \in DOMAIN unacked : unacked[i] = c) \in DOMAIN unacked
          BY <5>1
        <5> QED BY <1>1, <4>2, <4>3, <5>2, RemoveOne
      <4> QED BY <1>1, <4>1, <4>2, <4>3
    <3> QED BY <1>19, <3>1, <3>2, <3>3 DEF SignalingReceive
  <2> QED BY <1>1, <2>1, <2>2, <2>3 DEF mainVars, sessionVars, channelVars, shardVars
<1>20. CASE BreakLink
  BY <1>0, <1>1, <1>20 DEF BreakLink, mainVars, sessionVars, channelVars, shardVars, signalingVars
<1>21. CASE UNCHANGED vars
  BY <1>1, <1>21 DEF vars, mainVars, sessionVars, channelVars, shardVars, linkVars, signalingVars
<1> HIDE DEF TypeOK
<1> QED
  BY <1>2, <1>3, <1>4, <1>5, <1>6, <1>7, <1>8, <1>9, <1>10, <1>11, <1>12, <1>13, <1>14, <1>15,
     <1>16, <1>17, <1>18, <1>19, <1>20, <1>21
  DEF Next, WorkerStep, SessionStep, ShardStep, MainStep

\* The type invariant with what it needs: shapes, life cycles and the budget.
LEMMA TypeInvHolds == Spec => []TypeInv
<1>1. Init => TypeInv
  <2> SUFFICES ASSUME Init PROVE TypeInv
    OBVIOUS
  <2>1. Unnumbered = {}
    BY DEF Init, Unnumbered
  <2>2. WithinBudget
    BY <2>1, FS_EmptySet, SessionAssumption DEF Init, WithinBudget, Budget
  <2>3. TypeOK
    <3>1. /\ source \in Seq(Shards \cup {Health}) /\ eventQ \in Seq(EventIds)
          /\ unacked \in Seq(Commands) /\ received \in Seq(EventIds)
      BY DEF Init
    <3>2. Len(source) = 0 /\ Len(eventQ) = 0 /\ Len(upstream) = 0
      BY DEF Init
    <3>3. breaks \in 0..MaxBreaks /\ outbox \in [Shards -> 0..MaxBatch]
      BY SessionAssumption DEF Init
    <3>4. /\ main = "running" /\ session = "starting" /\ link = "down"
          /\ replay = {} /\ pending = {} /\ replayed = {} /\ answered = {}
          /\ receiver \in BOOLEAN /\ stop \in BOOLEAN
      BY DEF Init
    <3>5. /\ shard \in [Shards -> {"unborn", "select", "drain", "stopped"}]
          /\ held \in [Shards -> EventIds \cup {None}]
          /\ request \in [Shards -> Commands \cup {None}]
          /\ reply \in [Shards -> {"empty", "result", "gone"}]
      BY DEF Init
    <3> QED BY <3>1, <3>2, <3>3, <3>4, <3>5, SessionAssumption DEF TypeOK
  <2>4. Shape /\ Stages
    BY DEF Init, Shape, Stages
  <2> QED BY <2>2, <2>3, <2>4 DEF TypeInv
<1>2. TypeInv /\ [Next]_vars => TypeInv'
  BY TypeStep, ShapeStep, StagesStep, BudgetStep DEF TypeInv
<1> QED BY <1>1, <1>2, PTL DEF Spec

\* In every reachable state every variable has its type; in particular the event
\* channel and the stream respect their capacities and no number is drawn
\* beyond the bound.
THEOREM TypeCorrect == Spec => []TypeOK
<1>1. TypeInv => TypeOK
  BY DEF TypeInv
<1> QED BY <1>1, TypeInvHolds, PTL

-----------------------------------------------------------------------------
\* The set of a queue after its head is taken, and after something is added.
LEMMA QueueSets ==
    ASSUME NEW S, NEW q \in Seq(S)
    PROVE  /\ q # <<>> => ToSet(q) = {Head(q)} \cup ToSet(Tail(q))
           /\ \A x : ToSet(Append(q, x)) = ToSet(q) \cup {x}
           /\ ToSet(<<>>) = {}
<1>1. ASSUME q # <<>> PROVE ToSet(q) = {Head(q)} \cup ToSet(Tail(q))
  <2>1. /\ Len(q) \in Nat \ {0} /\ DOMAIN q = 1..Len(q) /\ Head(q) = q[1]
        /\ DOMAIN Tail(q) = 1..(Len(q) - 1)
        /\ \A i \in 1..(Len(q) - 1) : Tail(q)[i] = q[i + 1]
    BY <1>1
  <2>2. ASSUME NEW x \in ToSet(q) PROVE x \in {Head(q)} \cup ToSet(Tail(q))
    <3>1. PICK i \in 1..Len(q) : x = q[i]
      BY <2>1 DEF ToSet
    <3>2. CASE i = 1
      BY <2>1, <3>1, <3>2
    <3>3. CASE i # 1
      <4>1. PICK k \in 1..(Len(q) - 1) : k + 1 = i
        BY <2>1, <3>3
      <4> QED BY <2>1, <3>1, <4>1 DEF ToSet
    <3> QED BY <3>2, <3>3
  <2>3. Head(q) \in ToSet(q)
    BY <2>1 DEF ToSet
  <2>4. ASSUME NEW x \in ToSet(Tail(q)) PROVE x \in ToSet(q)
    <3>1. PICK i \in 1..(Len(q) - 1) : x = q[i + 1]
      BY <2>1 DEF ToSet
    <3>2. i + 1 \in DOMAIN q
      BY <2>1
    <3> QED BY <3>1, <3>2 DEF ToSet
  <2> QED BY <2>2, <2>3, <2>4
<1>2. ASSUME NEW x PROVE ToSet(Append(q, x)) = ToSet(q) \cup {x}
  <2>1. /\ DOMAIN Append(q, x) = 1..(Len(q) + 1) /\ Append(q, x)[Len(q) + 1] = x
        /\ DOMAIN q = 1..Len(q) /\ Len(q) \in Nat
        /\ \A i \in 1..Len(q) : Append(q, x)[i] = q[i]
    OBVIOUS
  <2>2. \A i \in 1..(Len(q) + 1) : i \in 1..Len(q) \/ i = Len(q) + 1
    BY <2>1
  <2> HIDE DEF ToSet
  <2>3. ASSUME NEW y \in ToSet(Append(q, x)) PROVE y \in ToSet(q) \cup {x}
    BY <2>1, <2>2 DEF ToSet
  <2>4. ASSUME NEW y \in ToSet(q) \cup {x} PROVE y \in ToSet(Append(q, x))
    BY <2>1 DEF ToSet
  <2> QED BY <2>3, <2>4
<1>3. ToSet(<<>>) = {}
  BY DEF ToSet
<1> QED BY <1>1, <1>2, <1>3

\* An acknowledgement on its way is of an event that signaling has accepted, and
\* signaling forgets none.
LEMMA AckedStep == TypeInv /\ AckedReceived /\ [Next]_vars =>
                       AckedReceived' /\ ToSet(received) \subseteq ToSet(received')
<1> SUFFICES ASSUME TypeInv, AckedReceived, [Next]_vars
             PROVE  AckedReceived' /\ ToSet(received) \subseteq ToSet(received')
  OBVIOUS
<1>0. /\ downstream \in Seq(DownMessages) /\ received \in Seq(EventIds)
      /\ unacked \in Seq(Commands) /\ upstream \in Seq(UpMessages)
  BY DEF TypeInv, Shape, TypeOK
<1>1. CASE UNCHANGED received /\ (downstream' = downstream \/ downstream' = <<>>)
  BY <1>1 DEF AckedReceived
<1>2. CASE UNCHANGED received /\ downstream # <<>> /\ downstream' = Tail(downstream)
  <2>1. \A i \in DOMAIN Tail(downstream) :
            i + 1 \in DOMAIN downstream /\ Tail(downstream)[i] = downstream[i + 1]
    BY <1>0, <1>2
  <2> QED BY <1>2, <2>1 DEF AckedReceived
<1>3. ASSUME NEW c \in Commands, Issue(c)
      PROVE  AckedReceived' /\ ToSet(received) \subseteq ToSet(received')
  <2>1. \A i \in DOMAIN Append(downstream, Command(c)) :
            \/ i \in DOMAIN downstream /\ Append(downstream, Command(c))[i] = downstream[i]
            \/ Append(downstream, Command(c))[i] = Command(c)
    BY <1>0
  <2>2. Command(c).kind # "ack"
    BY DEF Command
  <2>3. received' = received /\ (downstream' = downstream
                                   \/ downstream' = Append(downstream, Command(c)))
    BY <1>3 DEF Issue
  <2> QED BY <1>1, <2>1, <2>2, <2>3 DEF AckedReceived
<1>4. CASE SignalingReceive
  <2>1. CASE Head(upstream) = Register
    <3> DEFINE again == [i \in DOMAIN unacked |-> Command(unacked[i])]
    <3>1. received' = received /\ (downstream' = <<Registered>> \o again
                                     \/ downstream' = <<Rejected>>)
      BY <1>4, <2>1 DEF SignalingReceive, Register, signalingVars
    <3>2. again \in Seq({Command(c) : c \in Commands})
      BY <1>0
    <3>3. <<Registered>> \in Seq({Registered} \cup {Command(c) : c \in Commands})
      OBVIOUS
    <3>4. <<Registered>> \o again \in Seq({Registered} \cup {Command(c) : c \in Commands})
      <4> HIDE DEF again
      <4>1. again \in Seq({Registered} \cup {Command(c) : c \in Commands})
        BY <3>2, SeqMonotonic
      <4> QED BY <3>3, <4>1
    <3>5. \A m \in {Registered, Rejected} \cup {Command(c) : c \in Commands} : m.kind # "ack"
      BY DEF Registered, Rejected, Command
    <3>6. downstream' = <<Rejected>> => \A i \in DOMAIN downstream' : downstream'[i] = Rejected
      OBVIOUS
    <3> HIDE DEF again
    <3>7. \A i \in DOMAIN downstream' : downstream'[i].kind # "ack"
      <4>1. CASE downstream' = <<Rejected>>
        BY <3>5, <3>6, <4>1
      <4>2. CASE downstream' = <<Registered>> \o again
        <5>1. downstream' \in Seq({Registered} \cup {Command(c) : c \in Commands})
          BY <3>4, <4>2
        <5> QED BY <3>5, <5>1
      <4> QED BY <3>1, <4>1, <4>2
    <3> QED BY <3>1, <3>7 DEF AckedReceived
  <2>2. CASE Head(upstream).kind = "event"
    <3> DEFINE id == Head(upstream).id
    <3>1. /\ downstream' = Append(downstream, Ack(id))
          /\ received' = IF Contains(received, id) THEN received ELSE Append(received, id)
      BY <1>4, <2>2 DEF SignalingReceive, Register
    <3> HIDE DEF id
    <3>2. ToSet(received') = ToSet(received) \cup {id}
      <4>1. CASE Contains(received, id)
        BY <1>0, <3>1, <4>1 DEF Contains, ToSet
      <4>2. CASE ~Contains(received, id)
        BY <1>0, <3>1, <4>2, QueueSets
      <4> QED BY <4>1, <4>2
    <3>3. \A i \in DOMAIN downstream' : \/ i \in DOMAIN downstream /\ downstream'[i] = downstream[i]
                                        \/ downstream'[i] = Ack(id)
      BY <1>0, <3>1
    <3> QED BY <3>2, <3>3 DEF AckedReceived, Ack
  <2>3. CASE Head(upstream).kind = "result"
    <3>1. UNCHANGED <<received, downstream>>
      BY <1>4, <2>3 DEF SignalingReceive, Register
    <3> QED BY <1>1, <3>1
  <2> QED BY <1>4, <2>1, <2>2, <2>3 DEF SignalingReceive
<1>5. CASE UNCHANGED received /\ (TakeMessage \/ FinishRegistration)
  <2>1. \/ downstream' = downstream \/ downstream' = <<>>
        \/ downstream # <<>> /\ downstream' = Tail(downstream)
    BY <1>5 DEF TakeMessage, FinishRegistration, CloseLink, linkVars
  <2> QED BY <1>1, <1>2, <1>5, <2>1
<1> QED
  BY <1>1, <1>3, <1>4, <1>5 DEF Next, WorkerStep, SessionStep, ShardStep, MainStep,
     Start, Connect, ConnectFails, FinishRegistration, ReplayEvent, QueueHealth, TakeEvent,
     TakeMessage, FinishSend, Transmit, Dispatch, FinishDispatch, Retry, ObserveStop, CloseLink,
     Finish, ShardCommand, ShardMedia, NumberEvent, SendEvent, FinishDrain, ShardStop,
     Interrupt, JoinService, JoinRedirect, ServiceEnded, BreakLink,
     vars, linkVars, signalingVars

\* Once the service closes it stays closed.
LEMMA ClosingStable == Closing /\ [Next]_vars => Closing'
BY DEF Closing, Next, WorkerStep, SessionStep, ShardStep, MainStep,
   Start, Connect, ConnectFails, FinishRegistration, ReplayEvent, QueueHealth, TakeEvent,
   TakeMessage, FinishSend, Dispatch, FinishDispatch, Retry, ObserveStop,
   Finish, ShardCommand, ShardMedia, NumberEvent, SendEvent, FinishDrain, ShardStop,
   Interrupt, JoinService, JoinRedirect, ServiceEnded, Issue, SignalingReceive, BreakLink,
   vars, sessionVars

\* A numbered event changes hands, from its shard to the channel, from there to
\* pending_events, and leaves those only when signaling has it.
LEMMA NoEventLostStep ==
    TypeInv /\ AckedReceived /\ NoEventLost /\ [Next]_vars => NoEventLost'
<1> SUFFICES ASSUME TypeInv, AckedReceived, NoEventLost, [Next]_vars, ~Closing,
                    NEW e \in 1..(nextId' - 1)
             PROVE  \/ Closing'
                    \/ e \in ToSet(received') \cup pending' \cup ToSet(eventQ') \cup Range(held')
  BY ClosingStable DEF NoEventLost
<1> DEFINE Kept == e \in ToSet(received) \cup pending \cup ToSet(eventQ) \cup Range(held)
           KeptNext == e \in ToSet(received') \cup pending' \cup ToSet(eventQ') \cup Range(held')
<1>0. /\ TypeOK /\ Stages /\ ToSet(received) \subseteq ToSet(received')
      /\ Len(source) \in Nat /\ source \in Seq(Shards \cup {Health}) /\ eventQ \in Seq(EventIds)
      /\ DOMAIN held = Shards
  BY AckedStep DEF TypeInv, TypeOK
<1>1. source' = source => Kept
  BY DEF NoEventLost, nextId
<1>2. \A x : source' = Append(source, x) => Kept \/ e = nextId
  <2>1. \A x : Len(Append(source, x)) = Len(source) + 1
    BY <1>0
  <2> QED BY <1>0, <2>1 DEF NoEventLost, nextId
<1>3. CASE UNCHANGED <<source, pending, eventQ, held>>
  BY <1>0, <1>1, <1>3
<1>4. CASE QueueHealth
  BY <1>0, <1>1, <1>2, <1>4 DEF QueueHealth, shardVars
<1>5. CASE TakeEvent
  <2>1. /\ UNCHANGED <<source, held>> /\ eventQ # <<>> /\ eventQ' = Tail(eventQ)
        /\ pending' = pending \cup {Head(eventQ)}
    BY <1>5 DEF TakeEvent, shardVars
  <2>2. ToSet(eventQ) = {Head(eventQ)} \cup ToSet(Tail(eventQ))
    BY <1>0, <2>1, QueueSets
  <2> QED BY <1>0, <1>1, <2>1, <2>2
<1>6. CASE TakeMessage
  <2>1. UNCHANGED <<source, eventQ, held>>
    BY <1>6 DEF TakeMessage, channelVars, shardVars
  <2>2. ASSUME downstream # <<>>, Head(downstream).kind = "ack",
               pending' = pending \ {Head(downstream).id}
        PROVE  KeptNext
    <3>1. downstream \in Seq(DownMessages)
      BY DEF TypeInv, Shape
    <3>2. 1 \in DOMAIN downstream /\ Head(downstream) = downstream[1]
      BY <2>2, <3>1
    <3>3. Head(downstream).id \in ToSet(received)
      BY <2>2, <3>2 DEF AckedReceived
    <3> QED BY <1>0, <1>1, <2>1, <2>2, <3>3
  <2>3. CASE pending' = pending
    BY <1>3, <2>1, <2>3
  <2> QED BY <1>6, <2>2, <2>3 DEF TakeMessage
<1>7. ASSUME NEW s \in Shards, NumberEvent(s) PROVE KeptNext
  <2>1. /\ held[s] = None /\ held' = [held EXCEPT ![s] = nextId] /\ source' = Append(source, s)
        /\ UNCHANGED <<pending, eventQ>>
    BY <1>7 DEF NumberEvent, sessionVars
  <2>2. Range(held) \subseteq Range(held') \cup {None} /\ nextId \in Range(held')
    BY <1>0, <2>1 DEF Range
  <2>3. e # None
    BY DEF None
  <2> QED BY <1>0, <1>2, <2>1, <2>2, <2>3
<1>8. ASSUME NEW s \in Shards, SendEvent(s) PROVE KeptNext
  <2>1. receiver
    BY <1>0, <1>8 DEF SendEvent, Stages, Closing
  <2>2. /\ held' = [held EXCEPT ![s] = None] /\ eventQ' = Append(eventQ, held[s])
        /\ UNCHANGED <<source, pending>>
    BY <1>8, <2>1 DEF SendEvent, sessionVars
  <2>3. Range(held) \subseteq Range(held') \cup {held[s]}
    BY <1>0, <2>2 DEF Range
  <2>4. ToSet(eventQ') = ToSet(eventQ) \cup {held[s]}
    BY <1>0, <2>2, QueueSets
  <2> QED BY <1>0, <1>1, <2>2, <2>3, <2>4
<1>9. CASE ObserveStop
  BY <1>9 DEF ObserveStop, Closing
<1>10. \/ UNCHANGED <<source, pending, eventQ, held>>
       \/ QueueHealth \/ TakeEvent \/ TakeMessage \/ ObserveStop
       \/ \E s \in Shards : NumberEvent(s) \/ SendEvent(s)
  BY DEF Next, WorkerStep, SessionStep, ShardStep, MainStep,
     Start, Connect, ConnectFails, FinishRegistration, ReplayEvent,
     FinishSend, Dispatch, FinishDispatch, Retry, Finish, ShardCommand, ShardMedia, FinishDrain,
     ShardStop, Interrupt, JoinService, JoinRedirect, ServiceEnded, Issue, SignalingReceive,
     BreakLink, vars, sessionVars, channelVars, shardVars
<1> QED BY <1>3, <1>4, <1>5, <1>6, <1>7, <1>8, <1>9, <1>10

\* Until the worker shuts down no numbered event is lost, at whichever point of
\* a session the stream breaks.
THEOREM NoEventLostHolds == Spec => []NoEventLost
<1>1. Init => AckedReceived /\ NoEventLost
  BY DEF Init, AckedReceived, NoEventLost, nextId
<1> QED BY <1>1, TypeInvHolds, AckedStep, NoEventLostStep, PTL DEF Spec

-----------------------------------------------------------------------------
(* The order of events.                                                     *)

Ids == 1..Len(source)

\* An event that run_session has not taken yet.
Untaken(id) == id \in ToSet(eventQ) \/ id \in Range(held)

\* The session's messages to signaling, with the one it is about to send.
Pipe == IF session = "sending" THEN Append(upstream, inHand) ELSE upstream

Carries(id) == Event(id) \in ToSet(Pipe)

\* Two events of one shard.
SameShard(a, b) == source[a] = source[b] /\ source[a] # Health

\* Only numbers that were drawn are in the system, and what run_session has not
\* taken is nowhere but in the channel or with its shard.
Drawn ==
    /\ pending \subseteq Ids /\ replay \subseteq Ids /\ replayed \subseteq Ids
    /\ ToSet(received) \subseteq Ids /\ ToSet(eventQ) \subseteq Ids
    /\ \A s \in Shards : held[s] # None => held[s] \in Ids
    /\ \A id \in EventIds : Carries(id) => id \in Ids
    /\ \A id \in Ids : Untaken(id) =>
          id \notin pending \cup replay \cup replayed \cup ToSet(received) /\ ~Carries(id)

\* A shard numbers its events in turn and the channel keeps their order.
ChannelOrder ==
    /\ \A s \in Shards : held[s] # None =>
          source[held[s]] = s /\ \A b \in Ids : source[b] = s => b <= held[s]
    /\ \A q \in DOMAIN eventQ : \A b \in Ids :
          source[b] = source[eventQ[q]] /\ b > eventQ[q] => Untaken(b)
    /\ \A p, q \in DOMAIN eventQ :
          p < q /\ source[eventQ[p]] = source[eventQ[q]] => eventQ[p] < eventQ[q]
    /\ \A q \in DOMAIN eventQ : source[eventQ[q]] # Health /\ eventQ[q] \notin Range(held)
    /\ receiver \/ eventQ = <<>>

\* The states in which a session sends events.
Active == {"replaying", "select", "sending", "dispatching", "awaiting"}

\* The stream is empty when it is down and between two sessions; until the
\* pending events have gone out again nothing else goes out.
Sessions ==
    /\ link = "down" => upstream = <<>>
    /\ session \in {"starting", "failed", "connecting", "backoff", "closing", "done"}
          => link = "down"
    /\ session \in {"registering", "replaying"} =>
          \A id \in EventIds : Carries(id) => id \in replayed
    /\ session \in Active \ {"replaying"} => replay = {}

\* While the stream is up, what was taken is accepted, on its way, or about to be
\* sent again.
SentOrReplaying ==
    link # "down" /\ session \in Active =>
        \A b \in Ids : source[b] # Health /\ ~Untaken(b) =>
            b \in ToSet(received) \cup replay \/ Carries(b)

\* A first transmission follows everything older of its shard and precedes
\* everything younger.
FreshInOrder ==
    link # "down" =>
        \A p \in DOMAIN Pipe : \A x \in Ids : Pipe[p] = Event(x) /\ x \notin replayed =>
            \A y \in Ids : SameShard(x, y) =>
                /\ y > x => /\ y \notin ToSet(received) \cup replayed
                            /\ \A o \in 1..(p - 1) : Pipe[o] # Event(y)
                /\ y < x => \/ y \in ToSet(received)
                            \/ \E o \in 1..(p - 1) : Pipe[o] = Event(y)

\* When a first transmission is accepted, everything older of its shard is.
FreshAccepted ==
    \A x \in ToSet(received) \ replayed : \A y \in Ids :
        SameShard(x, y) /\ y < x => y \in ToSet(received)

OrderInv == Drawn /\ ChannelOrder /\ Sessions /\ SentOrReplaying /\ FreshInOrder /\ FreshAccepted

-----------------------------------------------------------------------------
(* What a step does to the events, in nine kinds.                           *)

\* No event moves; a result may go out, and an acknowledgement may retire.
QuietStep ==
    /\ UNCHANGED <<source, eventQ, held, replayed, received, link>>
    /\ receiver => receiver'
    /\ pending' \subseteq pending
    /\ Pipe' = Pipe \/ \E c \in Commands : Pipe' = Append(Pipe, Result(c))
    /\ upstream' = upstream \/ link # "down"
    /\ \/ session' \in Active /\ session \in Active /\ replay' = replay
          /\ (session' = session \/ (session' # "replaying" /\ replay = {}))
       \/ session' \notin Active /\ replay' \subseteq replay
          /\ (session' = session \/ (session' # "registering" /\ link = "down"))

\* The stream goes, with what was on it.
CutStep ==
    /\ UNCHANGED <<source, held, replayed, received, pending>>
    /\ link' = "down" /\ upstream' = <<>>
    /\ ToSet(Pipe') \subseteq ToSet(Pipe) /\ replay' \subseteq replay
    /\ \/ UNCHANGED <<eventQ, receiver, session>>
       \/ UNCHANGED <<eventQ, receiver>> /\ session' = "backoff"
       \/ eventQ' = <<>> /\ receiver' = FALSE /\ session' = "closing"

\* A session begins.
OpenStep ==
    /\ UNCHANGED <<source, eventQ, held, receiver, replayed, received, pending, replay>>
    /\ Pipe' = <<Register>> /\ session' = "registering" /\ link' = "up"

RegisteredStep ==
    /\ UNCHANGED <<source, eventQ, held, receiver, replayed, received, pending, link, upstream>>
    /\ session = "registering" /\ session' = "replaying" /\ Pipe' = Pipe /\ replay' = pending

\* An event goes out again, or the session ends over it.
ReplayStep(id) ==
    /\ UNCHANGED <<source, eventQ, held, receiver, received, pending, link>>
    /\ id \in replay /\ session = "replaying"
    /\ replay' = replay \ {id} /\ replayed' = replayed \cup {id}
    /\ \/ Pipe' = Append(Pipe, Event(id)) /\ session' = "replaying" /\ link # "down"
       \/ Pipe' = Pipe /\ session' = "backoff" /\ link = "down" /\ upstream' = upstream

HealthStep ==
    /\ UNCHANGED <<eventQ, held, receiver, replayed, received, link, replay, upstream>>
    /\ nextId \in EventIds /\ source' = Append(source, Health)
    /\ pending' = pending \cup {nextId} /\ Pipe' = Append(Pipe, Event(nextId))
    /\ session \in Active /\ session' = "sending" /\ replay = {}

TakeStep ==
    /\ UNCHANGED <<source, held, receiver, replayed, received, link, replay, upstream>>
    /\ eventQ # <<>> /\ eventQ' = Tail(eventQ) /\ pending' = pending \cup {Head(eventQ)}
    /\ Pipe' = Append(Pipe, Event(Head(eventQ))) /\ session = "select" /\ session' = "sending"

\* Signaling takes a message, and accepts it if it is an event.
AcceptStep ==
    /\ UNCHANGED <<source, eventQ, held, receiver, replayed, session, pending, replay>>
    /\ Pipe # <<>> /\ Pipe' = Tail(Pipe) /\ link # "down" /\ link' # "down"
    /\ \/ \E id \in EventIds :
             /\ Head(Pipe) = Event(id)
             /\ received' = IF id \in ToSet(received) THEN received ELSE Append(received, id)
       \/ (\A id : Head(Pipe) # Event(id)) /\ received' = received

ShardsOnly ==
    UNCHANGED <<replayed, received, link, session, pending, replay, upstream, receiver>>
        /\ Pipe' = Pipe

\* The messages differ.
LEMMA Messages ==
    /\ \A a, b : Event(a) = Event(b) => a = b
    /\ \A a, c : Event(a) # Result(c) /\ Event(a) # Register
BY DEF Event, Result, Register

\* Every step is of one of the kinds.
LEMMA Kinds ==
    ASSUME TypeInv, Sessions, [Next]_vars
    PROVE  \/ QuietStep \/ CutStep \/ OpenStep \/ RegisteredStep
           \/ (\E id \in EventIds : ReplayStep(id))
           \/ HealthStep \/ TakeStep \/ AcceptStep
           \/ ShardsOnly /\ \E s \in Shards : NumberEvent(s) \/ SendEvent(s)
<1>0. TypeOK /\ upstream \in Seq(UpMessages) /\ Pipe \in Seq(UpMessages)
  BY DEF TypeInv, Shape, Pipe
<1>1. CASE UNCHANGED <<sessionVars, channelVars, held, link, upstream, received>>
  BY <1>1 DEF QuietStep, Pipe, Active, sessionVars, channelVars
<1>2. CASE Start \/ ConnectFails \/ Finish \/ Retry
  BY <1>2 DEF Start, ConnectFails, Finish, Retry, QuietStep, Pipe, Active, Sessions, channelVars,
     shardVars, linkVars, signalingVars
<1>3. CASE Connect
  BY <1>3 DEF Connect, OpenStep, Pipe, channelVars, shardVars, signalingVars
<1>4. CASE FinishRegistration
  BY <1>4 DEF FinishRegistration, CloseLink, RegisteredStep, CutStep, Pipe, ToSet, channelVars,
     shardVars, signalingVars
<1>5. ASSUME NEW id \in replay, ReplayEvent(id) PROVE ReplayStep(id) /\ id \in EventIds
  BY <1>0, <1>5 DEF ReplayEvent, Transmit, ReplayStep, Pipe, TypeOK, channelVars, shardVars,
     signalingVars, linkVars
<1>6. CASE QueueHealth
  <2>1. CASE Budget > 0
    <3>1. nextId \in EventIds
      BY <2>1, NextIdBounded
    <3> QED BY <1>6, <2>1, <3>1 DEF QueueHealth, HealthStep, Pipe, Active, Sessions, shardVars,
           linkVars, signalingVars
  <2>2. CASE ~(Budget > 0)
    BY <1>6, <2>2 DEF QueueHealth, QuietStep, Pipe, Active, shardVars, linkVars, signalingVars
  <2> QED BY <2>1, <2>2
<1>7. CASE TakeEvent
  BY <1>7 DEF TakeEvent, TakeStep, Pipe, shardVars, linkVars, signalingVars
<1>8. CASE TakeMessage
  <2>1. replay = {}
    BY <1>8 DEF TakeMessage, Sessions, Active
  <2>2. UNCHANGED <<source, eventQ, held, receiver, replayed, received, link, upstream, replay>>
    BY <1>8 DEF TakeMessage, channelVars, shardVars, linkVars, signalingVars
  <2>3. pending' \subseteq pending /\ Pipe' = Pipe
    BY <1>8, <2>2 DEF TakeMessage, Pipe
  <2> QED BY <1>8, <2>1, <2>2, <2>3 DEF TakeMessage, QuietStep, Active
<1>9. CASE FinishSend
  <2>1. CASE link = "down"
    BY <1>9, <2>1 DEF FinishSend, Transmit, CutStep, Pipe, Sessions, ToSet, channelVars,
       shardVars, linkVars, signalingVars
  <2>2. CASE link # "down"
    BY <1>9, <2>2 DEF FinishSend, Transmit, QuietStep, Sessions, Pipe, Active, channelVars,
       shardVars, signalingVars
  <2> QED BY <2>1, <2>2
<1>10. CASE Dispatch \/ FinishDispatch
  <2>1. inHand \in Commands
    BY <1>10 DEF Dispatch, FinishDispatch, TypeInv, Shape
  <2> QED BY <1>10, <2>1 DEF Dispatch, FinishDispatch, QuietStep, Pipe, Active, Sessions,
         channelVars, shardVars, linkVars, signalingVars
<1>11. CASE ObserveStop
  BY <1>11 DEF ObserveStop, CloseLink, CutStep, Pipe, ToSet, shardVars, signalingVars
<1>12. ASSUME NEW s \in Shards, NumberEvent(s) \/ SendEvent(s) PROVE ShardsOnly
  BY <1>12 DEF NumberEvent, SendEvent, ShardsOnly, Pipe, sessionVars, linkVars, signalingVars
<1>13. CASE SignalingReceive
  <2>1. /\ upstream # <<>> /\ upstream' = Tail(upstream)
        /\ UNCHANGED <<source, eventQ, held, receiver, replayed, session, pending, replay, inHand>>
    BY <1>13 DEF SignalingReceive, sessionVars, channelVars, shardVars
  <2>2. link # "down" /\ link' # "down"
    BY <1>13, <2>1 DEF Sessions, SignalingReceive, Register
  <2>3. Pipe # <<>> /\ Head(Pipe) = Head(upstream) /\ Pipe' = Tail(Pipe)
    <3>1. CASE session = "sending"
      <4>1. inHand \in UpMessages
        BY <3>1 DEF TypeInv, Shape
      <4>2. /\ Append(upstream, inHand) # <<>> /\ Head(Append(upstream, inHand)) = Head(upstream)
            /\ Append(Tail(upstream), inHand) = Tail(Append(upstream, inHand))
        BY <1>0, <2>1, <4>1
      <4> QED BY <2>1, <3>1, <4>2 DEF Pipe
    <3>2. CASE session # "sending"
      BY <2>1, <3>2 DEF Pipe
    <3> QED BY <3>1, <3>2
  <2>4. Head(upstream) \in UpMessages
    BY <1>0, <2>1
  <2>5. CASE Head(upstream).kind = "event"
    <3>1. PICK id \in EventIds : Head(upstream) = Event(id)
      BY <2>4, <2>5 DEF UpMessages, Register, Result
    <3>2. id = Head(upstream).id
      BY <3>1 DEF Event
    <3>3. received' = IF Contains(received, id) THEN received ELSE Append(received, id)
      BY <1>13, <2>5, <3>2 DEF SignalingReceive, Register
    <3>4. Contains(received, id) <=> id \in ToSet(received)
      BY <1>0 DEF TypeOK, Contains, ToSet
    <3> QED BY <2>1, <2>2, <2>3, <3>1, <3>3, <3>4 DEF AcceptStep
  <2>6. CASE Head(upstream).kind # "event"
    <3>1. received' = received
      BY <1>13, <2>6 DEF SignalingReceive, signalingVars
    <3>2. \A id : Head(upstream) # Event(id)
      BY <2>6 DEF Event
    <3> QED BY <2>1, <2>2, <2>3, <3>1, <3>2 DEF AcceptStep
  <2> QED BY <2>5, <2>6
<1>14. CASE BreakLink
  <2>1. ToSet(Pipe') \subseteq ToSet(Pipe)
    <3>1. CASE session = "sending"
      <4>1. Pipe = Append(upstream, inHand) /\ Pipe' = Append(<<>>, inHand)
        BY <1>14, <3>1 DEF BreakLink, Pipe, sessionVars
      <4>2. Pipe' = <<inHand>>
        BY <4>1
      <4>3. inHand \in ToSet(Pipe)
        BY <1>0, <4>1, QueueSets
      <4> QED BY <4>2, <4>3 DEF ToSet
    <3>2. CASE session # "sending"
      BY <1>14, <3>2 DEF BreakLink, Pipe, ToSet, sessionVars
    <3> QED BY <3>1, <3>2
  <2> QED BY <1>14, <2>1 DEF BreakLink, CutStep, sessionVars, channelVars, shardVars,
         signalingVars
<1> QED
  BY <1>1, <1>2, <1>3, <1>4, <1>5, <1>6, <1>7, <1>8, <1>9, <1>10, <1>11, <1>12, <1>13, <1>14
  DEF Next, WorkerStep, SessionStep, ShardStep, MainStep, ShardCommand, ShardMedia,
      FinishDrain, ShardStop, Interrupt, JoinService, JoinRedirect, ServiceEnded, Issue,
      vars, sessionVars, channelVars, shardVars, linkVars, signalingVars

\* What the session carries after it adds a message, and after signaling has
\* taken one.
LEMMA CarriesStep ==
    ASSUME TypeInv
    PROVE  /\ \A m : Pipe' = Append(Pipe, m) =>
                  \A id : Carries(id)' <=> Carries(id) \/ m = Event(id)
           /\ Pipe # <<>> /\ Pipe' = Tail(Pipe) =>
                  \A id : Carries(id) <=> Carries(id)' \/ Head(Pipe) = Event(id)
           /\ ToSet(Pipe') \subseteq ToSet(Pipe) => \A id : Carries(id)' => Carries(id)
           /\ Pipe' = <<Register>> => \A id : ~Carries(id)'
<1>1. Pipe \in Seq(UpMessages)
  BY DEF TypeInv, Shape, Pipe
<1>2. ASSUME NEW m, Pipe' = Append(Pipe, m), NEW id
      PROVE  Carries(id)' <=> Carries(id) \/ m = Event(id)
  <2>1. ToSet(Append(Pipe, m)) = ToSet(Pipe) \cup {m}
    BY <1>1, QueueSets
  <2>2. ToSet(Pipe)' = ToSet(Pipe) \cup {m}
    BY <1>2, <2>1 DEF ToSet
  <2> QED BY <2>2 DEF Carries
<1>3. ASSUME Pipe # <<>>, Pipe' = Tail(Pipe), NEW id
      PROVE  Carries(id) <=> Carries(id)' \/ Head(Pipe) = Event(id)
  <2>1. ToSet(Pipe) = {Head(Pipe)} \cup ToSet(Tail(Pipe))
    BY <1>1, <1>3, QueueSets
  <2>2. ToSet(Pipe)' = ToSet(Tail(Pipe))
    BY <1>3 DEF ToSet
  <2> QED BY <2>1, <2>2 DEF Carries
<1>4. ASSUME ToSet(Pipe') \subseteq ToSet(Pipe), NEW id, Carries(id)' PROVE Carries(id)
  BY <1>4 DEF Carries
<1>5. ASSUME Pipe' = <<Register>>, NEW id PROVE ~Carries(id)'
  <2>1. ToSet(Pipe') = {Register}
    BY <1>5 DEF ToSet
  <2> QED BY <2>1, Messages DEF Carries
<1> QED BY <1>2, <1>3, <1>4, <1>5

\* A number drawn is new, and the others keep their source.
LEMMA IdsStep ==
    ASSUME TypeOK, NEW x, source' = Append(source, x)
    PROVE  /\ Ids' = Ids \cup {nextId} /\ nextId \notin Ids /\ source'[nextId] = x
           /\ \A b \in Ids : source'[b] = source[b] /\ b < nextId
<1>1. source \in Seq(Shards \cup {Health})
  BY DEF TypeOK
<1>2. /\ Len(Append(source, x)) = Len(source) + 1 /\ Len(source) \in Nat
      /\ \A b \in 1..Len(source) : Append(source, x)[b] = source[b]
      /\ Append(source, x)[Len(source) + 1] = x
  BY <1>1
<1> QED BY <1>2 DEF Ids, nextId

\* An event that run_session takes is taken for the first time.
LEMMA TakenStep ==
    ASSUME TypeInv, OrderInv, TakeStep, NEW h, h = Head(eventQ)
    PROVE  /\ h \in Ids /\ Untaken(h) /\ ~Untaken(h)' /\ eventQ \in Seq(EventIds)
           /\ 1 \in DOMAIN eventQ /\ h = eventQ[1]
           /\ \A i \in DOMAIN eventQ' :
                 i + 1 \in DOMAIN eventQ /\ 1 < i + 1 /\ eventQ'[i] = eventQ[i + 1]
           /\ \A x : Untaken(x) <=> Untaken(x)' \/ x = h
           /\ \A x : Carries(x)' <=> Carries(x) \/ x = h
<1>0. /\ eventQ \in Seq(EventIds) /\ Drawn /\ eventQ # <<>> /\ eventQ' = Tail(eventQ)
  BY DEF TakeStep, TypeInv, TypeOK, OrderInv
<1>1. ToSet(eventQ) = {h} \cup ToSet(eventQ')
  BY <1>0, QueueSets
<1>2. /\ 1 \in DOMAIN eventQ /\ h = eventQ[1] /\ h \in EventIds
      /\ \A i \in DOMAIN eventQ' :
            i + 1 \in DOMAIN eventQ /\ 1 < i + 1 /\ eventQ'[i] = eventQ[i + 1]
  BY <1>0
<1>3. ASSUME h \in ToSet(Tail(eventQ)) PROVE FALSE
  <2>1. PICK i \in DOMAIN Tail(eventQ) : h = Tail(eventQ)[i]
    BY <1>3 DEF ToSet
  <2>2. \A p, q \in DOMAIN eventQ :
            p < q /\ source[eventQ[p]] = source[eventQ[q]] => eventQ[p] < eventQ[q]
    BY DEF OrderInv, ChannelOrder
  <2>3. eventQ[1] = eventQ[i + 1] /\ i + 1 \in DOMAIN eventQ /\ 1 < i + 1
    BY <1>0, <1>2, <2>1
  <2>4. eventQ[1] < eventQ[i + 1]
    BY <1>2, <2>2, <2>3
  <2> QED BY <1>2, <2>3, <2>4 DEF EventIds
<1>4. h \notin Range(held)
  BY <1>2 DEF OrderInv, ChannelOrder
<1>5. Range(held)' = Range(held) /\ ToSet(eventQ)' = ToSet(Tail(eventQ))
  BY <1>0 DEF TakeStep, ToSet, Range
<1>6. Untaken(h) /\ ~Untaken(h)' /\ \A x : Untaken(x) <=> Untaken(x)' \/ x = h
  BY <1>0, <1>1, <1>3, <1>4, <1>5 DEF Untaken
<1>7. h \in Ids
  BY <1>0, <1>1 DEF Drawn
<1>8. \A x : Carries(x)' <=> Carries(x) \/ x = h
  BY CarriesStep, Messages DEF TakeStep
<1> QED BY <1>0, <1>2, <1>6, <1>7, <1>8

\* A number comes into the system when it is drawn, and what is taken from the
\* channel has not been taken before.
LEMMA DrawnStep == TypeInv /\ OrderInv /\ [Next]_vars => Drawn'
<1> SUFFICES ASSUME TypeInv, OrderInv, [Next]_vars PROVE Drawn'
  OBVIOUS
<1>0. /\ TypeOK /\ Drawn /\ Sessions /\ Ids \subseteq EventIds /\ None \notin EventIds
      /\ eventQ \in Seq(EventIds) /\ received \in Seq(EventIds) /\ DOMAIN held = Shards
  BY SessionAssumption DEF TypeInv, OrderInv, TypeOK, Ids, EventIds, None
<1>a. source' = source => Ids' = Ids
  BY DEF Ids
<1>b. eventQ' = eventQ /\ held' = held => \A id : Untaken(id)' <=> Untaken(id)
  BY DEF Untaken, ToSet, Range
<1>1. CASE QuietStep
  <2>1. \A id : Carries(id)' <=> Carries(id)
    BY <1>1, CarriesStep, Messages DEF QuietStep, Carries, ToSet
  <2> QED BY <1>0, <1>1, <1>a, <1>b, <2>1 DEF QuietStep, Drawn, ToSet
<1>2. CASE CutStep
  <2>1. \A id : Carries(id)' => Carries(id)
    BY <1>2, CarriesStep DEF CutStep
  <2>2. ToSet(eventQ') \subseteq ToSet(eventQ) /\ \A id : Untaken(id)' => Untaken(id)
    BY <1>2 DEF CutStep, Untaken, ToSet
  <2> QED BY <1>0, <1>2, <1>a, <2>1, <2>2 DEF CutStep, Drawn, ToSet
<1>3. CASE OpenStep
  BY <1>0, <1>3, <1>a, <1>b, CarriesStep DEF OpenStep, Drawn, ToSet
<1>4. CASE RegisteredStep
  <2>1. \A id : Carries(id)' <=> Carries(id)
    BY <1>4 DEF RegisteredStep, Carries, ToSet
  <2> QED BY <1>0, <1>4, <1>a, <1>b, <2>1 DEF RegisteredStep, Drawn, ToSet
<1>5. ASSUME NEW id \in EventIds, ReplayStep(id) PROVE Drawn'
  <2>1. \A x : Carries(x)' => Carries(x) \/ x = id
    BY <1>5, CarriesStep, Messages DEF ReplayStep, Carries, ToSet
  <2> QED BY <1>0, <1>5, <1>a, <1>b, <2>1 DEF ReplayStep, Drawn, ToSet
<1>6. CASE HealthStep
  <2>1. \A x : Carries(x)' => Carries(x) \/ x = nextId
    BY <1>6, CarriesStep, Messages DEF HealthStep
  <2>2. Ids' = Ids \cup {nextId} /\ nextId \notin Ids /\ nextId \in EventIds
    BY <1>0, <1>6, IdsStep DEF HealthStep
  <2>3. ~Untaken(nextId)
    BY <1>0, <2>2 DEF Drawn, Untaken, Range
  <2> QED BY <1>0, <1>6, <1>b, <2>1, <2>2, <2>3 DEF HealthStep, Drawn, ToSet
<1>7. CASE TakeStep
  <2>0. PICK h \in EventIds : h = Head(eventQ)
    BY <1>0, <1>7 DEF TakeStep
  <2>1. /\ h \in Ids /\ ~Untaken(h)' /\ \A x : Untaken(x)' => Untaken(x)
        /\ \A x : Carries(x)' => Carries(x) \/ x = h
    BY <1>7, <2>0, TakenStep
  <2>5. /\ UNCHANGED <<source, held, replayed, received, replay>> /\ pending' = pending \cup {h}
    BY <1>7, <2>0 DEF TakeStep
  <2>6. ToSet(eventQ)' \subseteq Ids
    <3>1. ToSet(eventQ) = {h} \cup ToSet(eventQ')
      BY <1>0, <1>7, <2>0, QueueSets DEF TakeStep
    <3> QED BY <1>0, <3>1 DEF Drawn, ToSet
  <2>7. ToSet(received)' = ToSet(received) /\ Ids' = Ids
    BY <1>a, <2>5 DEF ToSet
  <2>8. \A x \in Ids : Untaken(x)' =>
            x \notin pending' \cup replay' \cup replayed' \cup ToSet(received)' /\ ~Carries(x)'
    BY <1>0, <2>1, <2>5, <2>7 DEF Drawn
  <2> QED BY <1>0, <2>1, <2>5, <2>6, <2>7, <2>8 DEF Drawn
<1>8. CASE AcceptStep
  <2>1. \A x : Carries(x)' => Carries(x)
    BY <1>8, CarriesStep DEF AcceptStep
  <2>2. \A x \in ToSet(received') : x \in ToSet(received) \/ (x \in EventIds /\ Carries(x))
    <3>1. ASSUME NEW id \in EventIds, Head(Pipe) = Event(id),
                 received' = IF id \in ToSet(received) THEN received ELSE Append(received, id)
          PROVE  ToSet(received') \subseteq ToSet(received) \cup {id} /\ Carries(id)
      <4>1. ToSet(Append(received, id)) = ToSet(received) \cup {id}
        BY <1>0, QueueSets
      <4>2. Carries(id)
        BY <1>8, <3>1, CarriesStep DEF AcceptStep
      <4> QED BY <3>1, <4>1, <4>2
    <3> QED BY <1>8, <3>1 DEF AcceptStep
  <2> QED BY <1>0, <1>8, <1>a, <1>b, <2>1, <2>2 DEF AcceptStep, Drawn, ToSet
<1>9. ASSUME NEW s \in Shards, ShardsOnly, NumberEvent(s) PROVE Drawn'
  <2>1. held[s] = None /\ held' = [held EXCEPT ![s] = nextId] /\ eventQ' = eventQ
    BY <1>9 DEF NumberEvent
  <2>2. /\ Ids' = Ids \cup {nextId} /\ nextId \notin Ids
    BY <1>0, <1>9, IdsStep DEF NumberEvent
  <2>3. \A x : Untaken(x)' => Untaken(x) \/ x = nextId
    BY <1>0, <2>1 DEF Untaken, ToSet, Range
  <2>4. \A x : Carries(x)' <=> Carries(x)
    BY <1>9 DEF ShardsOnly, Carries, ToSet
  <2>5. nextId \in EventIds
    BY <1>9, NextIdBounded DEF NumberEvent
  <2>6. nextId \notin pending \cup replay \cup replayed \cup ToSet(received) /\ ~Carries(nextId)
    BY <1>0, <2>2, <2>5 DEF Drawn
  <2>7. ASSUME NEW t \in Shards, held'[t] # None PROVE held'[t] \in Ids'
    BY <1>0, <2>1, <2>2, <2>7 DEF Drawn
  <2> QED BY <1>0, <1>9, <2>1, <2>2, <2>3, <2>4, <2>6, <2>7 DEF ShardsOnly, Drawn, ToSet
<1>10. ASSUME NEW s \in Shards, ShardsOnly, SendEvent(s) PROVE Drawn'
  <2>1. /\ held[s] # None /\ held' = [held EXCEPT ![s] = None] /\ source' = source
        /\ eventQ' = eventQ \/ eventQ' = Append(eventQ, held[s])
    BY <1>10 DEF SendEvent
  <2>2. ToSet(eventQ') \subseteq ToSet(eventQ) \cup {held[s]}
    BY <1>0, <2>1, QueueSets
  <2>3. \A x : Untaken(x)' => Untaken(x) \/ x = None
    BY <1>0, <2>1, <2>2 DEF Untaken, ToSet, Range
  <2>4. \A x : Carries(x)' <=> Carries(x)
    BY <1>10 DEF ShardsOnly, Carries, ToSet
  <2>5. \A t \in Shards : held'[t] # None => held'[t] \in Ids
    BY <1>0, <2>1 DEF Drawn
  <2>6. ToSet(eventQ') \subseteq Ids
    BY <1>0, <2>1, <2>2 DEF Drawn
  <2> QED BY <1>0, <1>10, <1>a, <2>1, <2>3, <2>4, <2>5, <2>6 DEF ShardsOnly, Drawn, ToSet
<1> QED BY <1>0, <1>1, <1>2, <1>3, <1>4, <1>5, <1>6, <1>7, <1>8, <1>9, <1>10, Kinds

\* The channel keeps the order in which a shard numbers its events.
LEMMA ChannelOrderStep == TypeInv /\ OrderInv /\ [Next]_vars => ChannelOrder'
<1> SUFFICES ASSUME TypeInv, OrderInv, [Next]_vars PROVE ChannelOrder'
  OBVIOUS
<1>0. /\ TypeOK /\ Drawn /\ Sessions /\ ChannelOrder /\ Ids \subseteq EventIds
      /\ None \notin EventIds /\ EventIds \subseteq Nat /\ Health \notin Shards
      /\ eventQ \in Seq(EventIds) /\ DOMAIN held = Shards
  BY SessionAssumption DEF TypeInv, OrderInv, TypeOK, Ids, EventIds, None
<1>a. \A q \in DOMAIN eventQ : eventQ[q] \in Ids /\ eventQ[q] \in ToSet(eventQ)
  BY <1>0 DEF Drawn, ToSet
<1>1. CASE UNCHANGED <<source, eventQ, held>> /\ (receiver => receiver')
  BY <1>0, <1>1 DEF ChannelOrder, Ids, Untaken, ToSet, Range
<1>2. CASE UNCHANGED <<source, held>> /\ eventQ' = <<>>
  <2>1. DOMAIN eventQ' = {}
    BY <1>2
  <2> QED BY <1>0, <1>2, <2>1 DEF ChannelOrder, Ids
<1>3. CASE HealthStep
  <2>1. UNCHANGED <<eventQ, held, receiver>> /\ source' = Append(source, Health)
    BY <1>3 DEF HealthStep
  <2>2. /\ Ids' = Ids \cup {nextId} /\ nextId \notin Ids /\ source'[nextId] = Health
        /\ \A b \in Ids : source'[b] = source[b]
    BY <1>0, <2>1, IdsStep
  <2>3. \A b : Untaken(b)' <=> Untaken(b)
    BY <2>1 DEF Untaken, ToSet, Range
  <2>4. ASSUME NEW s \in Shards, held[s] # None
        PROVE  source'[held[s]] = s /\ \A b \in Ids' : source'[b] = s => b <= held[s]
    BY <1>0, <2>2, <2>4 DEF ChannelOrder, Drawn
  <2>5. ASSUME NEW q \in DOMAIN eventQ, NEW b \in Ids', source'[b] = source'[eventQ[q]],
               b > eventQ[q]
        PROVE  Untaken(b)
    BY <1>0, <1>a, <2>2, <2>5 DEF ChannelOrder
  <2>6. \A p, q \in DOMAIN eventQ :
            p < q /\ source'[eventQ[p]] = source'[eventQ[q]] => eventQ[p] < eventQ[q]
    BY <1>0, <1>a, <2>2 DEF ChannelOrder
  <2>7. \A q \in DOMAIN eventQ : source'[eventQ[q]] # Health /\ eventQ[q] \notin Range(held)
    BY <1>0, <1>a, <2>2 DEF ChannelOrder
  <2>8. (receiver \/ eventQ = <<>>)' /\ Range(held)' = Range(held)
    BY <1>0, <2>1 DEF ChannelOrder, Range
  <2> QED BY <2>1, <2>3, <2>4, <2>5, <2>6, <2>7, <2>8 DEF ChannelOrder
<1>4. CASE TakeStep
  <2>1. UNCHANGED <<source, held, receiver>> /\ Ids' = Ids
    BY <1>4 DEF TakeStep, Ids
  <2>2. PICK h \in EventIds : h = Head(eventQ)
    <3>1. eventQ # <<>>
      BY <1>4 DEF TakeStep
    <3>2. Head(eventQ) \in EventIds
      BY <1>0, <3>1
    <3> QED BY <3>2
  <2>3. /\ h = eventQ[1] /\ 1 \in DOMAIN eventQ /\ \A x : Untaken(x) <=> Untaken(x)' \/ x = h
        /\ \A i \in DOMAIN eventQ' :
              i + 1 \in DOMAIN eventQ /\ 1 < i + 1 /\ eventQ'[i] = eventQ[i + 1]
    BY <1>4, <2>2, TakenStep
  <2>4. ASSUME NEW q \in DOMAIN eventQ', NEW b \in Ids,
               source[b] = source[eventQ'[q]], b > eventQ'[q]
        PROVE  Untaken(b)'
    <3>1. Untaken(b)
      BY <1>0, <2>3, <2>4 DEF ChannelOrder
    <3>2. CASE b = h
      <4>1. eventQ[1] < eventQ[q + 1]
        BY <1>0, <2>3, <2>4, <3>2 DEF ChannelOrder
      <4>2. eventQ[1] \in Nat /\ eventQ[q + 1] \in Nat
        BY <1>0, <1>a, <2>3
      <4> QED BY <2>3, <2>4, <3>2, <4>1, <4>2
    <3> QED BY <2>3, <3>1, <3>2
  <2>5. ASSUME NEW p \in DOMAIN eventQ', NEW q \in DOMAIN eventQ', p < q,
               source[eventQ'[p]] = source[eventQ'[q]]
        PROVE  eventQ'[p] < eventQ'[q]
    <3>1. p + 1 < q + 1
      BY <1>0, <1>4, <2>5 DEF TakeStep
    <3>2. p + 1 \in DOMAIN eventQ /\ q + 1 \in DOMAIN eventQ
      BY <2>3
    <3> QED BY <1>0, <2>3, <2>5, <3>1, <3>2 DEF ChannelOrder
  <2>6. \A q \in DOMAIN eventQ' : source[eventQ'[q]] # Health /\ eventQ'[q] \notin Range(held)
    BY <1>0, <2>3 DEF ChannelOrder
  <2>7. receiver
    BY <1>0, <2>3 DEF ChannelOrder
  <2> QED BY <1>0, <2>1, <2>4, <2>5, <2>6, <2>7 DEF ChannelOrder, Range
<1>5. ASSUME NEW s \in Shards, NumberEvent(s) PROVE ChannelOrder'
  <2>1. /\ held[s] = None /\ held' = [held EXCEPT ![s] = nextId]
        /\ source' = Append(source, s) /\ UNCHANGED <<eventQ, receiver>>
    BY <1>5 DEF NumberEvent
  <2>2. /\ Ids' = Ids \cup {nextId} /\ nextId \notin Ids /\ source'[nextId] = s
        /\ \A b \in Ids : source'[b] = source[b] /\ b < nextId
    BY <1>0, <2>1, IdsStep
  <2>3. \A b \in Ids' : Untaken(b) \/ b = nextId => Untaken(b)'
    <3>1. nextId \in Range(held') /\ \A b \in Range(held) : b = None \/ b \in Range(held')
      BY <1>0, <2>1 DEF Range
    <3>2. None \notin Ids'
      BY <1>0, <2>2 DEF nextId, None, TypeOK
    <3> QED BY <2>1, <3>1, <3>2 DEF Untaken, ToSet, Range
  <2>4. \A t \in Shards : held'[t] = IF t = s THEN nextId ELSE held[t]
    BY <1>0, <2>1
  <2>5. ASSUME NEW t \in Shards, held'[t] # None
        PROVE  source'[held'[t]] = t /\ \A b \in Ids' : source'[b] = t => b <= held'[t]
    <3>1. CASE t = s
      BY <1>0, <2>2, <2>4, <3>1 DEF nextId, TypeOK
    <3>2. CASE t # s
      <4>1. held[t] # None /\ held'[t] = held[t] /\ held[t] \in Ids
        BY <1>0, <2>4, <2>5, <3>2 DEF Drawn
      <4> QED BY <1>0, <2>2, <3>2, <4>1 DEF ChannelOrder
    <3> QED BY <3>1, <3>2
  <2>6. \A q \in DOMAIN eventQ : eventQ[q] \notin Range(held')
    <3>1. \A b \in Range(held') : b = nextId \/ b \in Range(held)
      BY <1>0, <2>1 DEF Range
    <3> QED BY <1>0, <1>a, <2>2, <3>1 DEF ChannelOrder
  <2>7. ASSUME NEW q \in DOMAIN eventQ, NEW b \in Ids',
               source'[b] = source'[eventQ[q]], b > eventQ[q]
        PROVE  Untaken(b)'
    BY <1>0, <1>a, <2>2, <2>3, <2>7 DEF ChannelOrder
  <2>8. \A p, q \in DOMAIN eventQ :
            p < q /\ source'[eventQ[p]] = source'[eventQ[q]] => eventQ[p] < eventQ[q]
    BY <1>0, <1>a, <2>2 DEF ChannelOrder
  <2>9. \A q \in DOMAIN eventQ : source'[eventQ[q]] # Health
    BY <1>0, <1>a, <2>2 DEF ChannelOrder
  <2> QED BY <1>0, <2>1, <2>5, <2>6, <2>7, <2>8, <2>9 DEF ChannelOrder, Range
<1>6. ASSUME NEW s \in Shards, SendEvent(s), ~receiver PROVE ChannelOrder'
  <2>1. /\ UNCHANGED <<eventQ, source, receiver>> /\ held' = [held EXCEPT ![s] = None]
        /\ eventQ = <<>>
    BY <1>0, <1>6 DEF SendEvent, ChannelOrder
  <2>2. DOMAIN eventQ = {}
    BY <2>1
  <2>3. \A t \in Shards : held'[t] # None => held'[t] = held[t]
    BY <1>0, <2>1
  <2>4. DOMAIN eventQ' = {} /\ Ids' = Ids
    BY <2>1, <2>2 DEF Ids
  <2> QED BY <1>0, <2>1, <2>3, <2>4 DEF ChannelOrder
<1>7. ASSUME NEW s \in Shards, SendEvent(s), receiver PROVE ChannelOrder'
  <2>0. PICK h \in EventIds : h = held[s]
    BY <1>0, <1>7 DEF SendEvent, TypeOK
  <2>1. /\ UNCHANGED <<source, receiver>> /\ held' = [held EXCEPT ![s] = None]
        /\ eventQ' = Append(eventQ, h) /\ h # None /\ Ids' = Ids
    BY <1>7, <2>0 DEF SendEvent, Ids
  <2>2. \A q \in DOMAIN eventQ' :
            \/ q \in DOMAIN eventQ /\ eventQ'[q] = eventQ[q]
            \/ q = Len(eventQ) + 1 /\ eventQ'[q] = h
    BY <1>0, <2>1
  <2>3. source[h] = s /\ (\A b \in Ids : source[b] = s => b <= h) /\ h \in Ids /\ h \in Range(held)
    BY <1>0, <2>0, <2>1 DEF ChannelOrder, Drawn, Range
  <2>4. \A b : Untaken(b) => Untaken(b)'
    <3>1. ToSet(eventQ)' = ToSet(eventQ) \cup {h}
      <4>1. ToSet(Append(eventQ, h)) = ToSet(eventQ) \cup {h}
        BY <1>0, QueueSets
      <4> QED BY <2>1, <4>1 DEF ToSet
    <3>2. \A b \in Range(held) : b = h \/ b \in Range(held)'
      BY <1>0, <2>0, <2>1 DEF Range
    <3> QED BY <3>1, <3>2 DEF Untaken
  <2>5. \A t \in Shards : held'[t] # None => held'[t] = held[t] /\ t # s
    BY <1>0, <2>1
  <2>6. h \notin Range(held') /\ \A b \in Range(held') : b = None \/ b \in Range(held)
    BY <1>0, <2>1, <2>3, <2>5 DEF Range, ChannelOrder
  <2>7. ASSUME NEW q \in DOMAIN eventQ', NEW b \in Ids,
               source[b] = source[eventQ'[q]], b > eventQ'[q]
        PROVE  Untaken(b)'
    BY <1>0, <2>2, <2>3, <2>4, <2>7 DEF ChannelOrder
  <2>8. ASSUME NEW p \in DOMAIN eventQ', NEW q \in DOMAIN eventQ', p < q,
               source[eventQ'[p]] = source[eventQ'[q]]
        PROVE  eventQ'[p] < eventQ'[q]
    <3>1. CASE q \in DOMAIN eventQ
      <4>1. p \in DOMAIN eventQ
        BY <1>0, <2>2, <2>8, <3>1
      <4> QED BY <1>0, <2>1, <2>2, <2>8, <3>1, <4>1 DEF ChannelOrder
    <3>2. CASE q = Len(eventQ) + 1
      <4>1. p \in DOMAIN eventQ /\ eventQ'[p] = eventQ[p]
        BY <1>0, <2>2, <2>8, <3>2
      <4>2. eventQ'[q] = h
        BY <1>0, <2>1, <3>2
      <4>3. eventQ[p] <= h /\ eventQ[p] # h
        BY <1>0, <1>a, <2>3, <2>8, <4>1, <4>2 DEF ChannelOrder
      <4>4. eventQ[p] \in Nat /\ h \in Nat
        BY <1>0, <1>a, <4>1
      <4> QED BY <4>1, <4>2, <4>3, <4>4
    <3> QED BY <2>2, <3>1, <3>2
  <2>9. ASSUME NEW q \in DOMAIN eventQ'
        PROVE  source[eventQ'[q]] # Health /\ eventQ'[q] \notin Range(held')
    BY <1>0, <1>a, <2>2, <2>3, <2>6 DEF ChannelOrder
  <2> QED BY <1>0, <1>7, <2>1, <2>3, <2>5, <2>7, <2>8, <2>9 DEF ChannelOrder, Range
<1> QED
  BY <1>0, <1>1, <1>2, <1>3, <1>4, <1>5, <1>6, <1>7, Kinds DEF QuietStep, CutStep, OpenStep,
     RegisteredStep, ReplayStep, AcceptStep

\* A session begins with an empty stream and sends again what is pending before
\* it sends anything else.
LEMMA SessionsStep == TypeInv /\ OrderInv /\ [Next]_vars => Sessions'
<1> SUFFICES ASSUME TypeInv, OrderInv, [Next]_vars PROVE Sessions'
  OBVIOUS
<1>0. Sessions
  BY DEF OrderInv
<1>1. CASE QuietStep
  <2>1. \A id : Carries(id)' <=> Carries(id)
    BY <1>1, CarriesStep, Messages DEF QuietStep, Carries, ToSet
  <2> QED BY <1>0, <1>1, <2>1 DEF QuietStep, Sessions, Active
<1>2. CASE CutStep
  <2>1. \A id : Carries(id)' => Carries(id)
    BY <1>2, CarriesStep DEF CutStep
  <2> QED BY <1>0, <1>2, <2>1 DEF CutStep, Sessions, Active
<1>3. CASE OpenStep
  <2>1. \A id : ~Carries(id)'
    BY <1>3, CarriesStep DEF OpenStep
  <2> QED BY <1>0, <1>3, <2>1 DEF OpenStep, Sessions, Active
<1>4. CASE RegisteredStep
  <2>1. \A id : Carries(id)' <=> Carries(id)
    BY <1>4 DEF RegisteredStep, Carries, ToSet
  <2> QED BY <1>0, <1>4, <2>1 DEF RegisteredStep, Sessions, Active
<1>5. ASSUME NEW id \in EventIds, ReplayStep(id) PROVE Sessions'
  <2>1. \A x : Carries(x)' => Carries(x) \/ x = id
    BY <1>5, CarriesStep, Messages DEF ReplayStep, Carries, ToSet
  <2> QED BY <1>0, <1>5, <2>1 DEF ReplayStep, Sessions, Active
<1>6. CASE HealthStep \/ TakeStep
  BY <1>0, <1>6 DEF HealthStep, TakeStep, Sessions, Active
<1>7. CASE AcceptStep
  <2>1. \A id : Carries(id)' => Carries(id)
    BY <1>7, CarriesStep DEF AcceptStep
  <2> QED BY <1>0, <1>7, <2>1 DEF AcceptStep, Sessions, Active
<1>8. CASE ShardsOnly
  <2>1. \A id : Carries(id)' <=> Carries(id)
    BY <1>8 DEF ShardsOnly, Carries, ToSet
  <2> QED BY <1>0, <1>8, <2>1 DEF ShardsOnly, Sessions, Active
<1> QED BY <1>0, <1>1, <1>2, <1>3, <1>4, <1>5, <1>6, <1>7, <1>8, Kinds

\* At the start of a session everything that was taken is accepted or pending,
\* so it is sent again; after that an event stays on the stream from the moment
\* it is taken until signaling has it.
LEMMA SentOrReplayingStep ==
    TypeInv /\ NoEventLost /\ OrderInv /\ [Next]_vars => SentOrReplaying'
<1> SUFFICES ASSUME TypeInv, NoEventLost, OrderInv, [Next]_vars,
                    link' # "down", session' \in Active,
                    NEW b \in Ids', source'[b] # Health, ~Untaken(b)'
             PROVE  b \in ToSet(received)' \cup replay' \/ Carries(b)'
  BY DEF SentOrReplaying
<1>0. /\ Sessions /\ SentOrReplaying /\ Drawn /\ TypeOK /\ Stages /\ Len(source) \in Nat
      /\ eventQ \in Seq(EventIds) /\ DOMAIN held = Shards /\ received \in Seq(EventIds)
  BY DEF OrderInv, TypeInv, TypeOK
<1>a. source' = source => b \in Ids /\ source[b] # Health
  BY DEF Ids
<1>b. eventQ' = eventQ /\ held' = held => ~Untaken(b)
  BY DEF Untaken
<1>c. received' = received => ToSet(received)' = ToSet(received)
  BY DEF ToSet
<1>1. CASE QuietStep
  <2>1. Carries(b)' <=> Carries(b)
    BY <1>1, CarriesStep, Messages DEF QuietStep, Carries, ToSet
  <2> QED BY <1>0, <1>1, <1>a, <1>b, <1>c, <2>1 DEF QuietStep, SentOrReplaying
<1>2. CASE CutStep \/ OpenStep
  BY <1>2 DEF CutStep, OpenStep, Active
<1>3. CASE RegisteredStep
  <2>1. ~Closing /\ b \in 1..(nextId - 1)
    BY <1>0, <1>3, <1>a DEF RegisteredStep, Closing, Ids, nextId
  <2>2. b \in ToSet(received) \cup pending
    BY <1>3, <1>b, <2>1 DEF NoEventLost, RegisteredStep, Untaken
  <2> QED BY <1>3, <1>c, <2>2 DEF RegisteredStep
<1>4. ASSUME NEW id \in EventIds, ReplayStep(id)
      PROVE  b \in ToSet(received)' \cup replay' \/ Carries(b)'
  <2>1. session' = "replaying" /\ Pipe' = Append(Pipe, Event(id))
    BY <1>4 DEF ReplayStep, Active
  <2>2. Carries(b)' <=> Carries(b) \/ b = id
    BY <2>1, CarriesStep, Messages
  <2>3. b \in ToSet(received) \cup replay \/ Carries(b)
    BY <1>0, <1>4, <1>a, <1>b DEF SentOrReplaying, ReplayStep, Active
  <2> QED BY <1>4, <1>c, <2>2, <2>3 DEF ReplayStep
<1>5. CASE HealthStep
  <2>1. b \in Ids /\ source[b] # Health
    BY <1>0, <1>5, IdsStep DEF HealthStep
  <2>2. Carries(b) => Carries(b)'
    BY <1>5, CarriesStep DEF HealthStep
  <2> QED BY <1>0, <1>5, <1>b, <1>c, <2>1, <2>2 DEF HealthStep, SentOrReplaying
<1>6. CASE TakeStep
  <2>0. PICK h : h = Head(eventQ)
    OBVIOUS
  <2>1. (Carries(b)' <=> Carries(b) \/ b = h) /\ (Untaken(b) => b = h)
    BY <1>6, <2>0, TakenStep
  <2> QED BY <1>0, <1>6, <1>a, <1>c, <2>1 DEF TakeStep, SentOrReplaying, Active
<1>7. CASE AcceptStep
  <2>1. Carries(b) => Carries(b)' \/ Head(Pipe) = Event(b)
    BY <1>7, CarriesStep DEF AcceptStep
  <2>2. /\ ToSet(received) \subseteq ToSet(received)'
        /\ Head(Pipe) = Event(b) => b \in ToSet(received)'
    <3>1. \A id : ToSet(Append(received, id)) = ToSet(received) \cup {id}
      BY <1>0, QueueSets
    <3>2. ASSUME NEW id \in EventIds, Head(Pipe) = Event(id),
                 received' = IF id \in ToSet(received) THEN received ELSE Append(received, id)
          PROVE  ToSet(received)' = ToSet(received) \cup {id}
      <4>1. ToSet(received') = ToSet(received) \cup {id}
        BY <3>1, <3>2
      <4> QED BY <4>1 DEF ToSet
    <3> QED BY <1>7, <1>c, <3>2, Messages DEF AcceptStep
  <2>3. b \in ToSet(received) \cup replay \/ Carries(b)
    BY <1>0, <1>7, <1>a, <1>b DEF AcceptStep, SentOrReplaying
  <2> QED BY <1>7, <2>1, <2>2, <2>3 DEF AcceptStep
<1>8. ASSUME NEW s \in Shards, ShardsOnly, NumberEvent(s) \/ SendEvent(s)
      PROVE  b \in ToSet(received)' \cup replay' \/ Carries(b)'
  <2>1. (Carries(b)' <=> Carries(b)) /\ ToSet(received)' = ToSet(received) /\ replay' = replay
    BY <1>8 DEF ShardsOnly, Carries, ToSet
  <2>2. session \in Active /\ link # "down" /\ receiver
    BY <1>0, <1>8 DEF ShardsOnly, Stages, Active
  <2>3. CASE NumberEvent(s)
    <3>1. /\ held[s] = None /\ held' = [held EXCEPT ![s] = nextId] /\ eventQ' = eventQ
          /\ source' = Append(source, s)
      BY <2>3 DEF NumberEvent
    <3>2. nextId \in Range(held') /\ \A x \in Range(held) : x = None \/ x \in Range(held')
      BY <1>0, <3>1 DEF Range
    <3>3. b # nextId
      BY <3>2 DEF Untaken, Range
    <3>4. b \in Ids /\ source[b] = source'[b]
      BY <1>0, <3>1, <3>3, IdsStep
    <3>5. ~Untaken(b)
      BY <3>1, <3>2, <3>4 DEF Untaken, None, Ids, Range, ToSet
    <3> QED BY <1>0, <2>1, <2>2, <3>4, <3>5 DEF SentOrReplaying
  <2>4. CASE SendEvent(s)
    <3>1. /\ held' = [held EXCEPT ![s] = None] /\ eventQ' = Append(eventQ, held[s])
          /\ source' = source
      BY <2>2, <2>4 DEF SendEvent
    <3>2. ToSet(eventQ') = ToSet(eventQ) \cup {held[s]}
      BY <1>0, <3>1, QueueSets
    <3>3. \A x \in Range(held) : x = held[s] \/ x \in Range(held')
      BY <1>0, <3>1 DEF Range
    <3>4. ~Untaken(b)
      BY <3>2, <3>3 DEF Untaken, Range, ToSet
    <3> QED BY <1>0, <1>a, <2>1, <2>2, <3>1, <3>4 DEF SentOrReplaying
  <2> QED BY <1>8, <2>3, <2>4
<1> QED BY <1>0, <1>1, <1>2, <1>3, <1>4, <1>5, <1>6, <1>7, <1>8, Kinds

\* Numbers keep their source, and an event that was sent again stays one that
\* was.
LEMMA Monotone ==
    ASSUME TypeInv, OrderInv, [Next]_vars
    PROVE  /\ replayed \subseteq replayed' /\ Ids \subseteq Ids'
           /\ \A b \in Ids : source'[b] = source[b]
           /\ \A b \in Ids' \ Ids : \A a \in Ids : b > a
<1>1. CASE source' = source
  BY <1>1, Kinds DEF OrderInv, Ids, QuietStep, CutStep, OpenStep, RegisteredStep, ReplayStep,
     HealthStep, TakeStep, AcceptStep, ShardsOnly
<1>2. ASSUME NEW x, source' = Append(source, x), replayed' = replayed
      PROVE  /\ replayed \subseteq replayed' /\ Ids \subseteq Ids'
             /\ \A b \in Ids : source'[b] = source[b]
             /\ \A b \in Ids' \ Ids : \A a \in Ids : b > a
  <2>1. /\ Ids' = Ids \cup {nextId} /\ \A b \in Ids : source'[b] = source[b] /\ b < nextId
    BY <1>2, IdsStep DEF TypeInv
  <2>2. nextId \in Nat /\ Ids \subseteq Nat
    BY DEF TypeInv, TypeOK, nextId, Ids
  <2> QED BY <1>2, <2>1, <2>2
<1> QED BY <1>1, <1>2, Kinds DEF OrderInv, QuietStep, CutStep, OpenStep, RegisteredStep,
       ReplayStep, HealthStep, TakeStep, AcceptStep, ShardsOnly, NumberEvent, SendEvent

\* What an index of the session's messages says of them.
LEMMA Carried ==
    ASSUME TypeInv
    PROVE  /\ Pipe \in Seq(UpMessages) /\ DOMAIN Pipe = 1..Len(Pipe) /\ Len(Pipe) \in Nat
           /\ \A p \in DOMAIN Pipe : \A x : Pipe[p] = Event(x) => Carries(x)
           /\ \A x : Carries(x) => \E p \in DOMAIN Pipe : Pipe[p] = Event(x)
<1>1. Pipe \in Seq(UpMessages)
  BY DEF TypeInv, Shape, Pipe
<1> QED BY <1>1 DEF Carries, ToSet

\* An event that is taken is the oldest of its shard that was not, and whatever
\* was taken before it is accepted or ahead of it on the stream.
LEMMA FreshInOrderStep == TypeInv /\ OrderInv /\ [Next]_vars => FreshInOrder'
<1> DEFINE InTurn(p, x, y) ==
        /\ y > x => /\ y \notin ToSet(received) \cup replayed
                    /\ \A o \in 1..(p - 1) : Pipe[o] # Event(y)
        /\ y < x => \/ y \in ToSet(received)
                    \/ \E o \in 1..(p - 1) : Pipe[o] = Event(y)
<1> SUFFICES ASSUME TypeInv, OrderInv, [Next]_vars, link' # "down",
                    NEW p \in DOMAIN Pipe', NEW x \in Ids', Pipe'[p] = Event(x), x \notin replayed',
                    NEW y \in Ids', SameShard(x, y)'
             PROVE  InTurn(p, x, y)'
  BY DEF FreshInOrder, Event
<1>0. /\ Sessions /\ SentOrReplaying /\ Drawn /\ ChannelOrder /\ FreshInOrder /\ TypeOK
      /\ Len(source) \in Nat /\ Ids \subseteq EventIds /\ EventIds \subseteq Nat
      /\ eventQ \in Seq(EventIds) /\ DOMAIN held = Shards /\ received \in Seq(EventIds)
      /\ Ids \subseteq Nat
  BY SessionAssumption DEF OrderInv, TypeInv, TypeOK, EventIds, Ids
<1>a. /\ Pipe \in Seq(UpMessages) /\ DOMAIN Pipe = 1..Len(Pipe) /\ Len(Pipe) \in Nat
      /\ \A q \in DOMAIN Pipe : \A z : Pipe[q] = Event(z) => Carries(z)
      /\ \A z : Carries(z) => \E q \in DOMAIN Pipe : Pipe[q] = Event(z)
  BY Carried
<1>b. ASSUME link # "down", p \in DOMAIN Pipe, Pipe[p] = Event(x), x \notin replayed,
             x \in Ids, y \in Ids, SameShard(x, y)
      PROVE  InTurn(p, x, y)
  BY <1>b, <1>0 DEF FreshInOrder
<1>c. x \in Ids /\ y \in Ids => SameShard(x, y)
  BY Monotone DEF SameShard
<1>d. x \notin replayed
  BY Monotone
<1>1. CASE /\ UNCHANGED <<received, replayed>> /\ link # "down" /\ x \in Ids /\ y \in Ids
           /\ p \in DOMAIN Pipe /\ \A o \in 1..p : Pipe'[o] = Pipe[o]
  <2>1. Pipe[p] = Event(x)
    BY <1>1, <1>a
  <2>2. InTurn(p, x, y)
    BY <1>1, <1>b, <1>c, <1>d, <2>1
  <2>3. ToSet(received)' = ToSet(received) /\ replayed' = replayed
    BY <1>1 DEF ToSet
  <2>4. \A o \in 1..(p - 1) : Pipe'[o] = Pipe[o]
    BY <1>1, <1>a
  <2> QED BY <2>2, <2>3, <2>4 DEF Event
<1>2. CASE QuietStep \/ RegisteredStep
  <2>1. UNCHANGED <<received, replayed, link, source>> /\ x \in Ids /\ y \in Ids
    BY <1>2 DEF QuietStep, RegisteredStep, Ids
  <2>2. CASE Pipe' = Pipe
    BY <1>1, <2>1, <2>2
  <2>3. ASSUME NEW c \in Commands, Pipe' = Append(Pipe, Result(c)) PROVE InTurn(p, x, y)'
    <3>1. \A o \in DOMAIN Pipe' : \/ o \in DOMAIN Pipe /\ Pipe'[o] = Pipe[o]
                                  \/ o = Len(Pipe) + 1 /\ Pipe'[o] = Result(c)
      BY <1>a, <2>3
    <3>2. p \in DOMAIN Pipe
      BY <3>1, Messages
    <3>3. \A o \in 1..p : o \in DOMAIN Pipe /\ Pipe'[o] = Pipe[o]
      BY <1>a, <2>3, <3>2
    <3> QED BY <1>1, <2>1, <3>2, <3>3
  <2> QED BY <1>2, <2>2, <2>3 DEF QuietStep, RegisteredStep
<1>3. CASE CutStep
  BY <1>3 DEF CutStep
<1>4. CASE OpenStep
  <2>1. Pipe'[p] = Register
    BY <1>4 DEF OpenStep
  <2> QED BY <2>1, Messages
<1>5. ASSUME NEW id \in EventIds, ReplayStep(id) PROVE FALSE
  <2>1. /\ session = "replaying" /\ replayed' = replayed \cup {id}
        /\ Pipe' = Append(Pipe, Event(id)) \/ Pipe' = Pipe
        /\ x \in EventIds
    BY <1>0, <1>5 DEF ReplayStep, Ids
  <2>2. Pipe'[p] = Event(id) \/ Carries(x)
    BY <1>a, <2>1
  <2>3. x = id \/ x \in replayed
    BY <1>0, <2>1, <2>2, Messages DEF Sessions
  <2> QED BY <2>1, <2>3
<1>6. CASE HealthStep
  <2>1. /\ UNCHANGED <<received, replayed, link>> /\ Pipe' = Append(Pipe, Event(nextId))
        /\ source' = Append(source, Health)
    BY <1>6 DEF HealthStep
  <2>2. x \in Ids /\ y \in Ids /\ x # nextId
    BY <1>0, <2>1, IdsStep DEF SameShard
  <2>3. \A o \in DOMAIN Pipe' : \/ o \in DOMAIN Pipe /\ Pipe'[o] = Pipe[o]
                                \/ o = Len(Pipe) + 1 /\ Pipe'[o] = Event(nextId)
    BY <1>a, <2>1
  <2>4. p \in DOMAIN Pipe
    BY <2>2, <2>3, Messages
  <2>5. \A o \in 1..p : o \in DOMAIN Pipe /\ Pipe'[o] = Pipe[o]
    BY <1>a, <2>1, <2>4
  <2> QED BY <1>1, <2>1, <2>2, <2>4, <2>5
<1>7. CASE TakeStep
  <2>0. PICK h : h = Head(eventQ)
    OBVIOUS
  <2>1. /\ UNCHANGED <<received, replayed, link, source>> /\ Pipe' = Append(Pipe, Event(h))
        /\ session = "select"
    BY <1>7, <2>0 DEF TakeStep
  <2>2. x \in Ids /\ y \in Ids /\ SameShard(x, y)
    BY <1>c, <2>1 DEF Ids
  <2>3. \A o \in DOMAIN Pipe' : \/ o \in DOMAIN Pipe /\ Pipe'[o] = Pipe[o]
                                \/ o = Len(Pipe) + 1 /\ Pipe'[o] = Event(h)
    BY <1>a, <2>1
  <2>4. CASE p \in DOMAIN Pipe
    <3>1. \A o \in 1..p : o \in DOMAIN Pipe /\ Pipe'[o] = Pipe[o]
      BY <1>a, <2>1, <2>4
    <3> QED BY <1>1, <2>1, <2>2, <2>4, <3>1
  <2>5. CASE p = Len(Pipe) + 1 /\ Pipe'[p] = Event(h)
    <3>1. x = h
      BY <2>5, Messages
    <3>2. h \in Ids /\ 1 \in DOMAIN eventQ /\ h = eventQ[1]
      BY <1>7, <2>0, TakenStep
    <3>3. \A o \in 1..(p - 1) : o \in DOMAIN Pipe /\ Pipe'[o] = Pipe[o]
      BY <1>a, <2>1, <2>5
    <3>4. ToSet(received)' = ToSet(received) /\ replayed' = replayed
      BY <2>1 DEF ToSet
    <3>5. ASSUME y > x PROVE /\ y \notin ToSet(received) \cup replayed
                             /\ \A o \in 1..(p - 1) : Pipe'[o] # Event(y)
      <4>1. Untaken(y)
        BY <1>0, <2>2, <3>1, <3>2, <3>5 DEF ChannelOrder, SameShard
      <4>2. y \notin ToSet(received) \cup replayed /\ ~Carries(y)
        BY <1>0, <2>2, <4>1 DEF Drawn
      <4> QED BY <1>a, <3>3, <4>2
    <3>6. ASSUME y < x PROVE \/ y \in ToSet(received)
                             \/ \E o \in 1..(p - 1) : Pipe'[o] = Event(y)
      <4>1. ASSUME y \in ToSet(eventQ) PROVE FALSE
        <5>1. PICK q \in DOMAIN eventQ : y = eventQ[q]
          BY <4>1 DEF ToSet
        <5>2. q # 1 /\ 1 < q
          BY <1>0, <3>1, <3>2, <3>6, <5>1
        <5>3. eventQ[1] < eventQ[q]
          BY <1>0, <2>2, <3>1, <3>2, <5>1, <5>2 DEF ChannelOrder, SameShard
        <5> QED BY <1>0, <2>2, <3>1, <3>2, <3>6, <5>1, <5>3
      <4>2. ASSUME y \in Range(held) PROVE FALSE
        <5>1. PICK s \in Shards : y = held[s]
          BY <1>0, <4>2 DEF Range
        <5>2. held[s] # None
          BY <2>2, <5>1 DEF Ids, None
        <5>3. h <= y
          BY <1>0, <2>2, <3>1, <3>2, <5>1, <5>2 DEF ChannelOrder, SameShard
        <5> QED BY <1>0, <2>2, <3>1, <3>6, <5>3
      <4>3. y \in ToSet(received) \/ Carries(y)
        BY <1>0, <2>1, <2>2, <4>1, <4>2 DEF SentOrReplaying, Untaken, Active, SameShard, Sessions
      <4>4. ASSUME Carries(y) PROVE \E o \in 1..(p - 1) : Pipe'[o] = Event(y)
        <5>1. PICK o \in DOMAIN Pipe : Pipe[o] = Event(y)
          BY <1>a, <4>4
        <5>2. o \in 1..(p - 1) /\ Pipe'[o] = Event(y)
          BY <1>a, <2>5, <3>3, <5>1
        <5> QED BY <5>2
      <4> QED BY <4>3, <4>4
    <3> QED BY <3>4, <3>5, <3>6 DEF Event
  <2> QED BY <2>3, <2>4, <2>5
<1>8. CASE AcceptStep
  <2>1. /\ UNCHANGED <<source, replayed>> /\ Pipe # <<>> /\ Pipe' = Tail(Pipe) /\ link # "down"
        /\ x \in Ids /\ y \in Ids
    BY <1>8 DEF AcceptStep, Ids
  <2>2. /\ \A o \in DOMAIN Pipe' : o + 1 \in DOMAIN Pipe /\ Pipe'[o] = Pipe[o + 1]
        /\ 1 \in DOMAIN Pipe /\ Head(Pipe) = Pipe[1] /\ DOMAIN Pipe' = 1..(Len(Pipe) - 1)
    BY <1>a, <2>1
  <2>3. InTurn(p + 1, x, y)
    <3>1. link # "down" /\ p + 1 \in DOMAIN Pipe /\ Pipe[p + 1] = Event(x) /\ SameShard(x, y)
      BY <1>c, <2>1, <2>2
    <3> QED BY <1>0, <1>d, <2>1, <3>1 DEF FreshInOrder
  <2>4. /\ ToSet(received) \subseteq ToSet(received)'
        /\ \A z : Head(Pipe) = Event(z) => z \in ToSet(received)'
        /\ \A z \in ToSet(received)' : z \in ToSet(received) \/ Head(Pipe) = Event(z)
    <3>1. \A id : ToSet(Append(received, id)) = ToSet(received) \cup {id}
      BY <1>0, QueueSets
    <3>2. ASSUME NEW id \in EventIds, Head(Pipe) = Event(id),
                 received' = IF id \in ToSet(received) THEN received ELSE Append(received, id)
          PROVE  ToSet(received)' = ToSet(received) \cup {id}
      <4>1. ToSet(received') = ToSet(received) \cup {id}
        BY <3>1, <3>2
      <4> QED BY <4>1 DEF ToSet
    <3>3. received' = received => ToSet(received)' = ToSet(received)
      BY DEF ToSet
    <3> QED BY <1>8, <3>2, <3>3, Messages DEF AcceptStep
  <2>5. ASSUME y > x PROVE /\ y \notin ToSet(received)' \cup replayed'
                           /\ \A o \in 1..(p - 1) : Pipe'[o] # Event(y)
    <3>1. /\ y \notin ToSet(received) \cup replayed
          /\ \A o \in 1..p : Pipe[o] # Event(y)
      BY <2>2, <2>3, <2>5
    <3>2. Head(Pipe) # Event(y)
      BY <2>2, <3>1
    <3>3. \A o \in 1..(p - 1) : o + 1 \in 1..p /\ o \in DOMAIN Pipe'
      BY <2>2, <1>a
    <3> QED BY <2>1, <2>2, <2>4, <3>1, <3>2, <3>3
  <2>6. ASSUME y < x PROVE \/ y \in ToSet(received)'
                           \/ \E o \in 1..(p - 1) : Pipe'[o] = Event(y)
    <3>1. ASSUME NEW o \in 1..p, Pipe[o] = Event(y)
          PROVE  \/ y \in ToSet(received)'
                 \/ \E q \in 1..(p - 1) : Pipe'[q] = Event(y)
      <4>1. CASE o = 1
        BY <2>2, <2>4, <3>1, <4>1
      <4>2. CASE o # 1
        <5>1. PICK q \in 1..(p - 1) : q + 1 = o
          BY <2>2, <4>2
        <5>2. q \in DOMAIN Pipe'
          BY <2>2, <1>a
        <5> QED BY <2>2, <3>1, <5>1, <5>2
      <4> QED BY <4>1, <4>2
    <3>2. y \in ToSet(received) \/ \E o \in 1..p : Pipe[o] = Event(y)
      BY <2>2, <2>3, <2>6
    <3> QED BY <2>4, <3>1, <3>2
  <2> QED BY <2>5, <2>6 DEF Event
<1>9. ASSUME NEW s \in Shards, ShardsOnly, NumberEvent(s) \/ SendEvent(s) PROVE InTurn(p, x, y)'
  <2>1. UNCHANGED <<received, replayed, link>> /\ Pipe' = Pipe
    BY <1>9 DEF ShardsOnly
  <2>2. CASE x \in Ids /\ y \in Ids
    BY <1>1, <2>1, <2>2
  <2>3. ASSUME NumberEvent(s), x \notin Ids \/ y \notin Ids PROVE InTurn(p, x, y)'
    <3>1. source' = Append(source, s) /\ nextId \in EventIds
      BY <2>3, NextIdBounded DEF NumberEvent
    <3>2. Ids' = Ids \cup {nextId} /\ nextId \notin Ids
      BY <1>0, <3>1, IdsStep
    <3>3. nextId \notin ToSet(received) \cup replayed /\ ~Carries(nextId)
      BY <1>0, <3>1, <3>2 DEF Drawn
    <3>4. x # nextId
      BY <1>a, <2>1, <3>3
    <3>5. x \in Ids /\ y = nextId
      BY <2>3, <3>2, <3>4
    <3>6. \A o \in 1..(p - 1) : o \in DOMAIN Pipe /\ Pipe[o] # Event(y)
      BY <1>a, <2>1, <3>3, <3>5
    <3>7. x < nextId
      BY <1>0, <3>1, <3>5, IdsStep
    <3>8. y \in Nat /\ x \in Nat /\ ~(y < x)
      BY <1>0, <3>1, <3>5, <3>7
    <3>9. ToSet(received)' = ToSet(received)
      BY <2>1 DEF ToSet
    <3> QED BY <2>1, <3>3, <3>5, <3>6, <3>8, <3>9 DEF Event
  <2>4. SendEvent(s) => x \in Ids /\ y \in Ids
    BY DEF SendEvent, Ids
  <2> QED BY <1>9, <2>2, <2>3, <2>4
<1> QED BY <1>0, <1>2, <1>3, <1>4, <1>5, <1>6, <1>7, <1>8, <1>9, Kinds

\* Signaling accepts a first transmission after everything older of its shard.
LEMMA FreshAcceptedStep == TypeInv /\ OrderInv /\ [Next]_vars => FreshAccepted'
<1> SUFFICES ASSUME TypeInv, OrderInv, [Next]_vars,
                    NEW x \in ToSet(received)', x \notin replayed',
                    NEW y \in Ids', SameShard(x, y)', y < x
             PROVE  y \in ToSet(received)'
  BY DEF FreshAccepted
<1>0. /\ Drawn /\ FreshAccepted /\ FreshInOrder /\ Ids \subseteq Nat /\ received \in Seq(EventIds)
      /\ Ids' \subseteq Nat
  BY DEF OrderInv, TypeInv, TypeOK, Ids
<1>1. x \notin replayed /\ (x \in Ids => y \in Ids /\ SameShard(x, y))
  <2>1. x \notin replayed
    BY Monotone
  <2>2. ASSUME x \in Ids PROVE y \in Ids
    <3>1. y \notin Ids => y > x
      BY <2>2, Monotone
    <3> QED BY <1>0, <2>2, <3>1
  <2>3. x \in Ids => source'[x] = source[x] /\ source'[y] = source[y]
    BY <2>2, Monotone
  <2> QED BY <2>1, <2>2, <2>3 DEF SameShard
<1>2. CASE received' = received
  <2>1. ToSet(received)' = ToSet(received)
    BY <1>2 DEF ToSet
  <2>2. x \in Ids
    BY <1>0, <2>1 DEF Drawn
  <2> QED BY <1>0, <1>1, <2>1, <2>2 DEF FreshAccepted
<1>3. ASSUME AcceptStep, NEW id \in EventIds, Head(Pipe) = Event(id),
             id \notin ToSet(received), received' = Append(received, id)
      PROVE  y \in ToSet(received)'
  <2>1. ToSet(received)' = ToSet(received) \cup {id}
    <3>1. ToSet(Append(received, id)) = ToSet(received) \cup {id}
      BY <1>0, QueueSets
    <3> QED BY <1>3, <3>1 DEF ToSet
  <2>2. /\ link # "down" /\ 1 \in DOMAIN Pipe /\ Pipe[1] = Event(id)
    BY <1>3, Carried DEF AcceptStep
  <2>3. x \in Ids
    BY <1>0, <2>1, <2>2, Carried DEF Drawn
  <2>4. CASE x \in ToSet(received)
    BY <1>0, <1>1, <2>1, <2>3, <2>4 DEF FreshAccepted
  <2>5. CASE x = id
    <3>1. y \in ToSet(received) \/ \E o \in 1..(1 - 1) : Pipe[o] = Event(y)
      BY <1>0, <1>1, <2>2, <2>3, <2>5 DEF FreshInOrder
    <3> QED BY <2>1, <3>1
  <2> QED BY <2>1, <2>4, <2>5
<1> QED BY <1>2, <1>3, Kinds DEF OrderInv, QuietStep, CutStep, OpenStep, RegisteredStep,
       ReplayStep, HealthStep, TakeStep, AcceptStep, ShardsOnly

\* Only what was sent again is accepted behind something younger of its shard.
LEMMA OvertakesStep ==
    TypeInv /\ OrderInv /\ FreshNeverOvertakes /\ [Next]_vars => FreshNeverOvertakes'
<1> SUFFICES ASSUME TypeInv, OrderInv, FreshNeverOvertakes, [Next]_vars,
                    NEW i \in DOMAIN received', NEW j \in DOMAIN received',
                    i < j, received'[i] > received'[j],
                    source'[received'[i]] = source'[received'[j]],
                    source'[received'[i]] # Health
             PROVE  {received'[i], received'[j]} \subseteq replayed'
  BY DEF FreshNeverOvertakes
<1>0. /\ Drawn /\ FreshAccepted /\ FreshInOrder /\ Ids \subseteq Nat /\ received \in Seq(EventIds)
      /\ replayed \subseteq replayed' /\ \A b \in Ids : source'[b] = source[b]
  BY Monotone DEF OrderInv, TypeInv, TypeOK, Ids
<1>1. \A k \in DOMAIN received : received[k] \in Ids /\ received[k] \in ToSet(received)
  BY <1>0 DEF Drawn, ToSet
<1>2. CASE i \in DOMAIN received /\ j \in DOMAIN received
           /\ received'[i] = received[i] /\ received'[j] = received[j]
  BY <1>0, <1>1, <1>2 DEF FreshNeverOvertakes
<1>3. ASSUME AcceptStep, NEW id \in EventIds, Head(Pipe) = Event(id),
             id \notin ToSet(received), received' = Append(received, id),
             ~(j \in DOMAIN received)
      PROVE  {received'[i], received'[j]} \subseteq replayed'
  <2>1. received'[j] = id /\ i \in DOMAIN received /\ received'[i] = received[i]
    BY <1>0, <1>3
  <2>2. PICK a \in Ids : a = received[i]
    BY <1>1, <2>1
  <2>3. a \in ToSet(received) /\ a > id
    BY <1>1, <2>1, <2>2
  <2>4. /\ link # "down" /\ 1 \in DOMAIN Pipe /\ Pipe[1] = Event(id)
    BY <1>3, Carried DEF AcceptStep
  <2>5. id \in Ids
    BY <1>0, <2>4, Carried DEF Drawn
  <2>6. SameShard(id, a) /\ SameShard(a, id)
    BY <1>0, <2>1, <2>2, <2>5 DEF SameShard
  <2>7. id \in replayed
    BY <1>0, <2>3, <2>4, <2>5, <2>6 DEF FreshInOrder
  <2>8. a \in replayed
    BY <1>0, <1>3, <2>3, <2>5, <2>6 DEF FreshAccepted
  <2> QED BY <1>0, <2>1, <2>2, <2>7, <2>8
<1>4. ASSUME NEW id, received' = Append(received, id), j \in DOMAIN received
      PROVE  {received'[i], received'[j]} \subseteq replayed'
  <2>1. /\ i \in DOMAIN received /\ received'[i] = received[i] /\ received'[j] = received[j]
    BY <1>0, <1>4
  <2> QED BY <1>2, <1>4, <2>1
<1> QED BY <1>2, <1>3, <1>4, Kinds DEF OrderInv, QuietStep, CutStep, OpenStep, RegisteredStep,
       ReplayStep, HealthStep, TakeStep, AcceptStep, ShardsOnly

\* The order invariant holds wherever no event is lost.
LEMMA OrderInvHolds == Spec => [](TypeInv /\ NoEventLost /\ OrderInv)
<1>1. Init => OrderInv
  <2> SUFFICES ASSUME Init PROVE OrderInv
    OBVIOUS
  <2>1. /\ Ids = {} /\ Pipe = <<>> /\ DOMAIN eventQ = {} /\ DOMAIN Pipe = {}
        /\ ToSet(received) = {} /\ ToSet(eventQ) = {}
    BY DEF Init, Ids, Pipe, ToSet
  <2>2. \A id : ~Carries(id)
    BY <2>1 DEF Carries, ToSet
  <2>3. Drawn
    BY <2>1, <2>2 DEF Init, Drawn
  <2>4. ChannelOrder
    BY <2>1 DEF Init, ChannelOrder
  <2>5. Sessions
    BY <2>2 DEF Init, Sessions, Active
  <2>6. SentOrReplaying /\ FreshInOrder /\ FreshAccepted
    BY <2>1 DEF Init, SentOrReplaying, FreshInOrder, FreshAccepted
  <2> QED BY <2>3, <2>4, <2>5, <2>6 DEF OrderInv
<1>2. TypeInv /\ NoEventLost /\ OrderInv /\ [Next]_vars => OrderInv'
  <2>1. TypeInv /\ NoEventLost /\ OrderInv /\ [Next]_vars =>
            Drawn' /\ ChannelOrder' /\ Sessions' /\ SentOrReplaying' /\ FreshInOrder'
                /\ FreshAccepted'
    BY DrawnStep, ChannelOrderStep, SessionsStep, SentOrReplayingStep, FreshInOrderStep,
       FreshAcceptedStep
  <2> QED BY <2>1 DEF OrderInv
<1> QED BY <1>1, <1>2, TypeInvHolds, NoEventLostHolds, PTL DEF Spec

\* Two events of one shard reach signaling out of order only when both were sent
\* again at a reconnect.
THEOREM FreshNeverOvertakesHolds == Spec => []FreshNeverOvertakes
<1>1. Init => FreshNeverOvertakes
  BY DEF Init, FreshNeverOvertakes
<1> QED BY <1>1, OrderInvHolds, OvertakesStep, PTL DEF Spec

-----------------------------------------------------------------------------
(* The worker as signaling sees it.                                         *)

\* main, the stop signal and the service go through their stages together: the
\* service closes only on the signal, and main ends only after the service.
MainInv ==
    /\ main = "running" => ~stop
    /\ \A s \in Shards : shard[s] = "stopped" => stop
    /\ Closing => stop
    /\ main \in {"joining", "down"} => session = "done"
    /\ main = "failed" => session \in {"done", "failed"}

Issued == ToSet(unacked) \cup answered

\* Signaling gets results only for commands that it has issued.
CommandsIssued ==
    /\ \A i \in DOMAIN downstream :
          downstream[i].kind = "command" => downstream[i].command \in Issued
    /\ session \in {"dispatching", "awaiting"} => inHand \in Issued
    /\ \A c \in Commands : Result(c) \in ToSet(Pipe) => c \in Issued

\* Every step keeps main and the service in step.
LEMMA MainStage == TypeInv /\ MainInv /\ [Next]_vars => MainInv'
<1> SUFFICES ASSUME TypeInv, MainInv, [Next]_vars PROVE MainInv'
  OBVIOUS
<1>0. shard \in [Shards -> {"unborn", "select", "drain", "stopped"}] /\ Shards # {}
  BY SessionAssumption DEF TypeInv, TypeOK
<1>1. CASE UNCHANGED <<main, stop, session, shard>>
  BY <1>1 DEF MainInv, Closing
<1>2. CASE Running /\ UNCHANGED <<main, stop, shard>>
           /\ {session, session'} \cap {"closing", "done", "starting", "failed"} = {}
  <2>1. session # "done" /\ session' \notin {"closing", "done", "starting", "failed"}
    BY <1>2
  <2> QED BY <1>2, <2>1 DEF MainInv, Running, Closing
<1>3. CASE Running /\ Start
  BY <1>0, <1>3 DEF Start, MainInv, Running, Closing, mainVars
<1>4. CASE Running /\ (ObserveStop \/ Finish)
  BY <1>0, <1>4 DEF ObserveStop, Finish, MainInv, Running, Closing, mainVars, shardVars
<1>5. ASSUME NEW s \in Shards, Running, UNCHANGED <<main, stop, session>>,
             shard' = [shard EXCEPT ![s] = "select"] \/ shard' = [shard EXCEPT ![s] = "drain"]
      PROVE  MainInv'
  BY <1>0, <1>5 DEF MainInv, Closing
<1>6. ASSUME NEW s \in Shards, Running, ShardStop(s) PROVE MainInv'
  BY <1>0, <1>6 DEF ShardStop, MainInv, Closing, mainVars, sessionVars
<1>7. CASE Interrupt \/ JoinService \/ JoinRedirect \/ ServiceEnded
  BY <1>7 DEF Interrupt, JoinService, JoinRedirect, ServiceEnded, MainInv, Closing, sessionVars,
     shardVars
<1>8. CASE Running /\ SessionStep
  BY <1>1, <1>2, <1>3, <1>4, <1>8 DEF SessionStep, Connect, FinishRegistration, ReplayEvent,
     QueueHealth, TakeEvent, TakeMessage, FinishSend, Transmit, Dispatch, FinishDispatch, Retry,
     mainVars, shardVars
<1>9. ASSUME NEW s \in Shards, Running, ShardStep(s) \/ ShardMedia(s) PROVE MainInv'
  BY <1>1, <1>5, <1>6, <1>9 DEF ShardStep, ShardMedia, ShardCommand, Emit, NumberEvent, SendEvent,
     FinishDrain, mainVars, sessionVars
<1>10. CASE Running /\ ConnectFails
  BY <1>2, <1>10 DEF ConnectFails, mainVars, shardVars
<1>11. CASE UNCHANGED vars \/ (\E c \in Commands : Issue(c)) \/ SignalingReceive \/ BreakLink
  BY <1>1, <1>11 DEF vars, Issue, SignalingReceive, BreakLink, mainVars, sessionVars, shardVars
<1> QED BY <1>7, <1>8, <1>9, <1>10, <1>11 DEF Next, WorkerStep, MainStep

\* A command goes from signaling to its shard and its result back.
LEMMA IssuedStep == TypeInv /\ OrderInv /\ CommandsIssued /\ [Next]_vars =>
                        CommandsIssued' /\ Issued \subseteq Issued'
<1> SUFFICES ASSUME TypeInv, OrderInv, CommandsIssued, [Next]_vars
             PROVE  CommandsIssued' /\ Issued \subseteq Issued'
  OBVIOUS
<1>0. /\ upstream \in Seq(UpMessages) /\ Pipe \in Seq(UpMessages)
      /\ downstream \in Seq(DownMessages) /\ unacked \in Seq(Commands) /\ TypeOK
  BY DEF TypeInv, Shape, TypeOK, Pipe
<1>a. UNCHANGED <<unacked, answered>> => Issued' = Issued
  BY DEF Issued, ToSet
<1>b. \A m : ToSet(Append(Pipe, m)) = ToSet(Pipe) \cup {m}
  BY <1>0, QueueSets
<1>c. ASSUME downstream' = downstream \/ downstream' = <<>>
             \/ (downstream # <<>> /\ downstream' = Tail(downstream)),
             Issued \subseteq Issued'
      PROVE  \A i \in DOMAIN downstream' :
                 downstream'[i].kind = "command" => downstream'[i].command \in Issued'
  <2>1. \A i \in DOMAIN downstream' : \E k \in DOMAIN downstream : downstream'[i] = downstream[k]
    <3>1. CASE downstream' = downstream
      BY <3>1
    <3>2. CASE downstream' = <<>>
      BY <3>2
    <3>3. CASE downstream # <<>> /\ downstream' = Tail(downstream)
      <4>1. \A i \in DOMAIN downstream' : i + 1 \in DOMAIN downstream
                                          /\ downstream'[i] = downstream[i + 1]
        BY <1>0, <3>3
      <4> QED BY <4>1
    <3> QED BY <1>c, <3>1, <3>2, <3>3
  <2> QED BY <1>c, <2>1 DEF CommandsIssued
<1>1. ASSUME UNCHANGED <<unacked, answered>>,
             downstream' = downstream \/ downstream' = <<>>
                \/ (downstream # <<>> /\ downstream' = Tail(downstream)),
             session' \in {"dispatching", "awaiting"} => inHand' \in Issued,
             \A c \in Commands : Result(c) \in ToSet(Pipe') => Result(c) \in ToSet(Pipe) \/ c \in Issued
      PROVE  CommandsIssued' /\ Issued \subseteq Issued'
  <2>1. Issued' = Issued
    BY <1>1, <1>a
  <2>2. ToSet(Pipe)' = ToSet(Pipe')
    BY DEF ToSet
  <2>3. \A c \in Commands : Result(c) \in ToSet(Pipe') => c \in Issued
    BY <1>1 DEF CommandsIssued
  <2>4. \A i \in DOMAIN downstream' :
            downstream'[i].kind = "command" => downstream'[i].command \in Issued'
    BY <1>1, <1>c, <2>1
  <2> QED BY <1>1, <2>1, <2>2, <2>3, <2>4 DEF CommandsIssued, Result
<1>2. CASE TakeMessage
  <2>1. /\ UNCHANGED <<unacked, answered, upstream>>
        /\ downstream' = downstream \/ (downstream # <<>> /\ downstream' = Tail(downstream))
        /\ Pipe' = Pipe
    BY <1>2 DEF TakeMessage, linkVars, signalingVars, Pipe
  <2>2. session' \in {"dispatching", "awaiting"} => inHand' \in Issued
    <3>1. downstream # <<>> => 1 \in DOMAIN downstream /\ Head(downstream) = downstream[1]
      BY <1>0
    <3> QED BY <1>2, <3>1 DEF TakeMessage, CommandsIssued
  <2> QED BY <1>1, <2>1, <2>2
<1>3. CASE Dispatch \/ FinishDispatch
  <2>1. /\ UNCHANGED <<unacked, answered, upstream, downstream>> /\ inHand \in Issued
        /\ (session' = "awaiting" /\ inHand' = inHand) \/ session' = "sending"
        /\ Pipe' = Pipe \/ Pipe' = Append(Pipe, Result(inHand))
    BY <1>3 DEF Dispatch, FinishDispatch, linkVars, signalingVars, Pipe, CommandsIssued
  <2>2. \A c \in Commands : Result(c) = Result(inHand) => c \in Issued
    BY <2>1 DEF Result
  <2> QED BY <1>1, <1>b, <2>1, <2>2
<1>4. ASSUME NEW c \in Commands, Issue(c) PROVE CommandsIssued' /\ Issued \subseteq Issued'
  <2>1. /\ unacked' = Append(unacked, c) /\ UNCHANGED <<answered, session, inHand>> /\ Pipe' = Pipe
        /\ downstream' = downstream \/ downstream' = Append(downstream, Command(c))
    BY <1>4 DEF Issue, sessionVars, Pipe
  <2>2. Issued' = Issued \cup {c}
    <3>1. ToSet(Append(unacked, c)) = ToSet(unacked) \cup {c}
      BY <1>0, QueueSets
    <3> QED BY <2>1, <3>1 DEF Issued, ToSet
  <2>3. \A i \in DOMAIN downstream' : downstream'[i] = Command(c)
                                      \/ \E k \in DOMAIN downstream : downstream'[i] = downstream[k]
    <3>1. CASE downstream' = downstream
      BY <3>1
    <3>2. CASE downstream' = Append(downstream, Command(c))
      BY <1>0, <3>2
    <3> QED BY <2>1, <3>1, <3>2
  <2>4. Command(c).command = c
    BY DEF Command
  <2>5. \A i \in DOMAIN downstream' :
            downstream'[i].kind = "command" => downstream'[i].command \in Issued'
    BY <2>2, <2>3, <2>4 DEF CommandsIssued
  <2>6. ToSet(Pipe)' = ToSet(Pipe)
    BY <2>1 DEF ToSet
  <2> QED BY <2>1, <2>2, <2>5, <2>6 DEF CommandsIssued, Result
<1>5. CASE SignalingReceive
  <2>1. /\ UNCHANGED <<session, inHand>> /\ upstream # <<>> /\ upstream' = Tail(upstream)
        /\ Head(upstream) \in UpMessages
    BY <1>0, <1>5 DEF SignalingReceive, sessionVars
  <2>2. Issued' = Issued \cup {c \in Commands : Head(upstream) = Result(c)}
    <3>1. CASE Head(upstream).kind # "result"
      <4>1. UNCHANGED <<unacked, answered>>
        BY <1>5, <3>1 DEF SignalingReceive, signalingVars
      <4>2. \A c : Head(upstream) # Result(c)
        BY <3>1 DEF Result
      <4> QED BY <1>a, <4>1, <4>2
    <3>2. CASE Head(upstream).kind = "result"
      <4>1. PICK c \in Commands : Head(upstream) = Result(c)
        BY <2>1, <3>2 DEF UpMessages, Register, Event
      <4>2. \A d : Result(d) = Result(c) => d = c
        BY DEF Result
      <4>3. Head(upstream).command = c
        BY <4>1 DEF Result
      <4>4. /\ unacked' = IF Contains(unacked, c)
                          THEN RemoveAt(unacked, CHOOSE i \in DOMAIN unacked : unacked[i] = c)
                          ELSE unacked
            /\ answered' = answered \cup {c}
        <5> DEFINE d == Head(upstream).command
        <5>1. /\ unacked' = IF Contains(unacked, d)
                            THEN RemoveAt(unacked, CHOOSE i \in DOMAIN unacked : unacked[i] = d)
                            ELSE unacked
              /\ answered' = answered \cup {d}
          BY <1>5, <3>2 DEF SignalingReceive, Register
        <5>2. d = c
          BY <4>3
        <5> HIDE DEF d
        <5> QED BY <5>1, <5>2
      <4>5. /\ ToSet(unacked') \subseteq ToSet(unacked)
            /\ ToSet(unacked) \subseteq ToSet(unacked') \cup {c}
        <5>1. CASE ~Contains(unacked, c)
          BY <4>4, <5>1
        <5>2. CASE Contains(unacked, c)
          <6> DEFINE k == CHOOSE i \in DOMAIN unacked : unacked[i] = c
          <6>1. \E i \in DOMAIN unacked : unacked[i] = c
            BY <1>0, <5>2 DEF Contains
          <6>2. k \in DOMAIN unacked /\ unacked[k] = c /\ unacked' = RemoveAt(unacked, k)
            BY <4>4, <5>2, <6>1
          <6> HIDE DEF k
          <6> QED BY <1>0, <6>2, RemoveOne
        <5> QED BY <5>1, <5>2
      <4>6. ToSet(unacked)' = ToSet(unacked')
        BY DEF ToSet
      <4> QED BY <4>1, <4>2, <4>4, <4>5, <4>6 DEF Issued
    <3> QED BY <3>1, <3>2
  <2>3. \A i \in DOMAIN downstream' :
            downstream'[i].kind = "command" => downstream'[i].command \in Issued'
    <3>1. CASE Head(upstream) = Register
      <4> DEFINE again == [i \in DOMAIN unacked |-> Command(unacked[i])]
      <4>1. /\ downstream' = <<Registered>> \o again \/ downstream' = <<Rejected>>
            /\ UNCHANGED <<unacked, answered>>
        BY <1>5, <3>1 DEF SignalingReceive, Register, signalingVars
      <4>2. again \in Seq({Command(c) : c \in ToSet(unacked)})
        BY <1>0 DEF ToSet
      <4>3. \A m \in {Registered, Rejected} \cup {Command(c) : c \in ToSet(unacked)} :
                m.kind = "command" => m.command \in Issued
        BY DEF Registered, Rejected, Command, Issued
      <4> HIDE DEF again
      <4>4. <<Registered>> \o again \in Seq({Registered} \cup {Command(c) : c \in ToSet(unacked)})
        <5>1. again \in Seq({Registered} \cup {Command(c) : c \in ToSet(unacked)})
          BY <4>2, SeqMonotonic
        <5>2. <<Registered>> \in Seq({Registered} \cup {Command(c) : c \in ToSet(unacked)})
          OBVIOUS
        <5> QED BY <5>1, <5>2
      <4>5. CASE downstream' = <<Rejected>>
        <5>1. \A i \in DOMAIN downstream' : downstream'[i] = Rejected
          BY <4>5
        <5> QED BY <5>1 DEF Rejected
      <4>6. CASE downstream' = <<Registered>> \o again
        <5>1. downstream' \in Seq({Registered} \cup {Command(c) : c \in ToSet(unacked)})
          BY <4>4, <4>6
        <5>2. \A i \in DOMAIN downstream' :
                  downstream'[i] \in {Registered} \cup {Command(c) : c \in ToSet(unacked)}
          BY <5>1
        <5> QED BY <1>a, <4>1, <4>3, <5>2
      <4> QED BY <4>1, <4>5, <4>6
    <3>2. CASE Head(upstream).kind = "event"
      <4>1. downstream' = Append(downstream, Ack(Head(upstream).id))
        BY <1>5, <3>2 DEF SignalingReceive, Register
      <4>2. \A i \in DOMAIN downstream' : downstream'[i] = Ack(Head(upstream).id)
                                      \/ \E k \in DOMAIN downstream : downstream'[i] = downstream[k]
        BY <1>0, <4>1
      <4> QED BY <2>2, <4>2 DEF CommandsIssued, Ack
    <3>3. CASE Head(upstream).kind = "result"
      <4>1. downstream' = downstream
        BY <1>5, <3>3 DEF SignalingReceive, Register
      <4> QED BY <2>2, <4>1, <1>c
    <3> QED BY <1>5, <3>1, <3>2, <3>3 DEF SignalingReceive
  <2>4. ToSet(Pipe)' \subseteq ToSet(Pipe)
    <3>1. ToSet(upstream) = {Head(upstream)} \cup ToSet(upstream')
      BY <1>0, <2>1, QueueSets
    <3>2. CASE session = "sending"
      <4>1. upstream' \in Seq(UpMessages)
        BY <1>0, <2>1
      <4>2. ToSet(Append(upstream, inHand)) = ToSet(upstream) \cup {inHand}
        BY <1>0, QueueSets
      <4>3. ToSet(Append(upstream', inHand)) = ToSet(upstream') \cup {inHand}
        BY <4>1, QueueSets
      <4>4. Pipe = Append(upstream, inHand) /\ Pipe' = Append(upstream', inHand)
        BY <2>1, <3>2 DEF Pipe
      <4>5. ToSet(Pipe)' = ToSet(Pipe')
        BY DEF ToSet
      <4> QED BY <3>1, <4>2, <4>3, <4>4, <4>5
    <3>3. CASE session # "sending"
      <4>1. Pipe = upstream /\ Pipe' = upstream' /\ ToSet(Pipe)' = ToSet(Pipe')
        BY <2>1, <3>3 DEF Pipe, ToSet
      <4> QED BY <3>1, <4>1
    <3> QED BY <3>2, <3>3
  <2> QED BY <2>1, <2>2, <2>3, <2>4 DEF CommandsIssued, Result
<1>6. CASE Start \/ Connect \/ ConnectFails \/ FinishRegistration \/ QueueHealth \/ TakeEvent
           \/ FinishSend \/ Retry \/ ObserveStop \/ Finish \/ BreakLink
           \/ \E id \in replay : ReplayEvent(id)
  <2>1. /\ UNCHANGED <<unacked, answered>>
        /\ downstream' = downstream \/ downstream' = <<>>
             \/ (downstream # <<>> /\ downstream' = Tail(downstream))
    BY <1>6 DEF Start, Connect, ConnectFails, FinishRegistration, CloseLink, QueueHealth,
       TakeEvent, FinishSend, Transmit, Retry, ObserveStop, Finish, BreakLink, ReplayEvent,
       linkVars, signalingVars
  <2>2. session' \in {"dispatching", "awaiting"} => inHand' \in Issued
    BY <1>6 DEF Start, Connect, ConnectFails, FinishRegistration, QueueHealth,
       TakeEvent, FinishSend, Transmit, Retry, ObserveStop, Finish, BreakLink, ReplayEvent,
       sessionVars, CommandsIssued
  <2>3. \/ Pipe' = Pipe \/ ToSet(Pipe') \subseteq ToSet(Pipe) \/ Pipe' = <<Register>>
        \/ \E id : Pipe' = Append(Pipe, Event(id))
    <3>1. CASE BreakLink
      <4>1. CASE session = "sending"
        <5>1. Pipe' = <<inHand>> /\ Pipe = Append(upstream, inHand)
          BY <3>1, <4>1 DEF BreakLink, Pipe, sessionVars
        <5>2. inHand \in ToSet(Pipe)
          BY <1>0, <5>1, QueueSets
        <5> QED BY <5>1, <5>2 DEF ToSet
      <4>2. CASE session # "sending"
        BY <3>1, <4>2 DEF BreakLink, Pipe, sessionVars, ToSet
      <4> QED BY <4>1, <4>2
    <3>2. CASE FinishSend
      <4>1. Pipe' = Pipe \/ (session = "sending" /\ Pipe' = upstream)
        BY <3>2 DEF FinishSend, Transmit, Pipe, linkVars
      <4>2. session = "sending" => ToSet(Pipe) = ToSet(upstream) \cup {inHand}
        BY <1>0, QueueSets DEF Pipe
      <4> QED BY <4>1, <4>2
    <3>3. CASE FinishRegistration \/ ObserveStop
      BY <3>3 DEF FinishRegistration, ObserveStop, CloseLink, Pipe, ToSet
    <3>4. CASE Start \/ Connect \/ ConnectFails \/ QueueHealth \/ TakeEvent \/ Retry \/ Finish
               \/ \E id \in replay : ReplayEvent(id)
      BY <3>4 DEF Start, Connect, ConnectFails, QueueHealth, TakeEvent, Retry, Finish,
         ReplayEvent, Transmit, Pipe, linkVars
    <3> QED BY <1>6, <3>1, <3>2, <3>3, <3>4
  <2>4. \A c \in Commands : Result(c) \in ToSet(Pipe') => Result(c) \in ToSet(Pipe)
    <3>1. ASSUME Pipe' = <<Register>>, NEW c PROVE Result(c) \notin ToSet(Pipe')
      BY <3>1 DEF ToSet, Result, Register
    <3>2. ASSUME NEW id, Pipe' = Append(Pipe, Event(id)), NEW c, Result(c) \in ToSet(Pipe')
          PROVE  Result(c) \in ToSet(Pipe)
      BY <1>b, <3>2, Messages
    <3> QED BY <2>3, <3>1, <3>2
  <2> QED BY <1>1, <2>1, <2>2, <2>4
<1>7. CASE UNCHANGED <<session, inHand, upstream, downstream, unacked, answered>>
  <2>1. Pipe' = Pipe
    BY <1>7 DEF Pipe
  <2> QED BY <1>1, <1>7, <2>1 DEF CommandsIssued
<1> QED
  BY <1>2, <1>3, <1>4, <1>5, <1>6, <1>7 DEF Next, WorkerStep, SessionStep, ShardStep, MainStep,
     ShardCommand, ShardMedia, NumberEvent, SendEvent, FinishDrain, ShardStop,
     Interrupt, JoinService, JoinRedirect, ServiceEnded,
     vars, sessionVars, linkVars, signalingVars

\* The circular wait is never left: the session task waits for the shard, every
\* shard with an event waits for room in the channel, and only the session task
\* makes room.
LEMMA JammedForEver ==
    TypeInv /\ MainInv /\ CircularWait /\ [Next]_vars => CircularWait' /\ (Running => Running')
<1> SUFFICES ASSUME TypeInv, MainInv, CircularWait, [Next]_vars
             PROVE  CircularWait' /\ (Running => Running')
  OBVIOUS
<1>0. PICK s \in Shards : s = ShardOf[inHand]
  BY SessionAssumption DEF TypeInv, Shape, CircularWait
<1>1. /\ session = "awaiting" /\ Len(eventQ) = EventCapacity /\ EventCapacity \in Nat
      /\ shard[s] = "drain" /\ outbox[s] > 0 /\ reply[s] = "empty" /\ receiver
      /\ DOMAIN shard = Shards /\ DOMAIN outbox = Shards /\ DOMAIN reply = Shards
      /\ main # "joining"
  BY <1>0, SessionAssumption DEF CircularWait, TypeInv, TypeOK, Stages, MainInv
<1>2. UNCHANGED <<session, inHand, eventQ>> /\ (Running => Running')
  <2>1. ~SessionStep /\ ~ConnectFails
    BY <1>0, <1>1 DEF SessionStep, Start, Connect, ConnectFails, FinishRegistration, ReplayEvent,
       QueueHealth, TakeEvent, TakeMessage, FinishSend, Dispatch, FinishDispatch, Retry,
       ObserveStop, Finish
  <2>2. ASSUME NEW t \in Shards, SendEvent(t) PROVE FALSE
    BY <1>1, <2>2 DEF SendEvent
  <2> QED
    BY <1>1, <2>1, <2>2 DEF Next, WorkerStep, MainStep, ShardStep, ShardCommand, ShardMedia,
       NumberEvent, FinishDrain, ShardStop, Interrupt, JoinService, JoinRedirect, ServiceEnded,
       Issue, SignalingReceive, BreakLink, Running, vars, mainVars, sessionVars, channelVars
<1>3. shard'[s] = "drain" /\ outbox'[s] > 0 /\ reply'[s] = "empty"
  <2>1. ASSUME NEW t \in Shards, ShardCommand(t) \/ ShardMedia(t) \/ ShardStop(t)
        PROVE  shard'[s] = "drain" /\ outbox'[s] > 0 /\ reply'[s] = "empty"
    BY <1>1, <2>1 DEF ShardCommand, ShardMedia, ShardStop, Emit
  <2>2. ASSUME NEW t \in Shards, NumberEvent(t) \/ FinishDrain(t)
        PROVE  shard'[s] = "drain" /\ outbox'[s] > 0 /\ reply'[s] = "empty"
    <3>1. UNCHANGED <<outbox, reply>>
      BY <2>2 DEF NumberEvent, FinishDrain
    <3>2. shard' = shard \/ (outbox[t] = 0 /\ shard' = [shard EXCEPT ![t] = "select"])
      BY <2>2 DEF NumberEvent, FinishDrain
    <3>3. outbox[t] = 0 => t # s
      BY <1>1
    <3> QED BY <1>1, <3>1, <3>2, <3>3
  <2>3. ~SessionStep /\ ~ConnectFails
    BY <1>0, <1>1 DEF SessionStep, Start, Connect, ConnectFails, FinishRegistration, ReplayEvent,
       QueueHealth, TakeEvent, TakeMessage, FinishSend, Dispatch, FinishDispatch, Retry,
       ObserveStop, Finish
  <2>4. ASSUME NEW t \in Shards, SendEvent(t) PROVE FALSE
    BY <1>1, <2>4 DEF SendEvent
  <2>5. UNCHANGED shardVars => shard'[s] = "drain" /\ outbox'[s] > 0 /\ reply'[s] = "empty"
    BY <1>1 DEF shardVars
  <2> QED
    BY <2>1, <2>2, <2>3, <2>4, <2>5 DEF Next, WorkerStep, MainStep, ShardStep, Interrupt,
       JoinService, JoinRedirect, ServiceEnded, Issue, SignalingReceive, BreakLink, vars
<1> QED BY <1>0, <1>1, <1>2, <1>3 DEF CircularWait

\* Every step takes the process from one phase to the same or a later one: it
\* starts once, ends only when told to, and never leaves the jam.
LEMMA PhaseStep ==
    ASSUME TypeInv, MainInv, [Next]_vars
    PROVE  \/ phase' = phase
           \/ phase = "starting" /\ phase' \in {"up", "stopping", "down"}
           \/ phase = "up" /\ phase' \in {"stopping", "jammed"}
           \/ phase = "stopping" /\ phase' \in {"down", "jammed"}
<1> DEFINE Early == session \in {"starting", "failed"}
<1>1. CircularWait => CircularWait' /\ (Running => Running')
  BY JammedForEver
<1>2. (stop => stop') /\ (~Early => ~Early') /\ (~Running => ~Running')
  BY DEF Next, WorkerStep, SessionStep, ShardStep, MainStep, Running,
     Start, Connect, ConnectFails, FinishRegistration, ReplayEvent, QueueHealth, TakeEvent,
     TakeMessage, FinishSend, Transmit, Dispatch, FinishDispatch, Retry, ObserveStop,
     Finish, ShardCommand, ShardMedia, NumberEvent, SendEvent, FinishDrain, ShardStop,
     Interrupt, JoinService, JoinRedirect, ServiceEnded, Issue, SignalingReceive, BreakLink,
     vars, mainVars, sessionVars
<1>3. Running /\ ~Running' => Early \/ stop
  <2>1. Running /\ ~Running' => JoinService \/ JoinRedirect \/ ServiceEnded
    BY DEF Next, WorkerStep, SessionStep, ShardStep, MainStep, Running,
       Start, Connect, ConnectFails, FinishRegistration, ReplayEvent, QueueHealth, TakeEvent,
       TakeMessage, FinishSend, Dispatch, FinishDispatch, Retry, ObserveStop,
       Finish, ShardCommand, ShardMedia, NumberEvent, SendEvent, FinishDrain, ShardStop,
       Interrupt, Issue, SignalingReceive, BreakLink, vars, mainVars
  <2> QED BY <2>1 DEF JoinService, JoinRedirect, ServiceEnded, MainInv, Closing
<1>4. CircularWait' => ~Early
  BY DEF CircularWait, Next, WorkerStep, SessionStep, ShardStep, MainStep,
     Start, Connect, ConnectFails, FinishRegistration, ReplayEvent, QueueHealth, TakeEvent,
     TakeMessage, FinishSend, Transmit, Dispatch, FinishDispatch, Retry, ObserveStop,
     Finish, ShardCommand, ShardMedia, NumberEvent, SendEvent, FinishDrain, ShardStop,
     Interrupt, JoinService, JoinRedirect, ServiceEnded, Issue, SignalingReceive, BreakLink,
     vars, sessionVars
<1>5. stop \in BOOLEAN
  BY DEF TypeInv, TypeOK
<1> HIDE DEF Early
<1>6. phase = IF ~Running THEN "down" ELSE IF CircularWait THEN "jammed"
              ELSE IF Early THEN "starting" ELSE IF stop THEN "stopping" ELSE "up"
  BY DEF phase, Early
<1>7. phase' = IF ~Running' THEN "down" ELSE IF CircularWait' THEN "jammed"
               ELSE IF Early' THEN "starting" ELSE IF stop' THEN "stopping" ELSE "up"
  BY DEF phase, Early
<1> QED BY <1>1, <1>2, <1>3, <1>4, <1>5, <1>6, <1>7

\* Every step of the worker and of signaling is a step of SfuWorker, or none.
LEMMA WorkerRefines ==
    ASSUME TypeInv, OrderInv, MainInv, CommandsIssued, [Next]_vars
    PROVE  [Worker!Next]_(Worker!vars)
<1>0. /\ TypeOK /\ Len(source) \in Nat /\ 1..(nextId - 1) = Ids /\ received \in Seq(EventIds)
      /\ source \in Seq(Shards \cup {Health})
  BY DEF TypeInv, TypeOK, nextId, Ids
<1>a. source' = source => (1..(nextId - 1))' = 1..(nextId - 1)
  BY DEF nextId
<1>b. received' = received => ToSet(received)' = ToSet(received)
  BY DEF ToSet
<1>c. UNCHANGED <<unacked, answered>> => (ToSet(unacked) \cup answered)' = ToSet(unacked) \cup answered
  BY DEF ToSet
<1>d. UNCHANGED <<main, stop, session, eventQ, inHand, shard, outbox, reply>> => phase' = phase
  BY DEF phase, Running, CircularWait
<1>e. Running /\ session \notin {"starting", "failed"} => phase \in {"up", "stopping", "jammed"}
  BY DEF phase
<1>1. CASE UNCHANGED <<source, received, unacked, answered>>
  <2>1. UNCHANGED <<1..(nextId - 1), ToSet(received), ToSet(unacked) \cup answered, answered>>
    BY <1>1, <1>a, <1>b, <1>c
  <2>2. CASE phase' = phase
    BY <2>1, <2>2 DEF Worker!vars
  <2>3. CASE phase' # phase
    <3>1. Worker!ChangePhase
      BY <2>1, <2>3, PhaseStep DEF Worker!ChangePhase
    <3> QED BY <3>1 DEF Worker!Next
  <2> QED BY <2>2, <2>3
<1>2. ASSUME NEW x, source' = Append(source, x), nextId \in EventIds,
             UNCHANGED <<received, unacked, answered>>, phase' = phase,
             phase \in {"up", "stopping", "jammed"}
      PROVE  [Worker!Next]_(Worker!vars)
  <2>1. (1..(nextId - 1))' = 1..(nextId - 1) \cup {nextId} /\ nextId \notin 1..(nextId - 1)
    <3>1. Len(source') = Len(source) + 1
      BY <1>0, <1>2
    <3> QED BY <1>0, <3>1 DEF nextId
  <2>2. UNCHANGED <<ToSet(received), ToSet(unacked) \cup answered, answered>>
    BY <1>2, <1>b, <1>c
  <2>3. PICK e \in EventIds : e = nextId
    BY <1>2
  <2>4. Worker!Produce(e)
    BY <1>2, <2>1, <2>2, <2>3 DEF Worker!Produce
  <2> QED BY <2>4 DEF Worker!Next
<1>3. CASE Running /\ QueueHealth /\ Budget > 0
  <2>1. /\ source' = Append(source, Health) /\ UNCHANGED <<received, unacked, answered>>
        /\ nextId \in EventIds
    BY <1>3, NextIdBounded DEF QueueHealth, signalingVars
  <2>2. /\ session \in {"replaying", "select"} /\ session' = "sending"
        /\ UNCHANGED <<main, stop>>
    BY <1>3 DEF QueueHealth, mainVars
  <2>3. phase' = phase
    BY <2>2 DEF phase, Running, CircularWait
  <2> QED BY <1>2, <1>3, <1>e, <2>1, <2>2, <2>3
<1>4. ASSUME NEW s \in Shards, Running, NumberEvent(s) PROVE [Worker!Next]_(Worker!vars)
  <2>1. /\ source' = Append(source, s) /\ UNCHANGED <<received, unacked, answered>>
        /\ nextId \in EventIds
    BY <1>4, NextIdBounded DEF NumberEvent, signalingVars
  <2>2. /\ UNCHANGED <<main, stop, session, eventQ, inHand, shard, outbox, reply>>
        /\ session \notin {"starting", "failed"}
    BY <1>4 DEF NumberEvent, mainVars, sessionVars, TypeInv, Stages
  <2> QED BY <1>2, <1>4, <1>d, <1>e, <2>1, <2>2
<1>5. ASSUME NEW c \in Commands, Issue(c) PROVE [Worker!Next]_(Worker!vars)
  <2>1. /\ UNCHANGED <<main, stop, session, eventQ, inHand, shard, outbox, reply, source, received,
                       answered>>
        /\ unacked' = Append(unacked, c) /\ ~Contains(unacked, c) /\ c \notin answered
    BY <1>5 DEF Issue, mainVars, sessionVars, channelVars, shardVars
  <2>2. unacked \in Seq(Commands)
    BY <1>0 DEF TypeOK
  <2>3. c \notin ToSet(unacked)
    BY <2>1, <2>2 DEF Contains, ToSet
  <2>4. (ToSet(unacked) \cup answered)' = (ToSet(unacked) \cup answered) \cup {c}
    <3>1. ToSet(Append(unacked, c)) = ToSet(unacked) \cup {c}
      BY <2>2, QueueSets
    <3> QED BY <2>1, <3>1 DEF ToSet
  <2>5. Worker!Issue(c)
    BY <1>a, <1>b, <1>d, <2>1, <2>3, <2>4 DEF Worker!Issue
  <2> QED BY <2>5 DEF Worker!Next
<1>6. CASE SignalingReceive
  <2>1. /\ UNCHANGED <<main, stop, session, eventQ, inHand, shard, outbox, reply, source>>
        /\ upstream # <<>>
    BY <1>6 DEF SignalingReceive, mainVars, sessionVars, channelVars, shardVars
  <2>2. phase' = phase /\ (1..(nextId - 1))' = 1..(nextId - 1)
    BY <1>a, <1>d, <2>1
  <2>3. phase \in {"up", "stopping", "jammed"}
    <3>1. session \notin {"starting", "failed", "closing", "done"}
      BY <2>1 DEF OrderInv, Sessions
    <3>2. Running
      BY <1>0, <3>1 DEF MainInv, Running, TypeOK
    <3> QED BY <1>e, <3>1, <3>2
  <2>4. /\ upstream \in Seq(UpMessages) /\ Head(upstream) \in UpMessages
        /\ Head(upstream) \in ToSet(Pipe)
    <3>1. upstream \in Seq(UpMessages)
      BY DEF TypeInv, Shape
    <3>2. Head(upstream) \in ToSet(upstream)
      BY <2>1, <3>1, QueueSets
    <3>3. session = "sending" => ToSet(Pipe) = ToSet(upstream) \cup {inHand}
      BY <3>1, QueueSets DEF Pipe
    <3> QED BY <2>1, <3>1, <3>2, <3>3 DEF Pipe
  <2>5. CASE Head(upstream).kind = "event"
    <3>1. PICK id \in EventIds : Head(upstream) = Event(id)
      BY <2>4, <2>5 DEF UpMessages, Register, Result
    <3>2. id = Head(upstream).id
      BY <3>1 DEF Event
    <3>3. /\ received' = IF Contains(received, id) THEN received ELSE Append(received, id)
          /\ UNCHANGED <<unacked, answered>>
      BY <1>6, <2>5, <3>2 DEF SignalingReceive, Register
    <3>4. id \in Ids
      BY <2>4, <3>1 DEF OrderInv, Drawn, Carries
    <3>5. CASE Contains(received, id)
      BY <1>1, <2>1, <3>3, <3>5
    <3>6. CASE ~Contains(received, id)
      <4>1. ToSet(received)' = ToSet(received) \cup {id}
        <5>1. ToSet(Append(received, id)) = ToSet(received) \cup {id}
          BY <1>0, QueueSets
        <5> QED BY <3>3, <3>6, <5>1 DEF ToSet
      <4>2. id \notin ToSet(received)
        BY <1>0, <3>6 DEF Contains, ToSet
      <4>3. Worker!Accept(id)
        BY <1>0, <1>c, <2>2, <2>3, <3>3, <3>4, <4>1, <4>2 DEF Worker!Accept
      <4> QED BY <4>3 DEF Worker!Next
    <3> QED BY <3>5, <3>6
  <2>6. CASE Head(upstream).kind = "result"
    <3>1. PICK c \in Commands : Head(upstream) = Result(c)
      BY <2>4, <2>6 DEF UpMessages, Register, Event
    <3>2. c \in Issued
      BY <2>4, <3>1 DEF CommandsIssued
    <3>3. received' = received /\ answered' = answered \cup {c}
      <4>1. c = Head(upstream).command
        BY <3>1 DEF Result
      <4> QED BY <1>6, <2>6, <4>1 DEF SignalingReceive, Register
    <3>4. (ToSet(unacked) \cup answered)' = ToSet(unacked) \cup answered
      <4>1. Issued' = Issued
        <5>1. Issued \subseteq Issued'
          BY IssuedStep
        <5>2. ToSet(unacked') \subseteq ToSet(unacked)
          <6> DEFINE d == Head(upstream).command
          <6>1. unacked' = IF Contains(unacked, d)
                           THEN RemoveAt(unacked, CHOOSE i \in DOMAIN unacked : unacked[i] = d)
                           ELSE unacked
            BY <1>6, <2>6 DEF SignalingReceive, Register
          <6>2. unacked \in Seq(Commands)
            BY <1>0 DEF TypeOK
          <6> HIDE DEF d
          <6>3. ASSUME Contains(unacked, d) PROVE ToSet(unacked') \subseteq ToSet(unacked)
            <7>1. \E i \in DOMAIN unacked : unacked[i] = d
              BY <6>2, <6>3 DEF Contains
            <7>2. (CHOOSE i \in DOMAIN unacked : unacked[i] = d) \in DOMAIN unacked
              BY <7>1
            <7> QED BY <6>1, <6>2, <6>3, <7>2, RemoveOne
          <6> QED BY <6>1, <6>3
        <5>3. ToSet(unacked)' = ToSet(unacked')
          BY DEF ToSet
        <5> QED BY <3>2, <3>3, <5>1, <5>2, <5>3 DEF Issued
      <4> QED BY <4>1 DEF Issued
    <3>5. CASE c \in answered
      <4>1. answered' = answered
        BY <3>3, <3>5
      <4> QED BY <1>b, <2>2, <3>3, <3>4, <4>1 DEF Worker!vars
    <3>6. CASE c \notin answered
      <4>1. Worker!Answer(c)
        BY <1>b, <2>2, <2>3, <3>2, <3>3, <3>4, <3>6 DEF Worker!Answer, Issued
      <4> QED BY <4>1 DEF Worker!Next
    <3> QED BY <3>5, <3>6
  <2>7. CASE Head(upstream).kind \notin {"event", "result"}
    BY <1>1, <1>6, <2>1, <2>7 DEF SignalingReceive, signalingVars
  <2> QED BY <2>5, <2>6, <2>7
<1>7. \/ UNCHANGED <<source, received, unacked, answered>>
      \/ Running /\ QueueHealth /\ Budget > 0
      \/ (\E s \in Shards : Running /\ NumberEvent(s))
      \/ (\E c \in Commands : Issue(c))
      \/ SignalingReceive
  BY DEF Next, WorkerStep, SessionStep, ShardStep, MainStep,
     Start, Connect, ConnectFails, FinishRegistration, ReplayEvent, QueueHealth, TakeEvent,
     TakeMessage, FinishSend, Dispatch, FinishDispatch, Retry, ObserveStop,
     Finish, ShardCommand, ShardMedia, SendEvent, FinishDrain, ShardStop,
     Interrupt, JoinService, JoinRedirect, ServiceEnded, BreakLink,
     vars, channelVars, signalingVars
<1> QED BY <1>1, <1>3, <1>4, <1>5, <1>6, <1>7

\* The worker implements the safety half of the promise of SfuWorker
\* (KeepsWorkerPromise): it produces an event once, signaling accepts only what
\* was produced and gets results only for commands it has issued, service ends
\* only when told to, and the circular wait is never left.
THEOREM KeepsWorkerSafety == Spec => Worker!Init /\ [][Worker!Next]_(Worker!vars)
<1>1. Init => Worker!Init
  <2> SUFFICES ASSUME Init PROVE Worker!Init
    OBVIOUS
  <2>1. 1..(nextId - 1) = {} /\ ToSet(received) = {} /\ ToSet(unacked) = {} /\ answered = {}
    BY DEF Init, nextId, ToSet
  <2>2. phase = "starting"
    BY DEF Init, phase, Running, CircularWait
  <2> QED BY <2>1, <2>2 DEF Worker!Init
<1>2. Init => MainInv /\ CommandsIssued
  <2> SUFFICES ASSUME Init PROVE MainInv /\ CommandsIssued
    OBVIOUS
  <2>1. MainInv
    BY DEF Init, MainInv, Closing
  <2>2. ToSet(Pipe) = {} /\ DOMAIN downstream = {} /\ session = "starting"
    BY DEF Init, Pipe, ToSet
  <2> QED BY <2>1, <2>2 DEF CommandsIssued
<1>3. TypeInv /\ OrderInv /\ MainInv /\ CommandsIssued /\ [Next]_vars => MainInv' /\ CommandsIssued'
  BY MainStage, IssuedStep
<1>4. TypeInv /\ OrderInv /\ MainInv /\ CommandsIssued /\ [Next]_vars => [Worker!Next]_(Worker!vars)
  BY WorkerRefines
<1> QED BY <1>1, <1>2, <1>3, <1>4, OrderInvHolds, PTL DEF Spec
=============================================================================
