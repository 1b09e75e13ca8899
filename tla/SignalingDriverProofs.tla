----------------------- MODULE SignalingDriverProofs -----------------------
(***************************************************************************)
(* Proofs about SignalingDriver for any browsers, workers, capacities and  *)
(* outputs of the Collider.                                                *)
(***************************************************************************)
EXTENDS SignalingDriver, FiniteSetTheorems, SequenceTheorems, TLAPS

-----------------------------------------------------------------------------
(* The inductive invariant.                                                 *)

Entries == [connection : Connections, kind : {"text", "close"}]
Places == {"idle", "handshake", "respond", "announce", "select", "write", "close", "forward", "leave", "ended"}
DriverPlaces == {"select", "drain", "close", "close drain", "stopping", "stopped"}
CommandTypes == [kind : {"connected", "input", "disconnected"}, connection : Connections]

\* A task that has not announced itself, and one that may still write.
Before == {"idle", "handshake", "respond", "announce"}
Serving == {"select", "write", "forward"}

Types ==
    /\ task \in [Connections -> Places]
    /\ frame \in [Connections -> Nat]
    /\ peer \in [Connections -> {"open", "stalled", "gone"}]
    /\ inputs \in 0..MaxInputs
    /\ queue \in [Connections -> Seq(Nat)] /\ delivered \in [Connections -> Seq(Nat)]
    /\ \A c \in Connections : Len(queue[c]) <= OutputCapacity
    /\ commands \in Seq(CommandTypes) /\ Len(commands) <= CommandCapacity
    /\ senders \subseteq Connections /\ known \subseteq Connections /\ IsFiniteSet(known)
    /\ dropped \subseteq Browsers
    /\ log \in Seq(Entries) /\ drained \in 0..Len(log)
    /\ driver \in DriverPlaces
    /\ stopping \in BOOLEAN /\ accepting \in BOOLEAN
    /\ main \in {"serving", "transports", "collider", "down"}

\* What a connection has been written, what its task is writing and what waits
\* in its channel are in the order of the log, not counting Close frames of the
\* event loop's own.
Increasing(s) == \A i, j \in 1..Len(s) : i < j /\ s[i] # CloseFrame /\ s[j] # CloseFrame => s[i] < s[j]

Ordered(c) ==
    /\ Increasing(delivered[c]) /\ Increasing(queue[c])
    /\ \A n \in ToSet(delivered[c]) :
          /\ n # CloseFrame /\ n <= drained
          /\ task[c] = "write" => n < frame[c]
          /\ \A m \in ToSet(queue[c]) : m # CloseFrame => n < m
    /\ \A m \in ToSet(queue[c]) :
          /\ m <= drained
          /\ task[c] = "write" /\ m # CloseFrame => frame[c] < m
    /\ frame[c] <= drained
    /\ task[c] = "write" => frame[c] # CloseFrame

\* The Collider hears of a connection once, and has nothing for it before.
Stranger(c) ==
    /\ task[c] \in Before => \A i \in 1..Len(commands) : commands[i] # Connected(c)
    /\ \A i, j \in 1..Len(commands) : commands[i] = Connected(c) /\ commands[j] = Connected(c) => i = j
    /\ (task[c] \in Before \/ \E i \in 1..Len(commands) : commands[i] = Connected(c)) =>
          c \notin known /\ \A m \in 1..Len(log) : log[m].connection # c

\* The outputs a worker's stream has or will have.
Pipe(w) == ToSet(delivered[w]) \cup ToSet(queue[w])
               \cup (IF task[w] = "write" THEN {frame[w]} ELSE {})

\* The stream has no holes, and misses nothing while it has its sender.
NoHoles(w, ns) == \A n \in ns : \A m \in 1..(n - 1) : log[m].connection = w => m \in ns

Piped(w) ==
    /\ NoHoles(w, ToSet(delivered[w]))
    /\ task[w] \in Before \cup Serving =>
          /\ NoHoles(w, Pipe(w))
          /\ w \in senders => \A m \in 1..drained : log[m].connection = w => m \in Pipe(w)

Inv ==
    /\ Types
    /\ \A c \in Connections : Ordered(c) /\ Stranger(c)
    /\ \A w \in Workers : Piped(w)

\* Once a browser's task has ended, the Collider knows it or is to be told of it.
Farewell(c) ==
    driver # "stopped" /\ task[c] = "ended" =>
        /\ c \in known => \E j \in 1..Len(commands) : commands[j] = Disconnected(c)
        /\ \A i \in 1..Len(commands) :
              commands[i] = Connected(c) => \E j \in (i + 1)..Len(commands) : commands[j] = Disconnected(c)

\* The event loop is stopped last.
StoppedLast ==
    /\ main \in {"collider", "down"} => ~accepting /\ \A c \in Browsers : Ended(c)
    /\ driver \in {"close", "close drain", "stopping", "stopped"} => main \in {"collider", "down"}
    /\ driver \in {"close drain", "stopping"} => known \cap Browsers = {}

CutInv == (\A c \in Browsers : Farewell(c)) /\ StoppedLast

-----------------------------------------------------------------------------
(* Sequences.                                                               *)

LEMMA FunctionIsSeq ==
    ASSUME NEW S, NEW n \in Nat, NEW f \in [1..n -> S]
    PROVE  f \in Seq(S)
BY SeqDef

LEMMA AppendSet ==
    ASSUME NEW S, NEW s \in Seq(S), NEW x \in S
    PROVE  ToSet(Append(s, x)) = ToSet(s) \cup {x}
<1>1. /\ Append(s, x) \in Seq(S) /\ Len(Append(s, x)) = Len(s) + 1 /\ Len(s) \in Nat
      /\ \A i \in 1..Len(s) : Append(s, x)[i] = s[i]
      /\ Append(s, x)[Len(s) + 1] = x
      /\ DOMAIN Append(s, x) = 1..(Len(s) + 1) /\ DOMAIN s = 1..Len(s)
  OBVIOUS
<1>2. ASSUME NEW i \in 1..(Len(s) + 1) PROVE i \in 1..Len(s) \/ i = Len(s) + 1
  BY <1>1
<1>3. \A i \in 1..Len(s) : i \in 1..(Len(s) + 1)
  BY <1>1
<1>4. Len(s) + 1 \in 1..(Len(s) + 1)
  BY <1>1
<1> QED BY <1>1, <1>2, <1>3, <1>4 DEF ToSet

LEMMA HeadSet ==
    ASSUME NEW S, NEW s \in Seq(S), s # <<>>
    PROVE  /\ ToSet(s) = {Head(s)} \cup ToSet(Tail(s))
           /\ Tail(s) \in Seq(S) /\ Head(s) \in S
           /\ Len(s) \in Nat \ {0} /\ Len(Tail(s)) = Len(s) - 1
           /\ \A i \in 1..Len(Tail(s)) : Tail(s)[i] = s[i + 1] /\ i + 1 \in 1..Len(s)
           /\ Head(s) = s[1]
<1>1. /\ Tail(s) \in Seq(S) /\ Head(s) \in S /\ Len(s) \in Nat /\ Len(s) # 0
      /\ Len(Tail(s)) = Len(s) - 1
      /\ \A i \in 1..(Len(s) - 1) : Tail(s)[i] = s[i + 1]
      /\ Head(s) = s[1] /\ DOMAIN s = 1..Len(s) /\ DOMAIN Tail(s) = 1..(Len(s) - 1)
  OBVIOUS
<1>2. \A i \in 1..(Len(s) - 1) : i + 1 \in 1..Len(s)
  BY <1>1
<1>3. ASSUME NEW x \in ToSet(s) PROVE x \in {Head(s)} \cup ToSet(Tail(s))
  <2>1. PICK j \in 1..Len(s) : x = s[j]
    BY <1>1 DEF ToSet
  <2>2. CASE j = 1
    BY <1>1, <2>1, <2>2
  <2>3. CASE j # 1
    <3>1. PICK i \in 1..(Len(s) - 1) : i + 1 = j
      BY <1>1, <2>1, <2>3
    <3> QED BY <1>1, <2>1, <3>1 DEF ToSet
  <2> QED BY <2>2, <2>3
<1>4. 1 \in 1..Len(s)
  BY <1>1
<1>5. ToSet(s) = {Head(s)} \cup ToSet(Tail(s))
  BY <1>1, <1>2, <1>3, <1>4 DEF ToSet
<1> QED BY <1>1, <1>2, <1>5

LEMMA ElementsOf ==
    ASSUME NEW S, NEW s \in Seq(S)
    PROVE  ToSet(s) \subseteq S /\ ToSet(s) = {s[i] : i \in 1..Len(s)}
BY DEF ToSet

LEMMA AppendIncreasing ==
    ASSUME NEW s \in Seq(Nat), Increasing(s), NEW x \in Nat,
           x # CloseFrame => \A n \in ToSet(s) : n # CloseFrame => n < x
    PROVE  Increasing(Append(s, x))
<1>1. /\ Len(Append(s, x)) = Len(s) + 1 /\ Len(s) \in Nat
      /\ \A i \in 1..Len(s) : Append(s, x)[i] = s[i]
      /\ Append(s, x)[Len(s) + 1] = x
  OBVIOUS
<1>2. ASSUME NEW i \in 1..(Len(s) + 1), NEW j \in 1..(Len(s) + 1), i < j,
             Append(s, x)[i] # CloseFrame, Append(s, x)[j] # CloseFrame
      PROVE  Append(s, x)[i] < Append(s, x)[j]
  <2>1. i \in 1..Len(s) /\ Append(s, x)[i] = s[i]
    BY <1>1, <1>2
  <2>2. CASE j = Len(s) + 1
    <3>1. s[i] \in ToSet(s)
      BY <2>1 DEF ToSet
    <3> QED BY <1>1, <1>2, <2>1, <2>2, <3>1
  <2>3. CASE j # Len(s) + 1
    <3>1. j \in 1..Len(s) /\ Append(s, x)[j] = s[j]
      BY <1>1, <2>3
    <3> QED BY <1>2, <2>1, <3>1 DEF Increasing
  <2> QED BY <2>2, <2>3
<1> QED BY <1>1, <1>2 DEF Increasing

LEMMA TailIncreasing ==
    ASSUME NEW s \in Seq(Nat), s # <<>>, Increasing(s)
    PROVE  /\ Increasing(Tail(s))
           /\ Head(s) # CloseFrame => \A m \in ToSet(Tail(s)) : m # CloseFrame => Head(s) < m
<1>1. /\ Tail(s) \in Seq(Nat) /\ Len(s) \in Nat \ {0} /\ Len(Tail(s)) = Len(s) - 1
      /\ \A i \in 1..Len(Tail(s)) : Tail(s)[i] = s[i + 1] /\ i + 1 \in 1..Len(s)
      /\ Head(s) = s[1]
  BY HeadSet
<1>2. Increasing(Tail(s))
  <2>1. ASSUME NEW i \in 1..Len(Tail(s)), NEW j \in 1..Len(Tail(s)), i < j,
               Tail(s)[i] # CloseFrame, Tail(s)[j] # CloseFrame
        PROVE  Tail(s)[i] < Tail(s)[j]
    <3>1. i + 1 < j + 1
      BY <1>1, <2>1
    <3> QED BY <1>1, <2>1, <3>1 DEF Increasing
  <2> QED BY <2>1 DEF Increasing
<1>3. ASSUME NEW m \in ToSet(Tail(s)), m # CloseFrame, Head(s) # CloseFrame
      PROVE  Head(s) < m
  <2>1. PICK i \in 1..Len(Tail(s)) : m = Tail(s)[i]
    BY <1>1 DEF ToSet
  <2>2. m = s[i + 1] /\ i + 1 \in 1..Len(s) /\ 1 \in 1..Len(s) /\ 1 < i + 1
    BY <1>1, <2>1
  <2> QED BY <1>1, <1>3, <2>2 DEF Increasing
<1> QED BY <1>2, <1>3

-----------------------------------------------------------------------------
(* Kinds of steps.                                                          *)

\* The Collider's log grows by outputs for members.
Grows(members) ==
    /\ log' \in Seq(Entries) /\ Len(log') \in Nat /\ Len(log) <= Len(log')
    /\ \A m \in 1..Len(log) : log'[m] = log[m]
    /\ \A m \in 1..Len(log') : m > Len(log) => log'[m].connection \in members

LEMMA BatchGrows ==
    ASSUME log \in Seq(Entries), NEW members \in SUBSET Connections,
           NEW batch \in Seq([connection : members, kind : {"text", "close"}]),
           log' = log \o batch
    PROVE  Grows(members)
<1> DEFINE R == [connection : members, kind : {"text", "close"}]
<1>0. /\ R \subseteq Entries /\ batch \in Seq(R) /\ \A x \in R : x.connection \in members
  BY DEF Entries
<1> HIDE DEF R
<1>1. batch \in Seq(Entries)
  <2>1. batch \in [1..Len(batch) -> R] /\ Len(batch) \in Nat
    BY <1>0
  <2>2. batch \in [1..Len(batch) -> Entries]
    BY <1>0, <2>1
  <2>3. PICK n \in Nat : n = Len(batch)
    BY <2>1
  <2>4. batch \in [1..n -> Entries]
    BY <2>2, <2>3
  <2> QED BY <2>4, FunctionIsSeq
<1>2. /\ log' \in Seq(Entries) /\ Len(log') = Len(log) + Len(batch)
      /\ Len(log) \in Nat /\ Len(batch) \in Nat
      /\ \A m \in 1..Len(log) : log'[m] = log[m]
      /\ \A m \in 1..Len(log') : m > Len(log) => log'[m] = batch[m - Len(log)]
  BY <1>1
<1>3. ASSUME NEW m \in 1..Len(log'), m > Len(log)
      PROVE  log'[m].connection \in members
  <2>1. m - Len(log) \in 1..Len(batch)
    BY <1>2, <1>3
  <2>2. batch[m - Len(log)] \in R
    BY <1>0, <2>1
  <2> QED BY <1>0, <1>2, <1>3, <2>2
<1> QED BY <1>2, <1>3 DEF Grows

LEMMA EmitGrows ==
    ASSUME log \in Seq(Entries), NEW members \in SUBSET Connections, Emit(members)
    PROVE  Grows(members)
<1>1. PICK n \in 0..MaxBatch :
         \E batch \in [1..n -> [connection : members, kind : {"text", "close"}]] :
            log' = log \o batch
  BY DEF Emit
<1>2. PICK batch \in [1..n -> [connection : members, kind : {"text", "close"}]] :
         log' = log \o batch
  BY <1>1
<1>3. n \in Nat
  BY DriverAssumption
<1>4. batch \in Seq([connection : members, kind : {"text", "close"}])
  <2> DEFINE R == [connection : members, kind : {"text", "close"}]
  <2>1. batch \in [1..n -> R]
    OBVIOUS
  <2> HIDE DEF R
  <2>2. batch \in Seq(R)
    BY <1>3, <2>1, FunctionIsSeq
  <2> QED BY <2>2 DEF R
<1> QED BY <1>2, <1>4, BatchGrows

LEMMA StillGrows ==
    ASSUME log \in Seq(Entries), log' = log, NEW members
    PROVE  Grows(members)
<1>1. Len(log) \in Nat
  OBVIOUS
<1> QED BY <1>1 DEF Grows

\* A task's locals stay, or go when it ends.
Locals(c) ==
    \/ UNCHANGED <<frame, queue>>
    \/ /\ task'[c] = "ended"
       /\ queue' = [queue EXCEPT ![c] = <<>>]
       /\ frame' = [frame EXCEPT ![c] = CloseFrame]

\* A task moves on its own.
Move(c, q) ==
    /\ task' = [task EXCEPT ![c] = q]
    /\ \/ q = task[c]
       \/ task[c] \in Before /\ q \in {"handshake", "respond", "announce", "ended"}
          /\ (task[c] = "idle" => c \in Workers \/ accepting)
       \/ task[c] \in Serving \cup {"close"} /\ q \in {"leave", "close"}
       \/ task[c] = "select" /\ q = "forward"
       \/ task[c] = "leave" /\ q = "ended" /\ driver = "stopped"
    /\ peer' \in [Connections -> {"open", "stalled", "gone"}]
    /\ inputs' \in 0..MaxInputs
    /\ Locals(c)
    /\ UNCHANGED <<delivered, commands, driverVars, mainVars>>

\* It sends a command to the event loop.
Send(c, cmd, q) ==
    /\ driver # "stopped" /\ Len(commands) < CommandCapacity
    /\ commands' = Append(commands, cmd)
    /\ task' = [task EXCEPT ![c] = q]
    /\ \/ task[c] = "announce" /\ cmd = Connected(c) /\ q = "select"
       \/ task[c] = "forward" /\ cmd = Text(c) /\ q = "select"
       \/ task[c] = "leave" /\ cmd = Disconnected(c) /\ q = "ended"
    /\ Locals(c)
    /\ UNCHANGED <<peer, inputs, delivered, driverVars, mainVars>>

\* It takes an output.
Take(c, q) ==
    /\ task[c] = "select" /\ queue[c] # <<>>
    /\ queue' = [queue EXCEPT ![c] = Tail(queue[c])]
    /\ frame' = [frame EXCEPT ![c] = Head(queue[c])]
    /\ task' = [task EXCEPT ![c] = q]
    /\ q \in {"write", "close", "leave"}
    /\ q = "write" => Head(queue[c]) # CloseFrame
    /\ UNCHANGED <<peer, inputs, delivered, commands, driverVars, mainVars>>

\* It has written one.
Written(c) ==
    /\ task[c] = "write"
    /\ delivered' = [delivered EXCEPT ![c] = Append(delivered[c], frame[c])]
    /\ task' = [task EXCEPT ![c] = "select"]
    /\ UNCHANGED <<frame, peer, inputs, queue, commands, driverVars, mainVars>>

\* The event loop handles a command.
Handled(cmd) ==
    /\ commands # <<>> /\ cmd = Head(commands) /\ commands' = Tail(commands)
    /\ HandleCommand(cmd)
    /\ (driver = "select" /\ driver' = "drain") \/ (driver = "close" /\ driver' = "close")
    /\ UNCHANGED <<drained, dropped, task, frame, peer, inputs, delivered, mainVars>>

\* It moves on; the Collider may emit something.
Emitted ==
    /\ Grows(known') /\ known' \subseteq known /\ senders' \subseteq senders
    /\ dropped' \subseteq Browsers
    /\ \/ driver = "select" /\ driver' = "drain"
       \/ driver = "select" /\ driver' = "close" /\ (MayFail \/ main = "collider")
       \/ driver = "drain" /\ driver' = "select"
       \/ driver = "close" /\ driver' = "close drain" /\ commands = <<>>
       \/ driver = "close drain" /\ driver' = "stopping"
    /\ UNCHANGED <<drained, taskVars, commands, mainVars>>

MainMove ==
    /\ stopping' \in BOOLEAN /\ accepting' \in BOOLEAN /\ (accepting' => accepting)
    /\ main' \in {"serving", "transports", "collider", "down"}
    /\ main \in {"collider", "down"} => main' \in {"collider", "down"}
    /\ main' \in {"collider", "down"} /\ main \notin {"collider", "down"} =>
          ~accepting /\ \A c \in Browsers : Ended(c)
    /\ UNCHANGED <<taskVars, commands, driverVars>>

LEMMA ClosingGrows ==
    ASSUME Types, log' = log \o SetToSeq([connection : known, kind : {"close"}])
    PROVE  Grows(known)
<1> DEFINE S == [connection : known, kind : {"close"}]
<1>1. IsFiniteSet(S)
  <2> DEFINE f == [c \in known |-> [connection |-> c, kind |-> "close"]]
  <2>1. f \in Surjection(known, S)
    <3>1. f \in [known -> S]
      OBVIOUS
    <3>2. \A t \in S : \E c \in known : f[c] = t
      OBVIOUS
    <3> QED BY <3>1, <3>2 DEF Surjection
  <2>2. IsFiniteSet(known)
    BY DEF Types
  <2> QED BY <2>1, <2>2, FS_Surjection
<1> HIDE DEF S
<1>2. Cardinality(S) \in Nat /\ ExistsBijection(1..Cardinality(S), S)
  BY <1>1, FS_CardinalityType
<1>3. \E f \in [1..Cardinality(S) -> S] : IsInjective(f)
  BY <1>2 DEF ExistsBijection, Bijection, Injection
<1>4. SetToSeq(S) \in [1..Cardinality(S) -> S]
  BY <1>3 DEF SetToSeq
<1>5. SetToSeq(S) \in Seq(S)
  BY <1>2, <1>4, SeqDef
<1>6. S \subseteq [connection : known, kind : {"text", "close"}]
  BY DEF S
<1>7. SetToSeq(S) \in Seq([connection : known, kind : {"text", "close"}])
  <2>1. SetToSeq(S) \in [1..Cardinality(S) -> [connection : known, kind : {"text", "close"}]]
    BY <1>4, <1>6
  <2> QED BY <1>2, <2>1, SeqDef
<1>8. log' = log \o SetToSeq(S) /\ log \in Seq(Entries) /\ known \in SUBSET Connections
  BY DEF S, Types
<1> HIDE DEF S
<1> QED BY <1>7, <1>8, BatchGrows

\* A task's step is one of four kinds.
LEMMA TaskKinds ==
    ASSUME Types, NEW c \in Connections,
           \/ Accept(c) \/ OpenSfuSession(c) \/ TaskStep(c) \/ TakeInput(c) \/ IdleTimeout(c)
           \/ PeerChanges(c)
    PROVE  \/ \E q \in Places : Move(c, q) \/ Take(c, q)
           \/ \E q \in Places, cmd \in CommandTypes : Send(c, cmd, q)
           \/ Written(c)
<1>0. /\ peer \in [Connections -> {"open", "stalled", "gone"}]
      /\ inputs \in 0..MaxInputs /\ MaxInputs \in Nat
      /\ task \in [Connections -> Places]
  BY DriverAssumption DEF Types
<1>1. ASSUME NEW q \in Places, Goto(c, q),
             \/ task[c] \in Before /\ q \in {"handshake", "respond", "announce", "ended"}
                /\ (task[c] = "idle" => c \in Workers \/ accepting)
             \/ task[c] \in Serving \cup {"close"} /\ q \in {"leave", "close"}
             \/ task[c] = "select" /\ q = "forward"
             \/ task[c] = "leave" /\ q = "ended" /\ driver = "stopped",
             inputs' \in 0..MaxInputs,
             UNCHANGED <<frame, peer, queue, delivered, commands, driverVars, mainVars>>
      PROVE  Move(c, q)
  BY <1>0, <1>1 DEF Move, Goto, Locals
<1>2. CASE Accept(c)
  <2>1. Move(c, "handshake")
    BY <1>0, <1>1, <1>2 DEF Accept, Before, Places
  <2> QED BY <2>1 DEF Places
<1>3. CASE Handshake(c)
  <2>1. Move(c, "respond") \/ Move(c, "ended")
    BY <1>0, <1>1, <1>3 DEF Handshake, Before, Places
  <2> QED BY <2>1 DEF Places
<1>4. CASE OpenSfuSession(c)
  <2>1. Move(c, "announce") \/ Move(c, "ended")
    BY <1>0, <1>1, <1>4 DEF OpenSfuSession, Before, Places
  <2> QED BY <2>1 DEF Places
<1>14. CASE Respond(c)
  <2>1. Move(c, "announce") \/ Move(c, "ended")
    BY <1>0, <1>1, <1>14 DEF Respond, Before, Places
  <2> QED BY <2>1 DEF Places
<1>5. Connected(c) \in CommandTypes /\ Text(c) \in CommandTypes /\ Disconnected(c) \in CommandTypes
  BY DEF Connected, Text, Disconnected, CommandTypes
<1>6. CASE Announce(c)
  <2>1. Send(c, Connected(c), "select") \/ Move(c, "ended")
    BY <1>0, <1>1, <1>6 DEF Announce, SendCommand, Goto, Send, Locals, Before, Places
  <2> QED BY <1>5, <2>1 DEF Places
<1>7. CASE TakeOutput(c)
  <2> DEFINE last == IF c \in Browsers THEN "close" ELSE "leave"
  <2>1. CASE queue[c] # <<>> /\ queue' = [queue EXCEPT ![c] = Tail(@)]
             /\ frame' = [frame EXCEPT ![c] = Head(queue[c])]
             /\ Goto(c, IF Closes(Head(queue[c])) THEN last ELSE "write")
    <3> DEFINE q == IF Closes(Head(queue[c])) THEN last ELSE "write"
    <3>1. q \in {"write", "close", "leave"} /\ (q = "write" => Head(queue[c]) # CloseFrame)
      BY DEF Closes
    <3>2. Goto(c, q)
      BY <2>1
    <3> HIDE DEF q
    <3>3. Take(c, q)
      BY <1>7, <2>1, <3>1, <3>2 DEF TakeOutput, Take, Goto
    <3> QED BY <3>1, <3>3 DEF Places
  <2>2. CASE Goto(c, last) /\ UNCHANGED <<queue, frame>>
    <3>1. Move(c, last)
      BY <1>0, <1>1, <1>7, <2>2 DEF TakeOutput, Serving, Places
    <3> QED BY <3>1 DEF Places
  <2> QED BY <1>7, <2>1, <2>2 DEF TakeOutput
<1>8. CASE Write(c)
  <2>1. CASE peer[c] = "open"
    BY <1>8, <2>1 DEF Write, Written, Goto
  <2>2. CASE peer[c] = "gone"
    <3>1. Move(c, "leave")
      BY <1>0, <1>1, <1>8, <2>2 DEF Write, Serving, Places
    <3> QED BY <3>1 DEF Places
  <2> QED BY <1>8, <2>1, <2>2 DEF Write
<1>9. CASE WriteClose(c) \/ TakeEnd(c) \/ ObserveStop(c) \/ IdleTimeout(c)
  <2>1. Move(c, "leave")
    BY <1>0, <1>1, <1>9 DEF WriteClose, TakeEnd, ObserveStop, IdleTimeout, Serving, Places
  <2> QED BY <2>1 DEF Places
<1>10. CASE TakeInput(c)
  <2>1. inputs' \in 0..MaxInputs
    <3>1. inputs + 1 \in 0..MaxInputs /\ inputs' = inputs + 1
      BY <1>0, <1>10 DEF TakeInput
    <3> QED BY <1>0, <3>1
  <2>2. Move(c, "forward") \/ Move(c, "leave") \/ Move(c, "close")
    BY <1>0, <1>1, <1>10, <2>1 DEF TakeInput, Serving, Places
  <2> QED BY <2>2 DEF Places
<1>11. CASE Forward(c)
  <2>1. Send(c, Text(c), "select") \/ Move(c, "leave")
    BY <1>0, <1>1, <1>11 DEF Forward, SendCommand, Goto, Send, Locals, Serving, Places
  <2> QED BY <1>5, <2>1 DEF Places
<1>12. CASE Leave(c)
  <2>1. task' = [task EXCEPT ![c] = "ended"] /\ task[c] = "leave"
    BY <1>12 DEF Leave, SendCommand, Goto
  <2>2. Locals(c)
    BY <1>0, <1>12, <2>1 DEF Leave, Locals
  <2>3. Send(c, Disconnected(c), "ended") \/ Move(c, "ended")
    BY <1>0, <1>12, <2>1, <2>2 DEF Leave, SendCommand, Send, Move
  <2> QED BY <1>5, <2>3 DEF Places
<1>13. CASE PeerChanges(c)
  <2>1. peer' \in [Connections -> {"open", "stalled", "gone"}]
    BY <1>0, <1>13 DEF PeerChanges
  <2>2. task' = [task EXCEPT ![c] = task[c]] /\ task[c] \in Places
    BY <1>0, <1>13 DEF PeerChanges
  <2>3. Move(c, task[c])
    BY <1>0, <1>13, <2>1, <2>2 DEF PeerChanges, Move, Locals
  <2> QED BY <2>2, <2>3
<1> QED BY <1>2, <1>3, <1>4, <1>6, <1>7, <1>8, <1>9, <1>10, <1>11, <1>12, <1>13, <1>14 DEF TaskStep

\* Every other step is one of the event loop or of main.
LEMMA OtherKinds ==
    ASSUME Types, DriverStep \/ Tick \/ TickFails \/ Interrupt \/ MainStep \/ UNCHANGED vars
    PROVE  \/ \E cmd \in CommandTypes : Handled(cmd)
           \/ Emitted \/ Drain \/ DropReceiver \/ MainMove
<1>0. /\ commands \in Seq(CommandTypes) /\ log \in Seq(Entries) /\ known \in SUBSET Connections
      /\ dropped \subseteq Browsers /\ stopping \in BOOLEAN /\ accepting \in BOOLEAN
      /\ main \in {"serving", "transports", "collider", "down"}
  BY DEF Types
<1>1. commands # <<>> => Head(commands) \in CommandTypes
  BY <1>0
<1>2. CASE Receive
  <2>1. Handled(Head(commands)) /\ commands # <<>>
    BY <1>2 DEF Receive, Handled
  <2> QED BY <1>1, <2>1
<1>3. CASE FinishDrain
  <2>1. known' \in SUBSET Connections /\ known' \subseteq known
    BY <1>0, <1>3 DEF FinishDrain
  <2>2. Grows(known')
    <3>1. CASE dropped = {}
      BY <1>0, <1>3, <3>1, StillGrows DEF FinishDrain
    <3>2. CASE dropped # {}
      <4>1. PICK k : k = known'
        OBVIOUS
      <4>2. Emit(k)
        BY <1>3, <3>2, <4>1 DEF FinishDrain
      <4>3. Grows(k)
        BY <1>0, <2>1, <4>1, <4>2, EmitGrows
      <4> QED BY <4>1, <4>3
    <3> QED BY <3>1, <3>2
  <2> QED BY <1>3, <2>1, <2>2 DEF FinishDrain, Emitted
<1>4. CASE DriverObservesStop \/ TickFails
  <2>1. log' = log /\ known' = known
    BY <1>4 DEF DriverObservesStop, TickFails, colliderVars
  <2>2. Grows(known')
    BY <1>0, <2>1, StillGrows
  <2> QED BY <1>0, <1>4, <2>1, <2>2 DEF DriverObservesStop, TickFails, Emitted, colliderVars
<1>5. CASE DrainQueued
  <2>1. CASE commands # <<>>
    <3>1. Handled(Head(commands))
      BY <1>5, <2>1 DEF DrainQueued, Handled
    <3> QED BY <1>1, <2>1, <3>1
  <2>2. CASE commands = <<>>
    <3>1. log' = log \o SetToSeq([connection : known, kind : {"close"}]) /\ known' = known
      BY <1>5, <2>2 DEF DrainQueued
    <3>2. Grows(known)
      BY <3>1, ClosingGrows
    <3>3. Grows(known')
      BY <3>1, <3>2
    <3> QED BY <1>0, <1>5, <2>2, <3>1, <3>3 DEF DrainQueued, Emitted, taskVars
  <2> QED BY <2>1, <2>2
<1>6. CASE Tick
  <2>1. Grows(known) /\ known' = known
    BY <1>0, <1>6, EmitGrows DEF Tick
  <2>2. Grows(known')
    BY <2>1
  <2> QED BY <1>0, <1>6, <2>1, <2>2 DEF Tick, Emitted
<1>7. CASE Interrupt \/ MainStep \/ UNCHANGED vars
  <2>1. CASE Interrupt
    BY <1>0, <2>1 DEF Interrupt, MainMove
  <2>2. CASE StopAccepting
    BY <1>0, <2>2 DEF StopAccepting, MainMove
  <2>3. CASE TransportsDone
    <3>1. \A c \in Browsers : Ended(c)
      BY <2>3, DriverAssumption DEF TransportsDone, Connections
    <3> QED BY <1>0, <2>3, <3>1 DEF TransportsDone, MainMove
  <2>4. CASE ColliderDone
    BY <1>0, <2>4 DEF ColliderDone, MainMove
  <2>5. CASE UNCHANGED vars
    BY <1>0, <2>5 DEF vars, mainVars, MainMove
  <2> QED BY <1>7, <2>1, <2>2, <2>3, <2>4, <2>5 DEF MainStep
<1> QED BY <1>2, <1>3, <1>4, <1>5, <1>6, <1>7 DEF DriverStep

LEMMA Kinds ==
    ASSUME Types, [Next]_vars
    PROVE  \/ \E c \in Connections :
                 \/ \E q \in Places : Move(c, q) \/ Take(c, q)
                 \/ \E q \in Places, cmd \in CommandTypes : Send(c, cmd, q)
                 \/ Written(c)
           \/ \E cmd \in CommandTypes : Handled(cmd)
           \/ Emitted \/ Drain \/ DropReceiver \/ MainMove
<1>1. \/ \E c \in Connections :
            \/ Accept(c) \/ OpenSfuSession(c) \/ TaskStep(c) \/ TakeInput(c) \/ IdleTimeout(c)
            \/ PeerChanges(c)
      \/ DriverStep \/ Tick \/ TickFails \/ Interrupt \/ MainStep \/ UNCHANGED vars
  BY DEF Next
<1>2. ASSUME NEW c \in Connections,
             \/ Accept(c) \/ OpenSfuSession(c) \/ TaskStep(c) \/ TakeInput(c) \/ IdleTimeout(c)
             \/ PeerChanges(c)
      PROVE  \/ \E q \in Places : Move(c, q) \/ Take(c, q)
             \/ \E q \in Places, cmd \in CommandTypes : Send(c, cmd, q)
             \/ Written(c)
  BY <1>2, TaskKinds
<1> QED BY <1>1, <1>2, OtherKinds

\* What handling a command amounts to.
LEMMA HandledEffect ==
    ASSUME Types, NEW cmd \in CommandTypes, Handled(cmd)
    PROVE  /\ Grows(known') /\ known' \subseteq Connections /\ senders' \subseteq Connections
           /\ IsFiniteSet(known')
           /\ \A c \in known' \cup senders' : c \in (known \cup senders) \/ cmd = Connected(c)
           /\ \A c \in known' : c \in known \/ cmd = Connected(c)
           /\ \A c \in senders' : c \in senders \/ cmd = Connected(c)
           /\ \A c \in Connections : cmd = Disconnected(c) => c \notin known'
           /\ \/ queue' = queue
              \/ \E c \in Browsers :
                    /\ Len(queue[c]) < OutputCapacity
                    /\ queue' = [queue EXCEPT ![c] = Append(queue[c], CloseFrame)]
<1>0. /\ log \in Seq(Entries) /\ known \subseteq Connections /\ senders \subseteq Connections
      /\ IsFiniteSet(known)
  BY DEF Types
<1>1. PICK c \in Connections : c = cmd.connection
  BY DEF CommandTypes
<1>2. cmd \in CommandTypes /\ HandleCommand(cmd)
  BY DEF Handled
<1>3. ASSUME NEW k, k = known', k \in SUBSET Connections, Emit(k) \/ log' = log
      PROVE  Grows(known')
  <2>1. Grows(k)
    BY <1>0, <1>3, EmitGrows, StillGrows
  <2> QED BY <1>3, <2>1
<1>4. CASE cmd.kind = "connected"
  <2>1. cmd = Connected(c) /\ \A d : cmd # Disconnected(d)
    BY <1>1, <1>2, <1>4 DEF CommandTypes, Connected, Disconnected
  <2>2. CASE senders' = senders \cup {c} /\ known' = known \cup {c} /\ Emit(known')
    <3>1. PICK k : k = known'
      OBVIOUS
    <3>2. Emit(k)
      BY <2>2, <3>1
    <3>3. Grows(known')
      BY <1>0, <1>3, <2>2, <3>1, <3>2
    <3>4. IsFiniteSet(known')
      BY <1>0, <2>2, FS_AddElement
    <3>5. queue' = queue
      BY <1>2, <1>4 DEF HandleCommand
    <3> QED BY <1>0, <1>1, <2>1, <2>2, <3>3, <3>4, <3>5
  <2>3. CASE UNCHANGED <<senders, known, log>>
    <3>1. queue' = queue
      BY <1>2, <1>4 DEF HandleCommand
    <3>2. Grows(known')
      BY <1>0, <1>3, <2>3
    <3> QED BY <1>0, <2>1, <2>3, <3>1, <3>2
  <2> QED BY <1>1, <1>2, <1>4, <2>2, <2>3 DEF HandleCommand
<1>5. CASE cmd.kind = "input"
  <2>1. \A d : cmd # Connected(d) /\ cmd # Disconnected(d)
    BY <1>5 DEF Connected, Disconnected
  <2>2. known' = known /\ (Emit(known) \/ log' = log) /\ senders' \subseteq senders
    BY <1>2, <1>5 DEF HandleCommand
  <2>3. Grows(known')
    BY <1>0, <1>3, <2>2
  <2>4. \/ queue' = queue
        \/ \E d \in Browsers :
              /\ Len(queue[d]) < OutputCapacity
              /\ queue' = [queue EXCEPT ![d] = Append(queue[d], CloseFrame)]
    BY <1>1, <1>2, <1>5 DEF HandleCommand, TryClose, CanTake
  <2> QED BY <1>0, <2>1, <2>2, <2>3, <2>4
<1>6. CASE cmd.kind = "disconnected"
  <2>1. \A d : cmd # Connected(d) /\ (cmd = Disconnected(d) => d = c)
    BY <1>1, <1>6 DEF Connected, Disconnected
  <2>2. /\ known' = known \ {c} /\ queue' = queue /\ senders' \subseteq senders
        /\ Emit(known')
    BY <1>1, <1>2, <1>6 DEF HandleCommand
  <2>3. PICK k : k = known'
    OBVIOUS
  <2>4. Emit(k)
    BY <2>2, <2>3
  <2>5. Grows(known')
    BY <1>0, <1>3, <2>2, <2>3, <2>4
  <2>6. IsFiniteSet(known')
    BY <1>0, <2>2, FS_RemoveElement
  <2> QED BY <1>0, <2>1, <2>2, <2>5, <2>6
<1> QED BY <1>2, <1>4, <1>5, <1>6 DEF CommandTypes

\* n is put in c's channel.
Pushed(c, n) ==
    /\ Len(queue[c]) < OutputCapacity
    /\ queue' = [queue EXCEPT ![c] = Append(queue[c], n)]

\* What draining one output amounts to: it is put in the channel of a connection
\* that has a sender, or a worker loses its sender.
LEMMA DrainEffect ==
    ASSUME Types, Drain
    PROVE  /\ drained + 1 \in 1..Len(log) /\ drained' = drained + 1
           /\ log[drained + 1].connection \in Connections
           /\ senders' \subseteq senders /\ dropped' \subseteq Browsers
           /\ LET c == log[drained + 1].connection IN
              /\ queue' = queue \/ (c \in senders /\ Pushed(c, drained + 1))
              /\ c \in Workers /\ c \in senders' => Pushed(c, drained + 1)
<1>0. /\ log \in Seq(Entries) /\ drained \in 0..Len(log) /\ senders \subseteq Connections
      /\ dropped \subseteq Browsers
  BY DEF Types
<1>1. drained' = drained + 1 /\ drained < Len(log) /\ Deliver(drained + 1)
  BY DEF Drain
<1>2. drained + 1 \in 1..Len(log)
  BY <1>0, <1>1
<1>3. PICK n : n = drained + 1
  OBVIOUS
<1>4. log[n] \in Entries
  BY <1>0, <1>2, <1>3
<1>5. PICK c \in Connections : c = log[n].connection
  BY <1>4 DEF Entries
<1>6. Deliver(n)
  BY <1>1, <1>3
<1>7. /\ senders' \subseteq senders /\ dropped' \subseteq Browsers
      /\ queue' = queue \/ (c \in senders /\ Pushed(c, n))
      /\ c \in Workers /\ c \in senders' => Pushed(c, n)
  BY <1>0, <1>5, <1>6, DriverAssumption DEF Deliver, TryClose, CanTake, Pushed
<1> QED BY <1>1, <1>2, <1>3, <1>5, <1>7

-----------------------------------------------------------------------------
(* The types.                                                               *)

LEMMA PushedTypes ==
    ASSUME queue \in [Connections -> Seq(Nat)], \A d \in Connections : Len(queue[d]) <= OutputCapacity,
           NEW c \in Connections, NEW n \in Nat, Pushed(c, n)
    PROVE  /\ queue' \in [Connections -> Seq(Nat)]
           /\ \A d \in Connections : Len(queue'[d]) <= OutputCapacity
<1>1. queue[c] \in Seq(Nat) /\ OutputCapacity \in Nat
  BY DriverAssumption
<1>2. Append(queue[c], n) \in Seq(Nat) /\ Len(Append(queue[c], n)) = Len(queue[c]) + 1 /\ Len(queue[c]) \in Nat
  BY <1>1
<1>3. Len(Append(queue[c], n)) <= OutputCapacity
  BY <1>1, <1>2 DEF Pushed
<1> QED BY <1>2, <1>3 DEF Pushed

LEMMA TypesLocals ==
    ASSUME Types, NEW c \in Connections, Locals(c)
    PROVE  /\ frame' \in [Connections -> Nat] /\ queue' \in [Connections -> Seq(Nat)]
           /\ \A d \in Connections : Len(queue'[d]) <= OutputCapacity
<1>1. /\ <<>> \in Seq(Nat) /\ Len(<<>>) = 0 /\ 0 <= OutputCapacity /\ CloseFrame \in Nat
  BY DriverAssumption DEF CloseFrame
<1> QED BY <1>1 DEF Types, Locals

LEMMA TypesMove ==
    ASSUME Types, NEW c \in Connections, NEW q \in Places, Move(c, q)
    PROVE  Types'
<1>1. /\ task' \in [Connections -> Places]
      /\ peer' \in [Connections -> {"open", "stalled", "gone"}]
      /\ inputs' \in 0..MaxInputs
  BY DEF Types, Move
<1>2. UNCHANGED <<delivered, commands, driverVars, mainVars>>
  BY DEF Move
<1>3. /\ frame' \in [Connections -> Nat] /\ queue' \in [Connections -> Seq(Nat)]
      /\ \A d \in Connections : Len(queue'[d]) <= OutputCapacity
  BY TypesLocals DEF Move
<1> QED BY <1>1, <1>2, <1>3 DEF Types, driverVars, colliderVars, mainVars

LEMMA TypesSend ==
    ASSUME Types, NEW c \in Connections, NEW q \in Places, NEW cmd \in CommandTypes, Send(c, cmd, q)
    PROVE  Types'
<1>1. task' \in [Connections -> Places]
  BY DEF Types, Send
<1>2. commands' \in Seq(CommandTypes) /\ Len(commands') <= CommandCapacity
  <2>1. /\ commands \in Seq(CommandTypes) /\ Len(commands) < CommandCapacity
        /\ commands' = Append(commands, cmd) /\ CommandCapacity \in Nat
    BY DriverAssumption DEF Types, Send
  <2>2. Len(commands') = Len(commands) + 1 /\ Len(commands) \in Nat
    BY <2>1
  <2> QED BY <2>1, <2>2
<1>3. UNCHANGED <<peer, inputs, delivered, driverVars, mainVars>>
  BY DEF Send
<1>4. /\ frame' \in [Connections -> Nat] /\ queue' \in [Connections -> Seq(Nat)]
      /\ \A d \in Connections : Len(queue'[d]) <= OutputCapacity
  BY TypesLocals DEF Send
<1> QED BY <1>1, <1>2, <1>3, <1>4 DEF Types, driverVars, colliderVars, mainVars

LEMMA TypesTake ==
    ASSUME Types, NEW c \in Connections, NEW q \in Places, Take(c, q)
    PROVE  Types'
<1>1. task' \in [Connections -> Places]
  BY DEF Types, Take
<1>2. queue[c] \in Seq(Nat) /\ queue[c] # <<>> /\ Len(queue[c]) <= OutputCapacity /\ OutputCapacity \in Nat
  BY DriverAssumption DEF Types, Take
<1>3. /\ Tail(queue[c]) \in Seq(Nat) /\ Head(queue[c]) \in Nat
      /\ Len(queue[c]) \in Nat \ {0} /\ Len(Tail(queue[c])) = Len(queue[c]) - 1
  BY <1>2, HeadSet
<1>4. Len(Tail(queue[c])) <= OutputCapacity
  BY <1>2, <1>3
<1>5. /\ queue' \in [Connections -> Seq(Nat)] /\ \A d \in Connections : Len(queue'[d]) <= OutputCapacity
  BY <1>3, <1>4 DEF Types, Take
<1>6. frame' \in [Connections -> Nat]
  BY <1>3 DEF Types, Take
<1>7. UNCHANGED <<peer, inputs, delivered, commands, driverVars, mainVars>>
  BY DEF Take
<1> QED BY <1>1, <1>5, <1>6, <1>7 DEF Types, driverVars, colliderVars, mainVars

LEMMA TypesWritten ==
    ASSUME Types, NEW c \in Connections, Written(c)
    PROVE  Types'
<1>1. task' \in [Connections -> Places]
  BY DEF Types, Written, Places
<1>2. delivered[c] \in Seq(Nat) /\ frame[c] \in Nat
  BY DEF Types
<1>3. Append(delivered[c], frame[c]) \in Seq(Nat)
  BY <1>2
<1>4. delivered' \in [Connections -> Seq(Nat)]
  BY <1>3 DEF Types, Written
<1>5. UNCHANGED <<frame, peer, inputs, queue, commands, driverVars, mainVars>>
  BY DEF Written
<1> QED BY <1>1, <1>4, <1>5 DEF Types, driverVars, colliderVars, mainVars

LEMMA TypesHandled ==
    ASSUME Types, NEW cmd \in CommandTypes, Handled(cmd)
    PROVE  Types'
<1>1. commands' \in Seq(CommandTypes) /\ Len(commands') <= CommandCapacity
  <2>1. /\ commands \in Seq(CommandTypes) /\ commands # <<>> /\ commands' = Tail(commands)
        /\ CommandCapacity \in Nat /\ Len(commands) <= CommandCapacity
    BY DriverAssumption DEF Types, Handled
  <2>2. Len(commands') = Len(commands) - 1 /\ Len(commands) \in Nat /\ commands' \in Seq(CommandTypes)
    BY <2>1, HeadSet
  <2> QED BY <2>1, <2>2
<1>2. queue' \in [Connections -> Seq(Nat)] /\ \A d \in Connections : Len(queue'[d]) <= OutputCapacity
  <2>1. CASE queue' = queue
    BY <2>1 DEF Types
  <2>2. CASE queue' # queue
    <3>1. PICK c \in Browsers : Pushed(c, CloseFrame)
      BY <2>2, HandledEffect DEF Pushed
    <3> QED BY <3>1, PushedTypes DEF Types, CloseFrame, Connections
  <2> QED BY <2>1, <2>2
<1>3. /\ log' \in Seq(Entries) /\ drained' \in 0..Len(log')
  <2>1. /\ log' \in Seq(Entries) /\ Len(log') \in Nat /\ Len(log) <= Len(log')
        /\ log \in Seq(Entries) /\ drained \in 0..Len(log) /\ drained' = drained
    BY HandledEffect DEF Grows, Types, Handled
  <2> QED BY <2>1
<1>4. senders' \subseteq Connections /\ known' \subseteq Connections /\ IsFiniteSet(known')
  BY HandledEffect
<1>5. driver' \in DriverPlaces
  BY DEF Handled, DriverPlaces
<1>6. UNCHANGED <<drained, dropped, task, frame, peer, inputs, delivered, mainVars>>
  BY DEF Handled
<1> QED BY <1>1, <1>2, <1>3, <1>4, <1>5, <1>6 DEF Types, mainVars

LEMMA TypesEmitted ==
    ASSUME Types, Emitted
    PROVE  Types'
<1>1. /\ log' \in Seq(Entries) /\ drained' \in 0..Len(log')
  <2>1. /\ log' \in Seq(Entries) /\ Len(log') \in Nat /\ Len(log) <= Len(log')
        /\ log \in Seq(Entries) /\ drained \in 0..Len(log) /\ drained' = drained
    BY DEF Grows, Types, Emitted
  <2> QED BY <2>1
<1>2. senders' \subseteq Connections /\ known' \subseteq Connections
  BY DEF Types, Emitted
<1>3. IsFiniteSet(known')
  BY FS_Subset DEF Types, Emitted
<1>4. driver' \in DriverPlaces /\ dropped' \subseteq Browsers
  BY DEF Emitted, DriverPlaces
<1>5. UNCHANGED <<drained, taskVars, commands, mainVars>>
  BY DEF Emitted
<1> QED BY <1>1, <1>2, <1>3, <1>4, <1>5 DEF Types, taskVars, mainVars

LEMMA TypesDrain ==
    ASSUME Types, Drain
    PROVE  Types'
<1>1. PICK c \in Connections : c = log[drained + 1].connection
  BY DrainEffect
<1>2. drained + 1 \in 1..Len(log) /\ log \in Seq(Entries) /\ Len(log) \in Nat
  BY DrainEffect DEF Types
<1>3. queue' \in [Connections -> Seq(Nat)] /\ \A d \in Connections : Len(queue'[d]) <= OutputCapacity
  <2>1. CASE queue' = queue
    BY <2>1 DEF Types
  <2>2. CASE Pushed(c, drained + 1)
    <3>1. drained + 1 \in Nat
      BY <1>2
    <3> QED BY <2>2, <3>1, PushedTypes DEF Types
  <2> QED BY <1>1, <2>1, <2>2, DrainEffect
<1>4. log' = log /\ drained' \in 0..Len(log')
  <2>1. log' = log /\ drained' = drained + 1
    BY DrainEffect DEF Drain
  <2> QED BY <1>2, <2>1
<1>5. senders' \subseteq Connections /\ dropped' \subseteq Browsers
  BY DrainEffect DEF Types
<1>6. UNCHANGED <<known, log, driver, task, frame, peer, inputs, delivered, commands, mainVars>>
  BY DEF Drain
<1> QED BY <1>3, <1>4, <1>5, <1>6 DEF Types, mainVars

LEMMA TypesOther ==
    ASSUME Types, DropReceiver \/ MainMove
    PROVE  Types'
<1>1. CASE DropReceiver
  <2>1. commands' \in Seq(CommandTypes) /\ Len(commands') <= CommandCapacity
    BY <1>1, DriverAssumption DEF DropReceiver
  <2> QED BY <1>1, <2>1 DEF DropReceiver, Types, taskVars, colliderVars, mainVars, DriverPlaces
<1>2. CASE MainMove
  BY <1>2 DEF MainMove, Types, taskVars, driverVars, colliderVars
<1> QED BY <1>1, <1>2

-----------------------------------------------------------------------------
(* The order of outputs.                                                    *)

LEMMA OrderedKept ==
    ASSUME NEW c \in Connections, Ordered(c),
           UNCHANGED <<frame, queue, delivered, drained>>,
           task'[c] = "write" => task[c] = "write"
    PROVE  Ordered(c)'
BY DEF Ordered

LEMMA OrderedLocals ==
    ASSUME Types, NEW c \in Connections, NEW d \in Connections, Ordered(d), Locals(c),
           UNCHANGED <<delivered, drained>>, task'[d] = "write" => task[d] = "write"
    PROVE  Ordered(d)'
<1>1. CASE UNCHANGED <<frame, queue>>
  BY <1>1, OrderedKept
<1>2. CASE /\ task'[c] = "ended" /\ queue' = [queue EXCEPT ![c] = <<>>]
           /\ frame' = [frame EXCEPT ![c] = CloseFrame]
  <2>1. CASE c # d
    <3>1. frame'[d] = frame[d] /\ queue'[d] = queue[d]
      BY <1>2, <2>1 DEF Types
    <3> QED BY <3>1 DEF Ordered
  <2>2. CASE c = d
    <3>1. frame'[d] = CloseFrame /\ queue'[d] = <<>> /\ task'[d] # "write"
      BY <1>2, <2>2 DEF Types
    <3>2. Increasing(<<>>) /\ ToSet(<<>>) = {} /\ CloseFrame <= drained
      BY DEF Increasing, ToSet, CloseFrame, Types
    <3> QED BY <3>1, <3>2 DEF Ordered
  <2> QED BY <2>1, <2>2
<1> QED BY <1>1, <1>2 DEF Locals

LEMMA OrderedPushed ==
    ASSUME Types, NEW c \in Connections, Ordered(c), NEW n \in Nat, Pushed(c, n),
           UNCHANGED <<frame, task, delivered>>,
           drained' \in Nat, drained <= drained', n = CloseFrame \/ (drained < n /\ n <= drained')
    PROVE  Ordered(c)'
<1>1. /\ queue[c] \in Seq(Nat) /\ delivered[c] \in Seq(Nat) /\ frame[c] \in Nat /\ drained \in Nat
  BY DEF Types
<1>2. queue'[c] = Append(queue[c], n)
  BY DEF Pushed, Types
<1>3. /\ ToSet(queue'[c]) = ToSet(queue[c]) \cup {n} /\ ToSet(queue[c]) \subseteq Nat
      /\ ToSet(delivered[c]) \subseteq Nat
  <2>1. ToSet(Append(queue[c], n)) = ToSet(queue[c]) \cup {n}
    BY <1>1, AppendSet
  <2>2. ToSet(queue[c]) \subseteq Nat
    BY <1>1, ElementsOf
  <2>3. ToSet(delivered[c]) \subseteq Nat
    BY <1>1, ElementsOf
  <2> QED BY <1>2, <2>1, <2>2, <2>3
<1>4. Increasing(queue[c]) /\ Increasing(delivered[c])
  BY DEF Ordered
<1>5. Increasing(queue'[c])
  <2>1. n # CloseFrame => \A m \in ToSet(queue[c]) : m # CloseFrame => m < n
    BY <1>1, <1>3 DEF Ordered
  <2>2. Increasing(Append(queue[c], n))
    BY <1>1, <1>4, <2>1, AppendIncreasing
  <2> QED BY <1>2, <2>2
<1>6. ASSUME NEW k \in ToSet(delivered[c])
      PROVE  /\ k # CloseFrame /\ k <= drained'
             /\ task[c] = "write" => k < frame[c]
             /\ \A m \in ToSet(queue'[c]) : m # CloseFrame => k < m
  <2>1. k \in Nat /\ k <= drained
    BY <1>3 DEF Ordered
  <2>2. k <= drained'
    BY <1>1, <2>1
  <2>3. n # CloseFrame => k < n
    BY <1>1, <2>1
  <2> QED BY <1>3, <2>2, <2>3 DEF Ordered
<1>7. ASSUME NEW m \in ToSet(queue'[c])
      PROVE  /\ m <= drained'
             /\ task[c] = "write" /\ m # CloseFrame => frame[c] < m
  <2>1. CASE m \in ToSet(queue[c])
    <3>1. m \in Nat /\ m <= drained
      BY <1>3, <2>1 DEF Ordered
    <3>2. m <= drained'
      BY <1>1, <3>1
    <3> QED BY <2>1, <3>2 DEF Ordered
  <2>2. CASE m = n
    <3>1. frame[c] <= drained
      BY DEF Ordered
    <3>2. n <= drained'
      BY DEF CloseFrame
    <3> QED BY <1>1, <2>2, <3>1, <3>2
  <2> QED BY <1>3, <2>1, <2>2
<1>8. frame[c] <= drained' /\ (task[c] = "write" => frame[c] # CloseFrame)
  BY <1>1 DEF Ordered
<1>9. frame' = frame /\ task' = task /\ delivered' = delivered
  OBVIOUS
<1> QED BY <1>4, <1>5, <1>6, <1>7, <1>8, <1>9 DEF Ordered

LEMMA OrderedTake ==
    ASSUME Types, NEW c \in Connections, Ordered(c), NEW q \in Places, Take(c, q)
    PROVE  Ordered(c)'
<1>1. queue[c] \in Seq(Nat) /\ queue[c] # <<>>
  BY DEF Types, Take
<1>2. /\ queue'[c] = Tail(queue[c]) /\ frame'[c] = Head(queue[c]) /\ delivered' = delivered
      /\ task'[c] = q /\ drained' = drained
  BY DEF Types, Take, driverVars, colliderVars
<1>3. /\ ToSet(queue[c]) = {frame'[c]} \cup ToSet(queue'[c])
  BY <1>1, <1>2, HeadSet
<1>4. Increasing(queue[c]) /\ Increasing(delivered[c])
  BY DEF Ordered
<1>5. /\ Increasing(Tail(queue[c]))
      /\ Head(queue[c]) # CloseFrame => \A m \in ToSet(Tail(queue[c])) : m # CloseFrame => Head(queue[c]) < m
  BY <1>1, <1>4, TailIncreasing
<1>6. /\ Increasing(queue'[c])
      /\ frame'[c] # CloseFrame => \A m \in ToSet(queue'[c]) : m # CloseFrame => frame'[c] < m
  BY <1>2, <1>5
<1>7. q = "write" => frame'[c] # CloseFrame
  BY <1>2 DEF Take
<1>8. ASSUME NEW k \in ToSet(delivered[c])
      PROVE  /\ k # CloseFrame /\ k <= drained
             /\ q = "write" => k < frame'[c]
             /\ \A m \in ToSet(queue'[c]) : m # CloseFrame => k < m
  BY <1>3, <1>7 DEF Ordered
<1>9. ASSUME NEW m \in ToSet(queue'[c])
      PROVE  /\ m <= drained
             /\ q = "write" /\ m # CloseFrame => frame'[c] < m
  BY <1>3, <1>6, <1>7 DEF Ordered
<1>10. frame'[c] <= drained
  BY <1>3 DEF Ordered
<1> QED BY <1>2, <1>4, <1>6, <1>7, <1>8, <1>9, <1>10 DEF Ordered

LEMMA OrderedWritten ==
    ASSUME Types, NEW c \in Connections, Ordered(c), Written(c)
    PROVE  Ordered(c)'
<1>1. delivered[c] \in Seq(Nat) /\ frame[c] \in Nat /\ task[c] = "write"
  BY DEF Types, Written
<1>2. /\ delivered'[c] = Append(delivered[c], frame[c]) /\ frame' = frame /\ queue' = queue
      /\ task'[c] # "write" /\ drained' = drained
  BY DEF Types, Written, driverVars, colliderVars
<1>3. ToSet(delivered'[c]) = ToSet(delivered[c]) \cup {frame[c]}
  BY <1>1, <1>2, AppendSet
<1>4. Increasing(delivered'[c])
  <2>1. Increasing(delivered[c]) /\ \A n \in ToSet(delivered[c]) : n < frame[c]
    BY <1>1 DEF Ordered
  <2>2. Increasing(Append(delivered[c], frame[c]))
    BY <1>1, <2>1, AppendIncreasing
  <2> QED BY <1>2, <2>2
<1>5. ASSUME NEW k \in ToSet(delivered'[c])
      PROVE  /\ k # CloseFrame /\ k <= drained
             /\ \A m \in ToSet(queue[c]) : m # CloseFrame => k < m
  BY <1>1, <1>3 DEF Ordered
<1> QED BY <1>2, <1>4, <1>5 DEF Ordered

LEMMA OrderedNext ==
    ASSUME Inv, [Next]_vars, NEW d \in Connections
    PROVE  Ordered(d)'
<1>0. Types /\ Ordered(d) /\ task \in [Connections -> Places]
  BY DEF Inv, Types
<1>1. ASSUME NEW c \in Connections, NEW q \in Places, Move(c, q)
      PROVE  Ordered(d)'
  <2>1. Locals(c) /\ UNCHANGED <<delivered, drained>>
    BY <1>1 DEF Move, driverVars, colliderVars
  <2>2. task'[d] = "write" => task[d] = "write"
    BY <1>0, <1>1 DEF Move
  <2> QED BY <1>0, <2>1, <2>2, OrderedLocals
<1>2. ASSUME NEW c \in Connections, NEW q \in Places, NEW cmd \in CommandTypes, Send(c, cmd, q)
      PROVE  Ordered(d)'
  <2>1. Locals(c) /\ UNCHANGED <<delivered, drained>>
    BY <1>2 DEF Send, driverVars, colliderVars
  <2>2. task'[d] = "write" => task[d] = "write"
    BY <1>0, <1>2 DEF Send
  <2> QED BY <1>0, <2>1, <2>2, OrderedLocals
<1>3. ASSUME NEW c \in Connections, NEW q \in Places, Take(c, q)
      PROVE  Ordered(d)'
  <2>1. CASE c = d
    BY <1>0, <1>3, <2>1, OrderedTake
  <2>2. CASE c # d
    <3>1. /\ frame'[d] = frame[d] /\ queue'[d] = queue[d] /\ delivered'[d] = delivered[d]
          /\ task'[d] = task[d] /\ drained' = drained
      BY <1>0, <1>3, <2>2 DEF Types, Take, driverVars, colliderVars
    <3> QED BY <1>0, <3>1 DEF Ordered
  <2> QED BY <2>1, <2>2
<1>4. ASSUME NEW c \in Connections, Written(c)
      PROVE  Ordered(d)'
  <2>1. CASE c = d
    BY <1>0, <1>4, <2>1, OrderedWritten
  <2>2. CASE c # d
    <3>1. /\ frame'[d] = frame[d] /\ queue'[d] = queue[d] /\ delivered'[d] = delivered[d]
          /\ task'[d] = task[d] /\ drained' = drained
      BY <1>0, <1>4, <2>2 DEF Types, Written, driverVars, colliderVars
    <3> QED BY <1>0, <3>1 DEF Ordered
  <2> QED BY <2>1, <2>2
<1>5. ASSUME NEW cmd \in CommandTypes, Handled(cmd)
      PROVE  Ordered(d)'
  <2>1. UNCHANGED <<frame, task, delivered, drained>> /\ drained \in Nat
    BY <1>0, <1>5 DEF Handled, Types
  <2>2. CASE queue'[d] = queue[d]
    BY <1>0, <2>1, <2>2 DEF Ordered
  <2>3. CASE queue'[d] # queue[d]
    <3>1. PICK c \in Browsers : Pushed(c, CloseFrame)
      BY <1>0, <1>5, <2>3, HandledEffect DEF Pushed
    <3>2. c = d
      BY <1>0, <2>3, <3>1 DEF Pushed, Types
    <3>3. CloseFrame \in Nat
      BY DEF CloseFrame
    <3> QED BY <1>0, <2>1, <3>1, <3>2, <3>3, OrderedPushed
  <2> QED BY <2>2, <2>3
<1>6. CASE Drain
  <2>0. drained \in Nat
    BY <1>0 DEF Types
  <2>1. UNCHANGED <<frame, task, delivered>> /\ drained \in Nat /\ drained' = drained + 1
    BY <1>6, <2>0 DEF Drain
  <2>2. drained' \in Nat /\ drained <= drained' /\ drained < drained + 1 /\ drained + 1 <= drained' /\ drained + 1 \in Nat
    BY <2>1
  <2>3. CASE queue'[d] = queue[d]
    <3>1. /\ queue[d] \in Seq(Nat) /\ delivered[d] \in Seq(Nat) /\ frame[d] \in Nat
      BY <1>0 DEF Types
    <3>2. ToSet(queue[d]) \subseteq Nat /\ ToSet(delivered[d]) \subseteq Nat
      BY <3>1, ElementsOf
    <3>3. \A x \in Nat : x <= drained => x <= drained'
      BY <2>1, <2>2
    <3> QED BY <1>0, <2>1, <2>3, <3>1, <3>2, <3>3 DEF Ordered
  <2>4. CASE queue'[d] # queue[d]
    <3>1. PICK c \in Connections : Pushed(c, drained + 1)
      BY <1>0, <1>6, <2>4, DrainEffect
    <3>2. c = d
      BY <1>0, <2>4, <3>1 DEF Pushed, Types
    <3> QED BY <1>0, <2>1, <2>2, <3>1, <3>2, OrderedPushed
  <2> QED BY <2>3, <2>4
<1>7. CASE Emitted \/ DropReceiver \/ MainMove
  <2>1. UNCHANGED <<frame, queue, delivered, drained, task>>
    BY <1>7 DEF Emitted, DropReceiver, MainMove, taskVars, driverVars, colliderVars
  <2> QED BY <1>0, <2>1, OrderedKept
<1> QED BY <1>0, <1>1, <1>2, <1>3, <1>4, <1>5, <1>6, <1>7, Kinds

-----------------------------------------------------------------------------
(* The Collider hears of a connection once.                                 *)

\* A queued command of c's task to introduce it.
Introduced(c, i) == i \in 1..Len(commands) /\ commands[i] = Connected(c)

LEMMA StrangerMeans ==
    ASSUME NEW c
    PROVE  Stranger(c) <=>
              /\ task[c] \in Before => \A i : ~Introduced(c, i)
              /\ \A i, j : Introduced(c, i) /\ Introduced(c, j) => i = j
              /\ (task[c] \in Before \/ \E i : Introduced(c, i)) =>
                    c \notin known /\ \A m \in 1..Len(log) : log[m].connection # c
BY DEF Stranger, Introduced

\* It stays true as long as no command introduces c and the Collider learns of
\* c from a command only.
LEMMA StrangerKept ==
    ASSUME NEW c \in Connections, Stranger(c), log \in Seq(Entries),
           task'[c] \in Before => task[c] \in Before,
           \/ commands' = commands
           \/ commands' = <<>>
           \/ \E cmd \in CommandTypes : commands \in Seq(CommandTypes) /\ cmd # Connected(c) /\ commands' = Append(commands, cmd),
           known' \subseteq known, Grows(known')
    PROVE  Stranger(c)'
<1>1. ASSUME NEW i, Introduced(c, i)' PROVE Introduced(c, i)
  <2>1. CASE commands' = commands
    BY <1>1, <2>1 DEF Introduced, Connected
  <2>2. CASE commands' = <<>>
    BY <1>1, <2>2 DEF Introduced
  <2>3. ASSUME NEW cmd \in CommandTypes, commands \in Seq(CommandTypes), cmd # Connected(c),
               commands' = Append(commands, cmd)
        PROVE  Introduced(c, i)
    <3>1. /\ Len(commands') = Len(commands) + 1 /\ Len(commands) \in Nat
          /\ \A k \in 1..Len(commands) : commands'[k] = commands[k]
          /\ commands'[Len(commands) + 1] = cmd
      BY <2>3
    <3>2. i \in 1..Len(commands') /\ commands'[i] = Connected(c)
      BY <1>1 DEF Introduced, Connected
    <3>3. i \in 1..Len(commands)
      BY <2>3, <3>1, <3>2
    <3> QED BY <3>1, <3>2, <3>3 DEF Introduced
  <2> QED BY <2>1, <2>2, <2>3
<1>2. ASSUME c \notin known, \A m \in 1..Len(log) : log[m].connection # c
      PROVE  c \notin known' /\ \A m \in 1..Len(log') : log'[m].connection # c
  <2>1. c \notin known'
    BY <1>2
  <2>2. ASSUME NEW m \in 1..Len(log') PROVE log'[m].connection # c
    <3>1. Len(log) \in Nat
      OBVIOUS
    <3>2. m \in 1..Len(log) \/ m > Len(log)
      BY <3>1
    <3> QED BY <1>2, <2>1, <3>2 DEF Grows
  <2> QED BY <2>1, <2>2
<1>3. /\ task[c] \in Before => \A i : ~Introduced(c, i)
      /\ \A i, j : Introduced(c, i) /\ Introduced(c, j) => i = j
      /\ (task[c] \in Before \/ \E i : Introduced(c, i)) =>
            c \notin known /\ \A m \in 1..Len(log) : log[m].connection # c
  BY StrangerMeans
<1>4. /\ task'[c] \in Before => \A i : ~Introduced(c, i)'
      /\ \A i, j : Introduced(c, i)' /\ Introduced(c, j)' => i = j
      /\ (task'[c] \in Before \/ \E i : Introduced(c, i)') =>
            c \notin known' /\ \A m \in 1..Len(log') : log'[m].connection # c
  <2>1. task'[c] \in Before => \A i : ~Introduced(c, i)'
    BY <1>1, <1>3
  <2>2. \A i, j : Introduced(c, i)' /\ Introduced(c, j)' => i = j
    BY <1>1, <1>3
  <2>3. (task'[c] \in Before \/ \E i : Introduced(c, i)') =>
            c \notin known' /\ \A m \in 1..Len(log') : log'[m].connection # c
    BY <1>1, <1>2, <1>3
  <2> QED BY <2>1, <2>2, <2>3
<1> QED BY <1>4 DEF Stranger, Introduced, Connected

LEMMA StrangerSend ==
    ASSUME Types, NEW c \in Connections, Stranger(c), Send(c, Connected(c), "select")
    PROVE  Stranger(c)'
<1>1. task[c] = "announce" /\ task'[c] = "select" /\ known' = known /\ log' = log
  BY DEF Send, Types, Connected, Text, Disconnected, driverVars, colliderVars
<1>2. /\ commands \in Seq(CommandTypes) /\ commands' = Append(commands, Connected(c))
      /\ Connected(c) \in CommandTypes
  BY DEF Send, Types, Connected, CommandTypes
<1>3. /\ Len(commands') = Len(commands) + 1 /\ Len(commands) \in Nat
      /\ \A k \in 1..Len(commands) : commands'[k] = commands[k]
  BY <1>2
<1>4. \A k \in 1..Len(commands) : commands[k] # Connected(c)
  BY <1>1 DEF Stranger, Before
<1>5. ASSUME NEW i \in 1..Len(commands'), commands'[i] = Connected(c)
      PROVE  i = Len(commands) + 1
  <2>1. i \in 1..Len(commands) \/ i = Len(commands) + 1
    BY <1>3
  <2> QED BY <1>3, <1>4, <1>5, <2>1
<1>6. c \notin known' /\ \A m \in 1..Len(log') : log'[m].connection # c
  BY <1>1 DEF Stranger, Before
<1>7. "select" \notin Before
  BY DEF Before
<1> QED BY <1>1, <1>5, <1>6, <1>7 DEF Stranger, Connected

LEMMA StrangerHandled ==
    ASSUME Types, NEW cmd \in CommandTypes, Handled(cmd), NEW c \in Connections, Stranger(c)
    PROVE  Stranger(c)'
<1>1. /\ commands \in Seq(CommandTypes) /\ commands # <<>> /\ commands' = Tail(commands)
      /\ cmd = Head(commands) /\ task' = task
  BY DEF Types, Handled
<1>2. /\ Len(commands) \in Nat \ {0} /\ Len(commands') = Len(commands) - 1
      /\ \A i \in 1..Len(commands') : commands'[i] = commands[i + 1] /\ i + 1 \in 1..Len(commands)
      /\ cmd = commands[1]
  BY <1>1, HeadSet
<1>3. ASSUME NEW i \in 1..Len(commands'), commands'[i] = Connected(c)
      PROVE  i + 1 \in 1..Len(commands) /\ commands[i + 1] = Connected(c) /\ i \in Nat
  BY <1>2, <1>3
<1>4. task[c] \in Before => \A i \in 1..Len(commands') : commands'[i] # Connected(c)
  BY <1>3 DEF Stranger
<1>5. ASSUME NEW i \in 1..Len(commands'), NEW j \in 1..Len(commands'),
             commands'[i] = Connected(c), commands'[j] = Connected(c)
      PROVE  i = j
  <2>1. i + 1 = j + 1
    BY <1>3, <1>5 DEF Stranger
  <2> QED BY <1>3, <1>5, <2>1
<1>6. ASSUME task[c] \in Before \/ \E i \in 1..Len(commands') : commands'[i] = Connected(c)
      PROVE  c \notin known' /\ \A m \in 1..Len(log') : log'[m].connection # c
  <2>1. c \notin known /\ \A m \in 1..Len(log) : log[m].connection # c
    BY <1>3, <1>6 DEF Stranger
  <2>2. 1 \in 1..Len(commands)
    BY <1>2
  <2>3. cmd # Connected(c)
    <3>1. CASE task[c] \in Before
      BY <1>2, <2>2, <3>1 DEF Stranger
    <3>2. ASSUME NEW i \in 1..Len(commands'), commands'[i] = Connected(c)
          PROVE  cmd # Connected(c)
      <4>1. i + 1 # 1
        BY <1>2, <3>2
      <4> QED BY <1>2, <1>3, <2>2, <3>2, <4>1 DEF Stranger
    <3> QED BY <1>6, <3>1, <3>2
  <2>4. c \notin known'
    BY <2>1, <2>3, HandledEffect
  <2>5. ASSUME NEW m \in 1..Len(log') PROVE log'[m].connection # c
    <3>1. Len(log) \in Nat
      BY DEF Types
    <3>2. m \in 1..Len(log) \/ m > Len(log)
      BY <3>1
    <3>3. Grows(known')
      BY HandledEffect
    <3> QED BY <2>1, <2>4, <3>2, <3>3 DEF Grows
  <2> QED BY <2>4, <2>5
<1> QED BY <1>1, <1>4, <1>5, <1>6 DEF Stranger, Connected

LEMMA StrangerNext ==
    ASSUME Inv, [Next]_vars, NEW d \in Connections
    PROVE  Stranger(d)'
<1>0. Types /\ Stranger(d) /\ task \in [Connections -> Places] /\ log \in Seq(Entries)
      /\ commands \in Seq(CommandTypes)
  BY DEF Inv, Types
<1>1. ASSUME NEW c \in Connections, NEW q \in Places, Move(c, q) \/ Take(c, q) \/ Written(c)
      PROVE  Stranger(d)'
  <2>1. UNCHANGED <<commands, known, log>>
    BY <1>1 DEF Move, Take, Written, driverVars, colliderVars
  <2>2. task'[d] \in Before => task[d] \in Before
    BY <1>0, <1>1 DEF Move, Take, Written, Before, Serving
  <2>3. Grows(known')
    BY <1>0, <2>1, StillGrows
  <2> QED BY <1>0, <2>1, <2>2, <2>3, StrangerKept
<1>2. ASSUME NEW c \in Connections, NEW q \in Places, NEW cmd \in CommandTypes, Send(c, cmd, q)
      PROVE  Stranger(d)'
  <2>1. UNCHANGED <<known, log>> /\ commands' = Append(commands, cmd)
    BY <1>2 DEF Send, driverVars, colliderVars
  <2>2. task'[d] \in Before => task[d] \in Before
    BY <1>0, <1>2 DEF Send, Before
  <2>3. Grows(known')
    BY <1>0, <2>1, StillGrows
  <2>4. CASE cmd = Connected(d)
    <3>1. c = d /\ q = "select"
      BY <1>2, <2>4 DEF Send, Connected, Text, Disconnected
    <3> QED BY <1>0, <1>2, <2>4, <3>1, StrangerSend
  <2>5. CASE cmd # Connected(d)
    BY <1>0, <2>1, <2>2, <2>3, <2>5, StrangerKept
  <2> QED BY <2>4, <2>5
<1>3. ASSUME NEW cmd \in CommandTypes, Handled(cmd)
      PROVE  Stranger(d)'
  BY <1>0, <1>3, StrangerHandled
<1>4. CASE Emitted
  <2>1. UNCHANGED <<commands, task>> /\ known' \subseteq known /\ Grows(known')
    BY <1>4 DEF Emitted, taskVars
  <2> QED BY <1>0, <2>1, StrangerKept
<1>5. CASE Drain \/ DropReceiver \/ MainMove
  <2>1. UNCHANGED <<known, log, task>> /\ (commands' = commands \/ commands' = <<>>)
    BY <1>5 DEF Drain, DropReceiver, MainMove, taskVars, driverVars, colliderVars
  <2>2. Grows(known')
    BY <1>0, <2>1, StillGrows
  <2> QED BY <1>0, <2>1, <2>2, StrangerKept
<1> QED
  <2>1. \E q : q \in Places
    BY DEF Places
  <2> QED BY <1>0, <1>1, <1>2, <1>3, <1>4, <1>5, <2>1, Kinds

-----------------------------------------------------------------------------
(* A worker's stream.                                                       *)

\* Nothing in the pipe is ahead of what has been drained.
LEMMA PipeDrained ==
    ASSUME Types, NEW w \in Connections, Ordered(w)
    PROVE  /\ Pipe(w) \subseteq 0..drained /\ ToSet(delivered[w]) \subseteq Pipe(w)
           /\ drained \in Nat /\ Len(log) \in Nat /\ drained <= Len(log)
<1>1. /\ queue[w] \in Seq(Nat) /\ delivered[w] \in Seq(Nat) /\ frame[w] \in Nat
  BY DEF Types
<1>2. ToSet(queue[w]) \subseteq Nat /\ ToSet(delivered[w]) \subseteq Nat
  BY <1>1, ElementsOf
<1>3. drained \in Nat /\ Len(log) \in Nat /\ drained <= Len(log)
  BY DEF Types
<1>4. \A n \in ToSet(queue[w]) \cup ToSet(delivered[w]) \cup {frame[w]} : n <= drained /\ n \in Nat
  BY <1>1, <1>2 DEF Ordered
<1>5. \A n \in Pipe(w) : n \in ToSet(queue[w]) \cup ToSet(delivered[w]) \cup {frame[w]}
  BY DEF Pipe
<1>6. \A n \in Nat : n <= drained => n \in 0..drained
  BY <1>3
<1> QED BY <1>3, <1>4, <1>5, <1>6 DEF Pipe

\* A log that only grows leaves no new hole.
LEMMA NoHolesKept ==
    ASSUME log \in Seq(Entries), NEW members, Grows(members), NEW k \in 0..Len(log),
           NEW ns \in SUBSET (0..k), NEW w, NoHoles(w, ns)
    PROVE  /\ \A n \in ns : \A m \in 1..(n - 1) : log'[m].connection = w => m \in ns
           /\ \A m \in 1..k : log'[m] = log[m]
<1>1. Len(log) \in Nat
  OBVIOUS
<1>2. \A m \in 1..k : m \in 1..Len(log)
  BY <1>1
<1>3. \A n \in ns : \A m \in 1..(n - 1) : m \in 1..k
  BY <1>1
<1>4. \A m \in 1..k : log'[m] = log[m]
  BY <1>2 DEF Grows
<1> QED BY <1>3, <1>4 DEF NoHoles

\* The stream keeps its promise while its pipe and its sender do not change.
LEMMA PipedKept ==
    ASSUME Types, NEW w \in Workers, Ordered(w), Piped(w), NEW members, Grows(members),
           delivered'[w] = delivered[w], drained' = drained,
           task'[w] \in Before \cup Serving =>
              /\ task[w] \in Before \cup Serving
              /\ Pipe(w)' = Pipe(w)
              /\ w \in senders' => \A m \in 1..drained : log[m].connection = w => m \in Pipe(w)
    PROVE  Piped(w)'
<1>0. w \in Connections /\ log \in Seq(Entries)
  BY DEF Connections, Types
<1>1. /\ Pipe(w) \subseteq 0..drained /\ ToSet(delivered[w]) \subseteq Pipe(w) /\ drained \in 0..Len(log)
  <2>1. drained \in 0..Len(log)
    BY DEF Types
  <2> QED BY <1>0, <2>1, PipeDrained
<1>2. ToSet(delivered[w]) \subseteq 0..drained
  BY <1>1
<1>3. NoHoles(w, ToSet(delivered[w]))
  BY DEF Piped
<1>4. NoHoles(w, ToSet(delivered[w]))'
  <2>1. \A n \in ToSet(delivered[w]) : \A m \in 1..(n - 1) :
           log'[m].connection = w => m \in ToSet(delivered[w])
    BY <1>0, <1>1, <1>2, <1>3, NoHolesKept
  <2> QED BY <2>1 DEF NoHoles
<1>5. ASSUME task'[w] \in Before \cup Serving
      PROVE  /\ NoHoles(w, Pipe(w))'
             /\ w \in senders' => \A m \in 1..drained' : log'[m].connection = w => m \in Pipe(w)'
  <2>0. Pipe(w)' = Pipe(w) /\ NoHoles(w, Pipe(w))
    BY <1>5 DEF Piped
  <2>1. /\ \A n \in Pipe(w) : \A m \in 1..(n - 1) : log'[m].connection = w => m \in Pipe(w)
        /\ \A m \in 1..drained : log'[m] = log[m]
    BY <1>0, <1>1, <2>0, NoHolesKept
  <2>2. NoHoles(w, Pipe(w))'
    BY <2>0, <2>1 DEF NoHoles
  <2>3. w \in senders' => \A m \in 1..drained' : log'[m].connection = w => m \in Pipe(w)'
    BY <1>5, <2>0, <2>1
  <2> QED BY <2>2, <2>3
<1> QED BY <1>4, <1>5 DEF Piped

LEMMA PipedWritten ==
    ASSUME Types, NEW w \in Workers, Ordered(w), Piped(w), Written(w)
    PROVE  Piped(w)'
<1>0. w \in Connections
  BY DEF Connections
<1>1. delivered[w] \in Seq(Nat) /\ frame[w] \in Nat /\ task[w] = "write" /\ queue[w] \in Seq(Nat)
  BY <1>0 DEF Types, Written
<1>2. /\ delivered'[w] = Append(delivered[w], frame[w]) /\ frame' = frame /\ queue' = queue
      /\ task'[w] = "select" /\ drained' = drained /\ log' = log /\ senders' = senders
  BY <1>0 DEF Types, Written, driverVars, colliderVars
<1>3. ToSet(delivered'[w]) = ToSet(delivered[w]) \cup {frame[w]}
  BY <1>1, <1>2, AppendSet
<1>4. Pipe(w)' = Pipe(w) /\ Pipe(w) = ToSet(delivered'[w]) \cup ToSet(queue[w])
  BY <1>1, <1>2, <1>3 DEF Pipe
<1>5. NoHoles(w, Pipe(w)) /\ NoHoles(w, ToSet(delivered[w]))
  BY <1>1 DEF Piped, Serving
<1>6. frame[w] \in Pipe(w)
  BY <1>3, <1>4
<1>7. ASSUME NEW n \in ToSet(delivered'[w]), NEW m \in 1..(n - 1), log[m].connection = w
      PROVE  m \in ToSet(delivered'[w])
  <2>1. CASE n \in ToSet(delivered[w])
    BY <1>3, <1>5, <1>7, <2>1 DEF NoHoles
  <2>2. CASE n = frame[w]
    <3>1. m \in Pipe(w)
      BY <1>5, <1>6, <1>7, <2>2 DEF NoHoles
    <3>2. CASE m \in ToSet(queue[w])
      <4>1. m # CloseFrame /\ m < frame[w] /\ m \in Nat
        BY <1>1, <2>2 DEF CloseFrame
      <4>2. frame[w] < m
        BY <1>1, <3>2, <4>1 DEF Ordered
      <4> QED BY <1>1, <4>1, <4>2
    <3> QED BY <1>4, <3>1, <3>2
  <2> QED BY <1>3, <2>1, <2>2
<1>8. NoHoles(w, ToSet(delivered[w]))'
  BY <1>2, <1>7 DEF NoHoles
<1>9. NoHoles(w, Pipe(w))'
  BY <1>2, <1>4, <1>5 DEF NoHoles
<1>10. w \in senders' => \A m \in 1..drained' : log'[m].connection = w => m \in Pipe(w)'
  BY <1>1, <1>2, <1>4 DEF Piped, Serving
<1> QED BY <1>8, <1>9, <1>10 DEF Piped

LEMMA PipedDrain ==
    ASSUME Types, NEW w \in Workers, Ordered(w), Piped(w), Drain
    PROVE  Piped(w)'
<1>0. w \in Connections /\ log \in Seq(Entries)
  BY DEF Connections, Types
<1>1. /\ Pipe(w) \subseteq 0..drained /\ drained \in Nat
  BY <1>0, PipeDrained
<1>2. /\ log' = log /\ delivered' = delivered /\ task' = task /\ frame' = frame /\ drained' = drained + 1
      /\ senders' \subseteq senders
  BY DrainEffect DEF Drain
<1>3. NoHoles(w, ToSet(delivered[w]))'
  BY <1>2 DEF Piped, NoHoles
<1>4. ASSUME task[w] \in Before \cup Serving
      PROVE  /\ NoHoles(w, Pipe(w))'
             /\ w \in senders' => \A m \in 1..drained' : log'[m].connection = w => m \in Pipe(w)'
  <2>1. NoHoles(w, Pipe(w))
    BY <1>4 DEF Piped
  <2>2. w \in senders => \A m \in 1..drained : log[m].connection = w => m \in Pipe(w)
    BY <1>4 DEF Piped
  <2>3. \A m \in 1..(drained + 1) : m \in 1..drained \/ m = drained + 1
    BY <1>1
  <2>4. CASE w = log[drained + 1].connection /\ Pushed(w, drained + 1) /\ w \in senders
    <3>1. queue[w] \in Seq(Nat) /\ queue'[w] = Append(queue[w], drained + 1) /\ drained + 1 \in Nat
      BY <1>0, <1>1, <2>4 DEF Pushed, Types
    <3>2. ToSet(queue'[w]) = ToSet(queue[w]) \cup {drained + 1}
      BY <3>1, AppendSet
    <3>3. Pipe(w)' = Pipe(w) \cup {drained + 1}
      BY <1>2, <3>2 DEF Pipe
    <3>4. \A m \in 1..drained' : log'[m].connection = w => m \in Pipe(w)'
      BY <1>2, <2>2, <2>3, <2>4, <3>3
    <3>5. ASSUME NEW n \in Pipe(w)', NEW m \in 1..(n - 1), log'[m].connection = w
          PROVE  m \in Pipe(w)'
      <4>1. n \in 0..(drained + 1)
        BY <1>1, <3>3
      <4>2. m \in 1..(drained + 1)
        BY <1>1, <4>1
      <4> QED BY <1>2, <3>4, <3>5, <4>2
    <3> QED BY <3>4, <3>5 DEF NoHoles
  <2>5. CASE w # log[drained + 1].connection
    <3>1. queue'[w] = queue[w]
      BY <1>0, <2>5, DrainEffect DEF Pushed, Types
    <3>2. Pipe(w)' = Pipe(w)
      BY <1>2, <3>1 DEF Pipe
    <3>3. w \in senders' => \A m \in 1..drained' : log'[m].connection = w => m \in Pipe(w)'
      BY <1>2, <2>2, <2>3, <2>5, <3>2
    <3> QED BY <1>2, <2>1, <3>2, <3>3 DEF NoHoles
  <2>6. CASE w = log[drained + 1].connection /\ ~(Pushed(w, drained + 1) /\ w \in senders)
    <3>1. queue' = queue /\ w \notin senders'
      BY <1>2, <2>6, DrainEffect
    <3>2. Pipe(w)' = Pipe(w)
      BY <1>2, <3>1 DEF Pipe
    <3> QED BY <1>2, <2>1, <3>1, <3>2 DEF NoHoles
  <2> QED BY <2>4, <2>5, <2>6
<1> QED BY <1>2, <1>3, <1>4 DEF Piped

LEMMA PipeLocals ==
    ASSUME Types, NEW c \in Connections, NEW w \in Connections, Locals(c), delivered' = delivered,
           task'[w] \in Before \cup Serving, task'[w] = "write" <=> task[w] = "write"
    PROVE  Pipe(w)' = Pipe(w)
<1>1. queue'[w] = queue[w] /\ frame'[w] = frame[w]
  BY DEF Locals, Types, Before, Serving
<1> QED BY <1>1 DEF Pipe

LEMMA PipedNext ==
    ASSUME Inv, [Next]_vars, NEW w \in Workers
    PROVE  Piped(w)'
<1>0. /\ Types /\ Ordered(w) /\ Stranger(w) /\ Piped(w) /\ w \in Connections
      /\ task \in [Connections -> Places] /\ log \in Seq(Entries)
  BY DEF Inv, Types, Connections
<1>1. ASSUME NEW c \in Connections, NEW q \in Places, Move(c, q)
      PROVE  Piped(w)'
  <2>1. Locals(c) /\ UNCHANGED <<delivered, drained, log, senders>>
    BY <1>1 DEF Move, driverVars, colliderVars
  <2>2. task'[w] \in Before \cup Serving => task[w] \in Before \cup Serving
    BY <1>0, <1>1 DEF Move, Before, Serving
  <2>3. task'[w] \in Before \cup Serving => (task'[w] = "write" <=> task[w] = "write")
    BY <1>0, <1>1 DEF Move, Before, Serving
  <2>4. task'[w] \in Before \cup Serving => Pipe(w)' = Pipe(w)
    BY <1>0, <2>1, <2>3, PipeLocals
  <2>5. Grows({})
    BY <1>0, <2>1, StillGrows
  <2> QED BY <1>0, <2>1, <2>2, <2>4, <2>5, PipedKept DEF Piped
<1>2. ASSUME NEW c \in Connections, NEW q \in Places, NEW cmd \in CommandTypes, Send(c, cmd, q)
      PROVE  Piped(w)'
  <2>1. Locals(c) /\ UNCHANGED <<delivered, drained, log, senders>>
    BY <1>2 DEF Send, driverVars, colliderVars
  <2>2. task'[w] \in Before \cup Serving => task[w] \in Before \cup Serving
    BY <1>0, <1>2 DEF Send, Before, Serving
  <2>3. task'[w] = "write" <=> task[w] = "write"
    BY <1>0, <1>2 DEF Send
  <2>4. task'[w] \in Before \cup Serving => Pipe(w)' = Pipe(w)
    BY <1>0, <2>1, <2>3, PipeLocals
  <2>5. Grows({})
    BY <1>0, <2>1, StillGrows
  <2> QED BY <1>0, <2>1, <2>2, <2>4, <2>5, PipedKept DEF Piped
<1>3. ASSUME NEW c \in Connections, NEW q \in Places, Take(c, q)
      PROVE  Piped(w)'
  <2>1. UNCHANGED <<delivered, drained, log, senders>>
    BY <1>3 DEF Take, driverVars, colliderVars
  <2>2. task'[w] \in Before \cup Serving => task[w] \in Before \cup Serving
    BY <1>0, <1>3 DEF Take, Before, Serving
  <2>3. task'[w] \in Before \cup Serving => Pipe(w)' = Pipe(w)
    <3>1. CASE c = w
      <4>1. queue[w] \in Seq(Nat) /\ queue[w] # <<>>
        BY <1>0, <1>3, <3>1 DEF Types, Take
      <4>2. queue'[w] = Tail(queue[w]) /\ frame'[w] = Head(queue[w]) /\ task[w] = "select" /\ task'[w] = q
        BY <1>0, <1>3, <3>1 DEF Types, Take
      <4>3. ToSet(queue[w]) = {frame'[w]} \cup ToSet(queue'[w])
        BY <4>1, <4>2, HeadSet
      <4>4. q \in Before \cup Serving => q = "write"
        BY <1>3 DEF Take, Before, Serving
      <4> QED BY <2>1, <4>2, <4>3, <4>4 DEF Pipe
    <3>2. CASE c # w
      <4>1. queue'[w] = queue[w] /\ frame'[w] = frame[w] /\ task'[w] = task[w]
        BY <1>0, <1>3, <3>2 DEF Types, Take
      <4> QED BY <2>1, <4>1 DEF Pipe
    <3> QED BY <3>1, <3>2
  <2>4. Grows({})
    BY <1>0, <2>1, StillGrows
  <2> QED BY <1>0, <2>1, <2>2, <2>3, <2>4, PipedKept DEF Piped
<1>4. ASSUME NEW c \in Connections, Written(c)
      PROVE  Piped(w)'
  <2>1. CASE c = w
    BY <1>0, <1>4, <2>1, PipedWritten
  <2>2. CASE c # w
    <3>1. /\ delivered'[w] = delivered[w] /\ task'[w] = task[w]
          /\ UNCHANGED <<frame, queue, drained, log, senders>>
      BY <1>0, <1>4, <2>2 DEF Types, Written, driverVars, colliderVars
    <3>2. Pipe(w)' = Pipe(w)
      BY <3>1 DEF Pipe
    <3>3. Grows({})
      BY <1>0, <3>1, StillGrows
    <3> QED BY <1>0, <3>1, <3>2, <3>3, PipedKept DEF Piped
  <2> QED BY <2>1, <2>2
<1>5. ASSUME NEW cmd \in CommandTypes, Handled(cmd)
      PROVE  Piped(w)'
  <2>1. UNCHANGED <<frame, task, delivered, drained>>
    BY <1>5 DEF Handled
  <2>2. queue'[w] = queue[w]
    BY <1>0, <1>5, HandledEffect, DriverAssumption DEF Types
  <2>3. Pipe(w)' = Pipe(w)
    BY <2>1, <2>2 DEF Pipe
  <2>4. Grows(known') /\ (w \in senders' => w \in senders \/ cmd = Connected(w))
    BY <1>0, <1>5, HandledEffect
  <2>5. ASSUME cmd = Connected(w), NEW m \in 1..drained PROVE log[m].connection # w
    <3>1. commands \in Seq(CommandTypes) /\ commands # <<>> /\ cmd = Head(commands)
      BY <1>0, <1>5 DEF Handled, Types
    <3>2. 1 \in 1..Len(commands) /\ commands[1] = Connected(w)
      BY <2>5, <3>1
    <3>3. drained \in Nat /\ Len(log) \in Nat /\ drained <= Len(log)
      BY <1>0, PipeDrained
    <3>4. m \in 1..Len(log)
      BY <3>3
    <3> QED BY <1>0, <3>2, <3>4 DEF Stranger
  <2>6. task[w] \in Before \cup Serving /\ w \in senders' =>
           \A m \in 1..drained : log[m].connection = w => m \in Pipe(w)
    BY <1>0, <2>4, <2>5 DEF Piped
  <2> QED BY <1>0, <2>1, <2>3, <2>4, <2>6, PipedKept
<1>6. CASE Emitted
  <2>1. UNCHANGED <<frame, task, delivered, drained, queue>> /\ senders' \subseteq senders /\ Grows(known')
    BY <1>6 DEF Emitted, taskVars
  <2>2. Pipe(w)' = Pipe(w)
    BY <2>1 DEF Pipe
  <2> QED BY <1>0, <2>1, <2>2, PipedKept DEF Piped
<1>7. CASE Drain
  BY <1>0, <1>7, PipedDrain
<1>8. CASE DropReceiver \/ MainMove
  <2>1. UNCHANGED <<frame, task, delivered, drained, queue, log>> /\ senders' \subseteq senders
    BY <1>8 DEF DropReceiver, MainMove, taskVars, driverVars, colliderVars
  <2>2. Pipe(w)' = Pipe(w)
    BY <2>1 DEF Pipe
  <2>3. Grows({})
    BY <1>0, <2>1, StillGrows
  <2> QED BY <1>0, <2>1, <2>2, <2>3, PipedKept DEF Piped
<1> QED BY <1>0, <1>1, <1>2, <1>3, <1>4, <1>5, <1>6, <1>7, <1>8, Kinds

-----------------------------------------------------------------------------
(* The invariant and what follows from it.                                  *)

LEMMA InvInit ==
    ASSUME Init
    PROVE  Inv
<1>1. Types
  <2>1. IsFiniteSet(known)
    BY FS_EmptySet DEF Init
  <2>2. /\ queue \in [Connections -> Seq(Nat)] /\ delivered \in [Connections -> Seq(Nat)]
        /\ commands \in Seq(CommandTypes) /\ log \in Seq(Entries)
    BY DEF Init
  <2>3. /\ \A c \in Connections : Len(queue[c]) = 0
        /\ Len(commands) = 0 /\ Len(log) = 0
    BY DEF Init
  <2>4. /\ \A c \in Connections : Len(queue[c]) <= OutputCapacity
        /\ Len(commands) <= CommandCapacity /\ drained \in 0..Len(log)
    BY <2>3, DriverAssumption DEF Init
  <2>5. inputs \in 0..MaxInputs
    BY DriverAssumption DEF Init
  <2> QED BY <2>1, <2>2, <2>4, <2>5 DEF Init, Types, Places, DriverPlaces, CloseFrame
<1>2. ASSUME NEW c \in Connections
      PROVE  Ordered(c) /\ Stranger(c) /\ Pipe(c) = {} /\ ToSet(delivered[c]) = {}
  <2>1. /\ queue[c] = <<>> /\ delivered[c] = <<>> /\ frame[c] = 0 /\ task[c] = "idle" /\ drained = 0
        /\ commands = <<>> /\ log = <<>> /\ known = {}
    BY DEF Init, CloseFrame
  <2>2. ToSet(queue[c]) = {} /\ ToSet(delivered[c]) = {}
    BY <2>1 DEF ToSet
  <2>3. Increasing(queue[c]) /\ Increasing(delivered[c])
    BY <2>1 DEF Increasing
  <2>4. Ordered(c)
    BY <2>1, <2>2, <2>3 DEF Ordered
  <2>5. Stranger(c)
    BY <2>1 DEF Stranger
  <2> QED BY <2>1, <2>2, <2>4, <2>5 DEF Pipe
<1>3. ASSUME NEW w \in Workers PROVE Piped(w)
  <2>1. w \in Connections /\ drained = 0
    BY DEF Connections, Init
  <2> QED BY <1>2, <2>1 DEF Piped, NoHoles
<1> QED BY <1>1, <1>2, <1>3 DEF Inv

LEMMA TypesNext ==
    ASSUME Types, [Next]_vars
    PROVE  Types'
BY Kinds, TypesMove, TypesSend, TypesTake, TypesWritten, TypesHandled, TypesEmitted, TypesDrain, TypesOther

LEMMA InvNext ==
    ASSUME Inv, [Next]_vars
    PROVE  Inv'
<1>1. Types'
  BY TypesNext DEF Inv
<1>2. \A c \in Connections : Ordered(c)' /\ Stranger(c)'
  BY OrderedNext, StrangerNext
<1>3. \A w \in Workers : Piped(w)'
  BY PipedNext
<1> QED BY <1>1, <1>2, <1>3 DEF Inv

\* Inv is an inductive invariant of the signaling service.
THEOREM Invariance == Spec => []Inv
<1>1. Init => Inv
  BY InvInit
<1>2. Inv /\ [Next]_vars => Inv'
  BY InvNext
<1> QED BY <1>1, <1>2, PTL DEF Spec

\* The channels keep their bounds and the Collider's log stays ahead of what is
\* drained, for any number of connections and any capacities.
THEOREM TypeCorrect == Spec => []TypeOK
<1>1. Inv => TypeOK
  <2> SUFFICES ASSUME Inv PROVE TypeOK
    OBVIOUS
  <2>1. frame \in [Connections -> 0..Len(log)]
    <3>1. ASSUME NEW c \in Connections PROVE frame[c] \in 0..Len(log)
      <4>1. frame[c] \in Nat /\ drained \in 0..Len(log) /\ log \in Seq(Entries)
        BY DEF Inv, Types
      <4>2. frame[c] <= drained
        BY DEF Inv, Ordered
      <4> QED BY <4>1, <4>2
    <3>2. frame \in [Connections -> Nat]
      BY DEF Inv, Types
    <3> QED BY <3>1, <3>2
  <2> QED BY <2>1 DEF Inv, Types, TypeOK, Places, DriverPlaces
<1> QED BY <1>1, Invariance, PTL

\* What a browser receives over its one writer (ws_session's output arm) it
\* receives once and in the order the Collider emitted it, whatever is dropped.
THEOREM WriterOrderHolds == Spec => []WriterOrder
<1>1. Inv => WriterOrder
  <2> SUFFICES ASSUME Inv, NEW c \in Browsers, NEW i \in DOMAIN delivered[c], NEW j \in DOMAIN delivered[c], i < j
               PROVE  delivered[c][i] < delivered[c][j]
    BY DEF WriterOrder
  <2>1. c \in Connections /\ delivered[c] \in Seq(Nat) /\ Ordered(c)
    BY DEF Inv, Types, Connections
  <2>2. i \in 1..Len(delivered[c]) /\ j \in 1..Len(delivered[c])
    BY <2>1
  <2>3. delivered[c][i] \in ToSet(delivered[c]) /\ delivered[c][j] \in ToSet(delivered[c])
    BY DEF ToSet
  <2>4. delivered[c][i] # CloseFrame /\ delivered[c][j] # CloseFrame /\ Increasing(delivered[c])
    BY <2>1, <2>3 DEF Ordered
  <2> QED BY <2>2, <2>4 DEF Increasing
<1> QED BY <1>1, Invariance, PTL

\* An SFU stream has no holes: drain_outputs removes the sender of a stream at
\* the first output its channel refuses.
THEOREM WorkerStreamCompleteHolds == Spec => []WorkerStreamComplete
<1>1. Inv => WorkerStreamComplete
  BY DEF Inv, Piped, NoHoles, WorkerStreamComplete
<1> QED BY <1>1, Invariance, PTL

-----------------------------------------------------------------------------
(* Stopping.                                                                *)

LEMMA FarewellHandled ==
    ASSUME Types, NEW cmd \in CommandTypes, Handled(cmd), NEW c \in Browsers, Farewell(c)
    PROVE  Farewell(c)'
<1>0. c \in Connections
  BY DEF Connections
<1>1. /\ commands \in Seq(CommandTypes) /\ commands # <<>> /\ commands' = Tail(commands)
      /\ cmd = Head(commands) /\ task' = task /\ driver # "stopped"
  BY DEF Types, Handled
<1>2. /\ Len(commands) \in Nat \ {0} /\ Len(commands') = Len(commands) - 1
      /\ \A i \in 1..Len(commands') : commands'[i] = commands[i + 1] /\ i + 1 \in 1..Len(commands)
      /\ cmd = commands[1]
  BY <1>1, HeadSet
<1> SUFFICES ASSUME task[c] = "ended"
             PROVE  /\ c \in known' => \E j \in 1..Len(commands') : commands'[j] = Disconnected(c)
                    /\ \A i \in 1..Len(commands') : commands'[i] = Connected(c) =>
                          \E j \in (i + 1)..Len(commands') : commands'[j] = Disconnected(c)
  BY <1>1 DEF Farewell, Connected, Disconnected
<1>3. /\ c \in known => \E j \in 1..Len(commands) : commands[j] = Disconnected(c)
      /\ \A i \in 1..Len(commands) :
            commands[i] = Connected(c) => \E j \in (i + 1)..Len(commands) : commands[j] = Disconnected(c)
  BY <1>1 DEF Farewell
<1>4. ASSUME NEW i \in 0..Len(commands'), NEW j \in (i + 2)..Len(commands), commands[j] = Disconnected(c)
      PROVE  \E k \in (i + 1)..Len(commands') : commands'[k] = Disconnected(c)
  <2>1. PICK k \in (i + 1)..Len(commands') : k + 1 = j
    BY <1>2
  <2>2. k \in 1..Len(commands')
    BY <1>2
  <2> QED BY <1>2, <1>4, <2>1, <2>2
<1>5. ASSUME c \in known'
      PROVE  \E j \in 1..Len(commands') : commands'[j] = Disconnected(c)
  <2>1. cmd # Disconnected(c) /\ (c \in known \/ cmd = Connected(c))
    BY <1>0, <1>5, HandledEffect
  <2>2. PICK j \in 2..Len(commands) : commands[j] = Disconnected(c)
    <3>1. CASE c \in known
      <4>1. PICK j \in 1..Len(commands) : commands[j] = Disconnected(c)
        BY <1>3, <3>1
      <4>2. j # 1
        BY <1>2, <2>1, <4>1
      <4> QED BY <1>2, <4>1, <4>2
    <3>2. CASE cmd = Connected(c)
      <4>1. 1 \in 1..Len(commands) /\ commands[1] = Connected(c)
        BY <1>2, <3>2
      <4>2. \E j \in (1 + 1)..Len(commands) : commands[j] = Disconnected(c)
        BY <1>3, <4>1
      <4> QED BY <4>2
    <3> QED BY <2>1, <3>1, <3>2
  <2>3. 0 \in 0..Len(commands') /\ j \in (0 + 2)..Len(commands)
    BY <1>2
  <2>4. \E k \in (0 + 1)..Len(commands') : commands'[k] = Disconnected(c)
    BY <1>4, <2>2, <2>3
  <2> QED BY <2>4
<1>6. ASSUME NEW i \in 1..Len(commands'), commands'[i] = Connected(c)
      PROVE  \E j \in (i + 1)..Len(commands') : commands'[j] = Disconnected(c)
  <2>1. i + 1 \in 1..Len(commands) /\ commands[i + 1] = Connected(c) /\ i \in 0..Len(commands')
    BY <1>2, <1>6
  <2>2. PICK j \in ((i + 1) + 1)..Len(commands) : commands[j] = Disconnected(c)
    BY <1>3, <2>1
  <2>3. j \in (i + 2)..Len(commands)
    BY <1>2
  <2> QED BY <1>4, <2>1, <2>2, <2>3
<1> QED BY <1>5, <1>6

LEMMA FarewellSend ==
    ASSUME Types, NEW c \in Connections, NEW q \in Places, NEW cmd \in CommandTypes, Send(c, cmd, q),
           NEW d \in Browsers, Farewell(d)
    PROVE  Farewell(d)'
<1>0. d \in Connections /\ task \in [Connections -> Places]
  BY DEF Connections, Types
<1>1. /\ commands \in Seq(CommandTypes) /\ commands' = Append(commands, cmd)
      /\ driver' = driver /\ driver # "stopped" /\ known' = known
  BY DEF Types, Send, driverVars, colliderVars
<1>2. /\ Len(commands') = Len(commands) + 1 /\ Len(commands) \in Nat
      /\ \A k \in 1..Len(commands) : commands'[k] = commands[k]
      /\ commands'[Len(commands) + 1] = cmd
  BY <1>1
<1> SUFFICES ASSUME task'[d] = "ended"
             PROVE  /\ d \in known => \E j \in 1..Len(commands') : commands'[j] = Disconnected(d)
                    /\ \A i \in 1..Len(commands') : commands'[i] = Connected(d) =>
                          \E j \in (i + 1)..Len(commands') : commands'[j] = Disconnected(d)
  BY <1>1 DEF Farewell, Connected, Disconnected
<1>3. ASSUME NEW i \in 1..Len(commands')
      PROVE  i \in 1..Len(commands) \/ i = Len(commands) + 1
  BY <1>2
<1>4. CASE task[d] = "ended"
  <2>1. c # d
    BY <1>4 DEF Send
  <2>2. cmd # Connected(d)
    BY <2>1 DEF Send, Connected, Text, Disconnected
  <2>3. /\ d \in known => \E j \in 1..Len(commands) : commands[j] = Disconnected(d)
        /\ \A i \in 1..Len(commands) :
              commands[i] = Connected(d) => \E j \in (i + 1)..Len(commands) : commands[j] = Disconnected(d)
    BY <1>1, <1>4 DEF Farewell
  <2>4. ASSUME NEW i \in Nat, NEW j \in (i + 1)..Len(commands), commands[j] = Disconnected(d)
        PROVE  j \in (i + 1)..Len(commands') /\ commands'[j] = Disconnected(d)
    <3>1. j \in 1..Len(commands) /\ j \in (i + 1)..Len(commands')
      BY <1>2
    <3> QED BY <1>2, <2>4, <3>1
  <2>5. d \in known => \E j \in (0 + 1)..Len(commands') : commands'[j] = Disconnected(d)
    <3>1. d \in known => \E j \in (0 + 1)..Len(commands) : commands[j] = Disconnected(d)
      BY <2>3
    <3> QED BY <2>4, <3>1
  <2>6. ASSUME NEW i \in 1..Len(commands'), commands'[i] = Connected(d)
        PROVE  \E j \in (i + 1)..Len(commands') : commands'[j] = Disconnected(d)
    <3>1. i \in 1..Len(commands) /\ i \in Nat /\ commands[i] = Connected(d)
      BY <1>2, <1>3, <2>2, <2>6
    <3> QED BY <2>3, <2>4, <3>1
  <2> QED BY <2>5, <2>6
<1>5. CASE task[d] # "ended"
  <2>1. c = d /\ cmd = Disconnected(d)
    BY <1>0, <1>5 DEF Send
  <2>2. Len(commands) + 1 \in 1..Len(commands')
    BY <1>2
  <2>3. ASSUME NEW i \in 1..Len(commands'), commands'[i] = Connected(d)
        PROVE  Len(commands) + 1 \in (i + 1)..Len(commands')
    <3>1. cmd # Connected(d)
      BY <2>1 DEF Connected, Disconnected
    <3>2. i \in 1..Len(commands)
      BY <1>2, <1>3, <2>3, <3>1
    <3> QED BY <1>2, <3>2
  <2> QED BY <1>2, <2>1, <2>2, <2>3
<1> QED BY <1>4, <1>5

LEMMA FarewellNext ==
    ASSUME Inv, [Next]_vars, NEW d \in Browsers, Farewell(d)
    PROVE  Farewell(d)'
<1>0. /\ Types /\ Stranger(d) /\ d \in Connections /\ task \in [Connections -> Places]
  BY DEF Inv, Types, Connections
<1>1. ASSUME UNCHANGED <<commands, driver>>, known' \subseteq known, task'[d] = "ended" => task[d] = "ended"
      PROVE  Farewell(d)'
  BY <1>1 DEF Farewell, Connected, Disconnected
<1>2. ASSUME NEW c \in Connections, NEW q \in Places, Move(c, q)
      PROVE  Farewell(d)'
  <2>1. UNCHANGED <<commands, driver, known>>
    BY <1>2 DEF Move, driverVars, colliderVars
  <2>2. CASE task'[d] = "ended" => task[d] = "ended"
    BY <1>1, <2>1, <2>2
  <2>3. CASE task'[d] = "ended" /\ task[d] # "ended"
    <3>1. task[d] \in Before \/ driver = "stopped"
      BY <1>0, <1>2, <2>3 DEF Move
    <3>2. CASE task[d] \in Before
      BY <1>0, <2>1, <3>2 DEF Stranger, Farewell, Connected
    <3> QED BY <2>1, <3>1, <3>2 DEF Farewell
  <2> QED BY <2>2, <2>3
<1>3. ASSUME NEW c \in Connections, NEW q \in Places, Take(c, q) \/ Written(c)
      PROVE  Farewell(d)'
  <2>1. UNCHANGED <<commands, driver, known>>
    BY <1>3 DEF Take, Written, driverVars, colliderVars
  <2>2. task'[d] = "ended" => task[d] = "ended"
    BY <1>0, <1>3 DEF Take, Written
  <2> QED BY <1>1, <2>1, <2>2
<1>4. ASSUME NEW c \in Connections, NEW q \in Places, NEW cmd \in CommandTypes, Send(c, cmd, q)
      PROVE  Farewell(d)'
  BY <1>0, <1>4, FarewellSend
<1>5. ASSUME NEW cmd \in CommandTypes, Handled(cmd)
      PROVE  Farewell(d)'
  BY <1>0, <1>5, FarewellHandled
<1>6. CASE Emitted
  <2>1. UNCHANGED <<commands, task>> /\ known' \subseteq known /\ driver # "stopped"
    BY <1>6 DEF Emitted, taskVars
  <2> QED BY <2>1 DEF Farewell, Connected, Disconnected
<1>7. CASE Drain \/ MainMove
  <2>1. UNCHANGED <<commands, task, known, driver>>
    BY <1>7 DEF Drain, MainMove, taskVars, driverVars, colliderVars
  <2> QED BY <1>1, <2>1
<1>8. CASE DropReceiver
  BY <1>8 DEF DropReceiver, Farewell
<1> QED
  <2>1. \E q : q \in Places
    BY DEF Places
  <2> QED BY <1>0, <1>2, <1>3, <1>4, <1>5, <1>6, <1>7, <1>8, <2>1, Kinds

LEMMA StoppedLastNext ==
    ASSUME ~MayFail, Inv, [Next]_vars, CutInv
    PROVE  StoppedLast'
<1>0. /\ Types /\ task \in [Connections -> Places] /\ Browsers \subseteq Connections /\ StoppedLast
      /\ \A c \in Browsers : c \notin Workers
  BY DriverAssumption DEF Inv, Types, Connections, CutInv
<1>1. ASSUME UNCHANGED <<driver, known, main, accepting>>,
             main \in {"collider", "down"} => \A c \in Browsers : Ended(c)'
      PROVE  StoppedLast'
  BY <1>0, <1>1 DEF StoppedLast
<1>2. ASSUME NEW c \in Connections, NEW q \in Places, Move(c, q)
      PROVE  StoppedLast'
  <2>1. UNCHANGED <<driver, known, main, accepting>>
    BY <1>2 DEF Move, driverVars, colliderVars, mainVars
  <2>2. ASSUME main \in {"collider", "down"}, NEW d \in Browsers PROVE Ended(d)'
    <3>1. ~accepting /\ task[d] \in {"idle", "ended"}
      BY <1>0, <2>2 DEF StoppedLast, Ended
    <3>2. task'[d] = task[d]
      BY <1>0, <1>2, <3>1 DEF Move, Before, Serving
    <3> QED BY <3>1, <3>2 DEF Ended
  <2> QED BY <1>1, <2>1, <2>2
<1>3. ASSUME NEW c \in Connections, NEW q, NEW cmd, Send(c, cmd, q) \/ Take(c, q) \/ Written(c)
      PROVE  StoppedLast'
  <2>1. UNCHANGED <<driver, known, main, accepting>>
    BY <1>3 DEF Send, Take, Written, driverVars, colliderVars, mainVars
  <2>2. ASSUME main \in {"collider", "down"}, NEW d \in Browsers PROVE Ended(d)'
    <3>1. task[d] \in {"idle", "ended"}
      BY <1>0, <2>2 DEF StoppedLast, Ended
    <3>2. task'[d] = task[d]
      BY <1>0, <1>3, <3>1 DEF Send, Take, Written
    <3> QED BY <3>1, <3>2 DEF Ended
  <2> QED BY <1>1, <2>1, <2>2
<1>4. ASSUME NEW cmd \in CommandTypes, Handled(cmd)
      PROVE  StoppedLast'
  <2>1. UNCHANGED <<task, main, accepting>>
    BY <1>4 DEF Handled, mainVars
  <2>2. (driver = "select" /\ driver' = "drain") \/ (driver = "close" /\ driver' = "close")
    BY <1>4 DEF Handled
  <2> QED BY <1>0, <2>1, <2>2 DEF StoppedLast, Ended
<1>5. CASE Emitted
  <2>1. UNCHANGED <<task, main, accepting, commands>> /\ known' \subseteq known
    BY <1>5 DEF Emitted, taskVars, mainVars
  <2>2. CASE driver = "close" /\ driver' = "close drain" /\ commands = <<>>
    <3>1. main \in {"collider", "down"} /\ \A c \in Browsers : Ended(c)
      BY <1>0, <2>2 DEF StoppedLast
    <3>2. ASSUME NEW c \in Browsers PROVE c \notin known
      <4>1. task[c] \in {"idle", "ended"} /\ Farewell(c) /\ Stranger(c) /\ Len(commands) = 0
        BY <1>0, <2>2, <3>1 DEF Ended, CutInv, Inv
      <4>2. CASE task[c] = "idle"
        BY <4>1, <4>2 DEF Stranger, Before
      <4>3. CASE task[c] = "ended"
        <5>1. c \in known => \E j \in 1..Len(commands) : commands[j] = Disconnected(c)
          BY <2>2, <4>1, <4>3 DEF Farewell
        <5>2. \A j : j \notin 1..Len(commands)
          BY <4>1
        <5> QED BY <5>1, <5>2
      <4> QED BY <4>1, <4>2, <4>3
    <3> QED BY <1>0, <2>1, <2>2, <3>1, <3>2 DEF StoppedLast, Ended
  <2>3. CASE ~(driver = "close" /\ driver' = "close drain" /\ commands = <<>>)
    <3>1. \/ driver' \in {"drain", "select"}
          \/ driver' = "close" /\ main = "collider"
          \/ driver = "close drain" /\ driver' = "stopping"
      BY <1>5, <2>3 DEF Emitted
    <3> QED BY <1>0, <2>1, <3>1 DEF StoppedLast, Ended
  <2> QED BY <2>2, <2>3
<1>6. CASE Drain
  <2>1. UNCHANGED <<driver, known, main, accepting, task>>
    BY <1>6 DEF Drain, mainVars
  <2> QED BY <1>0, <1>1, <2>1 DEF StoppedLast, Ended
<1>7. CASE DropReceiver
  <2>1. UNCHANGED <<main, accepting, task>> /\ driver = "stopping" /\ driver' = "stopped"
    BY <1>7 DEF DropReceiver, mainVars, taskVars
  <2> QED BY <1>0, <2>1 DEF StoppedLast, Ended
<1>8. CASE MainMove
  <2>1. UNCHANGED <<task, driver, known>> /\ (accepting' => accepting)
    BY <1>8 DEF MainMove, taskVars, driverVars, colliderVars
  <2>2. main' \in {"collider", "down"} => ~accepting /\ \A c \in Browsers : Ended(c)
    BY <1>0, <1>8 DEF MainMove, StoppedLast
  <2>3. main \in {"collider", "down"} => main' \in {"collider", "down"}
    BY <1>8 DEF MainMove
  <2> QED BY <1>0, <2>1, <2>2, <2>3 DEF StoppedLast, Ended
<1> QED BY <1>0, <1>2, <1>3, <1>4, <1>5, <1>6, <1>7, <1>8, Kinds

\* main() stops the event loop only after ws_server::run has joined the browsers'
\* tasks, and each has sent its Disconnected before it ended: the Collider has
\* heard of every browser's end before it is closed.  A failing timeout of the
\* Collider ends the event loop at any time, so the theorem excludes it.
THEOREM NobodyCutOffHolds ==
    ASSUME ~MayFail
    PROVE  Spec => []NobodyCutOff
<1>1. Init => CutInv
  BY DEF Init, CutInv, Farewell, StoppedLast, Connections
<1>2. Inv /\ CutInv /\ [Next]_vars => CutInv'
  <2> SUFFICES ASSUME Inv, CutInv, [Next]_vars PROVE CutInv'
    OBVIOUS
  <2>1. \A c \in Browsers : Farewell(c)'
    BY FarewellNext DEF CutInv
  <2>2. StoppedLast'
    BY StoppedLastNext
  <2> QED BY <2>1, <2>2 DEF CutInv
<1>3. CutInv => NobodyCutOff
  BY DEF CutInv, StoppedLast, NobodyCutOff
<1>4. Spec => []Inv
  BY Invariance
<1> QED BY <1>1, <1>2, <1>3, <1>4, PTL DEF Spec
=============================================================================
