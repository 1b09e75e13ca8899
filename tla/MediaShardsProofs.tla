------------------------- MODULE MediaShardsProofs -------------------------
(***************************************************************************)
(* Proofs about MediaShards for any rooms, clients, shards, commands,      *)
(* numbers and cache capacity.                                             *)
(***************************************************************************)
EXTENDS MediaShards, FiniteSetTheorems, SequenceTheorems, TLAPS

\* The room a command is about.
RoomOf(cmd) == IF cmd.type = "sync" THEN cmd.room ELSE cmd.member[1]

MemberTypes == {"join", "leave", "signal"}

\* The message a worker reads carries what the command says.
Carries(w, cmd) ==
    /\ w.type = cmd.type
    /\ cmd.type \in MemberTypes =>
          /\ w.room_id = room_id_to_bytes(cmd.member[1]) /\ w.client_id = cmd.member[2]
          /\ w.lifecycle_id = cmd.lifecycle /\ w.assignment_epoch = cmd.epoch
    /\ cmd.type = "signal" => w.content = cmd.content
    /\ cmd.type = "sync" =>
          /\ w.room_id = room_id_to_bytes(cmd.room) /\ w.assignment_epoch = cmd.epoch
          /\ w.members = MemberProjections(cmd.roster)

-----------------------------------------------------------------------------
(* Commands on the wire.                                                    *)

\* The fields of a command have their types.
LEMMA CommandType ==
    ASSUME NEW cmd \in Commands
    PROVE  \/ cmd.type = "drain"
           \/ /\ cmd.type \in MemberTypes /\ cmd.member \in Members
              /\ cmd.lifecycle \in Lifecycles /\ cmd.epoch \in Epochs
              /\ cmd.type = "signal" =>
                    cmd.content \in [kind : STRING, requestid : Nat, sdp_request_id : Nat]
           \/ /\ cmd.type = "sync" /\ cmd.room \in Rooms /\ cmd.epoch \in Epochs
              /\ DOMAIN cmd.roster \subseteq Clients /\ IsFiniteSet(DOMAIN cmd.roster)
              /\ \A c \in DOMAIN cmd.roster : cmd.roster[c] \in Lifecycles
<1>1. cmd \in MemberCommands \cup SignalCommands \cup SyncCommands \cup {Drain}
  BY CommandAssumption
<1>2. CASE cmd \in MemberCommands
  BY <1>2 DEF MemberCommands, MemberTypes
<1>3. CASE cmd \in SignalCommands
  BY <1>3, CommandAssumption DEF SignalCommands, MemberTypes
<1>4. CASE cmd \in SyncCommands
  BY <1>4, CommandAssumption DEF SyncCommands, Rosters
<1>5. CASE cmd = Drain
  BY <1>5 DEF Drain
<1> QED BY <1>1, <1>2, <1>3, <1>4, <1>5

\* Encoding loses nothing of a command, and the room decides where it goes.
LEMMA Encoded ==
    ASSUME NEW cmd \in Commands, NEW id
    PROVE  /\ encode_sfu_output(id, cmd).request_id = id
           /\ Carries(encode_sfu_output(id, cmd).command, cmd)
           /\ cmd.type = "drain" =>
                 command_room_id(encode_sfu_output(id, cmd).command) = NoRoom
           /\ cmd.type # "drain" =>
                 /\ command_room_id(encode_sfu_output(id, cmd).command) = RoomOf(cmd)
                 /\ RoomOf(cmd) \in Rooms /\ RoomOf(cmd) # NoRoom
<1> DEFINE w == encode_sfu_output(id, cmd).command
<1>1. encode_sfu_output(id, cmd).request_id = id
  BY DEF encode_sfu_output
<1>2. Carries(w, cmd)
  <2>1. CASE cmd.type = "drain"
    BY <2>1 DEF encode_sfu_output, Carries, MemberTypes
  <2>2. CASE cmd.type = "sync"
    BY <2>2 DEF encode_sfu_output, Carries, MemberTypes
  <2>3. CASE cmd.type \in MemberTypes
    BY <2>3 DEF encode_sfu_output, Carries, MemberTypes
  <2> QED BY <2>1, <2>2, <2>3, CommandType
<1> HIDE DEF w
<1>3. cmd.type # "drain" => RoomOf(cmd) \in Rooms /\ RoomOf(cmd) # NoRoom
  BY CommandType, ShardAssumption DEF RoomOf, Members, MemberTypes, NoRoom
<1>4. cmd.type = "drain" => command_room_id(w) = NoRoom
  BY <1>2 DEF Carries, command_room_id
<1>5. cmd.type # "drain" => command_room_id(w) = RoomOf(cmd)
  BY <1>2, CommandType DEF Carries, command_room_id, RoomOf, room_id_from_bytes,
     room_id_to_bytes, MemberTypes
<1> QED BY <1>1, <1>2, <1>3, <1>4, <1>5 DEF w

\* The key and the tag that a member command names.
LEMMA KeyAndTag ==
    ASSUME NEW cmd \in Commands, cmd.type \in MemberTypes, NEW w, Carries(w, cmd)
    PROVE  /\ MemberKey(w) = cmd.member /\ MemberTag(w) = <<cmd.lifecycle, cmd.epoch>>
           /\ cmd.member \in Members /\ cmd.member[1] = RoomOf(cmd)
<1>1. cmd.member \in Rooms \X Clients
  BY CommandType DEF MemberTypes, Members
<1>2. cmd.member = <<cmd.member[1], cmd.member[2]>>
  BY <1>1
<1> QED BY <1>1, <1>2 DEF Carries, MemberKey, MemberTag, RoomOf, room_id_from_bytes,
       room_id_to_bytes, MemberTypes, Members

-----------------------------------------------------------------------------
(* What applying a command does.                                            *)

\* A shard's engine has the members its projection has, finitely many of them,
\* each with a lifecycle and an epoch.
Sane(eng, proj) ==
    /\ eng = DOMAIN proj /\ eng \subseteq Members /\ IsFiniteSet(eng)
    /\ \A m \in eng : proj[m] \in Lifecycles \X Epochs

\* What the Collider reads in a result about command cmd with number id.
Answers(result, id, cmd) ==
    /\ decode_sfu_input(result).type \in {"Ok", "Err", "Status"}
    /\ decode_sfu_input(result).type = "Ok" =>
          decode_sfu_input(result).request_id = id /\ decode_sfu_input(result).value = Confirms(cmd)

\* An outcome is sound: the shard stays sane, only members of the command's room
\* come in, and the result is the command's and tells the truth.
Sound(o, s, id, cmd) ==
    /\ Sane(o.engine, o.projection)
    /\ \A m \in o.engine \ engine[s] : m[1] = RoomOf(cmd)
    /\ o.told.member \in Members \cup {<<>>}
    /\ o.result.request_id = id
    /\ Answers(o.result, id, cmd)
    /\ o.result.ok => OkIsTrue(cmd, o.engine, o.projection, o.told)

\* A refusal changes nothing and is never read as a success.
LEMMA Refused ==
    ASSUME NEW s, NEW id \in Nat, NEW cmd, NEW code, NEW reason, Sane(engine[s], projection[s])
    PROVE  Sound(Unchanged(s, command_error(id, code, reason)), s, id, cmd)
BY DEF Sound, Unchanged, Outcome, command_error, NoSignal, Answers, decode_sfu_input

\* A success says what the command asked.
LEMMA Confirmed ==
    ASSUME NEW cmd \in Commands, NEW id \in Nat, NEW w, Carries(w, cmd)
    PROVE  /\ cmd.type = "join" => Answers(Ok(id, MemberPayload("MemberJoined", w)), id, cmd)
           /\ cmd.type = "leave" => Answers(Ok(id, MemberPayload("MemberLeft", w)), id, cmd)
           /\ cmd.type = "signal" => Answers(Ok(id, Acknowledged), id, cmd)
           /\ cmd.type = "sync" => Answers(Ok(id, RoomSynced(w)), id, cmd)
<1>1. ASSUME cmd.type \in {"join", "leave"}, NEW t \in {"MemberJoined", "MemberLeft"},
             t = IF cmd.type = "join" THEN "MemberJoined" ELSE "MemberLeft"
      PROVE  Answers(Ok(id, MemberPayload(t, w)), id, cmd)
  <2> DEFINE p == MemberPayload(t, w)
  <2>1. MemberKey(w) = cmd.member
    BY <1>1, KeyAndTag DEF MemberTypes
  <2>2. /\ p.type = t /\ p.room_id = w.room_id /\ p.client_id = w.client_id
        /\ p.lifecycle_id = cmd.lifecycle /\ p.assignment_epoch = cmd.epoch
    BY <1>1 DEF MemberPayload, Carries, MemberTypes
  <2> HIDE DEF p
  <2>3. MemberKey(p) = cmd.member
    BY <2>1, <2>2 DEF MemberKey
  <2>4. /\ Ok(id, p).request_id = id /\ Ok(id, p).ok /\ Ok(id, p).payload = p
    BY DEF Ok
  <2>5. decode_sfu_input(Ok(id, p)).type \in {"Ok", "Status"}
    BY <2>4 DEF decode_sfu_input
  <2>6. ASSUME decode_sfu_input(Ok(id, p)).type = "Ok"
        PROVE  /\ decode_sfu_input(Ok(id, p)).request_id = id
               /\ decode_sfu_input(Ok(id, p)).value =
                     [type |-> t, member |-> cmd.member, lifecycle |-> cmd.lifecycle,
                      epoch |-> cmd.epoch]
    BY <1>1, <2>2, <2>3, <2>4, <2>6 DEF decode_sfu_input
  <2> QED BY <1>1, <2>5, <2>6 DEF Answers, Confirms, p
<1>2. cmd.type = "signal" => Answers(Ok(id, Acknowledged), id, cmd)
  BY DEF Answers, Ok, decode_sfu_input, Confirms, Acknowledged
<1>3. cmd.type = "sync" => Answers(Ok(id, RoomSynced(w)), id, cmd)
  BY DEF Answers, Ok, decode_sfu_input, Confirms, Acknowledged, RoomSynced, Carries,
     room_id_from_bytes, room_id_to_bytes
<1> QED BY <1>1, <1>2, <1>3

\* A join that succeeds has put the member into engine and projection, or found
\* it there.
LEMMA JoinSound ==
    ASSUME NEW cmd \in Commands, cmd.type = "join", NEW w, Carries(w, cmd), NEW id \in Nat,
           NEW s, Sane(engine[s], projection[s]), NEW o \in JoinOutcomes(s, id, w)
    PROVE  Sound(o, s, id, cmd)
<1> DEFINE key == cmd.member
           tag == <<cmd.lifecycle, cmd.epoch>>
           joined == Ok(id, MemberPayload("MemberJoined", w))
<1>1. /\ MemberKey(w) = key /\ MemberTag(w) = tag /\ key \in Members /\ key[1] = RoomOf(cmd)
      /\ tag \in Lifecycles \X Epochs
  BY KeyAndTag, CommandType DEF MemberTypes
<1>2. Answers(joined, id, cmd) /\ joined.request_id = id
  BY Confirmed DEF Ok
<1> HIDE DEF key, tag, joined
<1>3. CASE o = Outcome(engine[s] \cup {key}, Put(projection[s], key, tag), joined)
  <2>1. /\ o.engine = engine[s] \cup {key} /\ o.projection = Put(projection[s], key, tag)
        /\ o.told = NoSignal /\ o.result = joined
    BY <1>3 DEF Outcome
  <2>2. /\ DOMAIN o.projection = engine[s] \cup {key} /\ o.projection[key] = tag
        /\ \A m \in engine[s] : m # key => o.projection[m] = projection[s][m]
    BY <2>1 DEF Put, Sane
  <2>3. IsFiniteSet(o.engine)
    BY <2>1, FS_AddElement DEF Sane
  <2>4. Sane(o.engine, o.projection)
    BY <1>1, <2>1, <2>2, <2>3 DEF Sane
  <2>5. OkIsTrue(cmd, o.engine, o.projection, o.told)
    BY <2>1, <2>2 DEF OkIsTrue, key, tag
  <2> QED BY <1>1, <1>2, <2>1, <2>4, <2>5 DEF Sound, NoSignal
<1>4. CASE o = Unchanged(s, joined) /\ key \in DOMAIN projection[s] /\ projection[s][key] = tag
  <2>1. /\ o.engine = engine[s] /\ o.projection = projection[s]
        /\ o.told = NoSignal /\ o.result = joined
    BY <1>4 DEF Unchanged, Outcome
  <2>2. OkIsTrue(cmd, o.engine, o.projection, o.told)
    BY <1>4, <2>1 DEF OkIsTrue, Sane, key, tag
  <2> QED BY <1>2, <2>1, <2>2 DEF Sound, NoSignal
<1>5. CASE \E code, reason : o = Unchanged(s, command_error(id, code, reason))
  BY <1>5, Refused
<1> QED
  BY <1>1, <1>3, <1>4, <1>5 DEF JoinOutcomes, joined

\* A leave that succeeds has removed the member, or there was none.
LEMMA LeaveSound ==
    ASSUME NEW cmd \in Commands, cmd.type = "leave", NEW w, Carries(w, cmd), NEW id \in Nat,
           NEW s, Sane(engine[s], projection[s]), NEW o \in LeaveOutcomes(s, id, w)
    PROVE  Sound(o, s, id, cmd)
<1> DEFINE key == cmd.member
           left == Ok(id, MemberPayload("MemberLeft", w))
<1>1. MemberKey(w) = key
  BY KeyAndTag DEF MemberTypes
<1>2. Answers(left, id, cmd) /\ left.request_id = id
  BY Confirmed DEF Ok
<1> HIDE DEF key, left
<1>3. CASE o = Outcome(engine[s] \ {key}, Without(projection[s], {key}), left)
  <2>1. /\ o.engine = engine[s] \ {key} /\ o.projection = Without(projection[s], {key})
        /\ o.told = NoSignal /\ o.result = left
    BY <1>3 DEF Outcome
  <2>2. /\ DOMAIN o.projection = engine[s] \ {key}
        /\ \A m \in engine[s] \ {key} : o.projection[m] = projection[s][m]
    BY <2>1 DEF Without, Sane
  <2>3. IsFiniteSet(o.engine)
    BY <2>1, FS_RemoveElement DEF Sane
  <2>4. Sane(o.engine, o.projection)
    BY <2>1, <2>2, <2>3 DEF Sane
  <2>5. OkIsTrue(cmd, o.engine, o.projection, o.told)
    BY <2>1, <2>2 DEF OkIsTrue, key
  <2> QED BY <1>2, <2>1, <2>4, <2>5 DEF Sound, NoSignal
<1>4. CASE o = Unchanged(s, left) /\ key \notin DOMAIN projection[s]
  <2>1. /\ o.engine = engine[s] /\ o.projection = projection[s]
        /\ o.told = NoSignal /\ o.result = left
    BY <1>4 DEF Unchanged, Outcome
  <2>2. OkIsTrue(cmd, o.engine, o.projection, o.told)
    BY <1>4, <2>1 DEF OkIsTrue, Sane, key
  <2> QED BY <1>2, <2>1, <2>2 DEF Sound, NoSignal
<1>5. CASE \E code, reason : o = Unchanged(s, command_error(id, code, reason))
  BY <1>5, Refused
<1> QED
  BY <1>1, <1>3, <1>4, <1>5 DEF LeaveOutcomes, left

\* A signal that succeeds was passed on for a member that is there, an answer
\* under the number the browser quoted.
LEMMA SignalSound ==
    ASSUME NEW cmd \in Commands, cmd.type = "signal", NEW w, Carries(w, cmd), NEW id \in Nat,
           NEW s, Sane(engine[s], projection[s]), NEW o \in SignalOutcomes(s, id, w)
    PROVE  Sound(o, s, id, cmd)
<1> DEFINE key == cmd.member
           ask == apply_signal(id, cmd.content)
           done == Unchanged(s, Ok(id, Acknowledged))
<1>1. MemberKey(w) = key /\ w.content = cmd.content /\ key \in Members
  BY KeyAndTag DEF MemberTypes, Carries
<1>2. /\ Answers(Ok(id, Acknowledged), id, cmd) /\ Ok(id, Acknowledged).request_id = id
  BY Confirmed DEF Ok
<1>3. CASE key \in DOMAIN projection[s] /\ ask = NothingToDo /\ o = done
  <2>1. /\ o.engine = engine[s] /\ o.projection = projection[s]
        /\ o.told = NoSignal /\ o.result = Ok(id, Acknowledged)
    BY <1>3 DEF Unchanged, Outcome
  <2>2. cmd.content.kind = "bye"
    BY <1>3 DEF apply_signal, NothingToDo, Description, Candidate, Rejected
  <2> QED BY <1>2, <2>1, <2>2 DEF Sound, NoSignal, OkIsTrue
<1>4. CASE key \in DOMAIN projection[s] /\ ask # Rejected
           /\ o = [done EXCEPT !.told = [member |-> key, ask |-> ask]]
  <2>1. /\ o.engine = engine[s] /\ o.projection = projection[s]
        /\ o.told = [member |-> key, ask |-> ask] /\ o.result = Ok(id, Acknowledged)
    BY <1>4 DEF Unchanged, Outcome
  <2>2. cmd.content.kind = "answer" /\ cmd.content.requestid # NoId =>
            ask = Description(cmd.content.requestid)
    BY DEF apply_signal
  <2> HIDE DEF ask
  <2>3. OkIsTrue(cmd, o.engine, o.projection, o.told)
    BY <1>4, <2>1, <2>2 DEF OkIsTrue, Sane
  <2> QED BY <1>1, <1>2, <2>1, <2>3 DEF Sound
<1>5. CASE \E code, reason : o = Unchanged(s, command_error(id, code, reason))
  BY <1>5, Refused
<1> HIDE DEF key, ask, done
<1> QED
  BY <1>1, <1>3, <1>4, <1>5 DEF SignalOutcomes, ask, done

\* The members a room synchronization lists, and those it is to remove.
Listing(cmd) == {<<cmd.room, c>> : c \in DOMAIN cmd.roster}
Stale(s, cmd) == {m \in DOMAIN projection[s] : m[1] = cmd.room} \ Listing(cmd)

\* A room synchronization ends while it removes, or after it has added some.
CutShort(o, s, id, cmd) ==
    \E gone \in SUBSET Stale(s, cmd) : \E code, reason :
        o = Outcome(engine[s] \ gone, Without(projection[s], gone),
                    command_error(id, code, reason))

Advanced(o, s, id, cmd, w) ==
    \E done \in SUBSET Listing(cmd) :
        /\ o.engine = (engine[s] \ Stale(s, cmd)) \cup done
        /\ o.projection = [m \in (DOMAIN projection[s] \ Stale(s, cmd)) \cup done |->
                              IF m \in done THEN <<cmd.roster[m[2]], cmd.epoch>>
                              ELSE projection[s][m]]
        /\ o.told = NoSignal
        /\ \/ done = Listing(cmd) /\ o.result = Ok(id, RoomSynced(w))
           \/ \E code, reason : o.result = command_error(id, code, reason)

LEMMA SyncShape ==
    ASSUME NEW cmd \in Commands, cmd.type = "sync", NEW w, Carries(w, cmd), NEW id \in Nat,
           NEW s, NEW o \in SyncOutcomes(s, id, w)
    PROVE  CutShort(o, s, id, cmd) \/ Advanced(o, s, id, cmd, w)
<1> DEFINE room == room_id_from_bytes(w.room_id)
           listed == {<<room, m.client_id>> : m \in w.members}
           stale == {m \in DOMAIN projection[s] : m[1] = room} \ listed
           Listed(m) == CHOOSE x \in w.members : x.client_id = m[2]
           Synced(done) == [m \in (DOMAIN projection[s] \ stale) \cup done |->
                               IF m \in done
                               THEN <<Listed(m).lifecycle_id, w.assignment_epoch>>
                               ELSE projection[s][m]]
           SyncedTo(done) == [m \in (DOMAIN projection[s] \ Stale(s, cmd)) \cup done |->
                               IF m \in done
                               THEN <<cmd.roster[m[2]], cmd.epoch>>
                               ELSE projection[s][m]]
<1>1. /\ w.members = {[client_id |-> c, lifecycle_id |-> cmd.roster[c]] : c \in DOMAIN cmd.roster}
      /\ w.assignment_epoch = cmd.epoch /\ room = cmd.room
  BY DEF Carries, MemberProjections, MemberTypes, room_id_from_bytes, room_id_to_bytes
<1>0. o \in {Outcome(engine[s] \ gone, Without(projection[s], gone),
                     command_error(id, "INTERNAL", "SFU room sync leave failed")) :
                gone \in SUBSET stale \ {stale}}
            \cup
            {Outcome((engine[s] \ stale) \cup done, Synced(done),
                     command_error(id, "INTERNAL", "SFU room sync join failed")) :
                done \in {d \in SUBSET listed : ~(listed \ d \subseteq DOMAIN projection[s])}}
            \cup
            {Outcome((engine[s] \ stale) \cup listed, Synced(listed), Ok(id, RoomSynced(w)))}
  BY Zenon DEF SyncOutcomes
<1> HIDE DEF room
<1>2. listed = Listing(cmd)
  <2>1. ASSUME NEW m \in w.members
        PROVE  <<room, m.client_id>> \in Listing(cmd)
    BY <1>1 DEF Listing
  <2>2. ASSUME NEW c \in DOMAIN cmd.roster
        PROVE  <<cmd.room, c>> \in listed
    <3> DEFINE x == [client_id |-> c, lifecycle_id |-> cmd.roster[c]]
    <3>1. x \in w.members /\ x.client_id = c
      BY <1>1
    <3> HIDE DEF x
    <3> QED BY <1>1, <3>1
  <2>3. listed \subseteq Listing(cmd)
    BY <2>1
  <2>4. Listing(cmd) \subseteq listed
    BY <2>2 DEF Listing
  <2> QED BY <2>3, <2>4
<1>3. ASSUME NEW m \in Listing(cmd)
      PROVE  Listed(m).lifecycle_id = cmd.roster[m[2]]
  <2>1. PICK c \in DOMAIN cmd.roster : m = <<cmd.room, c>>
    BY DEF Listing
  <2>2. [client_id |-> c, lifecycle_id |-> cmd.roster[c]] \in w.members
    BY <1>1
  <2>3. \E x \in w.members : x.client_id = m[2]
    BY <2>1, <2>2
  <2>4. Listed(m) \in w.members /\ Listed(m).client_id = m[2]
    BY <2>3
  <2> HIDE DEF Listed
  <2>5. PICK d \in DOMAIN cmd.roster :
           Listed(m) = [client_id |-> d, lifecycle_id |-> cmd.roster[d]]
    BY <1>1, <2>4
  <2> QED BY <2>1, <2>4, <2>5
<1>5. stale = Stale(s, cmd)
  BY <1>1, <1>2 DEF Stale
<1> HIDE DEF listed, stale
<1>4. ASSUME NEW done \in SUBSET Listing(cmd)
      PROVE  Synced(done) = SyncedTo(done)
  <2> HIDE DEF Listed
  <2> QED BY <1>1, <1>3, <1>5
<1> HIDE DEF Synced, SyncedTo
<1>6. \/ \E gone \in SUBSET Stale(s, cmd) :
            o = Outcome(engine[s] \ gone, Without(projection[s], gone),
                        command_error(id, "INTERNAL", "SFU room sync leave failed"))
      \/ \E done \in SUBSET Listing(cmd) :
            o = Outcome((engine[s] \ Stale(s, cmd)) \cup done, Synced(done),
                        command_error(id, "INTERNAL", "SFU room sync join failed"))
      \/ o = Outcome((engine[s] \ Stale(s, cmd)) \cup Listing(cmd), Synced(Listing(cmd)),
                     Ok(id, RoomSynced(w)))
  BY <1>0, <1>2, <1>5
<1>7. CASE \E gone \in SUBSET Stale(s, cmd) :
            o = Outcome(engine[s] \ gone, Without(projection[s], gone),
                        command_error(id, "INTERNAL", "SFU room sync leave failed"))
  BY <1>7 DEF CutShort
<1>8. ASSUME NEW done \in SUBSET Listing(cmd), NEW result,
             o = Outcome((engine[s] \ Stale(s, cmd)) \cup done, Synced(done), result)
      PROVE  /\ o.engine = (engine[s] \ Stale(s, cmd)) \cup done
             /\ o.projection = SyncedTo(done) /\ o.told = NoSignal /\ o.result = result
  BY <1>4, <1>8 DEF Outcome
<1>9. CASE \E done \in SUBSET Listing(cmd) :
            o = Outcome((engine[s] \ Stale(s, cmd)) \cup done, Synced(done),
                        command_error(id, "INTERNAL", "SFU room sync join failed"))
  <2>1. PICK done \in SUBSET Listing(cmd) :
            o = Outcome((engine[s] \ Stale(s, cmd)) \cup done, Synced(done),
                        command_error(id, "INTERNAL", "SFU room sync join failed"))
    BY <1>9
  <2>2. /\ o.engine = (engine[s] \ Stale(s, cmd)) \cup done
        /\ o.projection = SyncedTo(done) /\ o.told = NoSignal
        /\ o.result = command_error(id, "INTERNAL", "SFU room sync join failed")
    BY <1>8, <2>1
  <2> QED BY <2>2 DEF SyncedTo, Advanced
<1>10. CASE o = Outcome((engine[s] \ Stale(s, cmd)) \cup Listing(cmd), Synced(Listing(cmd)),
                        Ok(id, RoomSynced(w)))
  BY <1>8, <1>10 DEF SyncedTo, Advanced
<1> QED BY <1>6, <1>7, <1>9, <1>10

\* However a room synchronization ends, engine and projection have lost and
\* gained the same members; if it succeeds the room has those it lists.
LEMMA SyncSound ==
    ASSUME NEW cmd \in Commands, cmd.type = "sync", NEW w, Carries(w, cmd), NEW id \in Nat,
           NEW s, Sane(engine[s], projection[s]), NEW o \in SyncOutcomes(s, id, w)
    PROVE  Sound(o, s, id, cmd)
<1>1. /\ DOMAIN cmd.roster \subseteq Clients /\ IsFiniteSet(DOMAIN cmd.roster)
      /\ \A c \in DOMAIN cmd.roster : cmd.roster[c] \in Lifecycles
      /\ cmd.room \in Rooms /\ cmd.epoch \in Epochs /\ RoomOf(cmd) = cmd.room
  BY CommandType DEF MemberTypes, RoomOf
<1>2. /\ Listing(cmd) \subseteq Members
      /\ \A m \in Listing(cmd) : m[1] = cmd.room /\ m[2] \in DOMAIN cmd.roster
  BY <1>1 DEF Listing, Members
<1>3. IsFiniteSet(Listing(cmd))
  <2> DEFINE f == [c \in DOMAIN cmd.roster |-> <<cmd.room, c>>]
  <2>1. f \in Surjection(DOMAIN cmd.roster, Listing(cmd))
    BY DEF Surjection, Listing
  <2> QED BY <1>1, <2>1, FS_Surjection
<1>4. ASSUME NEW gone \in SUBSET Stale(s, cmd), NEW code, NEW reason,
             o = Outcome(engine[s] \ gone, Without(projection[s], gone),
                         command_error(id, code, reason))
      PROVE  Sound(o, s, id, cmd)
  <2>1. /\ o.engine = engine[s] \ gone /\ o.projection = Without(projection[s], gone)
        /\ o.told = NoSignal /\ o.result = command_error(id, code, reason)
    BY <1>4 DEF Outcome
  <2>2. /\ DOMAIN o.projection = engine[s] \ gone
        /\ \A m \in engine[s] \ gone : o.projection[m] = projection[s][m]
    BY <2>1 DEF Without, Sane
  <2>3. IsFiniteSet(o.engine)
    BY <2>1, FS_Subset DEF Sane
  <2>4. Sane(o.engine, o.projection)
    BY <2>1, <2>2, <2>3 DEF Sane
  <2>5. /\ o.result.request_id = id /\ ~o.result.ok
        /\ Answers(o.result, id, cmd)
    BY <2>1 DEF command_error, Answers, decode_sfu_input
  <2> QED BY <2>1, <2>4, <2>5 DEF Sound, NoSignal
<1>5. ASSUME NEW done \in SUBSET Listing(cmd),
             /\ o.engine = (engine[s] \ Stale(s, cmd)) \cup done
             /\ o.projection =
                   [m \in (DOMAIN projection[s] \ Stale(s, cmd)) \cup done |->
                       IF m \in done THEN <<cmd.roster[m[2]], cmd.epoch>>
                       ELSE projection[s][m]]
             /\ o.told = NoSignal
             /\ \/ done = Listing(cmd) /\ o.result = Ok(id, RoomSynced(w))
                \/ \E code, reason : o.result = command_error(id, code, reason)
      PROVE  Sound(o, s, id, cmd)
  <2>1. /\ DOMAIN o.projection = o.engine
        /\ \A m \in done : o.projection[m] = <<cmd.roster[m[2]], cmd.epoch>>
        /\ \A m \in o.engine \ done : o.projection[m] = projection[s][m] /\ m \in engine[s]
    BY <1>5 DEF Sane
  <2>2. IsFiniteSet(o.engine)
    <3>1. IsFiniteSet(engine[s] \ Stale(s, cmd))
      BY FS_Subset DEF Sane
    <3>2. IsFiniteSet(done)
      BY <1>3, FS_Subset
    <3>3. IsFiniteSet((engine[s] \ Stale(s, cmd)) \cup done)
      BY <3>1, <3>2, FS_Union
    <3> QED BY <1>5, <3>3
  <2>3. Sane(o.engine, o.projection)
    BY <1>1, <1>2, <1>5, <2>1, <2>2 DEF Sane
  <2>4. \A m \in o.engine \ engine[s] : m[1] = RoomOf(cmd)
    BY <1>1, <1>2, <1>5
  <2>5. CASE \E code, reason : o.result = command_error(id, code, reason)
    <3>1. /\ o.result.request_id = id /\ ~o.result.ok
          /\ Answers(o.result, id, cmd)
      BY <2>5 DEF command_error, Answers, decode_sfu_input
    <3> QED BY <1>5, <2>3, <2>4, <3>1 DEF Sound, NoSignal
  <2>6. CASE done = Listing(cmd) /\ o.result = Ok(id, RoomSynced(w))
    <3>0. Answers(Ok(id, RoomSynced(w)), id, cmd)
      BY Confirmed
    <3>1. Answers(o.result, id, cmd) /\ o.result.request_id = id
      BY <2>6, <3>0 DEF Ok
    <3>2. {m \in o.engine : m[1] = cmd.room} = Listing(cmd)
      BY <1>2, <1>5, <2>6 DEF Stale, Sane
    <3>3. {m[2] : m \in Listing(cmd)} = DOMAIN cmd.roster
      <4>1. ASSUME NEW c \in DOMAIN cmd.roster
            PROVE  <<cmd.room, c>> \in Listing(cmd) /\ <<cmd.room, c>>[2] = c
        BY DEF Listing
      <4> QED BY <1>2, <4>1
    <3>4. ASSUME NEW c \in DOMAIN cmd.roster
          PROVE  o.projection[<<cmd.room, c>>] = <<cmd.roster[c], cmd.epoch>>
      BY <2>1, <2>6 DEF Listing
    <3>5. OkIsTrue(cmd, o.engine, o.projection, o.told)
      BY <3>2, <3>3, <3>4 DEF OkIsTrue
    <3> QED BY <1>5, <2>3, <2>4, <3>1, <3>5 DEF Sound, NoSignal
  <2> QED BY <1>5, <2>5, <2>6
<1>6. CASE CutShort(o, s, id, cmd)
  BY <1>4, <1>6 DEF CutShort
<1>7. CASE Advanced(o, s, id, cmd, w)
  BY <1>5, <1>7 DEF Advanced
<1> QED BY <1>6, <1>7, SyncShape

\* Whatever a shard does with a command, the outcome is sound.
LEMMA OutcomesSound ==
    ASSUME NEW cmd \in Commands, cmd.type # "drain", NEW w, Carries(w, cmd), NEW id \in Nat,
           NEW s, Sane(engine[s], projection[s]), NEW o \in Outcomes(s, id, w)
    PROVE  Sound(o, s, id, cmd)
<1>1. CASE id = 0
  BY <1>1, Refused DEF Outcomes
<1>2. CASE id # 0
  <2>1. w.type = cmd.type /\ cmd.type \in {"join", "leave", "signal", "sync"}
    BY CommandType DEF Carries, MemberTypes
  <2>2. CASE cmd.type = "join"
    BY <1>2, <2>1, <2>2, JoinSound DEF Outcomes
  <2>3. CASE cmd.type = "leave"
    BY <1>2, <2>1, <2>3, LeaveSound DEF Outcomes
  <2>4. CASE cmd.type = "signal"
    BY <1>2, <2>1, <2>4, SignalSound DEF Outcomes
  <2>5. CASE cmd.type = "sync"
    BY <1>2, <2>1, <2>5, SyncSound DEF Outcomes
  <2> QED BY <2>1, <2>2, <2>3, <2>4, <2>5
<1> QED BY <1>1, <1>2

-----------------------------------------------------------------------------
(* The inductive invariant.                                                 *)

\* A member is in the engine of the shard its room belongs to and in no other.
ShardsOK ==
    /\ engine \in [Shards -> SUBSET Members] /\ DOMAIN projection = Shards
    /\ \A s \in Shards : Sane(engine[s], projection[s])
    /\ \A s \in Shards : \A m \in engine[s] : ShardOf[m[1]] = s

\* Signaling has numbered its commands without a gap.
NumbersOK ==
    /\ \E n \in 0..MaxCommands : DOMAIN issued = FirstId..(FirstId + n - 1)
    /\ \A id \in DOMAIN issued : issued[id] \in Commands

CachesOK ==
    /\ DOMAIN cache = Shards
    /\ \A s \in Shards :
          /\ DOMAIN cache[s] \subseteq Ids
          /\ \A id \in DOMAIN cache[s] : cache[s][id].request_id = id
    /\ cacheOrder \in [Shards -> Seq(Ids)]
    /\ CacheCoherent

\* What each shard last counted is what its engine has, and the worker's
\* counters are the sum.
All == UNION {engine[s] : s \in Shards}

SharesOK ==
    /\ previous = [s \in Shards |-> previous[s]]
    /\ \A s \in Shards : previous[s] = Contribution(engine[s])
    /\ IsFiniteSet(All)
    /\ MetricsExact

RestOK ==
    /\ running \in [Shards -> BOOLEAN]
    /\ applied \in [Ids -> Nat]
    /\ told.member \in Members \cup {<<>>}
    /\ answer.type \in {"none", "Ok", "Err", "Status"}

Inv == ShardsOK /\ NumbersOK /\ CachesOK /\ SharesOK /\ RestOK

\* A shard applies the command with outcome o.
Executes(s, id, cmd, o) ==
    /\ cmd.type # "drain" /\ s = ShardOf[RoomOf(cmd)] /\ running[s]
    /\ id \notin DOMAIN cache[s]
    /\ Sound(o, s, id, cmd)
    /\ engine' = [engine EXCEPT ![s] = o.engine]
    /\ projection' = [projection EXCEPT ![s] = o.projection]
    /\ told' = o.told
    /\ answer' = decode_sfu_input(o.result)
    /\ CacheCommand(s, o.result)
    /\ UpdateMetrics(s, Contribution(DOMAIN o.projection))
    /\ applied' = [applied EXCEPT ![id] = @ + 1]
    /\ UNCHANGED running

\* It answers from its cache.
Repeats(s, id, cmd) ==
    /\ cmd.type # "drain" /\ s = ShardOf[RoomOf(cmd)] /\ running[s]
    /\ id \in DOMAIN cache[s]
    /\ AnswerOnly(cache[s][id])

\* The dispatcher refuses it.
Refuses(id, cmd) ==
    /\ cmd.type # "drain" => ~running[ShardOf[RoomOf(cmd)]]
    /\ \E code, reason : AnswerOnly(command_error(id, code, reason))

\* These are all the ways a delivered command can go.
LEMMA DeliverKinds ==
    ASSUME NEW cmd \in Commands, NEW id \in Nat, ShardsOK, Deliver(id, cmd)
    PROVE  \/ \E s \in Shards : \E o : Executes(s, id, cmd, o)
           \/ \E s \in Shards : Repeats(s, id, cmd)
           \/ Refuses(id, cmd)
<1>1. PICK w : w = encode_sfu_output(id, cmd)
  OBVIOUS
<1>2. /\ w.request_id = id /\ Carries(w.command, cmd)
      /\ cmd.type = "drain" => command_room_id(w.command) = NoRoom
      /\ cmd.type # "drain" =>
            /\ command_room_id(w.command) = RoomOf(cmd)
            /\ RoomOf(cmd) \in Rooms /\ RoomOf(cmd) # NoRoom
  BY <1>1, Encoded
<1>3. Dispatch(id, w.command)
  BY <1>1, <1>2 DEF Deliver
<1>4. CASE cmd.type = "drain"
  <2>1. AnswerOnly(command_error(id, "INVALID_REQUEST", "unsupported command"))
    BY <1>2, <1>3, <1>4 DEF Dispatch
  <2> QED BY <1>4, <2>1 DEF Refuses
<1>5. CASE cmd.type # "drain"
  <2>1. PICK s : s = ShardOf[RoomOf(cmd)]
    OBVIOUS
  <2>2. s \in Shards
    BY <1>2, <1>5, <2>1, ShardAssumption
  <2>3. CASE ~running[s]
    <3>1. AnswerOnly(command_error(id, "WORKER_UNAVAILABLE", "media shard stopped"))
      BY <1>2, <1>3, <1>5, <2>1, <2>3 DEF Dispatch
    <3> QED BY <2>1, <2>3, <3>1 DEF Refuses
  <2>4. CASE running[s] /\ Apply(s, id, w.command)
    <3>1. PICK o \in Outcomes(s, id, w.command) :
            /\ engine' = [engine EXCEPT ![s] = o.engine]
            /\ projection' = [projection EXCEPT ![s] = o.projection]
            /\ told' = o.told
            /\ answer' = decode_sfu_input(o.result)
            /\ CacheCommand(s, o.result)
            /\ UpdateMetrics(s, Contribution(DOMAIN o.projection))
      BY <2>4 DEF Apply
    <3>2. Sane(engine[s], projection[s])
      BY <2>2 DEF ShardsOK
    <3>3. Sound(o, s, id, cmd)
      BY <1>2, <1>5, <3>2, OutcomesSound
    <3>4. /\ id \notin DOMAIN cache[s] /\ applied' = [applied EXCEPT ![id] = @ + 1]
          /\ UNCHANGED running
      BY <2>4 DEF Apply
    <3>5. Executes(s, id, cmd, o)
      BY <1>5, <2>1, <2>4, <3>1, <3>3, <3>4 DEF Executes
    <3> QED BY <2>2, <3>5
  <2>5. CASE running[s] /\ Replay(s, id)
    <3>1. Repeats(s, id, cmd)
      BY <1>5, <2>1, <2>5 DEF Repeats, Replay
    <3> QED BY <2>2, <3>1
  <2> QED
    <3>1. ~running[s] \/ Apply(s, id, w.command) \/ Replay(s, id)
      BY <1>2, <1>3, <1>5, <2>1 DEF Dispatch
    <3> QED BY <2>3, <2>4, <2>5, <3>1
<1> QED BY <1>4, <1>5

\* The number signaling gives next.
LEMMA NextNumber ==
    ASSUME NumbersOK, FirstId + Cardinality(DOMAIN issued) \in Ids
    PROVE  /\ FirstId + Cardinality(DOMAIN issued) \in Nat
           /\ \A id \in DOMAIN issued :
                 id \in Ids /\ id < FirstId + Cardinality(DOMAIN issued)
           /\ \A cmd \in Commands :
                 issued' = Put(issued, FirstId + Cardinality(DOMAIN issued), cmd) =>
                     /\ NumbersOK'
                     /\ DOMAIN issued' =
                           DOMAIN issued \cup {FirstId + Cardinality(DOMAIN issued)}
                     /\ issued'[FirstId + Cardinality(DOMAIN issued)] = cmd
                     /\ \A id \in DOMAIN issued : issued'[id] = issued[id]
<1>1. PICK n \in 0..MaxCommands : DOMAIN issued = FirstId..(FirstId + n - 1)
  BY DEF NumbersOK
<1>0. FirstId \in Nat /\ MaxCommands \in Nat /\ n \in Nat
  BY CommandAssumption
<1>2. Cardinality(DOMAIN issued) = n
  <2>1. Cardinality(FirstId..(FirstId + n - 1)) =
           IF FirstId > FirstId + n - 1 THEN 0 ELSE (FirstId + n - 1) - FirstId + 1
    BY <1>0, FS_Interval
  <2>2. (IF FirstId > FirstId + n - 1 THEN 0 ELSE (FirstId + n - 1) - FirstId + 1) = n
    BY <1>0
  <2> QED BY <1>1, <2>1, <2>2
<1>3. n < MaxCommands
  BY <1>0, <1>2 DEF Ids
<1>4. ASSUME NEW id \in DOMAIN issued
      PROVE  id \in Ids /\ id < FirstId + n
  BY <1>0, <1>1 DEF Ids
<1>5. ASSUME NEW cmd \in Commands, issued' = Put(issued, FirstId + n, cmd)
      PROVE  /\ NumbersOK'
             /\ DOMAIN issued' = DOMAIN issued \cup {FirstId + n}
             /\ issued'[FirstId + n] = cmd
             /\ \A id \in DOMAIN issued : issued'[id] = issued[id]
  <2>1. /\ DOMAIN issued' = DOMAIN issued \cup {FirstId + n}
        /\ issued'[FirstId + n] = cmd
        /\ \A id \in DOMAIN issued : id # FirstId + n => issued'[id] = issued[id]
    BY <1>5 DEF Put
  <2>2. \A id \in DOMAIN issued : id # FirstId + n
    BY <1>0, <1>4 DEF Ids
  <2>3. DOMAIN issued' = FirstId..(FirstId + (n + 1) - 1) /\ n + 1 \in 0..MaxCommands
    BY <1>0, <1>1, <1>3, <2>1
  <2>4. \A id \in DOMAIN issued' : issued'[id] \in Commands
    BY <2>1, <2>2 DEF NumbersOK
  <2> QED BY <2>1, <2>2, <2>3, <2>4 DEF NumbersOK
<1> QED BY <1>0, <1>2, <1>4, <1>5

-----------------------------------------------------------------------------
(* The command cache.                                                       *)

\* What cache_command does with a result under a new number: the number is
\* queued last, and the oldest goes if the queue was full.
LEMMA CacheStep ==
    ASSUME CachesOK, NEW s \in Shards, NEW id \in Ids, id \notin DOMAIN cache[s],
           NEW result, result.request_id = id, CacheCommand(s, result)
    PROVE  /\ CachesOK'
           /\ cacheOrder' = [cacheOrder EXCEPT ![s] =
                                IF Len(cacheOrder[s]) = CacheCapacity
                                THEN Append(Tail(cacheOrder[s]), id)
                                ELSE Append(cacheOrder[s], id)]
           /\ \A t \in Shards \ {s} : cache'[t] = cache[t]
           /\ id \in DOMAIN cache'[s] /\ cache'[s][id] = result
           /\ \A k \in DOMAIN cache'[s] \ {id} :
                 k \in DOMAIN cache[s] /\ cache'[s][k] = cache[s][k]
<1> DEFINE q == cacheOrder[s]
           order == Append(q, id)
           full == Len(q) = CacheCapacity
           surplus == IF Len(order) > CacheCapacity THEN Len(order) - CacheCapacity ELSE 0
           gone == {order[i] : i \in 1..surplus}
<1>1. /\ q \in Seq(Ids) /\ Len(q) \in Nat /\ Len(q) <= CacheCapacity
      /\ DOMAIN q = 1..Len(q) /\ CacheCapacity \in Nat /\ CacheCapacity > 0
      /\ DOMAIN cache[s] = {q[i] : i \in 1..Len(q)}
      /\ \A i, j \in 1..Len(q) : q[i] = q[j] => i = j
  BY CacheAssumption DEF CachesOK, CacheCoherent, ToSet, IsInjective
<1>2. /\ order \in Seq(Ids) /\ Len(order) = Len(q) + 1
      /\ \A i \in 1..Len(q) : order[i] = q[i]
      /\ order[Len(q) + 1] = id
  BY <1>1
<1>3. /\ cacheOrder' = [cacheOrder EXCEPT ![s] = SubSeq(order, surplus + 1, Len(order))]
      /\ cache' = [cache EXCEPT ![s] = Without(Put(cache[s], id, result), gone)]
  BY DEF CacheCommand
<1> HIDE DEF order
<1>4. surplus = IF full THEN 1 ELSE 0
  BY <1>1, <1>2
<1>5. gone = IF full THEN {q[1]} ELSE {}
  BY <1>1, <1>2, <1>4
<1>6. SubSeq(order, surplus + 1, Len(order)) = IF full THEN Append(Tail(q), id) ELSE order
  <2>1. CASE ~full
    BY <2>1, <1>2, <1>4
  <2>2. CASE full
    <3>1. SubSeq(order, 2, Len(q) + 1) = Append(Tail(q), id)
      <4>1. /\ SubSeq(order, 2, Len(q) + 1) \in Seq(Ids)
            /\ Len(SubSeq(order, 2, Len(q) + 1)) = Len(q)
            /\ \A i \in 1..Len(q) : SubSeq(order, 2, Len(q) + 1)[i] = order[i + 1]
        BY <1>1, <1>2
      <4>2. /\ Tail(q) \in Seq(Ids) /\ Len(Tail(q)) = Len(q) - 1
            /\ \A i \in 1..(Len(q) - 1) : Tail(q)[i] = q[i + 1]
        BY <1>1, <2>2
      <4>3. /\ Append(Tail(q), id) \in Seq(Ids) /\ Len(Append(Tail(q), id)) = Len(q)
            /\ \A i \in 1..(Len(q) - 1) : Append(Tail(q), id)[i] = q[i + 1]
            /\ Append(Tail(q), id)[Len(q)] = id
        BY <1>1, <4>2
      <4>4. \A i \in 1..Len(q) : SubSeq(order, 2, Len(q) + 1)[i] = Append(Tail(q), id)[i]
        BY <1>1, <1>2, <4>1, <4>3
      <4> QED BY <4>1, <4>3, <4>4, SeqEqual
    <3>2. surplus = 1
      BY <2>2, <1>4
    <3> HIDE DEF surplus, full
    <3>3. SubSeq(order, surplus + 1, Len(order)) = SubSeq(order, 2, Len(q) + 1)
      BY <1>2, <3>2
    <3> QED BY <2>2, <3>1, <3>3
  <2> QED BY <2>1, <2>2
<1> HIDE DEF surplus, gone, full
<1> DEFINE new == IF full THEN Append(Tail(q), id) ELSE order
<1>7. /\ new \in Seq(Ids) /\ Len(new) <= CacheCapacity
      /\ ToSet(new) = (DOMAIN cache[s] \cup {id}) \ gone
      /\ IsInjective(new)
  <2>0. id \notin {q[i] : i \in 1..Len(q)}
    BY <1>1
  <2>1. CASE full
    <3>1. /\ Tail(q) \in Seq(Ids) /\ Len(Tail(q)) = Len(q) - 1
          /\ \A i \in 1..(Len(q) - 1) : Tail(q)[i] = q[i + 1]
      BY <1>1, <2>1 DEF full
    <3>2. /\ new = Append(Tail(q), id)
          /\ new \in Seq(Ids) /\ Len(new) = Len(q) /\ DOMAIN new = 1..Len(q)
          /\ \A i \in 1..(Len(q) - 1) : new[i] = q[i + 1]
          /\ new[Len(q)] = id
      BY <1>1, <2>1, <3>1 DEF full
    <3> HIDE DEF new
    <3>3. IsInjective(new)
      BY <1>1, <2>0, <3>2 DEF IsInjective
    <3>4. ASSUME NEW k \in DOMAIN cache[s], k # q[1]
          PROVE  \E i \in 1..Len(q) : new[i] = k
      <4>1. PICK j \in 1..Len(q) : q[j] = k
        BY <1>1
      <4>2. PICK i \in 1..(Len(q) - 1) : i + 1 = j
        BY <1>1, <3>4, <4>1
      <4>3. i \in 1..Len(q) /\ new[i] = q[i + 1]
        BY <1>1, <3>2, <4>2
      <4> QED BY <4>1, <4>2, <4>3
    <3>5. ASSUME NEW i \in 1..Len(q)
          PROVE  new[i] \in (DOMAIN cache[s] \cup {id}) \ {q[1]}
      <4>1. CASE i = Len(q)
        BY <1>1, <2>0, <2>1, <3>2, <4>1 DEF full
      <4>2. CASE i # Len(q)
        BY <1>1, <3>2, <4>2
      <4> QED BY <4>1, <4>2
    <3>6. Len(q) \in 1..Len(q)
      BY <1>1, <2>1 DEF full
    <3>7. {new[i] : i \in 1..Len(q)} = (DOMAIN cache[s] \cup {id}) \ {q[1]}
      <4>1. new[Len(q)] = id
        BY <3>2
      <4> QED BY <3>4, <3>5, <3>6, <4>1
    <3>8. Len(new) <= CacheCapacity
      BY <1>1, <3>2
    <3> QED BY <1>5, <2>1, <3>2, <3>3, <3>7, <3>8 DEF ToSet
  <2>2. CASE ~full
    <3>1. new = order /\ gone = {}
      BY <1>5, <2>2
    <3>2. IsInjective(order)
      BY <1>1, <1>2, <2>0 DEF IsInjective
    <3>3. {order[i] : i \in 1..(Len(q) + 1)} = DOMAIN cache[s] \cup {id}
      BY <1>1, <1>2
    <3>4. Len(order) <= CacheCapacity
      BY <1>1, <1>2, <2>2 DEF full
    <3>5. DOMAIN order = 1..(Len(q) + 1)
      BY <1>1, <1>2
    <3>6. ToSet(order) = DOMAIN cache[s] \cup {id}
      BY <3>3, <3>5 DEF ToSet
    <3> HIDE DEF new
    <3> QED BY <1>2, <3>1, <3>2, <3>4, <3>6
  <2> QED BY <2>1, <2>2
<1>8. /\ DOMAIN cache' = Shards /\ \A t \in Shards \ {s} : cache'[t] = cache[t]
      /\ cache'[s] = Without(Put(cache[s], id, result), gone)
      /\ DOMAIN cacheOrder = Shards
  BY <1>3 DEF CachesOK
<1>9. /\ DOMAIN cache'[s] = (DOMAIN cache[s] \cup {id}) \ gone
      /\ \A k \in DOMAIN cache'[s] :
            cache'[s][k] = IF k = id THEN result ELSE cache[s][k]
  BY <1>8 DEF Without, Put
<1>10. id \notin gone
  BY <1>1, <1>5 DEF full
<1>11. cacheOrder' = [cacheOrder EXCEPT ![s] = new]
  BY <1>3, <1>6
<1> HIDE DEF new
<1>12. CachesOK'
  <2>1. cacheOrder' \in [Shards -> Seq(Ids)] /\ cacheOrder'[s] = new
        /\ \A t \in Shards \ {s} : cacheOrder'[t] = cacheOrder[t]
    BY <1>7, <1>11 DEF CachesOK
  <2>2. ASSUME NEW t \in Shards
        PROVE  /\ DOMAIN cache'[t] = ToSet(cacheOrder'[t])
               /\ IsInjective(cacheOrder'[t])
               /\ Len(cacheOrder'[t]) <= CacheCapacity
    <3>1. CASE t = s
      BY <1>7, <1>9, <2>1, <3>1
    <3>2. CASE t # s
      BY <1>8, <2>1, <3>2 DEF CachesOK, CacheCoherent
    <3> QED BY <3>1, <3>2
  <2>3. CacheCoherent'
    BY <2>2 DEF CacheCoherent, ToSet, IsInjective
  <2>4. ASSUME NEW t \in Shards
        PROVE  /\ DOMAIN cache'[t] \subseteq Ids
               /\ \A k \in DOMAIN cache'[t] : cache'[t][k].request_id = k
    <3>1. CASE t = s
      BY <1>9, <3>1 DEF CachesOK
    <3>2. CASE t # s
      BY <1>8, <3>2 DEF CachesOK
    <3> QED BY <3>1, <3>2
  <2> QED BY <1>8, <2>1, <2>3, <2>4 DEF CachesOK
<1> QED BY <1>8, <1>9, <1>10, <1>11, <1>12 DEF new, full, order

-----------------------------------------------------------------------------
(* The metrics.                                                             *)

RoomsIn(members) == {m[1] : m \in members}

\* A part of a finite set gives way to another.
LEMMA Exchange ==
    ASSUME NEW A, IsFiniteSet(A), NEW B \in SUBSET A, NEW C, IsFiniteSet(C), (A \ B) \cap C = {}
    PROVE  /\ IsFiniteSet((A \ B) \cup C)
           /\ Cardinality((A \ B) \cup C) = Cardinality(A) + Cardinality(C) - Cardinality(B)
           /\ Cardinality((A \ B) \cup C) \in Nat
<1>1. IsFiniteSet(B) /\ IsFiniteSet(A \ B)
  BY FS_Subset
<1>2. /\ Cardinality(A) \in Nat /\ Cardinality(B) \in Nat /\ Cardinality(C) \in Nat
      /\ Cardinality(A \ B) \in Nat
  BY <1>1, FS_CardinalityType
<1>3. /\ IsFiniteSet((A \ B) \cup C)
      /\ Cardinality((A \ B) \cup C) =
            Cardinality(A \ B) + Cardinality(C) - Cardinality((A \ B) \cap C)
  BY <1>1, FS_Union
<1>4. /\ Cardinality((A \ B) \cup B) =
            Cardinality(A \ B) + Cardinality(B) - Cardinality((A \ B) \cap B)
  BY <1>1, FS_Union
<1>5. /\ Cardinality((A \ B) \cup B) = Cardinality(A)
      /\ Cardinality((A \ B) \cap B) = 0 /\ Cardinality((A \ B) \cap C) = 0
  <2>1. (A \ B) \cup B = A /\ (A \ B) \cap B = {}
    OBVIOUS
  <2> QED BY <2>1, FS_EmptySet
<1>6. Cardinality(A \ B) = Cardinality(A) - Cardinality(B)
  BY <1>2, <1>4, <1>5
<1>7. Cardinality((A \ B) \cup C) = Cardinality(A \ B) + Cardinality(C)
  BY <1>2, <1>3, <1>5
<1> QED BY <1>2, <1>3, <1>6, <1>7

\* Finitely many members are in finitely many rooms.
LEMMA RoomsFinite ==
    ASSUME NEW members, IsFiniteSet(members)
    PROVE  IsFiniteSet(RoomsIn(members))
<1> DEFINE f == [m \in members |-> m[1]]
<1>1. f \in Surjection(members, RoomsIn(members))
  BY DEF Surjection, RoomsIn
<1> QED BY <1>1, FS_Surjection

\* When one shard's members change and its share with them, the counters stay
\* exact: no other shard has members in its rooms.
LEMMA ShareStep ==
    ASSUME ShardsOK, SharesOK, NEW s \in Shards, NEW new \in SUBSET Members, IsFiniteSet(new),
           \A m \in new : ShardOf[m[1]] = s,
           engine' = [engine EXCEPT ![s] = new],
           previous' = [previous EXCEPT ![s] = Contribution(new)],
           metrics' = [rooms |-> metrics.rooms + Contribution(new).rooms - previous[s].rooms,
                       clients |-> metrics.clients + Contribution(new).clients
                                      - previous[s].clients]
    PROVE  SharesOK'
<1> DEFINE old == engine[s]
<1>1. /\ \A t \in Shards : engine'[t] = IF t = s THEN new ELSE engine[t]
      /\ engine \in [Shards -> SUBSET Members]
  BY DEF ShardsOK
<1>2. /\ old \in SUBSET All /\ IsFiniteSet(All)
      /\ \A m \in All : \E t \in Shards : m \in engine[t] /\ ShardOf[m[1]] = t
      /\ \A m \in old : ShardOf[m[1]] = s
  BY DEF ShardsOK, SharesOK, All
<1>3. \A m \in All : ShardOf[m[1]] = s => m \in old
  BY <1>2
<1>4. All' = (All \ old) \cup new
  <2>1. ASSUME NEW m \in All'
        PROVE  m \in (All \ old) \cup new
    <3>1. PICK t \in Shards : m \in engine'[t]
      BY DEF All
    <3>2. CASE t = s
      BY <1>1, <3>1, <3>2
    <3>3. CASE t # s
      <4>1. m \in engine[t] /\ ShardOf[m[1]] = t
        BY <1>1, <3>1, <3>3 DEF ShardsOK
      <4>2. m \in All
        BY <4>1 DEF All
      <4> QED BY <1>2, <3>3, <4>1, <4>2
    <3> QED BY <3>2, <3>3
  <2>2. ASSUME NEW m \in (All \ old) \cup new
        PROVE  m \in All'
    <3>1. CASE m \in new
      BY <1>1, <3>1 DEF All
    <3>2. CASE m \in All \ old
      BY <1>1, <1>2, <3>2 DEF All
    <3> QED BY <3>1, <3>2
  <2> QED BY <2>1, <2>2
<1>5. (All \ old) \cap new = {}
  BY <1>3
<1>6. /\ IsFiniteSet(All')
      /\ Cardinality(All') = Cardinality(All) + Cardinality(new) - Cardinality(old)
  <2>1. /\ IsFiniteSet((All \ old) \cup new)
        /\ Cardinality((All \ old) \cup new) = Cardinality(All) + Cardinality(new) - Cardinality(old)
    <3> HIDE DEF old
    <3> QED BY ONLY <1>2, <1>5, IsFiniteSet(new), Exchange
  <2> QED BY ONLY <1>4, <2>1
<1>7. RoomsIn(All') = (RoomsIn(All) \ RoomsIn(old)) \cup RoomsIn(new)
  <2>1. ASSUME NEW r \in RoomsIn(All')
        PROVE  r \in (RoomsIn(All) \ RoomsIn(old)) \cup RoomsIn(new)
    <3>1. PICK m \in All' : r = m[1]
      BY DEF RoomsIn
    <3>2. CASE m \in new
      BY <3>1, <3>2 DEF RoomsIn
    <3>3. CASE m \in All \ old
      <4>1. ShardOf[m[1]] # s
        BY <1>3, <3>3
      <4>2. r \notin RoomsIn(old)
        BY <1>2, <3>1, <4>1 DEF RoomsIn
      <4> QED BY <3>1, <3>3, <4>2 DEF RoomsIn
    <3> QED BY <1>4, <3>2, <3>3
  <2>2. ASSUME NEW r \in RoomsIn(All) \ RoomsIn(old)
        PROVE  r \in RoomsIn(All')
    <3>1. PICK m \in All : r = m[1]
      BY DEF RoomsIn
    <3>2. m \notin old
      BY <2>2, <3>1 DEF RoomsIn
    <3> QED BY <1>4, <3>1, <3>2 DEF RoomsIn
  <2>3. ASSUME NEW r \in RoomsIn(new)
        PROVE  r \in RoomsIn(All')
    BY <1>4 DEF RoomsIn
  <2> QED BY <2>1, <2>2, <2>3
<1>8. (RoomsIn(All) \ RoomsIn(old)) \cap RoomsIn(new) = {}
  <2>1. ASSUME NEW r \in RoomsIn(All), r \in RoomsIn(new)
        PROVE  r \in RoomsIn(old)
    <3>1. PICK m \in All : r = m[1]
      BY DEF RoomsIn
    <3>2. ShardOf[r] = s
      BY <2>1 DEF RoomsIn
    <3> QED BY <1>3, <3>1, <3>2 DEF RoomsIn
  <2> QED BY <2>1
<1>9. /\ IsFiniteSet(RoomsIn(All)) /\ IsFiniteSet(RoomsIn(new))
      /\ RoomsIn(old) \in SUBSET RoomsIn(All)
  BY <1>2, RoomsFinite DEF RoomsIn
<1>10. Cardinality(RoomsIn(All')) =
          Cardinality(RoomsIn(All)) + Cardinality(RoomsIn(new)) - Cardinality(RoomsIn(old))
  BY <1>7, <1>8, <1>9, Exchange
<1>11. /\ metrics.rooms = Cardinality(RoomsIn(All)) /\ metrics.clients = Cardinality(All)
       /\ previous[s].rooms = Cardinality(RoomsIn(old)) /\ previous[s].clients = Cardinality(old)
       /\ Contribution(new).rooms = Cardinality(RoomsIn(new))
       /\ Contribution(new).clients = Cardinality(new)
  BY DEF SharesOK, MetricsExact, Contribution, All, RoomsIn
<1>12. metrics' = [rooms |-> Cardinality(RoomsIn(All')), clients |-> Cardinality(All')]
  <2>1. metrics' = [rooms |-> metrics.rooms + Contribution(new).rooms - previous[s].rooms,
                    clients |-> metrics.clients + Contribution(new).clients
                                   - previous[s].clients]
    OBVIOUS
  <2> QED BY <1>6, <1>10, <1>11, <2>1
<1>13. MetricsExact'
  BY <1>12 DEF MetricsExact, All, RoomsIn
<1>14. \A t \in Shards : previous'[t] = Contribution(engine'[t])
  BY <1>1 DEF SharesOK
<1>15. previous' = [t \in Shards |-> previous'[t]]
  BY DEF SharesOK
<1>16. \A t \in Shards : (previous[t] = Contribution(engine[t]))'
  BY <1>14 DEF Contribution
<1> QED BY <1>6, <1>13, <1>15, <1>16 DEF SharesOK

-----------------------------------------------------------------------------
(* Every step keeps the invariant.                                          *)

LEMMA DecodedType ==
    ASSUME NEW result
    PROVE  decode_sfu_input(result).type \in {"Ok", "Err", "Status"}
BY DEF decode_sfu_input

LEMMA IdsNat == Ids \subseteq Nat
BY CommandAssumption DEF Ids

\* A shard that applies a command keeps it.
LEMMA ExecutesKeeps ==
    ASSUME Inv, NEW cmd \in Commands, NEW id \in Ids, NEW s \in Shards, NEW o,
           Executes(s, id, cmd, o)
    PROVE  ShardsOK' /\ CachesOK' /\ SharesOK' /\ RestOK'
<1>1. /\ engine' = [engine EXCEPT ![s] = o.engine]
      /\ projection' = [projection EXCEPT ![s] = o.projection]
      /\ s = ShardOf[RoomOf(cmd)] /\ id \notin DOMAIN cache[s]
      /\ CacheCommand(s, o.result)
      /\ UpdateMetrics(s, Contribution(DOMAIN o.projection))
  BY DEF Executes
<1>2. /\ Sane(o.engine, o.projection)
      /\ \A m \in o.engine \ engine[s] : m[1] = RoomOf(cmd)
      /\ o.result.request_id = id /\ o.told.member \in Members \cup {<<>>}
  BY DEF Executes, Sound
<1>3. ShardsOK
  BY DEF Inv
<1>4. \A m \in o.engine : ShardOf[m[1]] = s
  BY <1>1, <1>2, <1>3 DEF ShardsOK
<1>5. o.engine \in SUBSET Members /\ IsFiniteSet(o.engine) /\ DOMAIN o.projection = o.engine
  BY <1>2 DEF Sane
<1>6. ShardsOK'
  <2>1. engine' \in [Shards -> SUBSET Members] /\ DOMAIN projection' = Shards
    BY <1>1, <1>3, <1>5 DEF ShardsOK
  <2>2. ASSUME NEW t \in Shards
        PROVE  Sane(engine'[t], projection'[t]) /\ \A m \in engine'[t] : ShardOf[m[1]] = t
    <3>1. CASE t = s
      BY <1>1, <1>2, <1>3, <1>4, <3>1 DEF ShardsOK
    <3>2. CASE t # s
      BY <1>1, <1>3, <3>2 DEF ShardsOK
    <3> QED BY <3>1, <3>2
  <2>3. ASSUME NEW t \in Shards
        PROVE  Sane(engine[t], projection[t])'
    BY <2>2 DEF Sane
  <2> QED BY <2>1, <2>2, <2>3 DEF ShardsOK
<1>7. CachesOK'
  BY <1>1, <1>2, CacheStep DEF Inv
<1>8. SharesOK'
  <2>1. /\ previous' = [previous EXCEPT ![s] = Contribution(o.engine)]
        /\ metrics' = [rooms |-> metrics.rooms + Contribution(o.engine).rooms - previous[s].rooms,
                       clients |-> metrics.clients + Contribution(o.engine).clients
                                      - previous[s].clients]
    BY <1>1, <1>5 DEF UpdateMetrics
  <2>2. SharesOK
    BY DEF Inv
  <2> QED BY <1>1, <1>3, <1>4, <1>5, <2>1, <2>2, ShareStep
<1>9. RestOK'
  <2>1. /\ running' = running /\ told' = o.told /\ answer' = decode_sfu_input(o.result)
        /\ applied' = [applied EXCEPT ![id] = @ + 1]
    BY DEF Executes
  <2>2. applied' \in [Ids -> Nat]
    BY <2>1 DEF Inv, RestOK
  <2>3. answer'.type \in {"none", "Ok", "Err", "Status"}
    BY <2>1, DecodedType
  <2> QED BY <1>2, <2>1, <2>2, <2>3 DEF Inv, RestOK
<1> QED BY <1>6, <1>7, <1>8, <1>9

\* Steps that leave the shards alone keep it.
LEMMA StaysOK ==
    ASSUME ShardsOK, CachesOK, SharesOK, UNCHANGED shardVars, UNCHANGED metrics
    PROVE  ShardsOK' /\ CachesOK' /\ SharesOK'
<1>1. /\ engine' = engine /\ projection' = projection /\ cache' = cache
      /\ cacheOrder' = cacheOrder /\ previous' = previous /\ metrics' = metrics
  BY DEF shardVars
<1>2. ShardsOK'
  BY <1>1 DEF ShardsOK, Sane
<1>3. CachesOK'
  BY <1>1 DEF CachesOK, CacheCoherent, ToSet, IsInjective
<1>4. SharesOK'
  BY <1>1 DEF SharesOK, Contribution, All, MetricsExact
<1> QED BY <1>2, <1>3, <1>4

LEMMA AnswerKeeps ==
    ASSUME Inv, NEW result, AnswerOnly(result)
    PROVE  ShardsOK' /\ CachesOK' /\ SharesOK' /\ RestOK'
<1>1. ShardsOK' /\ CachesOK' /\ SharesOK'
  BY StaysOK DEF Inv, AnswerOnly
<1>2. /\ running' = running /\ applied' = applied /\ told' = NoSignal
      /\ answer' = decode_sfu_input(result)
  BY DEF AnswerOnly, shardVars
<1>3. answer'.type \in {"none", "Ok", "Err", "Status"}
  BY <1>2, DecodedType
<1>4. RestOK'
  BY <1>2, <1>3 DEF Inv, RestOK, NoSignal
<1> QED BY <1>1, <1>4

LEMMA DeliverKeeps ==
    ASSUME Inv, NEW cmd \in Commands, NEW id \in Ids, Deliver(id, cmd)
    PROVE  ShardsOK' /\ CachesOK' /\ SharesOK' /\ RestOK'
<1>1. \/ \E s \in Shards : \E o : Executes(s, id, cmd, o)
      \/ \E result : AnswerOnly(result)
  BY DeliverKinds, IdsNat DEF Inv, Repeats, Refuses
<1> QED BY <1>1, ExecutesKeeps, AnswerKeeps

\* A shard that stops takes its members and its share with it.
LEMMA StopKeeps ==
    ASSUME Inv, NEW s \in Shards, StopShard(s)
    PROVE  Inv'
<1>1. /\ engine' = [engine EXCEPT ![s] = {}] /\ projection' = [projection EXCEPT ![s] = <<>>]
      /\ cache' = [cache EXCEPT ![s] = <<>>] /\ cacheOrder' = [cacheOrder EXCEPT ![s] = <<>>]
      /\ running' = [running EXCEPT ![s] = FALSE]
      /\ UNCHANGED <<issued, applied, told, answer>>
  BY DEF StopShard
<1>2. IsFiniteSet({}) /\ Cardinality({}) = 0
  BY FS_EmptySet
<1>3. Contribution({}) = [rooms |-> 0, clients |-> 0]
  <2>1. RoomsIn({}) = {}
    BY DEF RoomsIn
  <2> QED BY <1>2, <2>1 DEF Contribution, RoomsIn
<1>4. ShardsOK'
  <2>1. engine' \in [Shards -> SUBSET Members] /\ DOMAIN projection' = Shards
    BY <1>1 DEF Inv, ShardsOK
  <2>2. Sane({}, <<>>)
    BY <1>2 DEF Sane
  <2>3. ASSUME NEW t \in Shards
        PROVE  Sane(engine'[t], projection'[t]) /\ \A m \in engine'[t] : ShardOf[m[1]] = t
    <3>1. CASE t = s
      <4>1. engine'[t] = {} /\ projection'[t] = <<>>
        BY <1>1, <3>1 DEF Inv, ShardsOK
      <4> QED BY <2>2, <4>1
    <3>2. CASE t # s
      BY <1>1, <3>2 DEF Inv, ShardsOK
    <3> QED BY <3>1, <3>2
  <2>4. ASSUME NEW t \in Shards
        PROVE  Sane(engine[t], projection[t])'
    BY <2>3 DEF Sane
  <2> QED BY <2>1, <2>3, <2>4 DEF ShardsOK
<1>5. CachesOK'
  <2>1. /\ <<>> \in Seq(Ids) /\ Len(<<>>) = 0 /\ DOMAIN <<>> = {} /\ ToSet(<<>>) = {}
        /\ IsInjective(<<>>) /\ 0 <= CacheCapacity
    BY CacheAssumption DEF ToSet, IsInjective
  <2>2. cacheOrder' \in [Shards -> Seq(Ids)] /\ DOMAIN cache' = Shards
    BY <1>1, <2>1 DEF Inv, CachesOK
  <2>3. ASSUME NEW t \in Shards
        PROVE  /\ DOMAIN cache'[t] = ToSet(cacheOrder'[t])
               /\ IsInjective(cacheOrder'[t])
               /\ Len(cacheOrder'[t]) <= CacheCapacity
               /\ DOMAIN cache'[t] \subseteq Ids
               /\ \A k \in DOMAIN cache'[t] : cache'[t][k].request_id = k
    <3>1. CASE t = s
      <4>1. cache'[t] = <<>> /\ cacheOrder'[t] = <<>>
        BY <1>1, <3>1 DEF Inv, CachesOK
      <4> QED BY <2>1, <4>1
    <3>2. CASE t # s
      BY <1>1, <3>2 DEF Inv, CachesOK, CacheCoherent
    <3> QED BY <3>1, <3>2
  <2>4. CacheCoherent'
    BY <2>3 DEF CacheCoherent, ToSet, IsInjective
  <2> QED BY <2>2, <2>3, <2>4 DEF CachesOK
<1>6. SharesOK'
  <2>1. previous' = [previous EXCEPT ![s] = Contribution({})]
    BY <1>3 DEF StopShard
  <2>2. /\ previous[s] = Contribution(engine[s]) /\ engine[s] \in SUBSET Members
        /\ IsFiniteSet(engine[s]) /\ IsFiniteSet(All)
    BY DEF Inv, SharesOK, ShardsOK, Sane
  <2>3. /\ previous[s].rooms \in Nat /\ previous[s].clients \in Nat
    <3>1. IsFiniteSet(RoomsIn(engine[s]))
      BY <2>2, RoomsFinite
    <3> QED BY <2>2, <3>1, FS_CardinalityType DEF Contribution, RoomsIn
  <2>4. metrics.rooms \in Nat /\ metrics.clients \in Nat
    <3>1. IsFiniteSet(RoomsIn(All))
      BY <2>2, RoomsFinite
    <3> QED BY <2>2, <3>1, FS_CardinalityType DEF Inv, SharesOK, MetricsExact, RoomsIn, All
  <2>5. metrics' = [rooms |-> metrics.rooms + Contribution({}).rooms - previous[s].rooms,
                    clients |-> metrics.clients + Contribution({}).clients
                                   - previous[s].clients]
    <3>1. metrics' = [rooms |-> metrics.rooms - previous[s].rooms,
                      clients |-> metrics.clients - previous[s].clients]
      BY DEF StopShard
    <3>2. Contribution({}).rooms = 0 /\ Contribution({}).clients = 0
      BY <1>3
    <3> QED BY <2>3, <2>4, <3>1, <3>2
  <2>6. ShardsOK /\ SharesOK
    BY DEF Inv
  <2> QED BY <1>1, <1>2, <2>1, <2>5, <2>6, ShareStep
<1>7. NumbersOK' /\ RestOK'
  <2>1. running' \in [Shards -> BOOLEAN]
    BY <1>1 DEF Inv, RestOK
  <2> QED BY <1>1, <2>1 DEF Inv, NumbersOK, RestOK
<1> QED BY <1>4, <1>5, <1>6, <1>7 DEF Inv

LEMMA InvInit == Init => Inv
<1> SUFFICES ASSUME Init PROVE Inv
  OBVIOUS
<1>1. IsFiniteSet({}) /\ Cardinality({}) = 0
  BY FS_EmptySet
<1>2. \A s \in Shards : engine[s] = {} /\ projection[s] = <<>> /\ cache[s] = <<>>
                        /\ cacheOrder[s] = <<>>
  BY DEF Init
<1>3. DOMAIN <<>> = {} /\ Len(<<>>) = 0 /\ <<>> \in Seq(Ids) /\ ToSet(<<>>) = {}
      /\ IsInjective(<<>>)
  BY DEF ToSet, IsInjective
<1>4. ShardsOK
  <2>1. Sane({}, <<>>)
    BY <1>1, <1>3 DEF Sane
  <2>2. engine \in [Shards -> SUBSET Members] /\ DOMAIN projection = Shards
    BY DEF Init
  <2> QED BY <1>2, <2>1, <2>2 DEF ShardsOK
<1>5. NumbersOK
  <2>1. FirstId..(FirstId + 0 - 1) = {} /\ 0 \in 0..MaxCommands
    BY CommandAssumption
  <2>2. DOMAIN issued = {}
    BY <1>3 DEF Init
  <2> QED BY <2>1, <2>2 DEF NumbersOK
<1>6. CachesOK
  <2>1. CacheCoherent
    BY <1>2, <1>3, CacheAssumption DEF CacheCoherent
  <2>2. cacheOrder \in [Shards -> Seq(Ids)] /\ DOMAIN cache = Shards
    BY <1>3 DEF Init
  <2> QED BY <1>2, <1>3, <2>1, <2>2 DEF CachesOK
<1>7. SharesOK
  <2>1. All = {} /\ RoomsIn({}) = {}
    BY <1>2 DEF All, RoomsIn
  <2>2. \A s \in Shards : previous[s] = Contribution(engine[s])
    BY <1>1, <1>2, <2>1 DEF Init, Contribution, RoomsIn
  <2>3. MetricsExact
    BY <1>1, <2>1 DEF Init, MetricsExact, All, RoomsIn
  <2> QED BY <1>1, <2>1, <2>2, <2>3 DEF SharesOK, Init
<1>8. RestOK
  BY DEF Init, RestOK, NoSignal, NoAnswer
<1> QED BY <1>4, <1>5, <1>6, <1>7, <1>8 DEF Inv

LEMMA InvNext == Inv /\ [Next]_vars => Inv'
<1> SUFFICES ASSUME Inv, [Next]_vars PROVE Inv'
  OBVIOUS
<1>1. ASSUME NEW cmd \in Commands, Command(cmd)
      PROVE  Inv'
  <2>1. NumbersOK' /\ FirstId + Cardinality(DOMAIN issued) \in Ids
    BY <1>1, NextNumber DEF Inv, Command
  <2>2. Deliver(FirstId + Cardinality(DOMAIN issued), cmd)
    BY <1>1 DEF Command
  <2> QED BY <2>1, <2>2, DeliverKeeps DEF Inv
<1>2. ASSUME NEW id \in Ids, Redeliver(id)
      PROVE  Inv'
  <2>1. issued[id] \in Commands /\ Deliver(id, issued[id]) /\ issued' = issued
    BY <1>2 DEF Redeliver, Inv, NumbersOK
  <2>2. NumbersOK'
    BY <2>1 DEF Inv, NumbersOK
  <2> QED BY <2>1, <2>2, DeliverKeeps DEF Inv
<1>3. CASE RestartSignaling
  <2>1. /\ issued' = <<>> /\ applied' = [id \in Ids |-> 0] /\ UNCHANGED shardVars
        /\ metrics' = metrics /\ told' = told /\ answer' = answer
    BY <1>3 DEF RestartSignaling
  <2>2. ShardsOK' /\ CachesOK' /\ SharesOK'
    BY <2>1, StaysOK DEF Inv
  <2>3. NumbersOK'
    <3>1. FirstId..(FirstId + 0 - 1) = {} /\ 0 \in 0..MaxCommands
      BY CommandAssumption
    <3>2. DOMAIN issued' = {}
      BY <2>1
    <3> QED BY <3>1, <3>2 DEF NumbersOK
  <2>4. RestOK'
    BY <2>1 DEF Inv, RestOK, shardVars
  <2> QED BY <2>2, <2>3, <2>4 DEF Inv
<1>4. ASSUME NEW s \in Shards, StopShard(s)
      PROVE  Inv'
  BY <1>4, StopKeeps
<1>5. CASE UNCHANGED vars
  <2>1. /\ UNCHANGED shardVars /\ metrics' = metrics /\ issued' = issued /\ applied' = applied
        /\ told' = told /\ answer' = answer /\ running' = running
    BY <1>5 DEF vars, shardVars
  <2>2. ShardsOK' /\ CachesOK' /\ SharesOK'
    BY <2>1, StaysOK DEF Inv
  <2>3. NumbersOK' /\ RestOK'
    BY <2>1 DEF Inv, NumbersOK, RestOK
  <2> QED BY <2>2, <2>3 DEF Inv
<1> QED BY <1>1, <1>2, <1>3, <1>4, <1>5 DEF Next

THEOREM Invariance == Spec => []Inv
BY InvInit, InvNext, PTL DEF Spec

-----------------------------------------------------------------------------
(* The theorems.                                                            *)

\* Every variable keeps its shape, the caches agree with their queues and stay
\* within COMMAND_CACHE_CAPACITY (cache_command), and no counter goes below zero
\* (replace_contribution), for any rooms, shards and commands.
THEOREM TypeCorrect == Spec => []TypeOK
<1>1. ASSUME Inv PROVE TypeOK
  <2>1. /\ engine \in [Shards -> SUBSET Members] /\ DOMAIN projection = Shards
        /\ \A s \in Shards :
              /\ DOMAIN projection[s] \subseteq Members
              /\ \A m \in DOMAIN projection[s] : projection[s][m] \in Lifecycles \X Epochs
    BY <1>1 DEF Inv, ShardsOK, Sane
  <2>2. ASSUME NEW members, IsFiniteSet(members)
        PROVE  Contribution(members) \in [rooms : Nat, clients : Nat]
    <3>1. Cardinality(RoomsIn(members)) \in Nat /\ Cardinality(members) \in Nat
      BY <2>2, RoomsFinite, FS_CardinalityType
    <3> QED BY <3>1 DEF Contribution, RoomsIn
  <2>3. metrics = Contribution(All) /\ IsFiniteSet(All)
    BY <1>1 DEF Inv, SharesOK, MetricsExact, Contribution, All
  <2>4. metrics \in [rooms : Nat, clients : Nat]
    BY <2>2, <2>3
  <2>5. \A s \in Shards : previous[s] \in [rooms : Nat, clients : Nat]
    BY <1>1, <2>2 DEF Inv, SharesOK, ShardsOK, Sane
  <2>6. previous \in [Shards -> [rooms : Nat, clients : Nat]]
    <3>1. previous = [s \in Shards |-> previous[s]]
      BY <1>1 DEF Inv, SharesOK
    <3> QED BY <2>5, <3>1
  <2>7. DOMAIN issued \subseteq Ids
    BY <1>1, CommandAssumption DEF Inv, NumbersOK, Ids
  <2> QED BY <1>1, <2>1, <2>4, <2>6, <2>7 DEF Inv, NumbersOK, CachesOK, RestOK, TypeOK
<1> QED BY <1>1, Invariance, PTL

\* The engine of every shard has exactly the members its projection has, also
\* after a sync_room that a refused engine call cut short.
THEOREM EngineMatchesHolds == Spec => []EngineMatchesProjection
<1>1. Inv => EngineMatchesProjection
  BY DEF Inv, ShardsOK, Sane, EngineMatchesProjection
<1> QED BY <1>1, Invariance, PTL

\* The worker's counters are the rooms and clients of all its shards together,
\* however many there are.
THEOREM MetricsExactHolds == Spec => []MetricsExact
<1>1. Inv => MetricsExact
  BY DEF Inv, SharesOK
<1> QED BY <1>1, Invariance, PTL

\* A step that puts a result into a cache has just applied the command.
LEMMA FreshResult ==
    ASSUME Inv, Inv', [Next]_vars, NEW s \in Shards, NEW id \in DOMAIN cache'[s] \ DOMAIN cache[s]
    PROVE  \E o : Executes(s, id, issued'[id], o) /\ cache'[s][id] = o.result
                  /\ o.engine = engine'[s] /\ o.projection = projection'[s] /\ o.told = told'
<1>1. ASSUME NEW cmd \in Commands, NEW k \in Ids, Deliver(k, cmd), issued'[k] = cmd
      PROVE  \E o : Executes(s, id, issued'[id], o) /\ cache'[s][id] = o.result
                    /\ o.engine = engine'[s] /\ o.projection = projection'[s] /\ o.told = told'
  <2>1. ~ UNCHANGED cache
    OBVIOUS
  <2>a. PICK t \in Shards : \E o : Executes(t, k, cmd, o)
    BY <1>1, <2>1, DeliverKinds, IdsNat DEF Inv, Repeats, Refuses, AnswerOnly, shardVars
  <2>2. PICK o : Executes(t, k, cmd, o)
    BY <2>a
  <2>3. /\ k \notin DOMAIN cache[t] /\ o.result.request_id = k /\ CacheCommand(t, o.result)
        /\ engine' = [engine EXCEPT ![t] = o.engine]
        /\ projection' = [projection EXCEPT ![t] = o.projection]
        /\ told' = o.told
    BY <2>2 DEF Executes, Sound
  <2>4. /\ \A u \in Shards \ {t} : cache'[u] = cache[u]
        /\ cache'[t][k] = o.result
        /\ \A n \in DOMAIN cache'[t] \ {k} : n \in DOMAIN cache[t]
    BY <2>3, CacheStep DEF Inv
  <2>5. t = s /\ k = id
    BY <2>4
  <2>6. o.engine = engine'[s] /\ o.projection = projection'[s]
    BY <2>3, <2>5 DEF Inv, ShardsOK
  <2> QED BY <1>1, <2>2, <2>3, <2>4, <2>5, <2>6
<1>2. ASSUME NEW cmd \in Commands, Command(cmd)
      PROVE  \E k \in Ids : Deliver(k, cmd) /\ issued'[k] = cmd
  BY <1>2, NextNumber DEF Inv, Command
<1>3. ASSUME NEW k \in Ids, Redeliver(k)
      PROVE  issued[k] \in Commands /\ Deliver(k, issued[k]) /\ issued'[k] = issued[k]
  BY <1>3 DEF Redeliver, Inv, NumbersOK
<1>4. CASE RestartSignaling \/ UNCHANGED vars
  BY <1>4 DEF RestartSignaling, vars, shardVars
<1>5. ASSUME NEW t \in Shards, StopShard(t)
      PROVE  FALSE
  <2>1. cache' = [cache EXCEPT ![t] = <<>>] /\ DOMAIN <<>> = {} /\ DOMAIN cache = Shards
    BY <1>5 DEF StopShard, Inv, CachesOK
  <2> QED BY <2>1
<1> QED BY <1>1, <1>2, <1>3, <1>4, <1>5 DEF Next

\* Whenever a shard answers a command "ok" for the first time (apply_command,
\* sync_room), the engine is as the answer says, in the same step.
THEOREM OkMeansAppliedHolds == Spec => OkMeansApplied
<1>1. ASSUME Inv, Inv', [Next]_vars
      PROVE  [\A s \in Shards : \A id \in DOMAIN cache'[s] \ DOMAIN cache[s] :
                cache'[s][id].ok => OkIsTrue(issued'[id], engine'[s], projection'[s], told')]_vars
  <2>1. ASSUME NEW s \in Shards, NEW id \in DOMAIN cache'[s] \ DOMAIN cache[s], cache'[s][id].ok
        PROVE  OkIsTrue(issued'[id], engine'[s], projection'[s], told')
    BY <1>1, <2>1, FreshResult DEF Executes, Sound
  <2> QED BY <2>1
<1>2. Inv /\ Inv' /\ [Next]_vars
        => [\A s \in Shards : \A id \in DOMAIN cache'[s] \ DOMAIN cache[s] :
              cache'[s][id].ok => OkIsTrue(issued'[id], engine'[s], projection'[s], told')]_vars
  BY <1>1
<1> QED BY <1>2, Invariance, PTL DEF Spec, OkMeansApplied

-----------------------------------------------------------------------------
(* Answers and their commands, while signaling does not restart: a restart  *)
(* numbers anew, and a cache may then answer for a command of before.       *)

\* A cached result, and the latest answer, are about the command with their
\* number.
CacheAnswers ==
    \A s \in Shards : \A id \in DOMAIN cache[s] :
        id \in DOMAIN issued /\ Answers(cache[s][id], id, issued[id])

AnswerKnown ==
    answer.type = "Ok" => /\ answer.request_id \in DOMAIN issued
                          /\ answer.value = Confirms(issued[answer.request_id])

\* A command that signaling has numbered, first time or again, is answered for
\* what it is.
LEMMA DeliverAnswers ==
    ASSUME Inv, CacheAnswers, NEW cmd \in Commands, NEW id \in Ids, Deliver(id, cmd),
           id \in DOMAIN issued', issued'[id] = cmd,
           \A k \in DOMAIN issued : k \in DOMAIN issued' /\ issued'[k] = issued[k]
    PROVE  CacheAnswers' /\ AnswerKnown'
<1>0. \A k \in DOMAIN issued : k \in DOMAIN issued' /\ issued'[k] = issued[k]
  OBVIOUS
<1>1. ASSUME NEW s \in Shards, NEW o, Executes(s, id, cmd, o)
      PROVE  CacheAnswers' /\ AnswerKnown'
  <2>1. /\ o.result.request_id = id /\ Answers(o.result, id, cmd)
        /\ id \notin DOMAIN cache[s] /\ CacheCommand(s, o.result)
        /\ answer' = decode_sfu_input(o.result)
    BY <1>1 DEF Executes, Sound
  <2>2. /\ \A t \in Shards \ {s} : cache'[t] = cache[t]
        /\ cache'[s][id] = o.result
        /\ \A k \in DOMAIN cache'[s] \ {id} :
              k \in DOMAIN cache[s] /\ cache'[s][k] = cache[s][k]
    BY <2>1, CacheStep DEF Inv
  <2>3. ASSUME NEW t \in Shards, NEW k \in DOMAIN cache'[t]
        PROVE  k \in DOMAIN issued' /\ Answers(cache'[t][k], k, issued'[k])
    <3>1. CASE t = s /\ k = id
      BY <2>1, <2>2, <3>1
    <3>2. CASE ~(t = s /\ k = id)
      <4>1. k \in DOMAIN cache[t] /\ cache'[t][k] = cache[t][k]
        BY <2>2, <2>3, <3>2
      <4>2. k \in DOMAIN issued /\ Answers(cache[t][k], k, issued[k])
        BY <4>1 DEF CacheAnswers
      <4> QED BY <1>0, <4>1, <4>2
    <3> QED BY <3>1, <3>2
  <2>4. CacheAnswers'
    BY <2>3 DEF CacheAnswers, Answers
  <2>5. AnswerKnown'
    BY <2>1 DEF AnswerKnown, Answers, Confirms
  <2> QED BY <2>4, <2>5
<1>2. ASSUME UNCHANGED cache
      PROVE  CacheAnswers'
  <2>1. ASSUME NEW t \in Shards, NEW k \in DOMAIN cache'[t]
        PROVE  k \in DOMAIN issued' /\ Answers(cache'[t][k], k, issued'[k])
    BY <1>0, <1>2, <2>1 DEF CacheAnswers
  <2> QED BY <2>1 DEF CacheAnswers, Answers
<1>3. ASSUME NEW s \in Shards, Repeats(s, id, cmd)
      PROVE  CacheAnswers' /\ AnswerKnown'
  <2>1. id \in DOMAIN cache[s] /\ answer' = decode_sfu_input(cache[s][id]) /\ cache' = cache
    BY <1>3 DEF Repeats, AnswerOnly, shardVars
  <2>2. id \in DOMAIN issued /\ Answers(cache[s][id], id, issued[id])
    BY <2>1 DEF CacheAnswers
  <2>3. Answers(cache[s][id], id, cmd)
    BY <1>0, <2>2
  <2>4. AnswerKnown'
    BY <2>1, <2>3 DEF AnswerKnown, Answers, Confirms
  <2> QED BY <1>2, <2>1, <2>4
<1>4. ASSUME Refuses(id, cmd)
      PROVE  CacheAnswers' /\ AnswerKnown'
  <2>1. PICK code, reason : AnswerOnly(command_error(id, code, reason))
    BY <1>4 DEF Refuses
  <2>2. answer' = decode_sfu_input(command_error(id, code, reason)) /\ cache' = cache
    BY <2>1 DEF AnswerOnly, shardVars
  <2>3. answer'.type # "Ok"
    BY <2>2 DEF decode_sfu_input, command_error
  <2> QED BY <1>2, <2>2, <2>3 DEF AnswerKnown
<1> QED BY <1>1, <1>3, <1>4, DeliverKinds, IdsNat DEF Inv

LEMMA AnswersNext ==
    ASSUME ~MayRestart, Inv, CacheAnswers, AnswerKnown, [Next]_vars
    PROVE  CacheAnswers' /\ AnswerKnown'
<1>1. ASSUME NEW cmd \in Commands, Command(cmd)
      PROVE  CacheAnswers' /\ AnswerKnown'
  <2>1. PICK id \in Ids :
          /\ Deliver(id, cmd) /\ id \in DOMAIN issued' /\ issued'[id] = cmd
          /\ \A k \in DOMAIN issued : k \in DOMAIN issued' /\ issued'[k] = issued[k]
    BY <1>1, NextNumber DEF Inv, Command
  <2> QED BY <2>1, DeliverAnswers
<1>2. ASSUME NEW id \in Ids, Redeliver(id)
      PROVE  CacheAnswers' /\ AnswerKnown'
  <2>1. /\ issued[id] \in Commands /\ Deliver(id, issued[id]) /\ issued' = issued
        /\ id \in DOMAIN issued
    BY <1>2 DEF Redeliver, Inv, NumbersOK
  <2> QED BY <2>1, DeliverAnswers
<1>3. CASE RestartSignaling
  BY <1>3 DEF RestartSignaling
<1>4. ASSUME NEW s \in Shards, StopShard(s)
      PROVE  CacheAnswers' /\ AnswerKnown'
  <2>1. /\ cache' = [cache EXCEPT ![s] = <<>>] /\ DOMAIN <<>> = {} /\ DOMAIN cache = Shards
        /\ issued' = issued /\ answer' = answer
    BY <1>4 DEF StopShard, Inv, CachesOK
  <2>2. ASSUME NEW t \in Shards, NEW k \in DOMAIN cache'[t]
        PROVE  k \in DOMAIN issued' /\ Answers(cache'[t][k], k, issued'[k])
    BY <2>1, <2>2 DEF CacheAnswers
  <2>3. CacheAnswers'
    BY <2>2 DEF CacheAnswers, Answers
  <2> QED BY <2>1, <2>3 DEF AnswerKnown, Confirms
<1>5. CASE UNCHANGED vars
  <2>1. cache' = cache /\ issued' = issued /\ answer' = answer
    BY <1>5 DEF vars, shardVars
  <2> QED BY <2>1 DEF CacheAnswers, Answers, AnswerKnown, Confirms
<1> QED BY <1>1, <1>2, <1>3, <1>4, <1>5 DEF Next

\* While signaling runs, what the Collider reads under a number is about the
\* command it numbered so: through encode_sfu_output, the shard's command cache
\* of any capacity, repetitions in any order, and decode_sfu_input.
THEOREM AnswersItsCommandHolds ==
    ASSUME ~MayRestart PROVE Spec => []AnswersItsCommand
<1>1. Init => CacheAnswers /\ AnswerKnown
  <2> SUFFICES ASSUME Init PROVE CacheAnswers /\ AnswerKnown
    OBVIOUS
  <2>1. \A s \in Shards : DOMAIN cache[s] = {}
    BY DEF Init
  <2> QED BY <2>1 DEF Init, CacheAnswers, AnswerKnown, NoAnswer
<1>2. Inv /\ CacheAnswers /\ AnswerKnown /\ [Next]_vars => CacheAnswers' /\ AnswerKnown'
  BY AnswersNext
<1>3. AnswerKnown => AnswersItsCommand
  BY DEF AnswerKnown, AnswersItsCommand
<1> QED BY <1>1, <1>2, <1>3, Invariance, PTL DEF Spec

-----------------------------------------------------------------------------
(* At most once, while signaling repeats no more than a cache remembers.    *)

\* A shard's queue is in the order of the numbers.
Ascending(q) == \A i, j \in 1..Len(q) : i < j => q[i] < q[j]

QueuesAscend ==
    \A s \in Shards : Ascending(cacheOrder[s]) /\ DOMAIN cache[s] \subseteq DOMAIN issued

\* A running shard remembers a command it was given, or has filled its cache
\* with later ones.
Remembered ==
    \A id \in DOMAIN issued : \A s \in Shards :
        issued[id].type # "drain" /\ s = ShardOf[RoomOf(issued[id])] /\ running[s] =>
            \/ id \in DOMAIN cache[s]
            \/ Len(cacheOrder[s]) = CacheCapacity /\ id < cacheOrder[s][1]

AppliedWhenIssued ==
    \A id \in Ids : applied[id] <= 1 /\ (id \notin DOMAIN issued => applied[id] = 0)

OnceInv == QueuesAscend /\ Remembered /\ AppliedWhenIssued

\* A command that fell out of a full cache is older than all the cache holds,
\* so it is no longer among the latest CacheCapacity.
LEMMA OutOfWindow ==
    ASSUME Window <= CacheCapacity, Inv, QueuesAscend, NEW id \in DOMAIN issued, NEW s \in Shards,
           Len(cacheOrder[s]) = CacheCapacity, id < cacheOrder[s][1]
    PROVE  ~(Cardinality({n \in DOMAIN issued : n >= id}) <= Window)
<1> DEFINE q == cacheOrder[s]
           held == DOMAIN cache[s]
           later == {n \in DOMAIN issued : n >= id}
<1>0. CacheCapacity \in Nat /\ CacheCapacity > 0 /\ Window \in Nat
  BY CacheAssumption, CommandAssumption
<1>1. /\ q \in Seq(Ids) /\ DOMAIN q = 1..CacheCapacity /\ held = {q[i] : i \in 1..CacheCapacity}
      /\ \A i, j \in 1..CacheCapacity : q[i] = q[j] => i = j
      /\ \A i, j \in 1..CacheCapacity : i < j => q[i] < q[j]
      /\ held \subseteq DOMAIN issued
  BY DEF Inv, CachesOK, CacheCoherent, ToSet, IsInjective, QueuesAscend, Ascending
<1>2. q \in Bijection(1..CacheCapacity, held)
  <2>1. q = [i \in 1..CacheCapacity |-> q[i]]
    BY <1>1
  <2>2. q \in [1..CacheCapacity -> held]
    BY <1>1, <2>1
  <2>3. \A a, b \in 1..CacheCapacity : q[a] = q[b] => a = b
    BY <1>1
  <2>4. \A k \in held : \E a \in 1..CacheCapacity : q[a] = k
    BY <1>1
  <2>5. q \in Injection(1..CacheCapacity, held)
    BY <2>2, <2>3 DEF Injection, IsInjective
  <2>6. q \in Surjection(1..CacheCapacity, held)
    BY <2>2, <2>4 DEF Surjection
  <2> QED BY <2>5, <2>6 DEF Bijection
<1>3. /\ IsFiniteSet(1..CacheCapacity) /\ Cardinality(1..CacheCapacity) = CacheCapacity
  <2>1. /\ IsFiniteSet(1..CacheCapacity)
        /\ Cardinality(1..CacheCapacity) = IF 1 > CacheCapacity THEN 0 ELSE CacheCapacity - 1 + 1
    <3>1. 1 \in Int /\ CacheCapacity \in Int
      BY <1>0
    <3> QED BY <3>1, FS_Interval, Zenon
  <2>2. ~(1 > CacheCapacity) /\ CacheCapacity - 1 + 1 = CacheCapacity
    BY <1>0
  <2> QED BY <2>1, <2>2
<1>4. IsFiniteSet(held) /\ Cardinality(held) = CacheCapacity
  BY <1>2, <1>3, FS_Bijection DEF ExistsBijection
<1>5. DOMAIN issued \subseteq Nat /\ IsFiniteSet(DOMAIN issued)
  <2>1. PICK n \in 0..MaxCommands : DOMAIN issued = FirstId..(FirstId + n - 1)
    BY DEF Inv, NumbersOK
  <2>2. FirstId \in Nat /\ n \in Nat /\ FirstId \in Int /\ FirstId + n - 1 \in Int
    BY <2>1, CommandAssumption
  <2>3. IsFiniteSet(FirstId..(FirstId + n - 1))
    BY <2>2, FS_Interval
  <2> QED BY <2>1, <2>2, <2>3
<1>6. ASSUME NEW k \in held
      PROVE  k > id /\ k \in DOMAIN issued /\ k \in Nat
  <2>1. PICK i \in 1..CacheCapacity : q[i] = k
    BY <1>1
  <2>2. q[1] \in Nat /\ k \in Nat /\ 1 \in 1..CacheCapacity
    BY <1>0, <1>1, <1>5
  <2>3. q[1] <= k
    <3>1. CASE i = 1
      BY <2>1, <2>2, <3>1
    <3>2. CASE i # 1
      <4>1. 1 < i
        BY <1>0, <3>2
      <4> QED BY <1>1, <2>1, <2>2, <4>1
    <3> QED BY <3>1, <3>2
  <2> QED BY <1>1, <1>5, <2>2, <2>3
<1>7. id \in Nat
  BY <1>5
<1>8. held \cup {id} \subseteq later /\ id \notin held
  BY <1>6, <1>7
<1>9. IsFiniteSet(later)
  BY <1>5, FS_Subset
<1>10. Cardinality(held \cup {id}) = CacheCapacity + 1
  BY <1>4, <1>8, FS_AddElement
<1>11. Cardinality(held \cup {id}) <= Cardinality(later) /\ Cardinality(later) \in Nat
  BY <1>8, <1>9, FS_Subset, FS_CardinalityType
<1> HIDE DEF held, later
<1>12. ~(Cardinality(later) <= Window)
  BY <1>0, <1>10, <1>11
<1> QED BY <1>12 DEF later

\* So a repeated command changes no shard.
LEMMA RepeatChangesNothing ==
    ASSUME Window <= CacheCapacity, Inv, OnceInv, NEW id \in Ids, Redeliver(id)
    PROVE  UNCHANGED shardVars /\ UNCHANGED <<applied, issued>>
<1>1. /\ id \in DOMAIN issued /\ issued[id] \in Commands /\ Deliver(id, issued[id])
      /\ Cardinality({n \in DOMAIN issued : n >= id}) <= Window /\ issued' = issued
  BY DEF Redeliver, Inv, NumbersOK
<1>2. ASSUME NEW s \in Shards, NEW o, Executes(s, id, issued[id], o)
      PROVE  FALSE
  <2>1. /\ issued[id].type # "drain" /\ s = ShardOf[RoomOf(issued[id])] /\ running[s]
        /\ id \notin DOMAIN cache[s]
    BY <1>2 DEF Executes
  <2>2. Len(cacheOrder[s]) = CacheCapacity /\ id < cacheOrder[s][1]
    BY <1>1, <2>1 DEF OnceInv, Remembered
  <2>3. QueuesAscend
    BY DEF OnceInv
  <2> QED BY <1>1, <2>2, <2>3, OutOfWindow
<1>3. \E result : AnswerOnly(result)
  BY <1>1, <1>2, DeliverKinds, IdsNat DEF Inv, Repeats, Refuses
<1> QED BY <1>1, <1>3 DEF AnswerOnly

\* A larger number at the end keeps a queue ascending, and what was dropped for
\* it is smaller than what is left.
LEMMA QueueStep ==
    ASSUME NEW q \in Seq(Nat), Ascending(q), Len(q) <= CacheCapacity,
           NEW id \in Nat, \A i \in 1..Len(q) : q[i] < id,
           NEW new, new = IF Len(q) = CacheCapacity THEN Append(Tail(q), id) ELSE Append(q, id)
    PROVE  /\ new \in Seq(Nat) /\ Ascending(new)
           /\ Len(q) = CacheCapacity => Len(new) = CacheCapacity /\ q[1] < new[1]
                                        /\ q[1] \in Nat /\ new[1] \in Nat
           /\ \A i \in 1..Len(q) : \/ \E j \in 1..Len(new) : new[j] = q[i]
                                   \/ Len(new) = CacheCapacity /\ q[i] < new[1]
<1>0. /\ Len(q) \in Nat /\ CacheCapacity \in Nat /\ CacheCapacity > 0
      /\ \A i \in 1..Len(q) : q[i] \in Nat /\ q[i] < id
  BY CacheAssumption
<1>1. CASE Len(q) = CacheCapacity
  <2>1. /\ Tail(q) \in Seq(Nat) /\ Len(Tail(q)) = Len(q) - 1
        /\ \A i \in 1..(Len(q) - 1) : Tail(q)[i] = q[i + 1]
    BY <1>0, <1>1
  <2>2. /\ new \in Seq(Nat) /\ Len(new) = Len(q)
        /\ \A i \in 1..(Len(q) - 1) : new[i] = q[i + 1]
        /\ new[Len(q)] = id
    BY <1>0, <1>1, <2>1
  <2>3. ASSUME NEW i \in 1..Len(q), NEW j \in 1..Len(q), i < j
        PROVE  new[i] < new[j]
    <3>1. new[i] = q[i + 1] /\ i + 1 \in 1..Len(q)
      BY <1>0, <2>2, <2>3
    <3>2. CASE j = Len(q)
      BY <1>0, <2>2, <3>1, <3>2
    <3>3. CASE j # Len(q)
      <4>1. new[j] = q[j + 1] /\ j + 1 \in 1..Len(q) /\ i + 1 < j + 1
        BY <1>0, <2>2, <2>3, <3>3
      <4> QED BY <3>1, <4>1 DEF Ascending
    <3> QED BY <3>2, <3>3
  <2>4. q[1] < new[1] /\ q[1] \in Nat /\ new[1] \in Nat
    <3>1. 1 \in 1..Len(q)
      BY <1>0, <1>1
    <3>2. CASE Len(q) = 1
      BY <1>0, <2>2, <3>1, <3>2
    <3>3. CASE Len(q) # 1
      <4>1. new[1] = q[2] /\ 2 \in 1..Len(q)
        <5>0. Len(q) \in Nat /\ Len(q) >= 2
          <6>1. CacheCapacity \in Nat /\ CacheCapacity > 0 /\ CacheCapacity # 1
            BY <1>1, <3>3, CacheAssumption
          <6>2. CacheCapacity >= 2
            BY <6>1
          <6> QED BY <1>1, <6>1, <6>2
        <5>1. 1 \in 1..(Len(q) - 1) /\ 2 \in 1..Len(q) /\ 1 + 1 = 2
          BY <5>0
        <5>2. new[1] = q[1 + 1]
          BY <2>2, <5>1
        <5> QED BY <5>1, <5>2
      <4> QED BY <1>0, <3>1, <4>1 DEF Ascending
    <3> QED BY <3>2, <3>3
  <2>5. ASSUME NEW i \in 1..Len(q)
        PROVE  (\E j \in 1..Len(new) : new[j] = q[i]) \/ q[i] < new[1]
    <3>1. CASE i = 1
      BY <2>4, <3>1
    <3>2. CASE i # 1
      <4>1. PICK j \in 1..(Len(q) - 1) : j + 1 = i
        BY <1>0, <3>2
      <4>2. new[j] = q[i] /\ j \in 1..Len(new)
        BY <1>0, <2>2, <4>1
      <4> QED BY <4>2
    <3> QED BY <3>1, <3>2
  <2> QED BY <1>1, <2>2, <2>3, <2>4, <2>5 DEF Ascending
<1>2. CASE Len(q) # CacheCapacity
  <2>1. /\ new \in Seq(Nat) /\ Len(new) = Len(q) + 1
        /\ \A i \in 1..Len(q) : new[i] = q[i]
        /\ new[Len(q) + 1] = id
    BY <1>0, <1>2
  <2>2. ASSUME NEW i \in 1..Len(new), NEW j \in 1..Len(new), i < j
        PROVE  new[i] < new[j]
    <3>1. i \in 1..Len(q) /\ new[i] = q[i]
      BY <1>0, <2>1, <2>2
    <3>2. CASE j = Len(q) + 1
      BY <1>0, <2>1, <3>1, <3>2
    <3>3. CASE j # Len(q) + 1
      <4>1. j \in 1..Len(q) /\ new[j] = q[j]
        BY <1>0, <2>1, <3>3
      <4> QED BY <2>2, <3>1, <4>1 DEF Ascending
    <3> QED BY <3>2, <3>3
  <2>3. \A i \in 1..Len(q) : i \in 1..Len(new) /\ new[i] = q[i]
    BY <1>0, <2>1
  <2> QED BY <1>2, <2>1, <2>2, <2>3 DEF Ascending
<1> QED BY <1>1, <1>2

\* A new command is applied under its number for the first time, and its number
\* is the largest in the queue.
LEMMA CommandOnce ==
    ASSUME Inv, OnceInv, NEW cmd \in Commands, Command(cmd)
    PROVE  OnceInv'
<1>0. PICK id \in Ids :
        /\ Deliver(id, cmd) /\ DOMAIN issued' = DOMAIN issued \cup {id} /\ issued'[id] = cmd
        /\ \A k \in DOMAIN issued : issued'[k] = issued[k] /\ k \in Ids /\ k < id
  BY NextNumber DEF Inv, Command
<1>1. id \notin DOMAIN issued /\ id \in Nat
  BY <1>0, IdsNat
<1>2. \A s \in Shards : id \notin DOMAIN cache[s]
  BY <1>1 DEF OnceInv, QueuesAscend
<1>3. CASE Refuses(id, cmd)
  <2>1. /\ cache' = cache /\ cacheOrder' = cacheOrder /\ running' = running /\ applied' = applied
    BY <1>3 DEF Refuses, AnswerOnly, shardVars
  <2>2. QueuesAscend'
    BY <1>0, <2>1 DEF OnceInv, QueuesAscend, Ascending
  <2>3. cmd.type # "drain" => ~running[ShardOf[RoomOf(cmd)]]
    BY <1>3 DEF Refuses
  <2>4. ASSUME NEW k \in DOMAIN issued', NEW s \in Shards,
               issued'[k].type # "drain", s = ShardOf[RoomOf(issued'[k])], running[s]
        PROVE  \/ k \in DOMAIN cache[s]
               \/ Len(cacheOrder[s]) = CacheCapacity /\ k < cacheOrder[s][1]
    <3>1. k \in DOMAIN issued /\ issued'[k] = issued[k]
      BY <1>0, <2>3, <2>4
    <3> QED BY <2>4, <3>1 DEF OnceInv, Remembered
  <2>5. Remembered'
    BY <2>1, <2>4 DEF Remembered, RoomOf
  <2>6. AppliedWhenIssued'
    BY <1>0, <2>1 DEF OnceInv, AppliedWhenIssued
  <2> QED BY <2>2, <2>5, <2>6 DEF OnceInv
<1>4. ASSUME NEW s \in Shards, NEW o, Executes(s, id, cmd, o)
      PROVE  OnceInv'
  <2>1. PICK q : q = cacheOrder[s]
    OBVIOUS
  <2>2. PICK new : new = IF Len(q) = CacheCapacity THEN Append(Tail(q), id) ELSE Append(q, id)
    OBVIOUS
  <2>3. /\ o.result.request_id = id /\ CacheCommand(s, o.result) /\ running' = running
        /\ applied' = [applied EXCEPT ![id] = @ + 1]
    BY <1>4 DEF Executes, Sound
  <2>4. /\ CachesOK' /\ cacheOrder' = [cacheOrder EXCEPT ![s] = new]
        /\ \A t \in Shards \ {s} : cache'[t] = cache[t]
        /\ id \in DOMAIN cache'[s]
        /\ \A k \in DOMAIN cache'[s] \ {id} : k \in DOMAIN cache[s]
    BY <1>2, <2>1, <2>2, <2>3, CacheStep DEF Inv
  <2>5. cacheOrder'[s] = new /\ \A t \in Shards \ {s} : cacheOrder'[t] = cacheOrder[t]
    BY <2>4 DEF Inv, CachesOK
  <2>6. /\ q \in Seq(Ids) /\ Len(q) <= CacheCapacity /\ Ascending(q)
        /\ DOMAIN cache[s] = {q[i] : i \in DOMAIN q}
    BY <2>1 DEF Inv, CachesOK, CacheCoherent, ToSet, OnceInv, QueuesAscend
  <2>7. q \in Seq(Nat) /\ DOMAIN q = 1..Len(q) /\ Len(q) \in Nat
    <3>0. q \in Seq(Ids) /\ DOMAIN q = 1..Len(q) /\ Len(q) \in Nat
      BY <2>6
    <3>1. \A i \in 1..Len(q) : q[i] \in Nat
      <4>1. \A i \in 1..Len(q) : q[i] \in Ids
        BY <3>0
      <4> QED BY <4>1, IdsNat
    <3>2. q = [i \in 1..Len(q) |-> q[i]]
      BY <2>6
    <3>3. q \in [1..Len(q) -> Nat]
      BY <3>1, <3>2
    <3> QED BY <3>0, <3>3, SeqDef
  <2>8. \A i \in 1..Len(q) : q[i] < id
    <3>1. ASSUME NEW i \in 1..Len(q) PROVE q[i] \in DOMAIN issued
      BY <2>6, <2>7 DEF OnceInv, QueuesAscend
    <3> QED BY <1>0, <3>1
  <2>9. /\ new \in Seq(Nat) /\ Ascending(new)
        /\ Len(q) = CacheCapacity => Len(new) = CacheCapacity /\ q[1] < new[1]
                                     /\ q[1] \in Nat /\ new[1] \in Nat
        /\ \A i \in 1..Len(q) : \/ \E j \in 1..Len(new) : new[j] = q[i]
                                \/ Len(new) = CacheCapacity /\ q[i] < new[1]
    BY <1>1, <2>2, <2>6, <2>7, <2>8, QueueStep
  <2>10. DOMAIN cache'[s] = {new[x] : x \in 1..Len(new)}
    <3>1. DOMAIN cache'[s] = ToSet(new)
      BY <2>4, <2>5 DEF CachesOK, CacheCoherent, ToSet
    <3>2. DOMAIN new = 1..Len(new)
      BY <2>9
    <3> QED BY <3>1, <3>2 DEF ToSet
  <2>11. QueuesAscend'
    <3>1. ASSUME NEW t \in Shards
          PROVE  Ascending(cacheOrder'[t]) /\ DOMAIN cache'[t] \subseteq DOMAIN issued'
      <4>1. CASE t = s
        BY <1>0, <2>4, <2>5, <2>9, <4>1 DEF OnceInv, QueuesAscend
      <4>2. CASE t # s
        BY <1>0, <2>4, <2>5, <4>2 DEF OnceInv, QueuesAscend
      <4> QED BY <4>1, <4>2
    <3> QED BY <3>1 DEF QueuesAscend, Ascending
  <2>12. ASSUME NEW k \in DOMAIN issued', NEW t \in Shards,
                issued'[k].type # "drain", t = ShardOf[RoomOf(issued'[k])], running[t]
         PROVE  \/ k \in DOMAIN cache'[t]
                \/ Len(cacheOrder'[t]) = CacheCapacity /\ k < cacheOrder'[t][1]
    <3>1. CASE k = id
      <4>1. t = s
        BY <1>0, <1>4, <2>12, <3>1 DEF Executes
      <4> QED BY <2>4, <3>1, <4>1
    <3>2. CASE k # id
      <4>1. k \in DOMAIN issued /\ issued'[k] = issued[k] /\ k \in Nat
        BY <1>0, <2>12, <3>2, IdsNat
      <4>2. \/ k \in DOMAIN cache[t]
            \/ Len(cacheOrder[t]) = CacheCapacity /\ k < cacheOrder[t][1]
        BY <2>12, <4>1 DEF OnceInv, Remembered
      <4>3. CASE t # s
        BY <2>4, <2>5, <4>2, <4>3
      <4>4. CASE t = s /\ k \in DOMAIN cache[s]
        <5>1. PICK i \in 1..Len(q) : k = q[i]
          BY <2>6, <2>7, <4>4
        <5>2. \/ \E j \in 1..Len(new) : new[j] = k
              \/ Len(new) = CacheCapacity /\ k < new[1]
          BY <2>9, <5>1
        <5> QED BY <2>5, <2>10, <4>4, <5>2
      <4>5. CASE t = s /\ Len(q) = CacheCapacity /\ k < q[1]
        BY <2>5, <2>9, <4>1, <4>5
      <4> QED BY <2>1, <4>2, <4>3, <4>4, <4>5
    <3> QED BY <3>1, <3>2
  <2>13. Remembered'
    BY <2>3, <2>12 DEF Remembered, RoomOf
  <2>14. AppliedWhenIssued'
    BY <1>0, <1>1, <2>3 DEF OnceInv, AppliedWhenIssued, Inv, RestOK
  <2> QED BY <2>11, <2>13, <2>14 DEF OnceInv
<1> QED BY <1>2, <1>3, <1>4, <1>0, DeliverKinds, IdsNat DEF Inv, Repeats

LEMMA OnceNext ==
    ASSUME Window <= CacheCapacity, ~MayRestart, Inv, OnceInv, [Next]_vars
    PROVE  OnceInv'
<1>1. ASSUME UNCHANGED shardVars, UNCHANGED <<applied, issued>>
      PROVE  OnceInv'
  <2>1. /\ cache' = cache /\ cacheOrder' = cacheOrder /\ running' = running
        /\ applied' = applied /\ issued' = issued
    BY <1>1 DEF shardVars
  <2> QED BY <2>1 DEF OnceInv, QueuesAscend, Ascending, Remembered, RoomOf, AppliedWhenIssued
<1>2. ASSUME NEW s \in Shards, StopShard(s)
      PROVE  OnceInv'
  <2>1. /\ cache' = [cache EXCEPT ![s] = <<>>] /\ cacheOrder' = [cacheOrder EXCEPT ![s] = <<>>]
        /\ running' = [running EXCEPT ![s] = FALSE] /\ applied' = applied /\ issued' = issued
    BY <1>2 DEF StopShard
  <2>2. DOMAIN cache = Shards /\ DOMAIN cacheOrder = Shards /\ DOMAIN running = Shards
    BY DEF Inv, CachesOK, RestOK
  <2>3. DOMAIN <<>> = {} /\ Ascending(<<>>)
    BY DEF Ascending
  <2>4. QueuesAscend'
    <3>1. ASSUME NEW t \in Shards
          PROVE  Ascending(cacheOrder'[t]) /\ DOMAIN cache'[t] \subseteq DOMAIN issued'
      <4>1. CASE t = s
        BY <2>1, <2>2, <2>3, <4>1
      <4>2. CASE t # s
        BY <2>1, <2>2, <4>2 DEF OnceInv, QueuesAscend
      <4> QED BY <4>1, <4>2
    <3> QED BY <3>1 DEF QueuesAscend, Ascending
  <2>5. ASSUME NEW k \in DOMAIN issued, NEW t \in Shards,
               issued[k].type # "drain", t = ShardOf[RoomOf(issued[k])], running'[t]
        PROVE  \/ k \in DOMAIN cache'[t]
               \/ Len(cacheOrder'[t]) = CacheCapacity /\ k < cacheOrder'[t][1]
    <3>1. t # s /\ running[t]
      BY <2>1, <2>2, <2>5
    <3>2. \/ k \in DOMAIN cache[t]
          \/ Len(cacheOrder[t]) = CacheCapacity /\ k < cacheOrder[t][1]
      BY <2>5, <3>1 DEF OnceInv, Remembered
    <3>3. cache'[t] = cache[t] /\ cacheOrder'[t] = cacheOrder[t]
      BY <2>1, <3>1
    <3> QED BY <3>2, <3>3
  <2>6. Remembered'
    BY <2>1, <2>5 DEF Remembered, RoomOf
  <2>7. AppliedWhenIssued'
    BY <2>1 DEF OnceInv, AppliedWhenIssued
  <2> QED BY <2>4, <2>6, <2>7 DEF OnceInv
<1>3. ASSUME NEW id \in Ids, Redeliver(id)
      PROVE  OnceInv'
  BY <1>1, <1>3, RepeatChangesNothing
<1>4. ASSUME NEW cmd \in Commands, Command(cmd)
      PROVE  OnceInv'
  BY <1>4, CommandOnce
<1>5. CASE RestartSignaling
  BY <1>5 DEF RestartSignaling
<1>6. CASE UNCHANGED vars
  BY <1>1, <1>6 DEF vars
<1> QED BY <1>2, <1>3, <1>4, <1>5, <1>6 DEF Next

\* A command is applied at most once however often it is delivered, for any
\* capacity of the command cache, any shards and any number of commands, if
\* signaling repeats no more of its latest commands than a cache holds and does
\* not restart.  The capacity is per shard, so the bound holds for the worker.
THEOREM AppliedOnceHolds ==
    ASSUME Window <= CacheCapacity, ~MayRestart PROVE Spec => []AppliedOnce
<1>1. Init => OnceInv
  <2> SUFFICES ASSUME Init PROVE OnceInv
    OBVIOUS
  <2>1. DOMAIN <<>> = {} /\ Ascending(<<>>)
    BY DEF Ascending
  <2>2. \A s \in Shards : cache[s] = <<>> /\ cacheOrder[s] = <<>>
    BY DEF Init
  <2>3. issued = <<>> /\ \A id \in Ids : applied[id] = 0
    BY DEF Init
  <2>4. QueuesAscend
    BY <2>1, <2>2 DEF QueuesAscend
  <2>5. Remembered
    BY <2>1, <2>3 DEF Remembered
  <2> QED BY <2>3, <2>4, <2>5 DEF OnceInv, AppliedWhenIssued
<1>2. Inv /\ OnceInv /\ [Next]_vars => OnceInv'
  BY OnceNext
<1>3. OnceInv => AppliedOnce
  BY DEF OnceInv, AppliedWhenIssued, AppliedOnce
<1> QED BY <1>1, <1>2, <1>3, Invariance, PTL DEF Spec
=============================================================================
