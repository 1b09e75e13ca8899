----------------------------- MODULE CallProofs -----------------------------
(***************************************************************************)
(* Proofs about Call for any number of peer connection clients open or     *)
(* being made at one time and of connectToRoom_ calls under way.           *)
(***************************************************************************)
EXTENDS Call, TLAPS

-----------------------------------------------------------------------------
(* The inductive invariant.  Its page part is about a page state s, so that *)
(* it can be followed through the methods of Call and AppController.        *)

Slots == Ids \cup {Null}
RoomModes == {"p2p", "sfu"}
CallTypes == [mode : Modes, sfuMode : BOOLEAN,
              pcClient : Slots, p2pPcClient : Slots, sfuPcClient : Slots,
              createPromise : Slots, downgradeTimer : BOOLEAN]
Client == [state : {"none", "open", "failed"}, handler : Handlers, started : BOOLEAN]
Waits == SUBSET (Starts \cup {"message"})
UiTypes == [layout : {"stage", "grid"}, page : Pages, pending : BOOLEAN, stray : BOOLEAN]
PageTypes == [call : CallTypes, clients : [Ids -> Client], waiting : [Ids -> Waits], ui : UiTypes]
ChannelTypes == [socket : Sockets, saved : BOOLEAN, registering : BOOLEAN, registered : BOOLEAN]

\* The stages of a connectToRoom_ that is not registered yet.
Early == {"joining", "opened", "refused", "joined", "register"}

\* The three fields that hold a client hold three different open ones, a
\* client that is being made is not there yet, and a promise that was kept
\* without a client is pending or has failed.
Basic(s) ==
    /\ s \in PageTypes
    /\ \A c \in {s.call.pcClient, s.call.p2pPcClient, s.call.sfuPcClient} :
          c # Null => s.clients[c].state = "open"
    /\ s.call.pcClient # Null => s.call.pcClient # s.call.p2pPcClient /\ s.call.pcClient # s.call.sfuPcClient
    /\ s.call.p2pPcClient # Null => s.call.p2pPcClient # s.call.sfuPcClient
    /\ \A i \in Ids : s.waiting[i] # {} => s.clients[i].state = "none"
    /\ s.call.pcClient = Null /\ s.call.createPromise # Null =>
          \/ s.waiting[s.call.createPromise] # {}
          \/ s.clients[s.call.createPromise].state = "failed"
    /\ ~s.call.sfuMode => s.call.p2pPcClient = Null

\* Whose the clients are: one that is being made is the current promise's, an
\* open one is the current one or a retained one, and only the current one, if
\* it was made for the SFU, has the SFU's handler.
Owned(s) ==
    /\ s.call.sfuMode <=> s.call.mode \in {"upgrading", "sfu"}
    /\ \A i \in Ids : s.waiting[i] # {} => i = s.call.createPromise /\ s.call.pcClient = Null
    /\ \A i \in Ids : s.clients[i].state = "open" =>
          i \in {s.call.pcClient, s.call.p2pPcClient, s.call.sfuPcClient}
    /\ \A i \in Ids : s.clients[i].handler = "sfu" => i = s.call.pcClient
    /\ s.call.pcClient # Null => (s.clients[s.call.pcClient].handler = "sfu" <=> s.call.sfuMode)

\* What is held for the end of a downgrade: the SFU client and the grid.
Held(s) ==
    /\ s.call.sfuPcClient # Null => s.call.mode = "downgrading" \/ s.ui.pending
    /\ ~s.ui.stray
    /\ s.ui.pending => s.call.mode = "p2p"
    /\ s.call.mode = "p2p" /\ ~s.ui.pending => s.ui.layout = "stage"

\* What a page keeps while every transition finds the previous one finished.
Orderly(s) == Owned(s) /\ Held(s)

\* A client is there or on its way, or can be asked for.
Live(s, ch) == ch.registered \/ s.call.pcClient # Null \/ \E i \in Ids : s.waiting[i] # {}

\* How the page, the joins and the channel go together then: nothing is left on
\* the rejoin page, no join overlaps a downgrade, one that is not yet registered
\* is alone and has no client, and only a join registers.
Connecting(s, cs, ch) ==
    /\ s.ui.page # "call" =>
          /\ s.call.mode # "downgrading" /\ ~s.ui.pending
          /\ \A i \in Ids : s.clients[i].state # "open" /\ s.waiting[i] = {}
          /\ \A j \in Joins : cs[j] = "none"
    /\ \A j \in Joins : cs[j] # "none" => s.call.mode # "downgrading" /\ ~s.ui.pending
    /\ \A j \in Joins : cs[j] \in Early =>
          /\ ~ch.registered /\ s.call.pcClient = Null
          /\ \A i \in Ids : s.waiting[i] = {}
          /\ \A k \in Joins : k # j => cs[k] = "none"
    /\ s.call.mode = "sfu" /\ Live(s, ch) /\ (\A j \in Joins : cs[j] = "none") => s.ui.layout = "grid"
    /\ s.ui.page = "call" => ch.socket # "null"
    /\ ch.socket = "null" => ~ch.registered
    /\ ch.socket \in {"null", "connecting"} => ~ch.saved
    /\ \A j \in Joins : cs[j] = "opened" => ch.socket # "connecting"
    /\ ch.registering => \E j \in Joins : cs[j] = "register"

Inv ==
    /\ Basic(Page)
    /\ connects \in [Joins -> Stages]
    /\ channel \in ChannelTypes /\ hub \in RoomModes
    /\ calm \in BOOLEAN
    /\ calm => Orderly(Page) /\ Connecting(Page, connects, channel)

-----------------------------------------------------------------------------
(* Records and their updates.                                               *)

LEMMA NullIsNoId == Null \notin Ids /\ Null \in Slots /\ \A i \in Ids : i \in Slots /\ i # Null
BY DEF Null, Ids, Slots

LEMMA PageFields ==
    ASSUME NEW s \in PageTypes
    PROVE  /\ s.call \in CallTypes /\ s.clients \in [Ids -> Client] /\ s.waiting \in [Ids -> Waits] /\ s.ui \in UiTypes
           /\ s.call.mode \in Modes /\ s.call.sfuMode \in BOOLEAN
           /\ s.call.pcClient \in Slots /\ s.call.p2pPcClient \in Slots /\ s.call.sfuPcClient \in Slots
           /\ s.call.createPromise \in Slots /\ s.call.downgradeTimer \in BOOLEAN
           /\ s.ui.layout \in {"stage", "grid"} /\ s.ui.page \in Pages /\ s.ui.pending \in BOOLEAN
           /\ s.ui.stray \in BOOLEAN
BY DEF PageTypes, CallTypes, UiTypes

LEMMA CallUpdates ==
    ASSUME NEW c \in CallTypes, NEW m \in Modes, NEW b \in BOOLEAN, NEW i \in Slots
    PROVE  /\ [c EXCEPT !.mode = m] \in CallTypes /\ [c EXCEPT !.sfuMode = b] \in CallTypes
           /\ [c EXCEPT !.pcClient = i] \in CallTypes
           /\ [c EXCEPT !.p2pPcClient = i] \in CallTypes /\ [c EXCEPT !.sfuPcClient = i] \in CallTypes
           /\ [c EXCEPT !.createPromise = i] \in CallTypes /\ [c EXCEPT !.downgradeTimer = b] \in CallTypes
BY DEF CallTypes

LEMMA PageUpdates ==
    ASSUME NEW s \in PageTypes, NEW c \in CallTypes, NEW k \in [Ids -> Client], NEW w \in [Ids -> Waits],
           NEW u \in UiTypes
    PROVE  /\ [s EXCEPT !.call = c] \in PageTypes /\ [s EXCEPT !.clients = k] \in PageTypes
           /\ [s EXCEPT !.waiting = w] \in PageTypes /\ [s EXCEPT !.ui = u] \in PageTypes
BY DEF PageTypes

LEMMA ClientRecords ==
    /\ NoClient \in Client /\ NoClient.state = "none" /\ NoClient.handler = "none"
    /\ Retired \in Client /\ Retired.state = "open" /\ Retired.handler = "none"
BY DEF NoClient, Retired, Client, Handlers

-----------------------------------------------------------------------------
(* The methods.                                                             *)

\* CloseClient on a client that no other field holds.
LEMMA Closed ==
    ASSUME NEW s \in PageTypes, NEW c \in Slots
    PROVE  LET t == CloseClient(s, c)
           IN  /\ t \in PageTypes /\ t.call = s.call /\ t.waiting = s.waiting /\ t.ui = s.ui
               /\ \A i \in Ids : t.clients[i] = IF i = c THEN NoClient ELSE s.clients[i]
<1>1. CASE c = Null
  <2>1. CloseClient(s, c) = s
    BY <1>1 DEF CloseClient
  <2> QED BY <1>1, <2>1, NullIsNoId
<1>2. CASE c # Null
  <2>1. c \in Ids
    BY <1>2 DEF Slots
  <2>2. PICK k : k = [s.clients EXCEPT ![c] = NoClient]
    OBVIOUS
  <2>3. k \in [Ids -> Client] /\ \A i \in Ids : k[i] = IF i = c THEN NoClient ELSE s.clients[i]
    BY <2>1, <2>2, PageFields, ClientRecords
  <2>4. CloseClient(s, c) = [s EXCEPT !.clients = k]
    BY <1>2, <2>2 DEF CloseClient
  <2>5. PICK t : t = [s EXCEPT !.clients = k]
    OBVIOUS
  <2>6. t \in PageTypes /\ t.call = s.call /\ t.waiting = s.waiting /\ t.ui = s.ui /\ t.clients = k
    BY <2>3, <2>5 DEF PageTypes
  <2> QED BY <2>3, <2>4, <2>5, <2>6
<1> QED BY <1>1, <1>2

\* maybeCreatePcClientAsync_ as the page sees it.
LEMMA MaybeCreateFits ==
    ASSUME NEW s, NEW start \in Starts \cup {"message"}, Basic(s), CanCreate(s)
    PROVE  LET t == maybeCreatePcClient(s, start)
           IN  /\ Basic(t) /\ t.ui = s.ui /\ t.call.mode = s.call.mode
               /\ Orderly(s) => Orderly(t)
<1>0. s \in PageTypes
  BY DEF Basic
<1>1. CASE s.call.pcClient # Null
  <2>1. PICK p : p = s.call.pcClient
    OBVIOUS
  <2>2. p \in Ids
    BY <1>0, <1>1, <2>1, PageFields DEF Slots
  <2>3. PICK r : r = [s.clients[p] EXCEPT !.started = TRUE]
    OBVIOUS
  <2>4. /\ r \in Client /\ r.state = s.clients[p].state /\ r.handler = s.clients[p].handler
    <3>1. s.clients[p] \in Client
      BY <1>0, <2>2, PageFields
    <3> QED BY <2>3, <3>1 DEF Client
  <2>5. PICK k : k = [s.clients EXCEPT ![p] = r]
    OBVIOUS
  <2>6. /\ k \in [Ids -> Client]
        /\ \A i \in Ids : k[i].state = s.clients[i].state /\ k[i].handler = s.clients[i].handler
    BY <1>0, <2>2, <2>4, <2>5, PageFields
  <2>7. PICK t : t = [s EXCEPT !.clients = k]
    OBVIOUS
  <2>8. t \in PageTypes /\ t.call = s.call /\ t.waiting = s.waiting /\ t.ui = s.ui /\ t.clients = k
    BY <1>0, <2>6, <2>7 DEF PageTypes
  <2>9. t = maybeCreatePcClient(s, start)
    BY <1>0, <1>1, <2>1, <2>3, <2>5, <2>7 DEF maybeCreatePcClient, PageTypes
  <2>10. /\ s.call.pcClient \in Slots /\ s.call.p2pPcClient \in Slots /\ s.call.sfuPcClient \in Slots
         /\ s.call.createPromise \in Slots /\ \A c \in Slots : c # Null => c \in Ids
    BY <1>0, PageFields DEF Slots
  <2>11. Basic(t)
    BY <1>1, <2>6, <2>8, <2>10 DEF Basic
  <2>12. Orderly(s) => Orderly(t)
    BY <2>6, <2>8, <2>10 DEF Orderly, Owned, Held
  <2> QED BY <2>8, <2>9, <2>11, <2>12
<1>2. CASE s.call.pcClient = Null /\ s.call.createPromise # Null
  <2>1. PICK p : p = s.call.createPromise
    OBVIOUS
  <2>2. p \in Ids
    BY <1>0, <1>2, <2>1, PageFields DEF Slots
  <2>3. CASE s.clients[p].state = "failed"
    <3>1. maybeCreatePcClient(s, start) = s
      BY <1>2, <2>1, <2>3 DEF maybeCreatePcClient
    <3> QED BY <3>1
  <2>4. CASE s.clients[p].state # "failed"
    <3>1. PICK w : w = [s.waiting EXCEPT ![p] = (s.waiting[p] \ {"message"}) \cup {start}]
      OBVIOUS
    <3>2. w \in [Ids -> Waits] /\ \A i \in Ids : w[i] # {} <=> s.waiting[i] # {}
      <4>1. s.waiting[p] # {}
        BY <1>2, <2>1, <2>4 DEF Basic
      <4>2. (s.waiting[p] \ {"message"}) \cup {start} \in Waits
        BY <1>0, <2>2, PageFields DEF Waits
      <4> QED BY <1>0, <2>2, <3>1, <4>1, <4>2, PageFields
    <3>3. PICK t : t = [s EXCEPT !.waiting = w]
      OBVIOUS
    <3>4. t \in PageTypes /\ t.call = s.call /\ t.waiting = w /\ t.ui = s.ui /\ t.clients = s.clients
      BY <1>0, <3>2, <3>3 DEF PageTypes
    <3>5. t = maybeCreatePcClient(s, start)
      BY <1>0, <1>2, <2>1, <2>4, <3>1, <3>3 DEF maybeCreatePcClient, PageTypes
    <3>6. Basic(t)
      BY <1>2, <2>1, <2>2, <3>2, <3>4 DEF Basic
    <3>7. Orderly(s) => Orderly(t)
      BY <3>2, <3>4 DEF Orderly, Owned, Held
    <3> QED BY <3>4, <3>5, <3>6, <3>7
  <2> QED BY <2>3, <2>4
<1>3. CASE s.call.pcClient = Null /\ s.call.createPromise = Null
  <2>1. PICK f : f = Fresh(s)
    OBVIOUS
  <2>2. f \in Ids /\ s.waiting[f] = {} /\ s.clients[f].state # "open" /\ f \in Slots /\ f # Null
    <3>1. f \in Unused(s)
      BY <1>3, <2>1 DEF Fresh, CanCreate
    <3>2. f \in Ids /\ s.waiting[f] = {} /\ Forget(s)[f].state = "none"
      BY <3>1 DEF Unused
    <3>3. s.clients[f].state = "failed" \/ Forget(s)[f] = s.clients[f]
      BY <3>2 DEF Forget
    <3> QED BY <3>2, <3>3, NullIsNoId
  <2>3. PICK c : c = [s.call EXCEPT !.createPromise = f]
    OBVIOUS
  <2>4. /\ c \in CallTypes /\ c.createPromise = f /\ c.mode = s.call.mode /\ c.sfuMode = s.call.sfuMode
        /\ c.pcClient = s.call.pcClient /\ c.p2pPcClient = s.call.p2pPcClient
        /\ c.sfuPcClient = s.call.sfuPcClient
    BY <1>0, <2>2, <2>3, PageFields DEF CallTypes
  <2>5. PICK w : w = [s.waiting EXCEPT ![f] = {start}]
    OBVIOUS
  <2>6. /\ w \in [Ids -> Waits] /\ w[f] # {}
        /\ \A i \in Ids : i # f => w[i] = s.waiting[i]
    <3>1. {start} \in Waits
      BY DEF Waits
    <3> QED BY <1>0, <2>2, <2>5, <3>1, PageFields
  <2>7. PICK k : k = [s.clients EXCEPT ![f] = NoClient]
    OBVIOUS
  <2>8. /\ k \in [Ids -> Client] /\ k[f].state = "none" /\ k[f].handler = "none"
        /\ \A i \in Ids : i # f => k[i] = s.clients[i]
    BY <1>0, <2>2, <2>7, PageFields, ClientRecords
  <2>9. PICK t : t = [s EXCEPT !.call = c, !.waiting = w, !.clients = k]
    OBVIOUS
  <2>10. t \in PageTypes /\ t.call = c /\ t.waiting = w /\ t.ui = s.ui /\ t.clients = k
    BY <1>0, <2>4, <2>6, <2>8, <2>9 DEF PageTypes
  <2>11. t = maybeCreatePcClient(s, start)
    BY <1>0, <1>3, <2>1, <2>3, <2>5, <2>7, <2>9 DEF maybeCreatePcClient, PageTypes
  <2>12. /\ s.call.p2pPcClient \in Slots /\ s.call.sfuPcClient \in Slots
         /\ \A d \in Slots : d # Null => d \in Ids
         /\ s.call.p2pPcClient # f /\ s.call.sfuPcClient # f
    <3>1. s.call.p2pPcClient \in Slots /\ s.call.sfuPcClient \in Slots
      BY <1>0, PageFields
    <3> QED BY <2>2, <3>1 DEF Basic, Slots
  <2>13. Basic(t)
    <3>1. \A d \in {t.call.pcClient, t.call.p2pPcClient, t.call.sfuPcClient} :
            d # Null => t.clients[d].state = "open"
      BY <1>3, <2>4, <2>8, <2>10, <2>12 DEF Basic
    <3>2. \A i \in Ids : t.waiting[i] # {} => t.clients[i].state = "none"
      BY <2>6, <2>8, <2>10 DEF Basic
    <3> QED BY <1>3, <2>4, <2>6, <2>10, <3>1, <3>2 DEF Basic
  <2>14. ASSUME Orderly(s)
         PROVE  Orderly(t)
    <3>1. \A i \in Ids : s.waiting[i] = {}
      BY <1>3, <2>14, NullIsNoId DEF Orderly, Owned
    <3>2. Owned(t)
      <4>1. Owned(s) /\ s.call.pcClient = Null
        BY <1>3, <2>14 DEF Orderly
      <4>2. \A i \in Ids : t.waiting[i] # {} => i = t.call.createPromise /\ t.call.pcClient = Null
        BY <2>4, <2>6, <2>10, <3>1, <4>1
      <4>3. \A i \in Ids : t.clients[i].state = "open" =>
               i \in {t.call.pcClient, t.call.p2pPcClient, t.call.sfuPcClient}
        BY <2>4, <2>8, <2>10, <4>1 DEF Owned
      <4>4. \A i \in Ids : t.clients[i].handler = "sfu" => i = t.call.pcClient
        BY <2>4, <2>8, <2>10, <4>1 DEF Owned
      <4> QED BY <2>4, <2>10, <4>1, <4>2, <4>3, <4>4 DEF Owned
    <3>3. Held(t)
      BY <2>4, <2>10, <2>14 DEF Orderly, Held
    <3> QED BY <3>2, <3>3 DEF Orderly
  <2> QED BY <2>4, <2>10, <2>11, <2>13, <2>14
<1> QED BY <1>1, <1>2, <1>3

\* releaseRetiredSfuTransport as the page sees it.
LEMMA Released ==
    ASSUME NEW s \in PageTypes
    PROVE  LET t == releaseRetiredSfuTransport(s)
           IN  /\ t \in PageTypes /\ t.waiting = s.waiting /\ t.ui = s.ui
               /\ t.call = [s.call EXCEPT !.sfuPcClient = Null]
               /\ \A i \in Ids : t.clients[i] = IF i = s.call.sfuPcClient THEN NoClient ELSE s.clients[i]
<1>1. PICK u : u = CloseClient(s, s.call.sfuPcClient)
  OBVIOUS
<1>2. /\ u \in PageTypes /\ u.call = s.call /\ u.waiting = s.waiting /\ u.ui = s.ui
      /\ \A i \in Ids : u.clients[i] = IF i = s.call.sfuPcClient THEN NoClient ELSE s.clients[i]
  BY <1>1, Closed, PageFields
<1>3. PICK c : c = [s.call EXCEPT !.sfuPcClient = Null]
  OBVIOUS
<1>4. c \in CallTypes
  BY <1>3, PageFields, CallUpdates, NullIsNoId
<1>5. PICK t : t = [u EXCEPT !.call = c]
  OBVIOUS
<1>6. t \in PageTypes /\ t.call = c /\ t.waiting = u.waiting /\ t.ui = u.ui /\ t.clients = u.clients
  BY <1>2, <1>4, <1>5 DEF PageTypes
<1>7. t = releaseRetiredSfuTransport(s)
  BY <1>1, <1>2, <1>3, <1>5 DEF releaseRetiredSfuTransport, PageTypes
<1> QED BY <1>2, <1>3, <1>6, <1>7

\* completeP2pLayout ends the hold and closes the retained SFU client.
LEMMA Completed ==
    ASSUME NEW s, Basic(s)
    PROVE  LET t == completeP2pLayout(s)
           IN  /\ Basic(t) /\ t.waiting = s.waiting /\ t.ui.page = s.ui.page
               /\ t.call.mode = s.call.mode /\ t.call.pcClient = s.call.pcClient
               /\ ~t.ui.pending /\ t.ui.layout = "stage"
               /\ \A i \in Ids : t.clients[i].state = "open" => s.clients[i].state = "open"
               /\ Owned(s) => Owned(t)
               /\ ~s.ui.stray => Held(t)
<1>0. s \in PageTypes
  BY DEF Basic
<1>1. PICK v : v = [s.ui EXCEPT !.pending = FALSE, !.layout = "stage"]
  OBVIOUS
<1>2. v \in UiTypes /\ v.page = s.ui.page /\ v.stray = s.ui.stray /\ ~v.pending /\ v.layout = "stage"
  BY <1>0, <1>1, PageFields DEF UiTypes
<1>3. PICK u : u = [s EXCEPT !.ui = v]
  OBVIOUS
<1>4. u \in PageTypes /\ u.call = s.call /\ u.waiting = s.waiting /\ u.ui = v /\ u.clients = s.clients
  BY <1>0, <1>2, <1>3 DEF PageTypes
<1>5. u = [clearP2pLayoutHold(s) EXCEPT !.ui.layout = "stage"]
  BY <1>0, <1>1, <1>3 DEF clearP2pLayoutHold, PageTypes, UiTypes
<1>6. PICK t : t = releaseRetiredSfuTransport(u)
  OBVIOUS
<1>7. t = completeP2pLayout(s)
  BY <1>5, <1>6 DEF completeP2pLayout
<1>8. /\ t \in PageTypes /\ t.waiting = s.waiting /\ t.ui = v
      /\ t.call = [s.call EXCEPT !.sfuPcClient = Null]
      /\ \A i \in Ids : t.clients[i] = IF i = s.call.sfuPcClient THEN NoClient ELSE s.clients[i]
  BY <1>4, <1>6, Released
<1>9. /\ t.call.mode = s.call.mode /\ t.call.sfuMode = s.call.sfuMode
      /\ t.call.pcClient = s.call.pcClient /\ t.call.p2pPcClient = s.call.p2pPcClient
      /\ t.call.sfuPcClient = Null /\ t.call.createPromise = s.call.createPromise
  BY <1>0, <1>8, PageFields DEF CallTypes
<1>10. /\ s.call.pcClient \in Slots /\ s.call.p2pPcClient \in Slots /\ s.call.sfuPcClient \in Slots
       /\ s.call.createPromise \in Slots /\ \A c \in Slots : c # Null => c \in Ids
  BY <1>0, PageFields DEF Slots
<1>11. \A i \in Ids : /\ i # s.call.sfuPcClient => t.clients[i] = s.clients[i]
                      /\ i = s.call.sfuPcClient => t.clients[i].state = "none" /\ t.clients[i].handler = "none"
                      /\ i = s.call.sfuPcClient => s.clients[i].state = "open"
  BY <1>8, ClientRecords, NullIsNoId DEF Basic
<1>12. Basic(t)
  <2>1. \A c \in {t.call.pcClient, t.call.p2pPcClient, t.call.sfuPcClient} :
          c # Null => t.clients[c].state = "open"
    BY <1>9, <1>10, <1>11 DEF Basic
  <2>2. t.call.pcClient = Null /\ t.call.createPromise # Null =>
          \/ t.waiting[t.call.createPromise] # {}
          \/ t.clients[t.call.createPromise].state = "failed"
    BY <1>8, <1>9, <1>10, <1>11 DEF Basic
  <2>3. \A i \in Ids : t.waiting[i] # {} => t.clients[i].state = "none"
    BY <1>8, <1>11 DEF Basic
  <2> QED BY <1>8, <1>9, <2>1, <2>2, <2>3 DEF Basic
<1>13. Owned(s) => Owned(t)
  BY <1>8, <1>9, <1>10, <1>11 DEF Owned, Basic
<1>14. ~s.ui.stray => Held(t)
  BY <1>2, <1>8, <1>9 DEF Held
<1> QED BY <1>2, <1>7, <1>8, <1>9, <1>11, <1>12, <1>13, <1>14

\* closePcClient closes the current client and nothing else.
LEMMA ClosedCurrent ==
    ASSUME NEW s, Basic(s)
    PROVE  LET t == closePcClient(s)
           IN  /\ Basic(t) /\ t.waiting = s.waiting /\ t.ui = s.ui
               /\ t.call.mode = s.call.mode /\ t.call.pcClient = Null
               /\ t.call.sfuMode = s.call.sfuMode
               /\ t.call.p2pPcClient = s.call.p2pPcClient /\ t.call.sfuPcClient = s.call.sfuPcClient
               /\ \A i \in Ids : t.clients[i] = IF i = s.call.pcClient THEN NoClient ELSE s.clients[i]
               /\ Owned(s) => Owned(t)
<1>0. s \in PageTypes
  BY DEF Basic
<1>1. CASE s.call.pcClient = Null
  <2>1. closePcClient(s) = s
    BY <1>1 DEF closePcClient
  <2> QED BY <1>1, <2>1, NullIsNoId
<1>2. CASE s.call.pcClient # Null
  <2>1. PICK u : u = CloseClient(s, s.call.pcClient)
    OBVIOUS
  <2>2. /\ u \in PageTypes /\ u.call = s.call /\ u.waiting = s.waiting /\ u.ui = s.ui
        /\ \A i \in Ids : u.clients[i] = IF i = s.call.pcClient THEN NoClient ELSE s.clients[i]
    BY <1>0, <2>1, Closed, PageFields
  <2>3. PICK c : c = [s.call EXCEPT !.pcClient = Null, !.createPromise = Null]
    OBVIOUS
  <2>4. /\ c \in CallTypes /\ c.mode = s.call.mode /\ c.sfuMode = s.call.sfuMode
        /\ c.pcClient = Null /\ c.createPromise = Null
        /\ c.p2pPcClient = s.call.p2pPcClient /\ c.sfuPcClient = s.call.sfuPcClient
    BY <1>0, <2>3, PageFields, NullIsNoId DEF CallTypes
  <2>5. PICK t : t = [u EXCEPT !.call = c]
    OBVIOUS
  <2>6. t \in PageTypes /\ t.call = c /\ t.waiting = u.waiting /\ t.ui = u.ui /\ t.clients = u.clients
    BY <2>2, <2>4, <2>5 DEF PageTypes
  <2>7. t = closePcClient(s)
    BY <1>2, <2>1, <2>2, <2>3, <2>5 DEF closePcClient, PageTypes, CallTypes
  <2>8. /\ s.call.pcClient \in Ids /\ s.call.p2pPcClient \in Slots /\ s.call.sfuPcClient \in Slots
        /\ \A d \in Slots : d # Null => d \in Ids
    BY <1>0, <1>2, PageFields DEF Slots
  <2>9. \A i \in Ids : /\ i # s.call.pcClient => t.clients[i] = s.clients[i]
                       /\ i = s.call.pcClient => t.clients[i].state = "none" /\ t.clients[i].handler = "none"
                       /\ i = s.call.pcClient => s.clients[i].state = "open"
    BY <1>2, <2>2, <2>6, ClientRecords DEF Basic
  <2>10. Basic(t)
    <3>1. \A d \in {t.call.pcClient, t.call.p2pPcClient, t.call.sfuPcClient} :
            d # Null => t.clients[d].state = "open"
      BY <1>2, <2>4, <2>6, <2>8, <2>9 DEF Basic
    <3>2. \A i \in Ids : t.waiting[i] # {} => t.clients[i].state = "none"
      BY <2>2, <2>6, <2>9 DEF Basic
    <3> QED BY <2>4, <2>6, <3>1, <3>2 DEF Basic
  <2>11. Owned(s) => Owned(t)
    BY <1>2, <2>2, <2>4, <2>6, <2>8, <2>9 DEF Owned, Basic
  <2> QED BY <2>2, <2>4, <2>6, <2>7, <2>10, <2>11
<1> QED BY <1>1, <1>2

\* finishSfuDowngrade ends a downgrade and does nothing outside one.
LEMMA Finished ==
    ASSUME NEW s, Basic(s), NEW playable \in BOOLEAN
    PROVE  LET t == finishSfuDowngrade(s, playable)
           IN  /\ Basic(t) /\ t.ui.page = s.ui.page
               /\ s.call.mode # "downgrading" => t = s
               /\ s.call.mode = "downgrading" => t.call.mode = "p2p"
               /\ Orderly(s) => Orderly(t)
<1>0. s \in PageTypes
  BY DEF Basic
<1>1. CASE s.call.mode # "downgrading"
  <2>1. finishSfuDowngrade(s, playable) = s
    BY <1>1 DEF finishSfuDowngrade
  <2> QED BY <1>1, <2>1
<1>2. CASE s.call.mode = "downgrading"
  <2>1. PICK c : c = [s.call EXCEPT !.downgradeTimer = FALSE, !.mode = "p2p"]
    OBVIOUS
  <2>2. /\ c \in CallTypes /\ c.mode = "p2p" /\ c.sfuMode = s.call.sfuMode
        /\ c.pcClient = s.call.pcClient /\ c.createPromise = s.call.createPromise
        /\ c.p2pPcClient = s.call.p2pPcClient /\ c.sfuPcClient = s.call.sfuPcClient
    BY <1>0, <2>1, PageFields DEF CallTypes, Modes
  <2>3. PICK u : u = [s EXCEPT !.call = c]
    OBVIOUS
  <2>4. u \in PageTypes /\ u.call = c /\ u.waiting = s.waiting /\ u.ui = s.ui /\ u.clients = s.clients
    BY <1>0, <2>2, <2>3 DEF PageTypes
  <2>5. u = [s EXCEPT !.call.downgradeTimer = FALSE, !.call.mode = "p2p"]
    BY <1>0, <2>1, <2>3 DEF PageTypes, CallTypes
  <2>6. Basic(u)
    BY <2>2, <2>4 DEF Basic
  <2>7. Owned(s) => Owned(u)
    BY <1>2, <2>2, <2>4 DEF Owned
  <2>8. CASE playable \/ s.ui.layout = "stage"
    <3>1. finishSfuDowngrade(s, playable) = completeP2pLayout(u)
      BY <1>2, <2>5, <2>8 DEF finishSfuDowngrade
    <3>2. PICK t : t = completeP2pLayout(u)
      OBVIOUS
    <3>3. /\ Basic(t) /\ t.ui.page = u.ui.page /\ t.call.mode = u.call.mode
          /\ Owned(u) => Owned(t)
          /\ ~u.ui.stray => Held(t)
      BY <2>6, <3>2, Completed
    <3>4. Orderly(s) => Orderly(t)
      BY <2>4, <2>7, <3>3 DEF Orderly, Held
    <3> QED BY <1>2, <2>2, <2>4, <3>1, <3>2, <3>3, <3>4
  <2>9. CASE ~(playable \/ s.ui.layout = "stage")
    <3>1. finishSfuDowngrade(s, playable) = holdP2pLayout(u)
      BY <1>2, <2>5, <2>9 DEF finishSfuDowngrade
    <3>2. PICK v : v = [s.ui EXCEPT !.pending = TRUE, !.stray = s.ui.stray \/ s.ui.pending]
      OBVIOUS
    <3>3. /\ v \in UiTypes /\ v.page = s.ui.page /\ v.pending /\ (v.stray <=> s.ui.stray \/ s.ui.pending)
      BY <1>0, <3>2, PageFields DEF UiTypes
    <3>4. PICK t : t = [u EXCEPT !.ui = v]
      OBVIOUS
    <3>5. t \in PageTypes /\ t.call = c /\ t.waiting = s.waiting /\ t.ui = v /\ t.clients = s.clients
      BY <2>4, <3>3, <3>4 DEF PageTypes
    <3>6. t = holdP2pLayout(u)
      BY <1>0, <2>4, <3>2, <3>4 DEF holdP2pLayout, PageTypes, UiTypes
    <3>7. Basic(t)
      BY <2>4, <2>6, <3>5 DEF Basic
    <3>8. Orderly(s) => Orderly(t)
      <4>1. Owned(u) => Owned(t)
        BY <2>4, <3>5 DEF Owned
      <4>2. Held(s) => Held(t)
        BY <1>2, <2>2, <3>3, <3>5 DEF Held
      <4> QED BY <2>7, <4>1, <4>2 DEF Orderly
    <3> QED BY <1>2, <2>2, <3>1, <3>3, <3>5, <3>6, <3>7, <3>8
  <2> QED BY <2>8, <2>9
<1> QED BY <1>1, <1>2

\* onSfuIceConnectionStateChange completes an upgrade: the P2P client is closed.
LEMMA UpgradeCompleted ==
    ASSUME NEW s, Basic(s)
    PROVE  LET t == onSfuIceConnectionStateChange(s)
           IN  /\ Basic(t) /\ t.waiting = s.waiting /\ t.ui.page = s.ui.page
               /\ t.ui.pending = s.ui.pending /\ t.call.pcClient = s.call.pcClient
               /\ \/ t = s
                  \/ t.call.mode = "sfu" /\ t.ui.layout = "grid"
               /\ Orderly(s) /\ s.call.sfuMode => Orderly(t)
<1>0. s \in PageTypes
  BY DEF Basic
<1>1. CASE ~CanBeConnected(s)
  <2>1. onSfuIceConnectionStateChange(s) = s
    BY <1>1 DEF onSfuIceConnectionStateChange
  <2> QED BY <2>1
<1>2. CASE CanBeConnected(s)
  <2>1. PICK u : u = CloseClient(s, s.call.p2pPcClient)
    OBVIOUS
  <2>2. /\ u \in PageTypes /\ u.call = s.call /\ u.waiting = s.waiting /\ u.ui = s.ui
        /\ \A i \in Ids : u.clients[i] = IF i = s.call.p2pPcClient THEN NoClient ELSE s.clients[i]
    BY <1>0, <2>1, Closed, PageFields
  <2>3. PICK c : c = [s.call EXCEPT !.p2pPcClient = Null, !.mode = "sfu"]
    OBVIOUS
  <2>4. /\ c \in CallTypes /\ c.mode = "sfu" /\ c.sfuMode = s.call.sfuMode
        /\ c.pcClient = s.call.pcClient /\ c.createPromise = s.call.createPromise
        /\ c.p2pPcClient = Null /\ c.sfuPcClient = s.call.sfuPcClient
    BY <1>0, <2>3, PageFields, NullIsNoId DEF CallTypes, Modes
  <2>5. PICK v : v = [s.ui EXCEPT !.layout = "grid"]
    OBVIOUS
  <2>6. /\ v \in UiTypes /\ v.page = s.ui.page /\ v.pending = s.ui.pending /\ v.stray = s.ui.stray
        /\ v.layout = "grid"
    BY <1>0, <2>5, PageFields DEF UiTypes
  <2>7. PICK t : t = [u EXCEPT !.call = c, !.ui = v]
    OBVIOUS
  <2>8. t \in PageTypes /\ t.call = c /\ t.waiting = s.waiting /\ t.ui = v /\ t.clients = u.clients
    BY <2>2, <2>4, <2>6, <2>7 DEF PageTypes
  <2>9. t = onSfuIceConnectionStateChange(s)
    BY <1>2, <2>1, <2>2, <2>3, <2>5, <2>7 DEF onSfuIceConnectionStateChange, PageTypes, CallTypes
  <2>10. /\ s.call.pcClient \in Slots /\ s.call.p2pPcClient \in Slots /\ s.call.sfuPcClient \in Slots
         /\ s.call.createPromise \in Slots /\ \A d \in Slots : d # Null => d \in Ids
    BY <1>0, PageFields DEF Slots
  <2>11. \A i \in Ids : /\ i # s.call.p2pPcClient => t.clients[i] = s.clients[i]
                        /\ i = s.call.p2pPcClient => t.clients[i].state = "none" /\ t.clients[i].handler = "none"
                        /\ i = s.call.p2pPcClient => s.clients[i].state = "open"
    BY <2>2, <2>8, ClientRecords, NullIsNoId DEF Basic
  <2>12. Basic(t)
    <3>1. \A d \in {t.call.pcClient, t.call.p2pPcClient, t.call.sfuPcClient} :
            d # Null => t.clients[d].state = "open"
      BY <2>4, <2>8, <2>10, <2>11 DEF Basic
    <3>2. t.call.pcClient # Null
      BY <1>2, <2>4, <2>8 DEF CanBeConnected
    <3>3. \A i \in Ids : t.waiting[i] # {} => t.clients[i].state = "none"
      BY <2>8, <2>11 DEF Basic
    <3> QED BY <2>4, <2>8, <3>1, <3>2, <3>3 DEF Basic
  <2>13. ASSUME Orderly(s), s.call.sfuMode
         PROVE  Orderly(t)
    <3>1. Owned(t)
      <4>1. Owned(s) /\ s.call.sfuMode = TRUE
        BY <1>0, <2>13, PageFields DEF Orderly
      <4>2. \A i \in Ids : t.clients[i].state = "open" =>
               i \in {t.call.pcClient, t.call.p2pPcClient, t.call.sfuPcClient}
        BY <2>4, <2>8, <2>11, <4>1 DEF Owned
      <4>3. \A i \in Ids : t.clients[i].handler = "sfu" => i = t.call.pcClient
        BY <2>4, <2>8, <2>11, <4>1 DEF Owned
      <4>4. t.call.pcClient # Null => (t.clients[t.call.pcClient].handler = "sfu" <=> t.call.sfuMode)
        BY <2>4, <2>8, <2>10, <2>11, <4>1 DEF Owned, Basic
      <4> QED BY <2>4, <2>8, <4>1, <4>2, <4>3, <4>4 DEF Owned
    <3>2. Held(t)
      BY <2>4, <2>6, <2>8, <2>13 DEF Orderly, Owned, Held
    <3> QED BY <3>1, <3>2 DEF Orderly
  <2> QED BY <2>4, <2>6, <2>8, <2>9, <2>12, <2>13
<1> QED BY <1>1, <1>2

-----------------------------------------------------------------------------
(* Steps.                                                                   *)

\* The step does not lead into SFU mode.
KeepsOutOfSfu == call'.mode = "sfu" => call.mode = "sfu"

\* A step takes the page to s, less the failed promises nobody holds.
LEMMA PageStep ==
    ASSUME NEW s, Basic(s), Become(s), connects' \in [Joins -> Stages],
           channel' \in ChannelTypes /\ hub' \in RoomModes, calm' \in BOOLEAN,
           calm' => Orderly(s) /\ Connecting(s, connects', channel')
    PROVE  Inv'
<1>0. s \in PageTypes
  BY DEF Basic
<1>1. PICK t : t = [call |-> s.call, clients |-> Forget(s), waiting |-> s.waiting, ui |-> s.ui]
  OBVIOUS
<1>2. Page' = t
  BY <1>1 DEF Become, Page
<1>3. t.call = s.call /\ t.clients = Forget(s) /\ t.waiting = s.waiting /\ t.ui = s.ui
  BY <1>1
<1>4. /\ Forget(s) \in [Ids -> Client]
      /\ \A i \in Ids : s.clients[i].state # "failed" => Forget(s)[i] = s.clients[i]
      /\ Forget(s)[s.call.createPromise] = s.clients[s.call.createPromise] \/ s.call.createPromise \notin Ids
      /\ \A i \in Ids : Forget(s)[i] = s.clients[i]
                        \/ (Forget(s)[i].state = "none" /\ Forget(s)[i].handler = "none")
  <2>1. PICK k : k = Forget(s)
    OBVIOUS
  <2>2. /\ DOMAIN k = Ids
        /\ k = [i \in Ids |-> IF s.clients[i].state = "failed" /\ s.call.createPromise # i
                              THEN NoClient ELSE s.clients[i]]
    BY <2>1 DEF Forget
  <2>3. k \in [Ids -> Client]
    BY <1>0, <2>2, PageFields, ClientRecords
  <2>4. \A i \in Ids : k[i] = s.clients[i] \/ (s.clients[i].state = "failed" /\ s.call.createPromise # i /\ k[i] = NoClient)
    BY <2>2
  <2>5. \A i \in Ids : s.clients[i].state # "failed" => k[i] = s.clients[i]
    BY <2>4
  <2>6. k[s.call.createPromise] = s.clients[s.call.createPromise] \/ s.call.createPromise \notin Ids
    BY <2>4
  <2>7. \A i \in Ids : k[i] = s.clients[i] \/ (k[i].state = "none" /\ k[i].handler = "none")
    BY <2>4, ClientRecords
  <2> QED BY <2>1, <2>3, <2>5, <2>6, <2>7
<1>5. t \in PageTypes
  BY <1>0, <1>1, <1>4, PageFields DEF PageTypes
<1>6. /\ s.call.pcClient \in Slots /\ s.call.p2pPcClient \in Slots /\ s.call.sfuPcClient \in Slots
      /\ s.call.createPromise \in Slots /\ \A d \in Slots : d # Null => d \in Ids
  BY <1>0, PageFields DEF Slots
<1>7. Basic(t)
  <2>1. \A c \in {s.call.pcClient, s.call.p2pPcClient, s.call.sfuPcClient} :
          c # Null => c \in Ids /\ t.clients[c].state = "open"
    BY <1>3, <1>4, <1>6 DEF Basic
  <2>2. \A i \in Ids : t.waiting[i] # {} => t.clients[i].state = "none"
    BY <1>3, <1>4 DEF Basic
  <2>3. s.call.pcClient = Null /\ s.call.createPromise # Null =>
          \/ t.waiting[s.call.createPromise] # {}
          \/ t.clients[s.call.createPromise].state = "failed"
    BY <1>3, <1>4, <1>6 DEF Basic
  <2> QED BY <1>3, <1>5, <2>1, <2>2, <2>3 DEF Basic
<1>8. ASSUME Orderly(s)
      PROVE  Orderly(t)
  <2>1. s.call.pcClient # Null => t.clients[s.call.pcClient] = s.clients[s.call.pcClient]
    BY <1>3, <1>4, <1>6 DEF Basic
  <2> QED BY <1>3, <1>4, <1>8, <2>1 DEF Orderly, Owned, Held
<1>9. ASSUME Connecting(s, connects', channel')
      PROVE  Connecting(t, connects', channel')
  <2>1. Live(t, channel') => Live(s, channel')
    BY <1>3 DEF Live
  <2>2. \A i \in Ids : t.clients[i].state = "open" => s.clients[i].state = "open"
    BY <1>3, <1>4
  <2> QED BY <1>3, <1>9, <2>1, <2>2 DEF Connecting
<1>10. Basic(Page)' /\ (calm' => Orderly(Page)' /\ Connecting(Page, connects, channel)')
  <2>1. Basic(Page') /\ (calm' => Orderly(Page') /\ Connecting(Page', connects', channel'))
    BY <1>2, <1>7, <1>8, <1>9
  <2>2. Basic(Page)'
    BY <2>1 DEF Basic
  <2>3. calm' => Orderly(Page)'
    BY <2>1 DEF Orderly, Owned, Held
  <2>4. calm' => Connecting(Page, connects, channel)'
    BY <2>1 DEF Connecting
  <2> QED BY <2>2, <2>3, <2>4
<1> QED BY <1>10 DEF Inv

LEMMA PageParts ==
    Page.call = call /\ Page.clients = clients /\ Page.waiting = waiting /\ Page.ui = ui
BY DEF Page

\* A step takes the page to s.
LEMMA PlainStep ==
    ASSUME NEW s, Basic(s), Page' = s, connects' \in [Joins -> Stages],
           channel' \in ChannelTypes /\ hub' \in RoomModes, calm' \in BOOLEAN,
           calm' => Orderly(s) /\ Connecting(s, connects', channel')
    PROVE  Inv'
<1>1. Basic(Page') /\ (calm' => Orderly(Page') /\ Connecting(Page', connects', channel'))
  OBVIOUS
<1>2. Basic(Page)'
  BY <1>1 DEF Basic
<1>3. calm' => Orderly(Page)'
  BY <1>1 DEF Orderly, Owned, Held
<1>4. calm' => Connecting(Page, connects, channel)'
  BY <1>1 DEF Connecting
<1> QED BY <1>2, <1>3, <1>4 DEF Inv

\* An orderly page that has no client and no transition under way takes mode m.
Ready(s, m) ==
    /\ Orderly(s) /\ (m = "sfu" \/ ~s.call.sfuMode)
    /\ s.call.mode # "downgrading" /\ ~s.ui.pending /\ s.call.pcClient = Null
    /\ \A i \in Ids : s.waiting[i] = {}

\* The room's mode is taken over from a join response or from the snapshot.
TakeMode(s, m) == [s EXCEPT !.call = [s.call EXCEPT !.mode = m, !.sfuMode = s.call.sfuMode \/ m = "sfu"]]

LEMMA ModeTaken ==
    ASSUME NEW s, Basic(s), NEW m \in {"p2p", "sfu"}
    PROVE  LET t == TakeMode(s, m)
           IN  /\ Basic(t) /\ t.clients = s.clients /\ t.waiting = s.waiting /\ t.ui = s.ui
               /\ t.call = [s.call EXCEPT !.mode = m, !.sfuMode = s.call.sfuMode \/ m = "sfu"]
               /\ t.call.mode = m /\ t.call.pcClient = s.call.pcClient
               /\ Ready(s, m) => Orderly(t)
<1>0. s \in PageTypes
  BY DEF Basic
<1>1. PICK c : c = [s.call EXCEPT !.mode = m, !.sfuMode = s.call.sfuMode \/ m = "sfu"]
  OBVIOUS
<1>2. /\ c \in CallTypes /\ c.mode = m /\ (c.sfuMode <=> s.call.sfuMode \/ m = "sfu")
      /\ c.pcClient = s.call.pcClient /\ c.createPromise = s.call.createPromise
      /\ c.p2pPcClient = s.call.p2pPcClient /\ c.sfuPcClient = s.call.sfuPcClient
  BY <1>0, <1>1, PageFields DEF CallTypes, Modes
<1>3. PICK t : t = TakeMode(s, m)
  OBVIOUS
<1>4. t \in PageTypes /\ t.call = c /\ t.waiting = s.waiting /\ t.ui = s.ui /\ t.clients = s.clients
  BY <1>0, <1>1, <1>2, <1>3 DEF TakeMode, PageTypes
<1>5. Basic(t)
  BY <1>2, <1>4 DEF Basic
<1>6. ASSUME Ready(s, m)
      PROVE  Orderly(t)
  <2>1. Owned(t)
    BY <1>2, <1>4, <1>6 DEF Ready, Orderly, Owned
  <2>2. Held(t)
    <3>1. m = "p2p" => s.call.mode = "p2p"
      BY <1>0, <1>6, PageFields DEF Ready, Orderly, Owned, Modes
    <3> QED BY <1>2, <1>4, <1>6, <3>1 DEF Ready, Orderly, Held
  <2> QED BY <2>1, <2>2 DEF Orderly
<1> QED BY <1>1, <1>2, <1>3, <1>4, <1>5, <1>6

LEMMA JoinResponseStep ==
    ASSUME Inv, NEW j \in Joins, NEW m \in {"p2p", "sfu"}, JoinResponse(j, m)
    PROVE  Inv'
<1>1. PICK s : s = Page
  OBVIOUS
<1>2. Basic(s) /\ s.call = call /\ s.clients = clients /\ s.waiting = waiting /\ s.ui = ui
  BY <1>1, PageParts DEF Inv
<1>3. PICK t : t = TakeMode(s, m)
  OBVIOUS
<1>4. /\ Basic(t) /\ t.clients = s.clients /\ t.waiting = s.waiting /\ t.ui = s.ui
      /\ t.call = [s.call EXCEPT !.mode = m, !.sfuMode = s.call.sfuMode \/ m = "sfu"]
      /\ t.call.mode = m /\ t.call.pcClient = s.call.pcClient
      /\ Ready(s, m) => Orderly(t)
  BY <1>2, <1>3, ModeTaken
<1>5. /\ call' = t.call /\ clients' = clients /\ waiting' = waiting /\ ui' = ui /\ hub' = hub
      /\ calm' = (calm /\ (m = "sfu" \/ ~call.sfuMode))
  BY <1>2, <1>4 DEF JoinResponse
<1>6. Page' = t
  <2>1. t \in PageTypes
    BY <1>4 DEF Basic
  <2>2. Page' = [call |-> t.call, clients |-> t.clients, waiting |-> t.waiting, ui |-> t.ui]
    BY <1>2, <1>4, <1>5 DEF Page
  <2> QED BY <2>1, <2>2 DEF PageTypes
<1>7. connects \in [Joins -> Stages] /\ channel \in ChannelTypes /\ hub \in RoomModes /\ calm \in BOOLEAN
  BY DEF Inv
<1>8. PICK n : connects' = [connects EXCEPT ![j] = n]
               /\ connects[j] \in {"joining", "opened", "refused"}
               /\ \/ n \in {"joined", "none"} /\ channel' = channel
                  \/ n = "media" /\ channel.registered /\ channel' = channel
                  \/ /\ n = "media" /\ connects[j] = "opened" /\ channel.socket # "open"
                     /\ channel' = [channel EXCEPT !.saved = TRUE]
                  \/ /\ n = "register" /\ channel.socket = "open"
                     /\ channel' = [channel EXCEPT !.registering = TRUE]
  BY DEF JoinResponse, register
<1>9. /\ connects' \in [Joins -> Stages] /\ connects'[j] = n
      /\ \A k \in Joins : k # j => connects'[k] = connects[k]
      /\ n \in {"joined", "none", "media", "register"}
  BY <1>7, <1>8 DEF Stages
<1>10. channel' \in ChannelTypes
  BY <1>7, <1>8 DEF ChannelTypes
<1>11. ASSUME calm'
       PROVE  Orderly(t) /\ Connecting(t, connects', channel')
  <2>1. calm /\ Orderly(s) /\ Connecting(s, connects, channel) /\ (m = "sfu" \/ ~s.call.sfuMode)
    BY <1>1, <1>2, <1>5, <1>11 DEF Inv
  <2>2. connects[j] \in Early /\ connects[j] # "none" /\ connects[j] # "register"
    BY <1>8 DEF Early
  <2>3. /\ ~channel.registered /\ s.call.pcClient = Null /\ ~s.ui.pending /\ s.call.mode # "downgrading"
        /\ s.ui.page = "call" /\ channel.socket # "null"
        /\ \A i \in Ids : s.waiting[i] = {}
        /\ \A k \in Joins : k # j => connects[k] = "none"
    BY <2>1, <2>2 DEF Connecting
  <2>4. Orderly(t)
    BY <1>4, <2>1, <2>3 DEF Ready
  <2>5. /\ ~channel.registering
        /\ channel.socket = "connecting" => ~channel.saved
        /\ connects[j] = "opened" => channel.socket # "connecting"
    BY <2>1, <2>2, <2>3 DEF Connecting
  <2>6. /\ ~channel'.registered /\ channel'.socket = channel.socket
        /\ channel'.registering => n = "register"
        /\ channel'.socket = "connecting" => ~channel'.saved
    BY <1>7, <1>8, <2>3, <2>5 DEF ChannelTypes
  <2>7. /\ \A k \in Joins : connects'[k] # "opened" /\ (k # j => connects'[k] = "none")
        /\ \A k \in Joins : connects'[k] \in Early => k = j
        /\ channel'.registering => \E k \in Joins : connects'[k] = "register"
    BY <1>9, <2>3, <2>6 DEF Early
  <2>8. ~Live(t, channel')
    BY <1>4, <2>3, <2>6 DEF Live
  <2>9. Connecting(t, connects', channel')
    BY <1>4, <1>9, <2>3, <2>6, <2>7, <2>8 DEF Connecting
  <2> QED BY <2>4, <2>9
<1>12. calm' \in BOOLEAN /\ hub' \in RoomModes
  BY <1>5, <1>7
<1> QED BY <1>4, <1>6, <1>9, <1>10, <1>11, <1>12, PlainStep

\* A step of the channel and the joins alone.
LEMMA ChannelStep ==
    ASSUME Inv, Page' = Page, connects' \in [Joins -> Stages], channel' \in ChannelTypes,
           hub' = hub, calm' = calm,
           calm => Connecting(Page, connects', channel')
    PROVE  Inv'
<1>1. PICK s : s = Page
  OBVIOUS
<1>2. Basic(s) /\ Page' = s /\ hub' \in RoomModes /\ calm' \in BOOLEAN
  BY <1>1 DEF Inv
<1>3. calm' => Orderly(s) /\ Connecting(s, connects', channel')
  BY <1>1 DEF Inv
<1> QED BY <1>2, <1>3, PlainStep

LEMMA RegisteredStep ==
    ASSUME Inv, Registered
    PROVE  Inv' /\ (calm => \E j \in Joins : connects[j] = "register")
<1>0. /\ connects \in [Joins -> Stages] /\ channel \in ChannelTypes /\ hub \in RoomModes /\ calm \in BOOLEAN
      /\ channel' = [channel EXCEPT !.registering = FALSE, !.registered = TRUE]
      /\ channel.registering /\ channel.socket = "open"
      /\ connects' = [k \in Joins |-> IF connects[k] = "register" THEN "media" ELSE connects[k]]
      /\ hub' = hub /\ clients' = clients /\ waiting' = waiting /\ ui' = ui
  BY DEF Inv, Registered
<1>1. PICK s : s = Page
  OBVIOUS
<1>2. Basic(s) /\ s.call = call /\ s.clients = clients /\ s.waiting = waiting /\ s.ui = ui
  BY <1>1, PageParts DEF Inv
<1>3. /\ channel' \in ChannelTypes /\ channel'.socket = "open" /\ channel'.registered = TRUE
      /\ channel'.registering = FALSE
  BY <1>0 DEF ChannelTypes
<1>4. /\ connects' \in [Joins -> Stages]
      /\ \A k \in Joins : connects'[k] = IF connects[k] = "register" THEN "media" ELSE connects[k]
  BY <1>0 DEF Stages
<1>5. ASSUME calm
      PROVE  Orderly(s) /\ Connecting(s, connects, channel) /\ \E j \in Joins : connects[j] = "register"
  BY <1>0, <1>1, <1>5 DEF Inv, Connecting
<1>6. CASE ~\E j \in Joins : connects[j] = "register"
  <2>1. call' = call /\ calm' = calm /\ ~calm
    BY <1>5, <1>6 DEF Registered
  <2>2. Page' = Page
    BY <1>0, <2>1 DEF Page
  <2>3. Inv'
    BY <1>0, <1>3, <1>4, <2>1, <2>2, ChannelStep
  <2> QED BY <2>1, <2>3
<1>7. CASE \E j \in Joins : connects[j] = "register"
  <2>0. PICK j \in Joins : connects[j] = "register"
    BY <1>7
  <2>1. PICK m : m = hub
    OBVIOUS
  <2>2. m \in {"p2p", "sfu"}
    BY <1>0, <2>1 DEF RoomModes
  <2>3. PICK t : t = TakeMode(s, m)
    OBVIOUS
  <2>4. /\ Basic(t) /\ t.clients = s.clients /\ t.waiting = s.waiting /\ t.ui = s.ui
        /\ t.call = [s.call EXCEPT !.mode = m, !.sfuMode = s.call.sfuMode \/ m = "sfu"]
        /\ t.call.mode = m /\ t.call.pcClient = s.call.pcClient
        /\ Ready(s, m) => Orderly(t)
    BY <1>2, <2>2, <2>3, ModeTaken
  <2>5. call' = t.call /\ calm' = (calm /\ (m = "sfu" \/ ~call.sfuMode))
    BY <1>2, <1>7, <2>1, <2>4 DEF Registered
  <2>6. Page' = t
    <3>1. t \in PageTypes
      BY <2>4 DEF Basic
    <3>2. Page' = [call |-> t.call, clients |-> t.clients, waiting |-> t.waiting, ui |-> t.ui]
      BY <1>0, <1>2, <2>4, <2>5 DEF Page
    <3> QED BY <3>1, <3>2 DEF PageTypes
  <2>7. ASSUME calm'
        PROVE  Orderly(t) /\ Connecting(t, connects', channel')
    <3>1. Orderly(s) /\ Connecting(s, connects, channel) /\ (m = "sfu" \/ ~s.call.sfuMode)
      BY <1>2, <1>5, <2>5, <2>7
    <3>2. connects[j] \in Early /\ connects[j] # "none"
      BY <2>0 DEF Early
    <3>3. /\ s.call.pcClient = Null /\ ~s.ui.pending /\ s.call.mode # "downgrading"
          /\ s.ui.page = "call"
          /\ \A i \in Ids : s.waiting[i] = {}
          /\ \A k \in Joins : k # j => connects[k] = "none"
      BY <3>1, <3>2 DEF Connecting
    <3>4. Orderly(t)
      BY <2>4, <3>1, <3>3 DEF Ready
    <3>5. connects'[j] = "media" /\ \A k \in Joins : k # j => connects'[k] = "none"
      BY <1>4, <2>0, <3>3
    <3>6. \A k \in Joins : connects'[k] \in {"none", "media"}
      BY <3>5
    <3>7. Connecting(t, connects', channel')
      <4>1. \A k \in Joins : connects'[k] \notin Early /\ connects'[k] # "opened"
        BY <3>6 DEF Early
      <4> QED BY <1>3, <2>2, <2>4, <3>3, <3>5, <4>1 DEF Connecting
    <3> QED BY <3>4, <3>7
  <2>8. calm' \in BOOLEAN /\ hub' \in RoomModes
    BY <1>0, <2>5
  <2>9. Inv'
    BY <1>3, <1>4, <2>4, <2>6, <2>7, <2>8, PlainStep
  <2> QED BY <1>7, <2>9
<1> QED BY <1>6, <1>7

LEMMA RegistrationRejectedStep ==
    ASSUME Inv, RegistrationRejected
    PROVE  Inv'
<1>1. /\ connects \in [Joins -> Stages] /\ channel \in ChannelTypes
      /\ channel' = [channel EXCEPT !.registering = FALSE]
      /\ channel.registering /\ channel.socket = "open"
      /\ connects' = [k \in Joins |-> IF connects[k] = "register" THEN "none" ELSE connects[k]]
      /\ hub' = hub /\ calm' = calm /\ Page' = Page
  BY DEF Inv, RegistrationRejected, Page
<1>2. /\ channel' \in ChannelTypes /\ channel'.socket = "open" /\ channel'.registered = channel.registered
      /\ channel'.registering = FALSE
  BY <1>1 DEF ChannelTypes
<1>3. /\ connects' \in [Joins -> Stages]
      /\ \A k \in Joins : connects'[k] = IF connects[k] = "register" THEN "none" ELSE connects[k]
  BY <1>1 DEF Stages
<1>4. ASSUME calm
      PROVE  Connecting(Page, connects', channel')
  <2>1. Connecting(Page, connects, channel)
    BY <1>4 DEF Inv
  <2>2. PICK j \in Joins : connects[j] = "register"
    BY <1>1, <2>1 DEF Connecting
  <2>3. connects[j] \in Early /\ connects[j] # "none"
    BY <2>2 DEF Early
  <2>4. /\ ~channel.registered /\ Page.call.pcClient = Null /\ ~Page.ui.pending
        /\ Page.call.mode # "downgrading" /\ Page.ui.page = "call"
        /\ \A i \in Ids : Page.waiting[i] = {}
        /\ \A k \in Joins : k # j => connects[k] = "none"
    BY <2>1, <2>3 DEF Connecting
  <2>5. \A k \in Joins : connects'[k] = "none"
    BY <1>3, <2>2, <2>4
  <2>6. ~Live(Page, channel')
    BY <1>2, <2>4 DEF Live
  <2> QED BY <1>2, <2>4, <2>5, <2>6 DEF Connecting, Early
<1> QED BY <1>1, <1>2, <1>3, <1>4, ChannelStep

\* The socket opens or fails: the join that waits for it goes on or ends.
LEMMA SocketStep ==
    ASSUME Inv, SocketOpens \/ SocketFails
    PROVE  Inv'
<1>1. /\ connects \in [Joins -> Stages] /\ channel \in ChannelTypes /\ channel.socket = "connecting"
      /\ hub' = hub /\ calm' = calm /\ Page' = Page
  BY DEF Inv, SocketOpens, SocketFails, Page
<1>2. /\ connects' \in [Joins -> Stages]
      /\ \A k \in Joins : connects[k] \notin {"joining", "joined"} => connects'[k] = connects[k]
      /\ \A k \in Joins : connects[k] = "joining" => connects'[k] \in {"opened", "refused"}
      /\ \A k \in Joins : connects[k] = "joined" => connects'[k] \in {"register", "none"}
  BY <1>1 DEF SocketOpens, SocketFails, Stages
<1>3. /\ channel' \in ChannelTypes /\ channel'.socket \in {"open", "closed"}
      /\ channel'.registered = channel.registered
  <2>1. CASE SocketOpens
    <3>1. PICK b : b = (channel.saved \/ \E j \in Joins : connects[j] = "joined")
      OBVIOUS
    <3>2. b \in BOOLEAN
      BY <1>1, <3>1 DEF ChannelTypes
    <3>3. channel' = [channel EXCEPT !.socket = "open", !.saved = FALSE, !.registering = b]
      BY <2>1, <3>1 DEF SocketOpens
    <3> QED BY <1>1, <3>2, <3>3 DEF ChannelTypes, Sockets
  <2>2. CASE SocketFails
    BY <1>1, <2>2 DEF SocketFails, ChannelTypes, Sockets
  <2> QED BY <2>1, <2>2
<1>4. ASSUME Connecting(Page, connects, channel)
      PROVE  channel'.registering => \E j \in Joins : connects'[j] = "register"
  <2>1. CASE SocketOpens
    <3>1. ~channel.saved
      BY <1>1, <1>4 DEF Connecting
    <3>2. channel'.registering => \E j \in Joins : connects[j] = "joined"
      BY <1>1, <2>1, <3>1 DEF SocketOpens, ChannelTypes
    <3>3. \A k \in Joins : connects[k] = "joined" => connects'[k] = "register"
      BY <2>1 DEF SocketOpens
    <3> QED BY <3>2, <3>3
  <2>2. CASE SocketFails
    <3>1. channel'.registering = channel.registering
      BY <1>1, <2>2 DEF SocketFails, ChannelTypes
    <3> QED BY <1>2, <1>4, <3>1 DEF Connecting
  <2> QED BY <2>1, <2>2
<1>5. ASSUME calm
      PROVE  Connecting(Page, connects', channel')
  <2>1. Connecting(Page, connects, channel)
    BY <1>5 DEF Inv
  <2>2. /\ \A k \in Joins : connects[k] = "none" => connects'[k] = "none"
        /\ \A k \in Joins : connects'[k] \in Early => connects[k] \in Early
        /\ \A k \in Joins : connects'[k] # connects[k] => connects[k] \in Early
    BY <1>1, <1>2 DEF Early
  <2>3. CASE \E j \in Joins : connects'[j] # connects[j]
    <3>1. PICK j \in Joins : connects[j] \in Early
      BY <2>2, <2>3
    <3>2. /\ ~channel.registered /\ Page.call.pcClient = Null
          /\ \A i \in Ids : Page.waiting[i] = {}
      BY <2>1, <3>1 DEF Connecting
    <3>3. ~Live(Page, channel')
      BY <1>3, <3>2 DEF Live
    <3> QED BY <1>3, <1>4, <2>1, <2>2, <3>3 DEF Connecting
  <2>4. CASE \A j \in Joins : connects'[j] = connects[j]
    <3>1. Live(Page, channel') => Live(Page, channel)
      BY <1>3 DEF Live
    <3> QED BY <1>3, <1>4, <2>1, <2>4, <3>1 DEF Connecting
  <2> QED BY <2>3, <2>4
<1> QED BY <1>1, <1>2, <1>3, <1>5, ChannelStep

LEMMA SocketClosesStep ==
    ASSUME Inv, SocketCloses
    PROVE  Inv'
<1>1. /\ connects \in [Joins -> Stages] /\ channel \in ChannelTypes
      /\ channel' = [channel EXCEPT !.socket = "closed"] /\ connects' = connects
      /\ hub' = hub /\ calm' = calm /\ Page' = Page
  BY DEF Inv, SocketCloses, Page
<1>2. /\ channel' \in ChannelTypes /\ channel'.socket = "closed"
      /\ channel'.registered = channel.registered /\ channel'.registering = channel.registering
  BY <1>1 DEF ChannelTypes, Sockets
<1>3. calm => Connecting(Page, connects', channel')
  BY <1>1, <1>2 DEF Inv, Connecting, Live
<1> QED BY <1>1, <1>2, <1>3, ChannelStep

LEMMA LeaveAnsweredStep ==
    ASSUME Inv, LeaveAnswered
    PROVE  Inv'
<1>1. /\ connects \in [Joins -> Stages]
      /\ channel' = [socket |-> "null", saved |-> FALSE, registering |-> FALSE, registered |-> FALSE]
      /\ hub' = hub /\ calm' = calm /\ Page' = Page /\ Page.ui.page # "call"
  BY PageParts DEF Inv, LeaveAnswered, closeChannel, Page
<1>2. /\ channel' \in ChannelTypes /\ channel'.socket = "null"
      /\ ~channel'.registered /\ ~channel'.registering /\ ~channel'.saved
  BY <1>1 DEF ChannelTypes, Sockets
<1>3. /\ connects' \in [Joins -> Stages]
      /\ \A j \in Joins : connects[j] = "none" => connects'[j] = "none"
  BY <1>1 DEF LeaveAnswered, closeChannel, Stages
<1>4. ASSUME calm
      PROVE  Connecting(Page, connects', channel')
  <2>1. Basic(Page) /\ Connecting(Page, connects, channel)
    BY <1>4 DEF Inv
  <2>2. /\ Page.call.mode # "downgrading" /\ ~Page.ui.pending
        /\ \A i \in Ids : Page.clients[i].state # "open" /\ Page.waiting[i] = {}
        /\ \A j \in Joins : connects'[j] = "none"
    BY <1>1, <1>3, <2>1 DEF Connecting
  <2>3. Page.call.pcClient = Null
    <3>1. Page.call.pcClient \in Slots
      BY <2>1, PageFields DEF Basic
    <3> QED BY <2>1, <2>2, <3>1 DEF Basic, Slots
  <2>4. ~Live(Page, channel')
    BY <1>2, <2>2, <2>3 DEF Live
  <2> QED BY <1>1, <1>2, <2>2, <2>4 DEF Connecting, Early
<1> QED BY <1>1, <1>2, <1>3, <1>4, ChannelStep

LEMMA JoinFailureStep ==
    ASSUME Inv, NEW j \in Joins, JoinFailure(j)
    PROVE  Inv'
<1>1. /\ connects \in [Joins -> Stages] /\ channel \in ChannelTypes /\ channel' = channel
      /\ connects[j] \in {"joining", "opened", "refused"}
      /\ connects' = [connects EXCEPT ![j] = "none"]
      /\ hub' = hub /\ calm' = calm /\ Page' = Page
  BY DEF Inv, JoinFailure, Page
<1>2. /\ connects' \in [Joins -> Stages] /\ connects'[j] = "none"
      /\ \A k \in Joins : k # j => connects'[k] = connects[k]
  BY <1>1 DEF Stages
<1>3. ASSUME calm
      PROVE  Connecting(Page, connects', channel')
  <2>1. Connecting(Page, connects, channel)
    BY <1>3 DEF Inv
  <2>2. connects[j] \in Early /\ connects[j] # "none" /\ connects[j] # "register"
    BY <1>1 DEF Early
  <2>3. /\ ~channel.registered /\ Page.call.pcClient = Null
        /\ \A i \in Ids : Page.waiting[i] = {}
        /\ \A k \in Joins : connects'[k] = "none"
        /\ ~channel.registering
    BY <1>2, <2>1, <2>2 DEF Connecting
  <2>4. ~Live(Page, channel)
    BY <2>3 DEF Live
  <2> QED BY <1>1, <2>1, <2>3, <2>4 DEF Connecting, Early
<1> QED BY <1>1, <1>2, <1>3, ChannelStep

\* A step that ends with maybeCreatePcClientAsync_ on the page s, in a call that is
\* past its registration.
LEMMA CreateStep ==
    ASSUME NEW s, Basic(s), NEW start \in Starts \cup {"message"}, BecomeStarting(s, start),
           connects' \in [Joins -> Stages],
           channel' \in ChannelTypes /\ hub' \in RoomModes, calm' \in BOOLEAN,
           calm' => /\ Orderly(s) /\ Connecting(s, connects', channel') /\ s.ui.page = "call"
                    /\ \A j \in Joins : connects'[j] \notin Early
                    /\ s.call.mode = "sfu" => channel'.registered
    PROVE  Inv' /\ call'.mode = s.call.mode
<1>1. PICK t : t = maybeCreatePcClient(s, start)
  OBVIOUS
<1>2. Become(t) /\ CanCreate(s)
  BY <1>1 DEF BecomeStarting
<1>3. /\ Basic(t) /\ t.ui = s.ui /\ t.call.mode = s.call.mode
      /\ Orderly(s) => Orderly(t)
  BY <1>1, <1>2, MaybeCreateFits
<1>4. ASSUME calm'
      PROVE  Orderly(t) /\ Connecting(t, connects', channel')
  <2>1. /\ Orderly(s) /\ Connecting(s, connects', channel') /\ s.ui.page = "call"
        /\ \A j \in Joins : connects'[j] \notin Early
        /\ s.call.mode = "sfu" => Live(s, channel')
    BY <1>4 DEF Live
  <2>2. Connecting(t, connects', channel')
    BY <1>3, <2>1 DEF Connecting
  <2> QED BY <1>3, <2>1, <2>2
<1>5. call'.mode = s.call.mode
  BY <1>2, <1>3 DEF Become
<1> QED BY <1>2, <1>3, <1>4, <1>5, PageStep

LEMMA MediaReadyStep ==
    ASSUME Inv, NEW j \in Joins, MediaReady(j)
    PROVE  Inv'
<1>1. PICK s : s = Page
  OBVIOUS
<1>2. Basic(s) /\ s \in PageTypes /\ s.call = call /\ s.clients = clients /\ s.waiting = waiting /\ s.ui = ui
  BY <1>1, PageParts DEF Inv, Basic
<1>3. PICK m : m = IF s.call.mode = "sfu" THEN "upgrading" ELSE s.call.mode
  OBVIOUS
<1>4. PICK c : c = [s.call EXCEPT !.mode = m]
  OBVIOUS
<1>5. /\ c \in CallTypes /\ c.mode = m /\ c.sfuMode = s.call.sfuMode
      /\ c.pcClient = s.call.pcClient /\ c.createPromise = s.call.createPromise
      /\ c.p2pPcClient = s.call.p2pPcClient /\ c.sfuPcClient = s.call.sfuPcClient
  <2>1. m \in Modes
    BY <1>2, <1>3, PageFields DEF Modes
  <2> QED BY <1>2, <1>4, <2>1, PageFields DEF CallTypes
<1>6. PICK u : u = [s EXCEPT !.call = c]
  OBVIOUS
<1>7. u \in PageTypes /\ u.call = c /\ u.waiting = s.waiting /\ u.ui = s.ui /\ u.clients = s.clients
  BY <1>2, <1>5, <1>6 DEF PageTypes
<1>8. u = [s EXCEPT !.call.mode = IF @ = "sfu" THEN "upgrading" ELSE @]
  BY <1>2, <1>3, <1>4, <1>6 DEF PageTypes
<1>9. /\ connects[j] = "media" /\ BecomeStarting(u, "start")
      /\ connects' = [connects EXCEPT ![j] = "none"] /\ channel' = channel /\ hub' = hub /\ calm' = calm
  BY <1>1, <1>8 DEF MediaReady
<1>10. Basic(u)
  BY <1>2, <1>5, <1>7 DEF Basic
<1>12. /\ connects' \in [Joins -> Stages] /\ connects'[j] = "none"
       /\ \A k \in Joins : k # j => connects'[k] = connects[k]
  <2>1. connects \in [Joins -> Stages]
    BY DEF Inv
  <2> QED BY <1>9, <2>1 DEF Stages
<1>13. ASSUME calm'
       PROVE  /\ Orderly(u) /\ Connecting(u, connects', channel') /\ u.ui.page = "call"
              /\ \A k \in Joins : connects'[k] \notin Early
              /\ u.call.mode # "sfu"
  <2>1. Orderly(s) /\ Connecting(s, connects, channel)
    BY <1>1, <1>9, <1>13 DEF Inv
  <2>2. /\ s.ui.page = "call" /\ \A k \in Joins : connects'[k] \notin Early
    BY <1>9, <1>12, <2>1 DEF Connecting, Early
  <2>3. Owned(u)
    BY <1>3, <1>5, <1>7, <2>1 DEF Orderly, Owned
  <2>4. Held(u)
    BY <1>3, <1>5, <1>7, <2>1 DEF Orderly, Held
  <2>5. u.call.mode # "sfu"
    BY <1>3, <1>5, <1>7
  <2>6. channel.registering => \E k \in Joins : connects'[k] = "register"
    BY <1>9, <1>12, <2>1 DEF Connecting
  <2>7. Connecting(u, connects', channel')
    BY <1>3, <1>5, <1>7, <1>9, <1>12, <2>1, <2>2, <2>5, <2>6 DEF Connecting
  <2> QED BY <1>7, <2>2, <2>3, <2>4, <2>5, <2>7 DEF Orderly
<1>14. calm' \in BOOLEAN /\ channel' \in ChannelTypes /\ hub' \in RoomModes /\ "start" \in Starts
  BY <1>9 DEF Inv, Starts
<1> QED BY <1>9, <1>10, <1>12, <1>13, <1>14, CreateStep

LEMMA MessageStep ==
    ASSUME Inv, onRecvSignalingChannelMessage
    PROVE  Inv' /\ KeepsOutOfSfu
<1>1. PICK s : s = Page
  OBVIOUS
<1>2. Basic(s) /\ s.call = call /\ s.ui = ui
  BY <1>1, PageParts DEF Inv
<1>3. /\ BecomeStarting(s, "message") /\ channel.registered
      /\ calm' = (calm /\ s.ui.page = "call")
      /\ channel' = channel /\ connects' = connects /\ hub' = hub
  BY <1>1, <1>2 DEF onRecvSignalingChannelMessage, Online
<1>4. ASSUME calm'
      PROVE  /\ Orderly(s) /\ Connecting(s, connects', channel') /\ s.ui.page = "call"
             /\ \A j \in Joins : connects'[j] \notin Early
             /\ s.call.mode = "sfu" => channel'.registered
  <2>1. Orderly(s) /\ Connecting(s, connects, channel) /\ s.ui.page = "call"
    BY <1>1, <1>3, <1>4 DEF Inv
  <2>2. \A j \in Joins : connects[j] \notin Early
    BY <1>3, <2>1 DEF Connecting
  <2> QED BY <1>3, <2>1, <2>2
<1>5. /\ calm' \in BOOLEAN /\ channel' \in ChannelTypes /\ hub' \in RoomModes
      /\ connects' \in [Joins -> Stages] /\ "message" \in Starts \cup {"message"}
  <2>1. calm' \in BOOLEAN
    BY <1>3 DEF Inv
  <2> QED BY <1>3, <2>1 DEF Inv
<1>6. Inv' /\ call'.mode = s.call.mode
  BY <1>2, <1>3, <1>4, <1>5, CreateStep
<1> QED BY <1>2, <1>6 DEF KeepsOutOfSfu

LEMMA CertificateReadyStep ==
    ASSUME Inv, NEW i \in Ids, CertificateReady(i)
    PROVE  Inv'
<1>1. PICK s : s = Page
  OBVIOUS
<1>2. Basic(s) /\ s \in PageTypes /\ s.call = call /\ s.clients = clients /\ s.waiting = waiting /\ s.ui = ui
  BY <1>1, PageParts DEF Inv, Basic
<1>3. i \in Slots /\ i # Null
  BY NullIsNoId
<1>4. PICK c : c = [s.call EXCEPT !.pcClient = i]
  OBVIOUS
<1>5. /\ c \in CallTypes /\ c.mode = s.call.mode /\ c.sfuMode = s.call.sfuMode
      /\ c.pcClient = i /\ c.createPromise = s.call.createPromise
      /\ c.p2pPcClient = s.call.p2pPcClient /\ c.sfuPcClient = s.call.sfuPcClient
  BY <1>2, <1>3, <1>4, PageFields DEF CallTypes
<1>6. PICK h : h = IF s.call.sfuMode THEN "sfu"
                   ELSE IF s.call.mode = "downgrading" THEN "downgrade" ELSE "plain"
  OBVIOUS
<1>7. h \in Handlers /\ (h = "sfu" <=> s.call.sfuMode)
  BY <1>2, <1>6, PageFields DEF Handlers
<1>8. PICK r : r = [state |-> "open", handler |-> h, started |-> waiting[i] \cap Starts # {}]
  OBVIOUS
<1>9. r \in Client /\ r.state = "open" /\ r.handler = h
  BY <1>7, <1>8 DEF Client
<1>10. PICK k : k = [s.clients EXCEPT ![i] = r]
  OBVIOUS
<1>11. k \in [Ids -> Client] /\ k[i] = r /\ \A n \in Ids : n # i => k[n] = s.clients[n]
  BY <1>2, <1>9, <1>10, PageFields
<1>12. PICK w : w = [s.waiting EXCEPT ![i] = {}]
  OBVIOUS
<1>13. w \in [Ids -> Waits] /\ w[i] = {} /\ \A n \in Ids : n # i => w[n] = s.waiting[n]
  <2>1. {} \in Waits
    BY DEF Waits
  <2> QED BY <1>2, <1>12, <2>1, PageFields
<1>14. PICK t : t = [s EXCEPT !.call = c, !.clients = k, !.waiting = w]
  OBVIOUS
<1>15. t \in PageTypes /\ t.call = c /\ t.waiting = w /\ t.ui = s.ui /\ t.clients = k
  BY <1>2, <1>5, <1>11, <1>13, <1>14 DEF PageTypes
<1>16. t = [createPcClient(s, i) EXCEPT !.waiting[i] = {}, !.clients[i].started = waiting[i] \cap Starts # {}]
  <2>1. PICK r0 : r0 = [state |-> "open", handler |-> h, started |-> FALSE]
    OBVIOUS
  <2>2. PICK k0 : k0 = [s.clients EXCEPT ![i] = r0]
    OBVIOUS
  <2>3. PICK t0 : t0 = [s EXCEPT !.call = c, !.clients = k0]
    OBVIOUS
  <2>4. t0 = createPcClient(s, i)
    BY <1>2, <1>4, <1>6, <2>1, <2>2, <2>3 DEF createPcClient, PageTypes
  <2>5. [r0 EXCEPT !.started = waiting[i] \cap Starts # {}] = r
    <3>1. PICK b : b = (waiting[i] \cap Starts # {})
      OBVIOUS
    <3>2. r = [state |-> "open", handler |-> h, started |-> b]
      BY <1>8, <3>1
    <3>3. [r0 EXCEPT !.started = b] = r
      <4>1. r0 \in Client
        BY <1>7, <2>1 DEF Client
      <4>2. b \in BOOLEAN
        BY <3>1
      <4>3. PICK q : q = [r0 EXCEPT !.started = b]
        OBVIOUS
      <4>4. q \in Client /\ q.state = "open" /\ q.handler = h /\ q.started = b
        BY <2>1, <4>1, <4>2, <4>3 DEF Client
      <4>5. r \in Client /\ r.state = "open" /\ r.handler = h /\ r.started = b
        BY <3>2, <1>9
      <4>6. q = r
        BY <4>4, <4>5 DEF Client
      <4> QED BY <4>3, <4>6
    <3> QED BY <3>1, <3>3
  <2>6. k0[i] = r0 /\ [k0 EXCEPT ![i] = r] = k
    BY <1>2, <1>10, <2>2, PageFields
  <2>7. t0.waiting = s.waiting /\ t0.clients = k0
    BY <1>2, <2>3 DEF PageTypes
  <2>8. t = [t0 EXCEPT !.waiting = w, !.clients = k]
    BY <1>2, <1>14, <2>3 DEF PageTypes
  <2> QED BY <1>2, <1>12, <2>3, <2>4, <2>5, <2>6, <2>7, <2>8 DEF PageTypes
<1>17. Become(t) /\ s.waiting[i] # {} /\ connects' = connects /\ channel' = channel /\ hub' = hub /\ calm' = calm
  BY <1>1, <1>16 DEF CertificateReady, Pending
<1>18. s.clients[i].state = "none"
  BY <1>2, <1>17 DEF Basic
<1>19. /\ s.call.pcClient \in Slots /\ s.call.p2pPcClient \in Slots /\ s.call.sfuPcClient \in Slots
       /\ s.call.createPromise \in Slots /\ \A d \in Slots : d # Null => d \in Ids
  BY <1>2, PageFields DEF Slots
<1>20. s.call.pcClient # i /\ s.call.p2pPcClient # i /\ s.call.sfuPcClient # i
  BY <1>2, <1>3, <1>18 DEF Basic
<1>21. Basic(t)
  <2>1. \A d \in {t.call.pcClient, t.call.p2pPcClient, t.call.sfuPcClient} :
          d # Null => t.clients[d].state = "open"
    BY <1>2, <1>5, <1>9, <1>11, <1>15, <1>19, <1>20 DEF Basic
  <2>2. \A n \in Ids : t.waiting[n] # {} => t.clients[n].state = "none"
    BY <1>2, <1>11, <1>13, <1>15 DEF Basic
  <2> QED BY <1>2, <1>3, <1>5, <1>15, <1>20, <2>1, <2>2 DEF Basic
<1>22. ASSUME calm'
       PROVE  Orderly(t) /\ Connecting(t, connects', channel')
  <2>1. Orderly(s) /\ Connecting(s, connects, channel)
    BY <1>1, <1>17, <1>22 DEF Inv
  <2>2. s.call.pcClient = Null /\ \A n \in Ids : n # i => s.waiting[n] = {}
    BY <1>17, <2>1 DEF Orderly, Owned
  <2>3. Owned(t)
    <3>1. \A n \in Ids : t.clients[n].state = "open" =>
             n \in {t.call.pcClient, t.call.p2pPcClient, t.call.sfuPcClient}
      BY <1>5, <1>11, <1>15, <2>1, <2>2, NullIsNoId DEF Orderly, Owned
    <3>2. \A n \in Ids : t.clients[n].handler = "sfu" => n = t.call.pcClient
      BY <1>5, <1>11, <1>15, <2>1, <2>2, NullIsNoId DEF Orderly, Owned
    <3>3. \A n \in Ids : t.waiting[n] = {}
      BY <1>13, <1>15, <2>2
    <3>4. t.clients[t.call.pcClient].handler = "sfu" <=> t.call.sfuMode
      BY <1>5, <1>7, <1>9, <1>11, <1>15
    <3> QED BY <1>5, <1>15, <2>1, <3>1, <3>2, <3>3, <3>4 DEF Orderly, Owned
  <2>4. Held(t)
    BY <1>5, <1>15, <2>1 DEF Orderly, Held
  <2>5. s.ui.page = "call" /\ \A j \in Joins : connects[j] \notin Early
    BY <1>17, <2>1 DEF Connecting
  <2>6. Live(s, channel)
    BY <1>17 DEF Live
  <2>7. Connecting(t, connects', channel')
    BY <1>5, <1>15, <1>17, <2>1, <2>5, <2>6 DEF Connecting
  <2> QED BY <2>3, <2>4, <2>7 DEF Orderly
<1>23. /\ calm' \in BOOLEAN /\ channel' \in ChannelTypes /\ hub' \in RoomModes
       /\ connects' \in [Joins -> Stages]
  BY <1>17 DEF Inv
<1> QED BY <1>17, <1>21, <1>22, <1>23, PageStep

LEMMA CertificateFailedStep ==
    ASSUME Inv, NEW i \in Ids, CertificateFailed(i)
    PROVE  Inv'
<1>1. PICK s : s = Page
  OBVIOUS
<1>2. Basic(s) /\ s \in PageTypes /\ s.call = call /\ s.clients = clients /\ s.waiting = waiting /\ s.ui = ui
  BY <1>1, PageParts DEF Inv, Basic
<1>3. PICK r : r = [s.clients[i] EXCEPT !.state = "failed"]
  OBVIOUS
<1>4. r \in Client /\ r.state = "failed" /\ r.handler = s.clients[i].handler
  <2>1. s.clients[i] \in Client
    BY <1>2, PageFields
  <2> QED BY <1>3, <2>1 DEF Client
<1>5. PICK k : k = [s.clients EXCEPT ![i] = r]
  OBVIOUS
<1>6. k \in [Ids -> Client] /\ k[i] = r /\ \A n \in Ids : n # i => k[n] = s.clients[n]
  BY <1>2, <1>4, <1>5, PageFields
<1>7. PICK w : w = [s.waiting EXCEPT ![i] = {}]
  OBVIOUS
<1>8. w \in [Ids -> Waits] /\ w[i] = {} /\ \A n \in Ids : n # i => w[n] = s.waiting[n]
  <2>1. {} \in Waits
    BY DEF Waits
  <2> QED BY <1>2, <1>7, <2>1, PageFields
<1>9. PICK u : u = [s EXCEPT !.clients = k, !.waiting = w]
  OBVIOUS
<1>10. u \in PageTypes /\ u.call = s.call /\ u.waiting = w /\ u.ui = s.ui /\ u.clients = k
  BY <1>2, <1>6, <1>8, <1>9 DEF PageTypes
<1>11. u = [s EXCEPT !.clients[i].state = "failed", !.waiting[i] = {}]
  BY <1>2, <1>3, <1>5, <1>7, <1>9 DEF PageTypes
<1>12. PICK playable \in BOOLEAN :
          Become(IF "downgrade" \in waiting[i] THEN finishSfuDowngrade(u, playable) ELSE u)
  BY <1>1, <1>11 DEF CertificateFailed
<1>13. s.waiting[i] # {} /\ connects' = connects /\ channel' = channel /\ hub' = hub /\ calm' = calm
  BY <1>1 DEF CertificateFailed, Pending
<1>14. PICK v : v = finishSfuDowngrade(u, playable)
  OBVIOUS
<1>15. PICK t : t = IF "downgrade" \in waiting[i] THEN v ELSE u
  OBVIOUS
<1>16. Become(t)
  BY <1>12, <1>14, <1>15
<1>17. s.clients[i].state = "none"
  BY <1>2, <1>13 DEF Basic
<1>18. /\ s.call.pcClient \in Slots /\ s.call.p2pPcClient \in Slots /\ s.call.sfuPcClient \in Slots
       /\ s.call.createPromise \in Slots /\ \A d \in Slots : d # Null => d \in Ids
  BY <1>2, PageFields DEF Slots
<1>19. Basic(u)
  <2>1. \A d \in {u.call.pcClient, u.call.p2pPcClient, u.call.sfuPcClient} :
          d # Null => u.clients[d].state = "open"
    BY <1>2, <1>6, <1>10, <1>17, <1>18 DEF Basic
  <2>2. \A n \in Ids : u.waiting[n] # {} => u.clients[n].state = "none"
    BY <1>2, <1>6, <1>8, <1>10 DEF Basic
  <2>3. u.call.pcClient = Null /\ u.call.createPromise # Null =>
          \/ u.waiting[u.call.createPromise] # {}
          \/ u.clients[u.call.createPromise].state = "failed"
    BY <1>2, <1>4, <1>6, <1>8, <1>10, <1>18 DEF Basic
  <2> QED BY <1>2, <1>10, <2>1, <2>2, <2>3 DEF Basic
<1>20. /\ Basic(v) /\ v.ui.page = u.ui.page
       /\ u.call.mode # "downgrading" => v = u
       /\ u.call.mode = "downgrading" => v.call.mode = "p2p"
       /\ Orderly(u) => Orderly(v)
  BY <1>14, <1>19, Finished
<1>21. Basic(t)
  BY <1>15, <1>19, <1>20
<1>22. ASSUME calm'
       PROVE  Orderly(t) /\ Connecting(t, connects', channel')
  <2>1. Orderly(s) /\ Connecting(s, connects, channel)
    BY <1>1, <1>13, <1>22 DEF Inv
  <2>2. Owned(u)
    <3>1. s.call.pcClient = Null /\ Owned(s)
      BY <1>13, <2>1 DEF Orderly, Owned
    <3>2. \A n \in Ids : u.waiting[n] # {} => n = u.call.createPromise /\ u.call.pcClient = Null
      BY <1>8, <1>10, <3>1 DEF Owned
    <3>3. \A n \in Ids : u.clients[n].state = "open" =>
             n \in {u.call.pcClient, u.call.p2pPcClient, u.call.sfuPcClient}
      BY <1>4, <1>6, <1>10, <3>1 DEF Owned
    <3>4. \A n \in Ids : u.clients[n].handler = "sfu" => n = u.call.pcClient
      BY <1>4, <1>6, <1>10, <3>1 DEF Owned
    <3> QED BY <1>10, <3>1, <3>2, <3>3, <3>4 DEF Owned
  <2>3. Held(u)
    BY <1>10, <2>1 DEF Orderly, Held
  <2>4. Orderly(t)
    BY <1>15, <1>20, <2>2, <2>3 DEF Orderly
  <2>5. s.ui.page = "call" /\ \A j \in Joins : connects[j] \notin Early
    BY <1>13, <2>1 DEF Connecting
  <2>6. Connecting(u, connects', channel')
    <3>1. Live(s, channel)
      BY <1>13 DEF Live
    <3>2. \A n \in Ids : u.clients[n].state = "open" => s.clients[n].state = "open"
      BY <1>4, <1>6, <1>10
    <3> QED BY <1>10, <1>13, <2>1, <2>5, <3>1, <3>2 DEF Connecting
  <2>7. CASE u.call.mode # "downgrading"
    BY <1>15, <1>20, <2>4, <2>6, <2>7
  <2>8. CASE u.call.mode = "downgrading"
    <3>1. \A j \in Joins : connects'[j] = "none"
      BY <2>6, <2>8 DEF Connecting
    <3>2. Connecting(v, connects', channel')
      <4>1. \A j \in Joins : connects'[j] \notin Early
        BY <3>1 DEF Early
      <4> QED BY <1>10, <1>20, <2>5, <2>6, <2>8, <3>1, <4>1 DEF Connecting
    <3> QED BY <1>15, <2>4, <2>6, <3>2
  <2> QED BY <2>7, <2>8
<1>23. /\ calm' \in BOOLEAN /\ channel' \in ChannelTypes /\ hub' \in RoomModes
       /\ connects' \in [Joins -> Stages]
  BY <1>13 DEF Inv
<1> QED BY <1>16, <1>21, <1>22, <1>23, PageStep

\* What an ICE state change does to the page: the current client's handler looks
\* at the current client.
LEMMA IceStateChangeStep ==
    ASSUME Inv, NEW i \in Ids, IceStateChange(i)
    PROVE  /\ Inv'
           /\ calm /\ call'.mode = "sfu" => call.mode \in {"upgrading", "sfu"}
<1>1. PICK s : s = Page
  OBVIOUS
<1>2. Basic(s) /\ s.call = call /\ s.clients = clients /\ s.waiting = waiting /\ s.ui = ui
  BY <1>1, PageParts DEF Inv
<1>3. PICK playable \in BOOLEAN :
          Become(CASE clients[i].handler = "sfu" -> onSfuIceConnectionStateChange(s)
                   [] clients[i].handler = "downgrade" -> onDowngradeIceConnectionStateChange(s, playable)
                   [] OTHER -> s)
  BY <1>1 DEF IceStateChange
<1>4. s.clients[i].state = "open" /\ connects' = connects /\ channel' = channel /\ hub' = hub /\ calm' = calm
  BY <1>2 DEF IceStateChange
<1>5. /\ calm' \in BOOLEAN /\ channel' \in ChannelTypes /\ hub' \in RoomModes
      /\ connects' \in [Joins -> Stages]
  BY <1>4 DEF Inv
<1>6. ASSUME calm
      PROVE  Orderly(s) /\ Connecting(s, connects', channel') /\ s.ui.page = "call"
  <2>1. Orderly(s) /\ Connecting(s, connects, channel)
    BY <1>1, <1>6 DEF Inv
  <2> QED BY <1>4, <2>1 DEF Connecting
<1>7. CASE clients[i].handler = "sfu"
  <2>1. PICK t : t = onSfuIceConnectionStateChange(s)
    OBVIOUS
  <2>2. Become(t)
    BY <1>3, <1>7, <2>1
  <2>3. /\ Basic(t) /\ t.waiting = s.waiting /\ t.ui.page = s.ui.page
        /\ t.ui.pending = s.ui.pending /\ t.call.pcClient = s.call.pcClient
        /\ \/ t = s
           \/ t.call.mode = "sfu" /\ t.ui.layout = "grid"
        /\ Orderly(s) /\ s.call.sfuMode => Orderly(t)
    BY <1>2, <2>1, UpgradeCompleted
  <2>4. ASSUME calm
        PROVE  /\ Orderly(t) /\ Connecting(t, connects', channel')
               /\ call.mode \in {"upgrading", "sfu"}
    <3>1. Orderly(s) /\ Connecting(s, connects', channel') /\ s.ui.page = "call"
      BY <1>6, <2>4
    <3>2. i = s.call.pcClient /\ s.call.sfuMode /\ s.call.mode \in {"upgrading", "sfu"}
      <4>1. s.clients[i].handler = "sfu"
        BY <1>2, <1>7
      <4>2. i = s.call.pcClient
        BY <3>1, <4>1 DEF Orderly, Owned
      <4> QED BY <3>1, <4>1, <4>2, NullIsNoId DEF Orderly, Owned
    <3>3. Orderly(t)
      BY <2>3, <3>1, <3>2
    <3>4. Connecting(t, connects', channel')
      <4>1. CASE t = s
        BY <3>1, <4>1
      <4>2. CASE t.call.mode = "sfu" /\ t.ui.layout = "grid"
        BY <2>3, <3>1, <4>2 DEF Connecting
      <4> QED BY <2>3, <4>1, <4>2
    <3> QED BY <1>2, <3>2, <3>3, <3>4
  <2>5. Inv'
    BY <1>4, <1>5, <2>2, <2>3, <2>4, PageStep
  <2> QED BY <2>4, <2>5
<1>8. CASE clients[i].handler # "sfu"
  <2>1. PICK v : v = finishSfuDowngrade(s, playable)
    OBVIOUS
  <2>2. PICK t : t = IF clients[i].handler = "downgrade" /\ CanBeConnected(s) THEN v ELSE s
    OBVIOUS
  <2>3. Become(t)
    BY <1>3, <1>8, <2>1, <2>2 DEF onDowngradeIceConnectionStateChange
  <2>4. /\ Basic(v) /\ v.ui.page = s.ui.page
        /\ s.call.mode # "downgrading" => v = s
        /\ s.call.mode = "downgrading" => v.call.mode = "p2p"
        /\ Orderly(s) => Orderly(v)
    BY <1>2, <2>1, Finished
  <2>5. Basic(t)
    BY <1>2, <2>2, <2>4
  <2>6. ASSUME calm
        PROVE  Orderly(t) /\ Connecting(t, connects', channel')
    <3>1. Orderly(s) /\ Connecting(s, connects', channel') /\ s.ui.page = "call"
      BY <1>6, <2>6
    <3>2. Orderly(t)
      BY <2>2, <2>4, <3>1
    <3>3. CASE s.call.mode # "downgrading"
      BY <2>2, <2>4, <3>1, <3>2, <3>3
    <3>4. CASE s.call.mode = "downgrading"
      <4>1. \A j \in Joins : connects'[j] = "none"
        BY <3>1, <3>4 DEF Connecting
      <4>2. Connecting(v, connects', channel')
        BY <2>4, <3>1, <3>4, <4>1 DEF Connecting, Early
      <4> QED BY <2>2, <3>1, <3>2, <4>2
    <3> QED BY <3>3, <3>4
  <2>7. Inv'
    BY <1>4, <1>5, <2>3, <2>5, <2>6, PageStep
  <2>8. call'.mode = "sfu" => call.mode = "sfu"
    <3>1. call' = t.call
      BY <2>3 DEF Become
    <3> QED BY <1>2, <2>2, <2>4, <3>1
  <2> QED BY <2>7, <2>8
<1> QED BY <1>7, <1>8

LEMMA SfuUpgradeStep ==
    ASSUME Inv, SfuUpgrade
    PROVE  Inv' /\ KeepsOutOfSfu
<1>1. PICK s : s = Page
  OBVIOUS
<1>2. Basic(s) /\ s \in PageTypes /\ s.call = call /\ s.clients = clients /\ s.waiting = waiting /\ s.ui = ui
  BY <1>1, PageParts DEF Inv, Basic
<1>3. /\ channel \in ChannelTypes /\ hub \in RoomModes /\ connects \in [Joins -> Stages]
      /\ calm \in BOOLEAN
  BY DEF Inv
<1>4. /\ hub' = "sfu" /\ channel' = channel
      /\ calm' = (calm /\ Quiet) /\ connects' = connects
  BY <1>1 DEF SfuUpgrade
<1>5. /\ calm' \in BOOLEAN /\ channel' \in ChannelTypes /\ hub' \in RoomModes
      /\ connects' \in [Joins -> Stages]
  <2>1. calm' \in BOOLEAN
    BY <1>3, <1>4
  <2> QED BY <1>3, <1>4, <2>1 DEF RoomModes
<1>6. ASSUME calm'
      PROVE  /\ Orderly(s) /\ Connecting(s, connects', channel') /\ s.ui.page = "call"
             /\ s.call.mode # "downgrading" /\ ~s.ui.pending
             /\ \A i \in Ids : s.waiting[i] = {}
             /\ \A j \in Joins : connects'[j] = "none"
  <2>1. Orderly(s) /\ Connecting(s, connects, channel)
    BY <1>1, <1>4, <1>6 DEF Inv
  <2>2. Quiet
    BY <1>4, <1>6
  <2> QED BY <1>1, <1>2, <1>4, <1>5, <2>1, <2>2 DEF Quiet, Settled, Pending, Connecting
<1>7. CASE call.sfuMode \/ call.mode = "upgrading"
  <2>1. Become(s)
    BY <1>1, <1>7 DEF SfuUpgrade
  <2>2. Inv'
    BY <1>2, <1>5, <1>6, <2>1, PageStep
  <2> QED BY <1>2, <2>1, <2>2 DEF Become, KeepsOutOfSfu
<1>8. CASE ~(call.sfuMode \/ call.mode = "upgrading")
  <2>1. PICK c : c = [s.call EXCEPT !.mode = "upgrading", !.sfuMode = TRUE, !.p2pPcClient = call.pcClient,
                                    !.pcClient = Null, !.createPromise = Null]
    OBVIOUS
  <2>2. /\ c \in CallTypes /\ c.mode = "upgrading" /\ c.sfuMode = TRUE
        /\ c.pcClient = Null /\ c.createPromise = Null
        /\ c.p2pPcClient = s.call.pcClient /\ c.sfuPcClient = s.call.sfuPcClient
    BY <1>2, <2>1, PageFields, NullIsNoId DEF CallTypes, Modes
  <2>3. PICK u : u = [s EXCEPT !.call = c]
    OBVIOUS
  <2>4. u \in PageTypes /\ u.call = c /\ u.waiting = s.waiting /\ u.ui = s.ui /\ u.clients = s.clients
    BY <1>2, <2>2, <2>3 DEF PageTypes
  <2>5. u = [s EXCEPT !.call.mode = "upgrading", !.call.sfuMode = TRUE,
                      !.call.p2pPcClient = call.pcClient,
                      !.call.pcClient = Null, !.call.createPromise = Null]
    BY <1>2, <2>1, <2>3 DEF PageTypes, CallTypes
  <2>6. BecomeStarting(u, "start")
    BY <1>1, <1>8, <2>5 DEF SfuUpgrade
  <2>7. Basic(u)
    BY <1>2, <2>2, <2>4 DEF Basic
  <2>9. ASSUME calm'
        PROVE  /\ Orderly(u) /\ Connecting(u, connects', channel') /\ u.ui.page = "call"
               /\ u.call.mode # "sfu" /\ \A j \in Joins : connects'[j] \notin Early
    <3>1. /\ Orderly(s) /\ Connecting(s, connects', channel') /\ s.ui.page = "call"
          /\ s.call.mode # "downgrading" /\ ~s.ui.pending
          /\ \A i \in Ids : s.waiting[i] = {}
          /\ \A j \in Joins : connects'[j] = "none"
      BY <1>6, <2>9
    <3>2. s.call.p2pPcClient = Null /\ s.call.sfuPcClient = Null /\ ~s.call.sfuMode
      BY <1>2, <1>8, <3>1 DEF Basic, Orderly, Held
    <3>3. Owned(u)
      <4>1. \A i \in Ids : u.clients[i].state = "open" => i = u.call.p2pPcClient
        BY <2>2, <2>4, <3>1, <3>2, NullIsNoId DEF Orderly, Owned
      <4>2. \A i \in Ids : u.clients[i].handler # "sfu"
        BY <2>4, <3>1, <3>2, NullIsNoId DEF Orderly, Owned
      <4> QED BY <2>2, <2>4, <3>1, <4>1, <4>2 DEF Owned
    <3>4. Held(u)
      BY <2>2, <2>4, <3>1, <3>2 DEF Orderly, Held
    <3>5. Connecting(u, connects', channel')
      BY <2>2, <2>4, <3>1 DEF Connecting, Early
    <3> QED BY <2>2, <2>4, <3>1, <3>3, <3>4, <3>5 DEF Orderly, Early
  <2>10. "start" \in Starts
    BY DEF Starts
  <2>11. Inv' /\ call'.mode = u.call.mode
    BY <1>5, <2>6, <2>7, <2>9, <2>10, CreateStep
  <2> QED BY <2>2, <2>4, <2>11 DEF KeepsOutOfSfu
<1> QED BY <1>7, <1>8

LEMMA SfuDowngradeStep ==
    ASSUME Inv, SfuDowngrade
    PROVE  Inv' /\ KeepsOutOfSfu
<1>1. PICK s : s = Page
  OBVIOUS
<1>2. Basic(s) /\ s \in PageTypes /\ s.call = call /\ s.clients = clients /\ s.waiting = waiting /\ s.ui = ui
  BY <1>1, PageParts DEF Inv, Basic
<1>3. /\ channel \in ChannelTypes /\ hub \in RoomModes /\ connects \in [Joins -> Stages]
      /\ calm \in BOOLEAN
  BY DEF Inv
<1>4. /\ hub' = "p2p" /\ channel' = channel
      /\ calm' = (calm /\ Quiet) /\ connects' = connects
  BY <1>1 DEF SfuDowngrade
<1>5. /\ calm' \in BOOLEAN /\ channel' \in ChannelTypes /\ hub' \in RoomModes
      /\ connects' \in [Joins -> Stages]
  <2>1. calm' \in BOOLEAN
    BY <1>3, <1>4
  <2> QED BY <1>3, <1>4, <2>1 DEF RoomModes
<1>6. ASSUME calm'
      PROVE  /\ Orderly(s) /\ Connecting(s, connects', channel') /\ s.ui.page = "call"
             /\ s.call.mode # "downgrading" /\ ~s.ui.pending
             /\ \A i \in Ids : s.waiting[i] = {}
             /\ \A j \in Joins : connects'[j] = "none"
  <2>1. Orderly(s) /\ Connecting(s, connects, channel)
    BY <1>1, <1>4, <1>6 DEF Inv
  <2>2. Quiet
    BY <1>4, <1>6
  <2> QED BY <1>1, <1>2, <1>4, <1>5, <2>1, <2>2 DEF Quiet, Settled, Pending, Connecting
<1>7. CASE call.mode \in {"p2p", "downgrading"}
  <2>1. Become(s)
    BY <1>1, <1>7 DEF SfuDowngrade
  <2>2. Inv'
    BY <1>2, <1>5, <1>6, <2>1, PageStep
  <2> QED BY <1>2, <2>1, <2>2 DEF Become, KeepsOutOfSfu
<1>8. CASE call.mode \notin {"p2p", "downgrading"}
  <2>1. PICK p : p = s.call.pcClient
    OBVIOUS
  <2>2. /\ p \in Slots /\ s.call.p2pPcClient \in Slots /\ \A d \in Slots : d # Null => d \in Ids
    BY <1>2, <2>1, PageFields DEF Slots
  <2>3. PICK a : a = retireSfuClientCallbacks(s, p)
    OBVIOUS
  <2>4. /\ a \in PageTypes /\ a.call = s.call /\ a.waiting = s.waiting /\ a.ui = s.ui
        /\ \A i \in Ids : a.clients[i] = IF i = p THEN Retired ELSE s.clients[i]
    <3>1. CASE p = Null
      <4>1. a = s
        BY <2>3, <3>1 DEF retireSfuClientCallbacks
      <4> QED BY <1>2, <3>1, <4>1, NullIsNoId
    <3>2. CASE p # Null
      <4>1. PICK k : k = [s.clients EXCEPT ![p] = Retired]
        OBVIOUS
      <4>2. k \in [Ids -> Client] /\ \A i \in Ids : k[i] = IF i = p THEN Retired ELSE s.clients[i]
        BY <1>2, <2>2, <3>2, <4>1, PageFields, ClientRecords
      <4>3. a = [s EXCEPT !.clients = k]
        BY <2>3, <3>2, <4>1 DEF retireSfuClientCallbacks
      <4> QED BY <1>2, <4>2, <4>3 DEF PageTypes
    <3> QED BY <3>1, <3>2
  <2>5. PICK b : b = CloseClient(a, s.call.p2pPcClient)
    OBVIOUS
  <2>6. /\ b \in PageTypes /\ b.call = s.call /\ b.waiting = s.waiting /\ b.ui = s.ui
        /\ \A i \in Ids : b.clients[i] = IF i = s.call.p2pPcClient THEN NoClient ELSE a.clients[i]
    BY <2>2, <2>4, <2>5, Closed
  <2>7. PICK c : c = [s.call EXCEPT !.mode = "downgrading", !.sfuMode = FALSE, !.sfuPcClient = p,
                                    !.p2pPcClient = Null, !.pcClient = Null, !.createPromise = Null,
                                    !.downgradeTimer = TRUE]
    OBVIOUS
  <2>8. /\ c \in CallTypes /\ c.mode = "downgrading" /\ c.sfuMode = FALSE
        /\ c.pcClient = Null /\ c.createPromise = Null /\ c.p2pPcClient = Null /\ c.sfuPcClient = p
    BY <1>2, <2>2, <2>7, PageFields, NullIsNoId DEF CallTypes, Modes
  <2>9. PICK u : u = [b EXCEPT !.call = c]
    OBVIOUS
  <2>10. u \in PageTypes /\ u.call = c /\ u.waiting = s.waiting /\ u.ui = s.ui /\ u.clients = b.clients
    BY <2>6, <2>8, <2>9 DEF PageTypes
  <2>11. u = startDowngradeTimer(
                [b EXCEPT !.call.mode = "downgrading", !.call.sfuMode = FALSE,
                          !.call.sfuPcClient = call.pcClient, !.call.p2pPcClient = Null,
                          !.call.pcClient = Null, !.call.createPromise = Null])
    BY <1>2, <2>1, <2>6, <2>7, <2>9 DEF startDowngradeTimer, PageTypes, CallTypes
  <2>12. BecomeStarting(u, "downgrade")
    BY <1>1, <1>2, <1>8, <2>1, <2>3, <2>5, <2>11 DEF SfuDowngrade
  <2>13. \A i \in Ids :
            /\ i = p => u.clients[i].state = "open" /\ u.clients[i].handler = "none" /\ s.clients[i].state = "open"
            /\ i = s.call.p2pPcClient => /\ u.clients[i].state = "none" /\ u.clients[i].handler = "none"
                                         /\ s.clients[i].state = "open"
            /\ i # p /\ i # s.call.p2pPcClient => u.clients[i] = s.clients[i]
    <3>1. \A i \in Ids : i = p => i # s.call.p2pPcClient /\ s.clients[i].state = "open"
      BY <1>2, <2>1, NullIsNoId DEF Basic
    <3>2. \A i \in Ids : i = s.call.p2pPcClient => s.clients[i].state = "open"
      BY <1>2, NullIsNoId DEF Basic
    <3> QED BY <2>4, <2>6, <2>10, <3>1, <3>2, ClientRecords
  <2>14. Basic(u)
    <3>1. \A d \in {u.call.pcClient, u.call.p2pPcClient, u.call.sfuPcClient} :
            d # Null => u.clients[d].state = "open"
      BY <2>2, <2>8, <2>10, <2>13
    <3>2. \A i \in Ids : u.waiting[i] # {} => u.clients[i].state = "none"
      BY <1>2, <2>10, <2>13 DEF Basic
    <3> QED BY <2>8, <2>10, <3>1, <3>2 DEF Basic
  <2>16. ASSUME calm'
         PROVE  /\ Orderly(u) /\ Connecting(u, connects', channel') /\ u.ui.page = "call"
                /\ u.call.mode # "sfu" /\ \A j \in Joins : connects'[j] \notin Early
    <3>1. /\ Orderly(s) /\ Connecting(s, connects', channel') /\ s.ui.page = "call"
          /\ s.call.mode # "downgrading" /\ ~s.ui.pending
          /\ \A i \in Ids : s.waiting[i] = {}
          /\ \A j \in Joins : connects'[j] = "none"
      BY <1>6, <2>16
    <3>2. s.call.sfuPcClient = Null
      BY <3>1 DEF Orderly, Held
    <3>3. Owned(u)
      <4>1. \A i \in Ids : u.clients[i].state = "open" => i = u.call.sfuPcClient
        BY <2>1, <2>8, <2>10, <2>13, <3>1, <3>2, NullIsNoId DEF Orderly, Owned
      <4>2. \A i \in Ids : u.clients[i].handler # "sfu"
        BY <2>1, <2>13, <3>1 DEF Orderly, Owned
      <4> QED BY <2>8, <2>10, <3>1, <4>1, <4>2 DEF Owned
    <3>4. Held(u)
      BY <2>8, <2>10, <3>1 DEF Orderly, Held
    <3>5. Connecting(u, connects', channel')
      BY <2>8, <2>10, <3>1 DEF Connecting, Early
    <3> QED BY <2>8, <2>10, <3>1, <3>3, <3>4, <3>5 DEF Orderly, Early
  <2>17. "downgrade" \in Starts
    BY DEF Starts
  <2>18. Inv' /\ call'.mode = u.call.mode
    BY <1>5, <2>12, <2>14, <2>16, <2>17, CreateStep
  <2> QED BY <2>8, <2>10, <2>18 DEF KeepsOutOfSfu
<1> QED BY <1>7, <1>8

LEMMA RemoteHangupStep ==
    ASSUME Inv, RemoteHangup
    PROVE  Inv' /\ KeepsOutOfSfu
<1>1. PICK s : s = Page
  OBVIOUS
<1>2. Basic(s) /\ s.call = call /\ s.clients = clients /\ s.waiting = waiting /\ s.ui = ui
  BY <1>1, PageParts DEF Inv, Basic
<1>3. PICK a : a = IF s.ui.pending THEN completeP2pLayout(s) ELSE s
  OBVIOUS
<1>4. PICK u : u = closePcClient(a)
  OBVIOUS
<1>5. /\ channel.registered /\ channel' = channel /\ hub' = hub /\ connects' = connects
      /\ calm' = (calm /\ s.ui.page = "call") /\ BecomeStarting(u, "start")
  BY <1>1, <1>2, <1>3, <1>4 DEF RemoteHangup, Online
<1>6. /\ Basic(a) /\ a.call.mode = s.call.mode /\ a.ui.page = s.ui.page
      /\ ~a.ui.pending \/ s.ui.pending
      /\ s.ui.pending \/ a.ui.layout = s.ui.layout
      /\ Orderly(s) => Orderly(a)
  <2>1. CASE s.ui.pending
    <3>1. a = completeP2pLayout(s)
      BY <1>3, <2>1
    <3>2. /\ Basic(a) /\ a.ui.page = s.ui.page /\ a.call.mode = s.call.mode
          /\ Owned(s) => Owned(a)
          /\ ~s.ui.stray => Held(a)
      BY <1>2, <3>1, Completed
    <3>3. Orderly(s) => Orderly(a)
      BY <3>2 DEF Orderly, Held
    <3> QED BY <2>1, <3>2, <3>3
  <2>2. CASE ~s.ui.pending
    BY <1>2, <1>3, <2>2
  <2> QED BY <2>1, <2>2
<1>7. /\ Basic(u) /\ u.ui = a.ui /\ u.call.mode = a.call.mode /\ u.call.sfuPcClient = a.call.sfuPcClient
      /\ Owned(a) => Owned(u)
  BY <1>4, <1>6, ClosedCurrent
<1>9. ASSUME calm'
      PROVE  /\ Orderly(u) /\ Connecting(u, connects', channel') /\ u.ui.page = "call"
             /\ channel'.registered /\ \A j \in Joins : connects'[j] \notin Early
  <2>1. Orderly(s) /\ Connecting(s, connects, channel) /\ s.ui.page = "call"
    BY <1>1, <1>5, <1>9 DEF Inv
  <2>2. s.ui.page = "call" /\ \A j \in Joins : connects'[j] \notin Early
    BY <1>5, <2>1 DEF Connecting
  <2>3. Held(u)
    BY <1>6, <1>7, <2>1 DEF Orderly, Held
  <2>4. Orderly(u)
    BY <1>6, <1>7, <2>1, <2>3 DEF Orderly
  <2>5. s.ui.pending => s.call.mode # "sfu"
    BY <2>1 DEF Orderly, Held
  <2>6. Live(s, channel)
    BY <1>5 DEF Live
  <2>7. Connecting(u, connects', channel')
    BY <1>5, <1>6, <1>7, <2>1, <2>2, <2>5, <2>6 DEF Connecting
  <2> QED BY <1>5, <1>6, <1>7, <2>2, <2>4, <2>7
<1>10. /\ calm' \in BOOLEAN /\ channel' \in ChannelTypes /\ hub' \in RoomModes
       /\ connects' \in [Joins -> Stages] /\ "start" \in Starts
  <2>1. calm' \in BOOLEAN
    BY <1>5 DEF Inv
  <2> QED BY <1>5, <2>1 DEF Inv, Starts
<1>11. Inv' /\ call'.mode = u.call.mode
  BY <1>5, <1>7, <1>9, <1>10, CreateStep
<1> QED BY <1>2, <1>6, <1>7, <1>11 DEF KeepsOutOfSfu

LEMMA DowngradeTimerStep ==
    ASSUME Inv, DowngradeTimerFires
    PROVE  Inv' /\ KeepsOutOfSfu
<1>1. PICK s : s = Page
  OBVIOUS
<1>2. Basic(s) /\ s \in PageTypes /\ s.call = call /\ s.clients = clients /\ s.waiting = waiting /\ s.ui = ui
  BY <1>1, PageParts DEF Inv, Basic
<1>3. PICK c : c = [s.call EXCEPT !.downgradeTimer = FALSE]
  OBVIOUS
<1>4. /\ c \in CallTypes /\ c.mode = s.call.mode /\ c.sfuMode = s.call.sfuMode
      /\ c.pcClient = s.call.pcClient /\ c.createPromise = s.call.createPromise
      /\ c.p2pPcClient = s.call.p2pPcClient /\ c.sfuPcClient = s.call.sfuPcClient
  BY <1>2, <1>3, PageFields DEF CallTypes
<1>5. PICK u : u = [s EXCEPT !.call = c]
  OBVIOUS
<1>6. u \in PageTypes /\ u.call = c /\ u.waiting = s.waiting /\ u.ui = s.ui /\ u.clients = s.clients
  BY <1>2, <1>4, <1>5 DEF PageTypes
<1>7. u = [s EXCEPT !.call.downgradeTimer = FALSE]
  BY <1>2, <1>3, <1>5 DEF PageTypes
<1>8. PICK playable \in BOOLEAN : Become(finishSfuDowngrade(u, playable))
  BY <1>1, <1>7 DEF DowngradeTimerFires
<1>9. connects' = connects /\ channel' = channel /\ hub' = hub /\ calm' = calm
  BY DEF DowngradeTimerFires
<1>10. PICK t : t = finishSfuDowngrade(u, playable)
  OBVIOUS
<1>11. Become(t)
  BY <1>8, <1>10
<1>12. Basic(u)
  BY <1>2, <1>4, <1>6 DEF Basic
<1>13. /\ Basic(t) /\ t.ui.page = u.ui.page
       /\ u.call.mode # "downgrading" => t = u
       /\ u.call.mode = "downgrading" => t.call.mode = "p2p"
       /\ Orderly(u) => Orderly(t)
  BY <1>10, <1>12, Finished
<1>14. ASSUME calm'
       PROVE  Orderly(t) /\ Connecting(t, connects', channel')
  <2>1. Orderly(s) /\ Connecting(s, connects, channel)
    BY <1>1, <1>9, <1>14 DEF Inv
  <2>2. Orderly(u)
    BY <1>4, <1>6, <2>1 DEF Orderly, Owned, Held
  <2>3. Connecting(u, connects', channel')
    BY <1>4, <1>6, <1>9, <2>1 DEF Connecting, Live
  <2>4. CASE u.call.mode # "downgrading"
    BY <1>13, <2>2, <2>3, <2>4
  <2>5. CASE u.call.mode = "downgrading"
    <3>1. u.ui.page = "call" /\ \A j \in Joins : connects'[j] = "none"
      BY <2>3, <2>5 DEF Connecting
    <3>2. Connecting(t, connects', channel')
      BY <1>13, <2>3, <2>5, <3>1 DEF Connecting, Early
    <3> QED BY <1>13, <2>2, <3>2
  <2> QED BY <2>4, <2>5
<1>15. /\ calm' \in BOOLEAN /\ channel' \in ChannelTypes /\ hub' \in RoomModes
       /\ connects' \in [Joins -> Stages]
  BY <1>9 DEF Inv
<1>16. Inv'
  BY <1>11, <1>13, <1>14, <1>15, PageStep
<1>17. call' = t.call
  BY <1>11 DEF Become
<1> QED BY <1>2, <1>4, <1>6, <1>13, <1>16, <1>17 DEF KeepsOutOfSfu

LEMMA HoldEndsStep ==
    ASSUME Inv, LayoutHoldEnds \/ StrayHoldEnds
    PROVE  Inv' /\ KeepsOutOfSfu
<1>1. PICK s : s = Page
  OBVIOUS
<1>2. Basic(s) /\ s.call = call /\ s.clients = clients /\ s.waiting = waiting /\ s.ui = ui
  BY <1>1, PageParts DEF Inv, Basic
<1>3. PICK t : t = completeP2pLayout(s)
  OBVIOUS
<1>4. /\ Become(t) /\ connects' = connects /\ channel' = channel /\ hub' = hub /\ calm' = calm
      /\ s.ui.pending \/ s.ui.stray
  BY <1>1, <1>2, <1>3 DEF LayoutHoldEnds, StrayHoldEnds
<1>5. /\ Basic(t) /\ t.ui.page = s.ui.page /\ t.call.mode = s.call.mode
      /\ ~t.ui.pending
      /\ Owned(s) => Owned(t)
      /\ ~s.ui.stray => Held(t)
  BY <1>2, <1>3, Completed
<1>6. ASSUME calm'
      PROVE  Orderly(t) /\ Connecting(t, connects', channel')
  <2>1. Orderly(s) /\ Connecting(s, connects, channel)
    BY <1>1, <1>4, <1>6 DEF Inv
  <2>2. Orderly(t) /\ s.ui.pending /\ s.call.mode = "p2p"
    BY <1>4, <1>5, <2>1 DEF Orderly, Held
  <2>3. s.ui.page = "call" /\ \A j \in Joins : connects'[j] = "none"
    BY <1>4, <2>1, <2>2 DEF Connecting
  <2>4. Connecting(t, connects', channel')
    BY <1>4, <1>5, <2>1, <2>2, <2>3 DEF Connecting, Early
  <2> QED BY <2>2, <2>4
<1>7. /\ calm' \in BOOLEAN /\ channel' \in ChannelTypes /\ hub' \in RoomModes
      /\ connects' \in [Joins -> Stages]
  BY <1>4 DEF Inv
<1>8. Inv'
  BY <1>4, <1>5, <1>6, <1>7, PageStep
<1>9. call' = t.call
  BY <1>4 DEF Become
<1> QED BY <1>2, <1>5, <1>8, <1>9 DEF KeepsOutOfSfu

\* The page shows the call again, or nothing.
LEMMA PageShown ==
    ASSUME NEW s, Basic(s), NEW g \in Pages
    PROVE  LET t == [s EXCEPT !.ui.page = g]
           IN  /\ Basic(t) /\ t.call = s.call /\ t.clients = s.clients /\ t.waiting = s.waiting
               /\ t.ui = [s.ui EXCEPT !.page = g]
               /\ t.ui.page = g /\ t.ui.pending = s.ui.pending /\ t.ui.layout = s.ui.layout
               /\ Orderly(s) => Orderly(t)
<1>0. s \in PageTypes
  BY DEF Basic
<1>1. PICK v : v = [s.ui EXCEPT !.page = g]
  OBVIOUS
<1>2. /\ v \in UiTypes /\ v.page = g /\ v.pending = s.ui.pending /\ v.stray = s.ui.stray
      /\ v.layout = s.ui.layout
  BY <1>0, <1>1, PageFields DEF UiTypes
<1>3. PICK t : t = [s EXCEPT !.ui = v]
  OBVIOUS
<1>4. t \in PageTypes /\ t.call = s.call /\ t.waiting = s.waiting /\ t.ui = v /\ t.clients = s.clients
  BY <1>0, <1>2, <1>3 DEF PageTypes
<1>5. t = [s EXCEPT !.ui.page = g]
  BY <1>0, <1>1, <1>3 DEF PageTypes
<1>6. Basic(t)
  BY <1>4 DEF Basic
<1>7. Orderly(s) => Orderly(t)
  BY <1>2, <1>4 DEF Orderly, Owned, Held
<1> QED BY <1>1, <1>2, <1>4, <1>5, <1>6, <1>7

LEMMA RejoinStep ==
    ASSUME Inv, NEW j \in Joins, NEW m \in {"p2p", "sfu"}, Rejoin(j, m)
    PROVE  Inv' /\ KeepsOutOfSfu
<1>1. PICK s : s = Page
  OBVIOUS
<1>2. Basic(s) /\ s.call = call /\ s.clients = clients /\ s.waiting = waiting /\ s.ui = ui
  BY <1>1, PageParts DEF Inv
<1>3. PICK t : t = [s EXCEPT !.ui.page = "call"]
  OBVIOUS
<1>4. /\ Basic(t) /\ t.call = s.call /\ t.clients = s.clients /\ t.waiting = s.waiting
      /\ t.ui = [s.ui EXCEPT !.page = "call"]
      /\ t.ui.page = "call" /\ t.ui.pending = s.ui.pending /\ t.ui.layout = s.ui.layout
      /\ Orderly(s) => Orderly(t)
  BY <1>2, <1>3, PageShown DEF Pages
<1>5. /\ call' = call /\ ui' = t.ui /\ clients' = clients /\ waiting' = waiting /\ calm' = calm
      /\ s.ui.page # "call" /\ connects' = [connects EXCEPT ![j] = "joining"] /\ hub' = m
      /\ channel.socket = "null" /\ channel' = [channel EXCEPT !.socket = "connecting"]
  BY <1>2, <1>4 DEF Rejoin
<1>6. Page' = t
  <2>1. Page' = [call |-> t.call, clients |-> t.clients, waiting |-> t.waiting, ui |-> t.ui]
    BY <1>2, <1>4, <1>5 DEF Page
  <2> QED BY <1>4, <2>1 DEF Basic, PageTypes
<1>7. /\ hub' \in RoomModes /\ channel' \in ChannelTypes /\ channel'.socket = "connecting"
      /\ channel'.registered = channel.registered /\ channel'.saved = channel.saved
      /\ channel'.registering = channel.registering
      /\ connects' \in [Joins -> Stages] /\ connects'[j] = "joining"
      /\ \A k \in Joins : k # j => connects'[k] = connects[k]
  <2>1. connects \in [Joins -> Stages] /\ channel \in ChannelTypes
    BY DEF Inv
  <2>2. /\ connects' \in [Joins -> Stages] /\ connects'[j] = "joining"
        /\ \A k \in Joins : k # j => connects'[k] = connects[k]
    BY <1>5, <2>1 DEF Stages
  <2> QED BY <1>5, <2>1, <2>2 DEF ChannelTypes, Sockets, RoomModes
<1>8. ASSUME calm'
      PROVE  Orderly(t) /\ Connecting(t, connects', channel')
  <2>1. Orderly(s) /\ Connecting(s, connects, channel)
    BY <1>1, <1>5, <1>8 DEF Inv
  <2>2. /\ s.call.mode # "downgrading" /\ ~s.ui.pending
        /\ \A i \in Ids : s.clients[i].state # "open" /\ s.waiting[i] = {}
        /\ \A k \in Joins : connects[k] = "none"
    BY <1>5, <2>1 DEF Connecting
  <2>3. ~channel.registered /\ ~channel.saved /\ ~channel.registering
    BY <1>5, <2>1, <2>2 DEF Connecting
  <2>4. s.call.pcClient = Null
    <3>1. s.call.pcClient \in Slots
      BY <1>2, PageFields DEF Basic
    <3> QED BY <1>2, <2>2, <3>1 DEF Basic, Slots
  <2>5. \A k \in Joins : k # j => connects'[k] = "none"
    BY <1>7, <2>2
  <2>6. \A k \in Joins : connects'[k] # "opened" /\ (connects'[k] \in Early => k = j)
    BY <1>7, <2>5 DEF Early
  <2>7. ~Live(t, channel')
    BY <1>4, <1>7, <2>2, <2>3, <2>4 DEF Live
  <2>8. Connecting(t, connects', channel')
    BY <1>4, <1>7, <2>2, <2>3, <2>4, <2>5, <2>6, <2>7 DEF Connecting
  <2> QED BY <1>4, <2>1, <2>8
<1>9. calm' \in BOOLEAN
  BY <1>5 DEF Inv
<1>10. Inv'
  BY <1>4, <1>6, <1>7, <1>8, <1>9, PlainStep
<1> QED BY <1>5, <1>10 DEF KeepsOutOfSfu

LEMMA RejoinTooEarlyStep ==
    ASSUME Inv, RejoinTooEarly
    PROVE  Inv'
<1>1. PICK s : s = Page
  OBVIOUS
<1>2. Basic(s) /\ s.call = call /\ s.clients = clients /\ s.waiting = waiting /\ s.ui = ui
  BY <1>1, PageParts DEF Inv
<1>3. PICK t : t = [s EXCEPT !.ui.page = "blank"]
  OBVIOUS
<1>4. /\ Basic(t) /\ t.call = s.call /\ t.clients = s.clients /\ t.waiting = s.waiting
      /\ t.ui = [s.ui EXCEPT !.page = "blank"]
      /\ t.ui.page = "blank" /\ t.ui.pending = s.ui.pending /\ t.ui.layout = s.ui.layout
      /\ Orderly(s) => Orderly(t)
  BY <1>2, <1>3, PageShown DEF Pages
<1>5. /\ call' = call /\ ui' = t.ui /\ clients' = clients /\ waiting' = waiting /\ calm' = calm
      /\ s.ui.page # "call" /\ connects' = connects /\ hub' = hub /\ channel' = channel
  BY <1>2, <1>4 DEF RejoinTooEarly
<1>6. Page' = t
  <2>1. Page' = [call |-> t.call, clients |-> t.clients, waiting |-> t.waiting, ui |-> t.ui]
    BY <1>2, <1>4, <1>5 DEF Page
  <2> QED BY <1>4, <2>1 DEF Basic, PageTypes
<1>7. ASSUME calm'
      PROVE  Orderly(t) /\ Connecting(t, connects', channel')
  <2>1. Orderly(s) /\ Connecting(s, connects, channel)
    BY <1>1, <1>5, <1>7 DEF Inv
  <2>2. Connecting(t, connects', channel')
    BY <1>4, <1>5, <2>1 DEF Connecting, Live
  <2> QED BY <1>4, <2>1, <2>2
<1>8. /\ calm' \in BOOLEAN /\ channel' \in ChannelTypes /\ hub' \in RoomModes
      /\ connects' \in [Joins -> Stages]
  BY <1>5 DEF Inv
<1> QED BY <1>4, <1>6, <1>7, <1>8, PlainStep

LEMMA HangUpStep ==
    ASSUME Inv, HangUp
    PROVE  Inv' /\ KeepsOutOfSfu
<1>1. PICK s : s = Page
  OBVIOUS
<1>2. Basic(s) /\ s \in PageTypes /\ s.call = call /\ s.clients = clients /\ s.waiting = waiting /\ s.ui = ui
  BY <1>1, PageParts DEF Inv, Basic
<1>3. PICK v0 : v0 = [s.ui EXCEPT !.pending = FALSE]
  OBVIOUS
<1>4. v0 \in UiTypes /\ ~v0.pending /\ v0.stray = s.ui.stray /\ v0.layout = s.ui.layout
  BY <1>2, <1>3, PageFields DEF UiTypes
<1>5. PICK a : a = clearP2pLayoutHold(s)
  OBVIOUS
<1>6. a \in PageTypes /\ a.call = s.call /\ a.waiting = s.waiting /\ a.ui = v0 /\ a.clients = s.clients
  BY <1>2, <1>3, <1>4, <1>5 DEF clearP2pLayoutHold, PageTypes
<1>7. Basic(a) /\ (Owned(s) => Owned(a))
  <2>1. Basic(a)
    BY <1>2, <1>6 DEF Basic
  <2> QED BY <1>6, <2>1 DEF Owned
<1>8. PICK b : b = closePcClient(a)
  OBVIOUS
<1>9. /\ Basic(b) /\ b.waiting = a.waiting /\ b.ui = a.ui
      /\ b.call.mode = a.call.mode /\ b.call.pcClient = Null /\ b.call.sfuMode = a.call.sfuMode
      /\ b.call.p2pPcClient = a.call.p2pPcClient /\ b.call.sfuPcClient = a.call.sfuPcClient
      /\ \A i \in Ids : b.clients[i] = IF i = a.call.pcClient THEN NoClient ELSE a.clients[i]
      /\ Owned(a) => Owned(b)
  BY <1>7, <1>8, ClosedCurrent
<1>10. b \in PageTypes
  BY <1>9 DEF Basic
<1>11. /\ b.call.p2pPcClient \in Slots /\ b.call.sfuPcClient \in Slots /\ b.call.createPromise \in Slots
       /\ \A d \in Slots : d # Null => d \in Ids
  BY <1>10, PageFields DEF Slots
<1>12. PICK d : d = CloseClient(b, b.call.p2pPcClient)
  OBVIOUS
<1>13. /\ d \in PageTypes /\ d.call = b.call /\ d.waiting = b.waiting /\ d.ui = b.ui
       /\ \A i \in Ids : d.clients[i] = IF i = b.call.p2pPcClient THEN NoClient ELSE b.clients[i]
  BY <1>10, <1>11, <1>12, Closed
<1>14. PICK c0 : c0 = [b.call EXCEPT !.p2pPcClient = Null, !.downgradeTimer = FALSE]
  OBVIOUS
<1>15. /\ c0 \in CallTypes /\ c0.sfuPcClient = b.call.sfuPcClient
       /\ c0.mode = b.call.mode /\ c0.sfuMode = b.call.sfuMode /\ c0.pcClient = Null
       /\ c0.p2pPcClient = Null /\ c0.createPromise = b.call.createPromise
  BY <1>9, <1>10, <1>14, PageFields, NullIsNoId DEF CallTypes
<1>16. PICK e : e = [d EXCEPT !.call = c0]
  OBVIOUS
<1>17. e \in PageTypes /\ e.call = c0 /\ e.waiting = d.waiting /\ e.ui = d.ui /\ e.clients = d.clients
  BY <1>13, <1>15, <1>16 DEF PageTypes
<1>18. e = [d EXCEPT !.call.p2pPcClient = Null, !.call.downgradeTimer = FALSE]
  BY <1>13, <1>14, <1>16 DEF PageTypes, CallTypes
<1>19. PICK f : f = releaseRetiredSfuTransport(e)
  OBVIOUS
<1>20. f = closeRetainedPcClients(b)
  BY <1>12, <1>18, <1>19 DEF closeRetainedPcClients
<1>21. /\ f \in PageTypes /\ f.waiting = e.waiting /\ f.ui = e.ui
       /\ f.call = [e.call EXCEPT !.sfuPcClient = Null]
       /\ \A i \in Ids : f.clients[i] = IF i = e.call.sfuPcClient THEN NoClient ELSE e.clients[i]
  BY <1>17, <1>19, Released
<1>22. PICK c : c = f.call
  OBVIOUS
<1>23. /\ c \in CallTypes /\ c.sfuPcClient = Null
       /\ c.mode = b.call.mode /\ c.sfuMode = b.call.sfuMode /\ c.pcClient = Null
       /\ c.p2pPcClient = Null /\ c.createPromise = b.call.createPromise
  <2>1. /\ f.call \in CallTypes /\ f.call.sfuPcClient = Null
        /\ f.call.mode = c0.mode /\ f.call.sfuMode = c0.sfuMode /\ f.call.pcClient = c0.pcClient
        /\ f.call.p2pPcClient = c0.p2pPcClient /\ f.call.createPromise = c0.createPromise
    BY <1>15, <1>17, <1>21, PageFields DEF CallTypes
  <2> QED BY <1>15, <1>22, <2>1 DEF CallTypes
<1>24. PICK v : v = [f.ui EXCEPT !.page = "rejoin"]
  OBVIOUS
<1>25. v \in UiTypes /\ v.page = "rejoin" /\ ~v.pending /\ v.stray = s.ui.stray /\ v.layout = s.ui.layout
  <2>1. f.ui = v0
    BY <1>6, <1>9, <1>13, <1>17, <1>21
  <2> QED BY <1>4, <1>24, <2>1 DEF UiTypes, Pages
<1>26. PICK t : t = [f EXCEPT !.ui = v]
  OBVIOUS
<1>27. t \in PageTypes /\ t.call = c /\ t.waiting = s.waiting /\ t.ui = v /\ t.clients = f.clients
  BY <1>6, <1>9, <1>13, <1>17, <1>21, <1>22, <1>23, <1>25, <1>26 DEF PageTypes
<1>28. t = [closeRetainedPcClients(b) EXCEPT !.ui.page = "rejoin"]
  BY <1>20, <1>21, <1>24, <1>26 DEF PageTypes
<1>29. /\ Become(t) /\ channel' = channel /\ hub' = hub /\ connects' = connects
       /\ calm' = (calm /\ Quiet)
  BY <1>1, <1>5, <1>8, <1>28 DEF HangUp
<1>30. \A i \in Ids :
          \/ t.clients[i] = s.clients[i] /\ i \notin {s.call.pcClient, s.call.p2pPcClient, s.call.sfuPcClient}
          \/ t.clients[i].state = "none" /\ t.clients[i].handler = "none" /\ s.clients[i].state = "open"
  <2>1. ASSUME NEW i \in Ids
        PROVE  t.clients[i] = IF i \in {s.call.pcClient, s.call.p2pPcClient, s.call.sfuPcClient}
                              THEN NoClient ELSE s.clients[i]
    BY <1>6, <1>9, <1>13, <1>15, <1>17, <1>21, <1>27
  <2>2. \A i \in Ids : i \in {s.call.pcClient, s.call.p2pPcClient, s.call.sfuPcClient} =>
                          s.clients[i].state = "open"
    BY <1>2, NullIsNoId DEF Basic
  <2> QED BY <2>1, <2>2, ClientRecords
<1>31. Basic(t)
  <2>1. \A i \in Ids : t.waiting[i] # {} => t.clients[i].state = "none"
    BY <1>2, <1>27, <1>30 DEF Basic
  <2>2. c.createPromise # Null => \/ t.waiting[c.createPromise] # {}
                                  \/ t.clients[c.createPromise].state = "failed"
    <3>1. c.createPromise # Null => \/ b.waiting[c.createPromise] # {}
                                    \/ b.clients[c.createPromise].state = "failed"
      BY <1>9, <1>23 DEF Basic
    <3>2. ASSUME NEW i \in Ids, b.clients[i].state = "failed"
          PROVE  t.clients[i].state = "failed"
      <4>1. b.call.p2pPcClient # i /\ b.call.sfuPcClient # i
        BY <1>9, <3>2, NullIsNoId DEF Basic
      <4> QED BY <1>13, <1>15, <1>17, <1>21, <1>27, <3>2, <4>1
    <3> QED BY <1>6, <1>9, <1>11, <1>23, <1>27, <3>1, <3>2
  <2> QED BY <1>23, <1>27, <2>1, <2>2 DEF Basic
<1>32. ASSUME calm'
       PROVE  Orderly(t) /\ Connecting(t, connects', channel')
  <2>1. calm /\ Quiet /\ Orderly(s) /\ Connecting(s, connects, channel)
    BY <1>1, <1>29, <1>32 DEF Inv
  <2>2. /\ s.call.mode # "downgrading" /\ ~s.ui.pending
        /\ \A i \in Ids : s.waiting[i] = {}
        /\ \A j \in Joins : connects[j] = "none"
    BY <1>1, <1>2, <2>1 DEF Quiet, Settled, Pending
  <2>3. \A i \in Ids : t.clients[i].state # "open" /\ t.clients[i].handler # "sfu"
    BY <1>30, <2>1 DEF Orderly, Owned
  <2>4. t.call.mode = s.call.mode /\ t.call.sfuMode = s.call.sfuMode
    BY <1>6, <1>9, <1>23, <1>27
  <2>5. Owned(t)
    BY <1>23, <1>27, <2>1, <2>2, <2>3, <2>4 DEF Orderly, Owned
  <2>6. Held(t)
    BY <1>23, <1>25, <1>27, <2>1, <2>2, <2>4 DEF Orderly, Held
  <2>7. \A j \in Joins : connects'[j] = "none"
    BY <1>29, <2>2
  <2>8. s.call.mode = "sfu" /\ channel.registered => s.ui.layout = "grid"
    BY <2>1, <2>2 DEF Connecting, Live
  <2>9. Live(t, channel) => channel.registered
    BY <1>23, <1>27, <2>2 DEF Live
  <2>10. Connecting(t, connects', channel')
    BY <1>23, <1>25, <1>27, <1>29, <2>1, <2>2, <2>3, <2>4, <2>7, <2>8, <2>9 DEF Connecting, Early
  <2> QED BY <2>5, <2>6, <2>10 DEF Orderly
<1>33. /\ calm' \in BOOLEAN /\ channel' \in ChannelTypes /\ hub' \in RoomModes
       /\ connects' \in [Joins -> Stages]
  <2>1. calm' \in BOOLEAN
    BY <1>29 DEF Inv
  <2>2. channel' \in ChannelTypes /\ hub' \in RoomModes
    BY <1>29 DEF Inv
  <2>3. connects' \in [Joins -> Stages]
    BY <1>29 DEF Inv
  <2> QED BY <2>1, <2>2, <2>3
<1>34. Inv'
  BY <1>29, <1>31, <1>32, <1>33, PageStep
<1>35. call' = c
  BY <1>27, <1>29 DEF Become
<1> QED BY <1>2, <1>6, <1>9, <1>23, <1>34, <1>35 DEF KeepsOutOfSfu

-----------------------------------------------------------------------------
(* Theorems.                                                                *)

\* The page a browser opens: no client, one connectToRoom_ under way.
LEMMA InitInv == Init => Inv
<1> SUFFICES ASSUME Init
             PROVE  Inv
  OBVIOUS
<1>1. PICK c : c = [mode |-> "p2p", sfuMode |-> FALSE,
                    pcClient |-> Null, p2pPcClient |-> Null, sfuPcClient |-> Null,
                    createPromise |-> Null, downgradeTimer |-> FALSE]
  OBVIOUS
<1>2. /\ c \in CallTypes /\ c.mode = "p2p" /\ c.sfuMode = FALSE /\ c.pcClient = Null
      /\ c.p2pPcClient = Null /\ c.sfuPcClient = Null /\ c.createPromise = Null
  BY <1>1, NullIsNoId DEF CallTypes, Modes
<1>3. PICK v : v = [layout |-> "stage", page |-> "call", pending |-> FALSE, stray |-> FALSE]
  OBVIOUS
<1>4. v \in UiTypes /\ v.layout = "stage" /\ v.page = "call" /\ ~v.pending /\ ~v.stray
  BY <1>3 DEF UiTypes, Pages
<1>5. PICK s : s = Page
  OBVIOUS
<1>6. s = [call |-> c, clients |-> [i \in Ids |-> NoClient], waiting |-> [i \in Ids |-> {}], ui |-> v]
  BY <1>1, <1>3, <1>5 DEF Init, Page
<1>7. s.call = c /\ s.ui = v /\ \A i \in Ids : s.clients[i] = NoClient /\ s.waiting[i] = {}
  BY <1>6
<1>8. s \in PageTypes
  <2>1. {} \in Waits
    BY DEF Waits
  <2> QED BY <1>2, <1>4, <1>6, <2>1, ClientRecords DEF PageTypes
<1>9. Basic(s)
  BY <1>2, <1>7, <1>8 DEF Basic
<1>10. Orderly(s)
  BY <1>2, <1>4, <1>7, ClientRecords DEF Orderly, Owned, Held
<1>11. /\ connects \in [Joins -> Stages]
       /\ \A j \in Joins : connects[j] = IF j = 1 THEN "joining" ELSE "none"
  BY DEF Init, Stages
<1>12. /\ channel \in ChannelTypes /\ hub \in RoomModes /\ calm \in BOOLEAN
       /\ channel.socket = "connecting" /\ ~channel.saved /\ ~channel.registering /\ ~channel.registered
  BY DEF Init, ChannelTypes, Sockets, RoomModes
<1>13. Connecting(s, connects, channel)
  BY <1>2, <1>4, <1>7, <1>11, <1>12 DEF Connecting, Early
<1> QED BY <1>5, <1>9, <1>10, <1>11, <1>12, <1>13 DEF Inv

\* Every step keeps the invariant.
LEMMA NextInv == Inv /\ [Next]_vars => Inv'
<1> SUFFICES ASSUME Inv, [Next]_vars
             PROVE  Inv'
  OBVIOUS
<1>1. CASE Next
  <2>1. ASSUME NEW j \in Joins, NEW m \in {"p2p", "sfu"}, JoinResponse(j, m) \/ Rejoin(j, m)
        PROVE  Inv'
    BY <2>1, JoinResponseStep, RejoinStep
  <2>2. ASSUME NEW j \in Joins, JoinFailure(j) \/ MediaReady(j)
        PROVE  Inv'
    BY <2>2, JoinFailureStep, MediaReadyStep
  <2>3. ASSUME NEW i \in Ids, CertificateReady(i) \/ CertificateFailed(i) \/ IceStateChange(i)
        PROVE  Inv'
    BY <2>3, CertificateReadyStep, CertificateFailedStep, IceStateChangeStep
  <2> QED BY <1>1, <2>1, <2>2, <2>3, RegisteredStep, MessageStep, SfuUpgradeStep, SfuDowngradeStep,
             RemoteHangupStep, DowngradeTimerStep, HoldEndsStep, HangUpStep, SocketStep, SocketClosesStep,
             RegistrationRejectedStep, LeaveAnsweredStep, RejoinTooEarlyStep DEF Next
<1>2. CASE UNCHANGED vars
  <2>1. Page' = Page /\ connects' = connects /\ channel' = channel /\ hub' = hub /\ calm' = calm
    BY <1>2 DEF vars, Page
  <2> QED BY <2>1, PlainStep DEF Inv
<1> QED BY <1>1, <1>2

\* The page always satisfies the inductive invariant: what its fields hold, who
\* owns each client, and, while every transition finds the previous one
\* finished, how mode, layout, joins and registration go together.
THEOREM Invariance == Spec => []Inv
<1>1. Init => Inv
  BY InitInv
<1>2. Inv /\ [Next]_vars => Inv'
  BY NextInv
<1> QED BY <1>1, <1>2, PTL DEF Spec

\* The fields of Call, AppController and SignalingChannel keep their types, for any
\* number of clients and of joins.
THEOREM TypeCorrect == Spec => []TypeOK
<1>1. Inv => TypeOK
  <2> SUFFICES ASSUME Inv
               PROVE  TypeOK
    OBVIOUS
  <2>1. Page \in PageTypes /\ Page.call = call /\ Page.clients = clients /\ Page.waiting = waiting /\ Page.ui = ui
    BY PageParts DEF Inv, Basic
  <2>2. call \in CallTypes /\ clients \in [Ids -> Client] /\ waiting \in [Ids -> Waits] /\ ui \in UiTypes
    BY <2>1, PageFields
  <2> QED BY <2>2 DEF Inv, TypeOK, CallTypes, Client, Waits, UiTypes, Slots, ChannelTypes, RoomModes
<1> QED BY <1>1, Invariance, PTL

\* Whatever crosses whatever, pcClient_, p2pPcClient_ and sfuPcClient_ hold different
\* open clients; and while every transition finds the previous one finished, no
\* other client is open and none is on the rejoin page: closePcClient_,
\* closeRetainedPcClients_ and releaseRetiredSfuTransport leave nothing behind.
THEOREM ClientsAccountedHolds == Spec => []ClientsAccounted
<1>1. Inv => ClientsAccounted
  <2> SUFFICES ASSUME Inv
               PROVE  ClientsAccounted
    OBVIOUS
  <2>1. /\ call.pcClient # Null => clients[call.pcClient].state = "open"
        /\ call.p2pPcClient # Null => clients[call.p2pPcClient].state = "open"
        /\ call.sfuPcClient # Null => clients[call.sfuPcClient].state = "open"
        /\ call.pcClient # Null => call.pcClient # call.p2pPcClient /\ call.pcClient # call.sfuPcClient
        /\ call.p2pPcClient # Null => call.p2pPcClient # call.sfuPcClient
    BY PageParts DEF Inv, Basic
  <2>2. PICK held : held = <<call.pcClient, call.p2pPcClient, call.sfuPcClient>>
    OBVIOUS
  <2>3. held[1] = call.pcClient /\ held[2] = call.p2pPcClient /\ held[3] = call.sfuPcClient
    BY <2>2
  <2>4. ASSUME NEW a \in 1..3, NEW b \in 1..3, held[a] # Null
        PROVE  clients[held[a]].state = "open" /\ (held[a] = held[b] => a = b)
    <3>1. (a = 1 \/ a = 2 \/ a = 3) /\ (b = 1 \/ b = 2 \/ b = 3)
      OBVIOUS
    <3> QED BY <2>1, <2>3, <2>4, <3>1
  <2>5. calm => \A i \in Ids : clients[i].state = "open" =>
                   i \in {call.pcClient, call.p2pPcClient, call.sfuPcClient} /\ ui.page = "call"
    BY PageParts DEF Inv, Orderly, Owned, Connecting
  <2> QED BY <2>2, <2>4, <2>5 DEF ClientsAccounted
<1> QED BY <1>1, Invariance, PTL

\* createPcClient_ gives the current client the role of the mode it was made for,
\* and no mode change leaves it with the other one.
THEOREM RoleFitsModeHolds == Spec => []RoleFitsMode
<1>1. Inv => RoleFitsMode
  BY PageParts DEF Inv, Orderly, Owned, RoleFitsMode
<1> QED BY <1>1, Invariance, PTL

\* onModeChange_ and the layout hold keep the grid for who is in SFU mode with a
\* client, and the stage for P2P mode.
THEOREM LayoutFitsModeHolds == Spec => []LayoutFitsMode
<1>1. Inv => LayoutFitsMode
  BY PageParts DEF Inv, Orderly, Held, Connecting, Live, LayoutFitsMode, Settled
<1> QED BY <1>1, Invariance, PTL

\* No late event of a retired connection flips the session back: outside the joins
\* only onSfuIceConnectionStateChange_, called for the current client of an
\* upgrade, leads to SFU mode.
THEOREM OnlyUpgradesLeadToSfuHolds == Spec => OnlyUpgradesLeadToSfu
<1>1. Inv /\ [Next]_vars =>
         [calm /\ Settled /\ call.mode # "sfu" /\ call'.mode = "sfu" /\ connects' = connects
            => call.mode = "upgrading"]_vars
  <2> SUFFICES ASSUME Inv, Next, calm, Settled, call.mode # "sfu", call'.mode = "sfu"
               PROVE  call.mode = "upgrading"
    OBVIOUS
  <2>1. Pending(Page) = {} /\ \A j \in Joins : connects[j] = "none"
    BY DEF Settled
  <2>2. ASSUME NEW j \in Joins, NEW m \in {"p2p", "sfu"}, JoinResponse(j, m) \/ Rejoin(j, m)
        PROVE  FALSE
    <3>1. ~JoinResponse(j, m)
      BY <2>1 DEF JoinResponse
    <3> QED BY <2>2, <3>1, RejoinStep DEF KeepsOutOfSfu
  <2>3. ASSUME NEW j \in Joins, JoinFailure(j) \/ MediaReady(j)
        PROVE  FALSE
    BY <2>1, <2>3 DEF JoinFailure, MediaReady
  <2>4. ~Registered
    BY <2>1, RegisteredStep
  <2>5. ASSUME NEW i \in Ids, CertificateReady(i) \/ CertificateFailed(i) \/ IceStateChange(i)
        PROVE  call.mode = "upgrading"
    <3>1. ~CertificateReady(i) /\ ~CertificateFailed(i)
      BY <2>1 DEF CertificateReady, CertificateFailed
    <3> QED BY <2>5, <3>1, IceStateChangeStep
  <2>6. ~(\/ onRecvSignalingChannelMessage \/ SfuUpgrade \/ SfuDowngrade \/ RemoteHangup
          \/ DowngradeTimerFires \/ LayoutHoldEnds \/ StrayHoldEnds \/ HangUp
          \/ SocketOpens \/ SocketFails \/ SocketCloses \/ RegistrationRejected
          \/ LeaveAnswered \/ RejoinTooEarly)
    BY MessageStep, SfuUpgradeStep, SfuDowngradeStep, RemoteHangupStep, DowngradeTimerStep,
       HoldEndsStep, HangUpStep
    DEF KeepsOutOfSfu, SocketOpens, SocketFails, SocketCloses, RegistrationRejected, LeaveAnswered,
        RejoinTooEarly
  <2> QED BY <2>2, <2>3, <2>4, <2>5, <2>6 DEF Next
<1> QED BY <1>1, Invariance, PTL DEF Spec, OnlyUpgradesLeadToSfu
=============================================================================
