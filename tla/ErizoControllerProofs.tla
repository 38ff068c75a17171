----------------------- MODULE ErizoControllerProofs -----------------------
(***************************************************************************)
(* Proofs about a room of ErizoController, for every set of clients, of    *)
(* streams and of ErizoJS processes and for every kind of fault.           *)
(*                                                                         *)
(* There are two inductive invariants. RoomInv relates the streams of the  *)
(* room to its clients: who is shown them and who lists them. MapsInv uses *)
(* it and is about the RoomController, whose functions come first here: an *)
(* ErizoJS lists, once, only publishers that it serves, and the loops of   *)
(* 'disconnect' and of callbackFor, which are folds, keep it so.           *)
(***************************************************************************)
EXTENDS ErizoController, FiniteSetTheorems, TLAPS

(***************************************************************************)
(* The inductive invariant. The three properties at its end hold of every  *)
(* state, that of a process that has crashed included.                     *)
(***************************************************************************)

StreamRecord == [socket : Clients, status : {"initial", "ready", "none"},
                 data : SUBSET Clients]
View == [Streams -> {"unseen", "shown", "removed"}]

\* The part of TypeOK that the proofs need.
RoomShape ==
    /\ DOMAIN conn = Clients
    /\ sockets \subseteq Clients
    /\ DOMAIN streams \subseteq Streams
    /\ streams \in [DOMAIN streams -> StreamRecord]
    /\ socketStreams \in [Clients -> SUBSET Streams]
    /\ DOMAIN call = Streams
    /\ owner \in [Streams -> Clients \cup {NoClient}]
    /\ view \in [Clients -> View]

\* A connected client is in the list that sendMsgToRoom goes through.
ConnectedAreListed == Connected \subseteq sockets

\* Clients that are in the room or have left it.
Entered == {c \in Clients : conn[c] \in {"in", "gone"}}

\* A publication that has begun has a client, which has been in the room, and
\* one that has not has no stream.
PublicationsHaveOwners ==
    \A id \in Streams :
        IF call[id] = "idle" THEN id \notin DOMAIN streams ELSE owner[id] \in Entered

ReadyShown ==
    \A c \in Connected, id \in DOMAIN streams :
        streams[id].status = "ready" => view[c][id] = "shown"

OwnerLists ==
    \A id \in DOMAIN streams :
        owner[id] \in Connected /\ call[id] # "failed"
          => id \in socketStreams[owner[id]]

OpenHasSockets == room = "open" <=> sockets # {}

RoomInv ==
    /\ RoomShape
    /\ ConnectedAreListed
    /\ PublicationsHaveOwners
    /\ ReadyShown
    /\ OwnerLists
    /\ OpenHasSockets

-----------------------------------------------------------------------------
(***************************************************************************)
(* What the operators on maps do                                           *)
(***************************************************************************)

\* An assignment to a stream of the room.
LEMMA PutStream ==
    ASSUME RoomShape, NEW id \in Streams, NEW r \in StreamRecord
    PROVE  LET new == Put(streams, id, r)
           IN  /\ DOMAIN new = DOMAIN streams \cup {id}
               /\ DOMAIN new \subseteq Streams
               /\ new \in [DOMAIN new -> StreamRecord]
               /\ new[id] = r
               /\ \A z \in DOMAIN streams \ {id} : new[z] = streams[z]
BY DEF Put, RoomShape

\* Streams taken out of the room.
LEMMA RestrictStreams ==
    ASSUME RoomShape, NEW X
    PROVE  LET new == Restrict(streams, DOMAIN streams \ X)
           IN  /\ DOMAIN new = DOMAIN streams \ X
               /\ new \in [DOMAIN new -> StreamRecord]
               /\ \A z \in DOMAIN streams \ X : new[z] = streams[z]
BY DEF Restrict, RoomShape

\* A message to the room leaves the views of other streams alone, and shows or
\* hides those it is about.
LEMMA SendMsgEffect ==
    ASSUME view \in [Clients -> View], NEW type, NEW ids
    PROVE  /\ SendMsgToRoom(type, ids) \in [Clients -> View]
           /\ \A c \in Clients, id \in Streams \ ids :
                 SendMsgToRoom(type, ids)[c][id] = view[c][id]
           /\ type = "onAddStream" =>
                 \A c \in sockets \cap Connected, id \in ids \cap Streams :
                     SendMsgToRoom(type, ids)[c][id] = "shown"
BY DEF SendMsgToRoom, Seen, View, Connected

-----------------------------------------------------------------------------
(***************************************************************************)
(* The invariant holds at first, and every step preserves it               *)
(***************************************************************************)

\* An empty room.
LEMMA InitRoom == Init => RoomInv
<1> SUFFICES ASSUME Init PROVE RoomInv OBVIOUS
<1>1. RoomShape BY DEF Init, RoomShape, View
<1>2. Connected = {} BY DEF Init, Connected
<1> QED
  BY <1>1, <1>2 DEF Init, RoomInv, ConnectedAreListed, PublicationsHaveOwners,
                   ReadyShown, OwnerLists, OpenHasSockets

\* A step that leaves the connected clients and the room alone.
LEMMA QuietInv ==
    ASSUME RoomInv,
           DOMAIN conn' = Clients, Connected' = Connected, Entered \subseteq Entered',
           UNCHANGED <<room, sockets, streams, socketStreams, Calls, view>>
    PROVE  RoomInv'
BY DEF RoomInv, RoomShape, ConnectedAreListed, PublicationsHaveOwners,
       ReadyShown, OwnerLists, OpenHasSockets, Calls

\* The handshake before a client is in the room, and its failure.
LEMMA HandshakeInv ==
    ASSUME RoomInv, NEW c \in Clients, token(c) \/ tokenRefused(c) \/ disconnectEarly(c)
    PROVE  RoomInv'
<1>1. /\ DOMAIN conn' = Clients
      /\ Connected' = Connected
      /\ Entered \subseteq Entered'
  BY DEF RoomInv, RoomShape, token, tokenRefused, disconnectEarly, Connected, Entered
<1>2. UNCHANGED <<room, sockets, streams, socketStreams, Calls, view>>
  BY DEF token, tokenRefused, disconnectEarly
<1> QED BY <1>1, <1>2, QuietInv

\* A client enters the room and is given the list of its streams.
LEMMA EnterInv ==
    ASSUME RoomInv, NEW c \in Clients, tokenAccepted(c)
    PROVE  RoomInv'
<1> USE DEF RoomInv, tokenAccepted
<1>1. RoomShape' BY DEF RoomShape, View, Calls
<1>2. \A d \in Clients : d # c => (d \in Connected' <=> d \in Connected)
  BY DEF RoomShape, Connected
<1>3. c \in Connected' => conn[c] = "token"
  BY DEF RoomShape, Connected
<1>4. c \in Connected \/ conn[c] \in {"token", "left early"} BY DEF Connected
<1>5. ConnectedAreListed' BY <1>2, <1>3 DEF ConnectedAreListed, Connected
<1>6. PublicationsHaveOwners'
  <2>1. Entered \subseteq Entered' BY DEF RoomShape, Entered
  <2> QED BY <2>1 DEF PublicationsHaveOwners, Calls
<1>7. ReadyShown'
  <2> SUFFICES ASSUME NEW d \in Connected', NEW id \in DOMAIN streams',
                      streams'[id].status = "ready"
               PROVE  view'[d][id] = "shown"
    BY DEF ReadyShown
  <2>1. id \in Listed /\ id \in Streams BY DEF Listed, RoomShape
  <2>2. CASE d = c BY <2>1, <2>2, <1>3 DEF RoomShape
  <2>3. CASE d # c
    <3>1. d \in Clients BY DEF Connected
    <3>2. d \in Connected BY <1>2, <2>3, <3>1
    <3> QED BY <2>3, <3>1, <3>2 DEF ReadyShown, RoomShape
  <2> QED BY <2>2, <2>3
<1>8. OwnerLists'
  <2> SUFFICES ASSUME NEW id \in DOMAIN streams, owner[id] \in Connected',
                      call[id] # "failed"
               PROVE  id \in socketStreams[owner[id]]
    BY DEF OwnerLists, Calls
  <2>1. owner[id] \in Entered BY DEF PublicationsHaveOwners, RoomShape
  <2>2. owner[id] # c BY <2>1 DEF Entered
  <2>3. owner[id] \in Connected BY <1>2, <2>1, <2>2 DEF Entered
  <2> QED BY <2>3 DEF OwnerLists
<1>9. OpenHasSockets' BY DEF OpenHasSockets
<1> QED BY <1>1, <1>5, <1>6, <1>7, <1>8, <1>9

\* A client leaves: the streams its socket lists go, and other clients are told.
LEMMA LeaveInv ==
    ASSUME RoomInv, NEW c \in Clients, disconnect(c)
    PROVE  RoomInv'
<1> DEFINE left == DOMAIN streams \ socketStreams[c]
           shown == SendMsgToRoom("onRemoveStream", socketStreams[c])
<1> USE DEF RoomInv
<1>1. /\ conn[c] = "in"
      /\ conn' = [conn EXCEPT ![c] = "gone"]
      /\ sockets' = sockets \ {c}
      /\ view' = [shown EXCEPT ![c] = [id \in Streams |-> "unseen"]]
      /\ streams' = [id \in left |-> [streams[id] EXCEPT !.data = @ \ {c}]]
      /\ room' = RoomLeftWith(sockets')
      /\ UNCHANGED <<socketStreams, call, owner>>
  BY DEF disconnect, Calls
<1>2. /\ shown \in [Clients -> View]
      /\ \A d \in Clients, id \in Streams \ socketStreams[c] : shown[d][id] = view[d][id]
  BY SendMsgEffect DEF RoomShape
<1> HIDE DEF shown
<1>3. Connected' = Connected \ {c} /\ Entered' = Entered
  BY <1>1 DEF RoomShape, Connected, Entered
<1>4. /\ DOMAIN streams' = left
      /\ streams' \in [left -> StreamRecord]
      /\ \A id \in left : streams'[id].status = streams[id].status
  BY <1>1 DEF RoomShape, StreamRecord
<1>5. RoomShape' BY <1>1, <1>2, <1>4 DEF RoomShape, View
<1>6. ConnectedAreListed' BY <1>1, <1>3 DEF ConnectedAreListed
<1>7. PublicationsHaveOwners' BY <1>1, <1>3, <1>4 DEF PublicationsHaveOwners
<1>8. ReadyShown'
  <2> SUFFICES ASSUME NEW d \in Connected', NEW id \in left, streams'[id].status = "ready"
               PROVE  view'[d][id] = "shown"
    BY <1>4 DEF ReadyShown
  <2>1. d \in Connected /\ d # c /\ d \in Clients BY <1>3 DEF Connected
  <2>2. view'[d] = shown[d] BY <1>1, <1>2, <2>1
  <2>3. view[d][id] = "shown" BY <1>4, <2>1 DEF ReadyShown
  <2> QED BY <1>2, <2>1, <2>2, <2>3 DEF RoomShape
<1>9. OwnerLists' BY <1>1, <1>3, <1>4 DEF OwnerLists
<1>10. OpenHasSockets'
  <2>1. c \in sockets BY <1>1 DEF ConnectedAreListed, Connected
  <2> QED BY <1>1, <2>1 DEF OpenHasSockets, RoomLeftWith
<1> QED BY <1>5, <1>6, <1>7, <1>8, <1>9, <1>10

\* A stream is put into the room that is not READY yet, or is shown to every
\* connected client; its client's socket lists it.
LEMMA AddStreamInv ==
    ASSUME RoomInv, NEW id \in Streams, NEW r \in StreamRecord, NEW c \in Entered,
           owner' = [owner EXCEPT ![id] = c],
           DOMAIN call' = Streams, call'[id] # "idle",
           \A i \in Streams \ {id} : call'[i] = call[i],
           streams' = Put(streams, id, r),
           socketStreams' = [socketStreams EXCEPT ![c] = @ \cup {id}],
           \/ view' = view /\ r.status # "ready"
           \/ view' = SendMsgToRoom("onAddStream", {id}),
           UNCHANGED <<conn, room, sockets>>
    PROVE  RoomInv'
<1> USE DEF RoomInv
<1>1. /\ DOMAIN streams' = DOMAIN streams \cup {id}
      /\ DOMAIN streams' \subseteq Streams
      /\ streams' \in [DOMAIN streams' -> StreamRecord]
      /\ streams'[id] = r
      /\ \A z \in DOMAIN streams \ {id} : streams'[z] = streams[z]
  BY PutStream
<1>2. /\ view' \in [Clients -> View]
      /\ \A d \in Clients, z \in Streams \ {id} : view'[d][z] = view[d][z]
      /\ r.status = "ready" => \A d \in sockets \cap Connected : view'[d][id] = "shown"
  BY SendMsgEffect DEF RoomShape
<1>3. Connected' = Connected /\ Entered' = Entered BY DEF Connected, Entered
<1>4. /\ owner' \in [Streams -> Clients \cup {NoClient}]
      /\ owner'[id] = c
      /\ \A z \in Streams \ {id} : owner'[z] = owner[z]
  BY DEF RoomShape, Entered
<1>5. /\ socketStreams' \in [Clients -> SUBSET Streams]
      /\ id \in socketStreams'[c]
      /\ \A d \in Clients : socketStreams[d] \subseteq socketStreams'[d]
  BY DEF RoomShape, Entered
<1>6. RoomShape' BY <1>1, <1>2, <1>4, <1>5 DEF RoomShape
<1>7. ConnectedAreListed' BY <1>3 DEF ConnectedAreListed
<1>8. PublicationsHaveOwners'
  <2> SUFFICES ASSUME NEW z \in Streams
               PROVE  IF call'[z] = "idle" THEN z \notin DOMAIN streams'
                      ELSE owner'[z] \in Entered'
    BY DEF PublicationsHaveOwners
  <2>1. CASE z = id BY <2>1, <1>3, <1>4
  <2>2. CASE z # id BY <2>2, <1>1, <1>3, <1>4 DEF PublicationsHaveOwners
  <2> QED BY <2>1, <2>2
<1>9. ReadyShown'
  <2> SUFFICES ASSUME NEW d \in Connected, NEW z \in DOMAIN streams',
                      streams'[z].status = "ready"
               PROVE  view'[d][z] = "shown"
    BY <1>3 DEF ReadyShown
  <2>1. d \in sockets /\ d \in Clients BY DEF ConnectedAreListed, Connected
  <2>2. CASE z = id BY <2>1, <2>2, <1>1, <1>2
  <2>3. CASE z # id BY <2>1, <2>3, <1>1, <1>2 DEF ReadyShown
  <2> QED BY <2>2, <2>3
<1>10. OwnerLists'
  <2> SUFFICES ASSUME NEW z \in DOMAIN streams', owner'[z] \in Connected,
                      call'[z] # "failed"
               PROVE  z \in socketStreams'[owner'[z]]
    BY <1>3 DEF OwnerLists
  <2>1. CASE z = id BY <2>1, <1>4, <1>5
  <2>2. CASE z # id
    <3>1. z \in DOMAIN streams /\ owner[z] = owner'[z] /\ call[z] = call'[z]
      BY <2>2, <1>1, <1>4
    <3>2. owner[z] \in Clients BY <3>1 DEF Connected
    <3> QED BY <3>1, <3>2, <1>5 DEF OwnerLists
  <2> QED BY <2>1, <2>2
<1>11. OpenHasSockets' BY DEF OpenHasSockets
<1> QED BY <1>6, <1>7, <1>8, <1>9, <1>10, <1>11

\* A publication moves on without touching its stream.
LEMMA CallInv ==
    ASSUME RoomInv, NEW id \in Streams, NEW c \in Entered,
           owner' = [owner EXCEPT ![id] = c],
           c = owner[id] \/ id \notin DOMAIN streams,
           DOMAIN call' = Streams, call'[id] # "idle",
           call[id] # "failed" \/ call'[id] = "failed",
           \A i \in Streams \ {id} : call'[i] = call[i],
           \/ UNCHANGED socketStreams
           \/ /\ call'[id] = "failed"
              /\ socketStreams' = [socketStreams EXCEPT ![c] = @ \ {id}],
           UNCHANGED <<conn, room, sockets, streams, view>>
    PROVE  RoomInv'
<1> USE DEF RoomInv
<1>1. Connected' = Connected /\ Entered' = Entered BY DEF Connected, Entered
<1>2. /\ owner' \in [Streams -> Clients \cup {NoClient}]
      /\ owner'[id] = c
      /\ \A z \in Streams \ {id} : owner'[z] = owner[z]
  BY DEF RoomShape, Entered
<1>3. /\ socketStreams' \in [Clients -> SUBSET Streams]
      /\ \A d \in Clients : socketStreams[d] \ {id} \subseteq socketStreams'[d]
      /\ call'[id] # "failed" => socketStreams' = socketStreams
  BY DEF RoomShape, Entered
<1>4. RoomShape' BY <1>2, <1>3 DEF RoomShape
<1>5. ConnectedAreListed' BY <1>1 DEF ConnectedAreListed
<1>6. PublicationsHaveOwners'
  <2> SUFFICES ASSUME NEW z \in Streams
               PROVE  IF call'[z] = "idle" THEN z \notin DOMAIN streams
                      ELSE owner'[z] \in Entered
    BY <1>1 DEF PublicationsHaveOwners
  <2>1. CASE z = id BY <2>1, <1>2
  <2>2. CASE z # id BY <2>2, <1>2 DEF PublicationsHaveOwners
  <2> QED BY <2>1, <2>2
<1>7. ReadyShown' BY <1>1 DEF ReadyShown
<1>8. OwnerLists'
  <2> SUFFICES ASSUME NEW z \in DOMAIN streams, owner'[z] \in Connected,
                      call'[z] # "failed"
               PROVE  z \in socketStreams'[owner'[z]]
    BY <1>1 DEF OwnerLists
  <2>1. z \in Streams /\ owner'[z] \in Clients BY DEF RoomShape, Connected
  <2>2. CASE z = id BY <2>2, <1>2, <1>3 DEF OwnerLists
  <2>3. CASE z # id BY <2>1, <2>3, <1>2, <1>3 DEF OwnerLists
  <2> QED BY <2>2, <2>3
<1>9. OpenHasSockets' BY DEF OpenHasSockets
<1> QED BY <1>4, <1>5, <1>6, <1>7, <1>8, <1>9

\* The same for a publication that keeps its client.
LEMMA MoveInv ==
    ASSUME RoomInv, NEW id \in Streams, NEW x, x # "idle",
           call' = [call EXCEPT ![id] = x],
           call[id] # "idle", call[id] # "failed" \/ x = "failed",
           \/ UNCHANGED socketStreams
           \/ /\ x = "failed"
              /\ socketStreams' = [socketStreams EXCEPT ![owner[id]] = @ \ {id}],
           UNCHANGED <<conn, room, sockets, streams, owner, view>>
    PROVE  RoomInv'
<1>1. owner' = [owner EXCEPT ![id] = owner[id]] BY DEF RoomInv, RoomShape
<1>2. owner[id] \in Entered BY DEF RoomInv, PublicationsHaveOwners
<1>3. /\ DOMAIN call' = Streams
      /\ call'[id] = x
      /\ \A i \in Streams \ {id} : call'[i] = call[i]
  BY DEF RoomInv, RoomShape
<1>4. UNCHANGED <<conn, room, sockets, streams, view>> OBVIOUS
<1> QED
  <2>1. CASE UNCHANGED socketStreams BY ONLY <2>1, <1>1, <1>2, <1>3, <1>4, CallInv, RoomInv,
          id \in Streams, x # "idle", call[id] # "failed" \/ x = "failed"
  <2>2. CASE /\ x = "failed"
             /\ socketStreams' = [socketStreams EXCEPT ![owner[id]] = @ \ {id}]
    BY ONLY <2>2, <1>1, <1>2, <1>3, <1>4, CallInv, RoomInv, id \in Streams
  <2> QED BY <2>1, <2>2

\* Streams leave the room and the list of a socket, and are hidden.
LEMMA RemoveStreamsInv ==
    ASSUME RoomInv, NEW gone, NEW c,
           view' = SendMsgToRoom("onRemoveStream", gone),
           socketStreams' = [socketStreams EXCEPT ![c] = @ \ gone],
           streams' = Restrict(streams, DOMAIN streams \ gone),
           UNCHANGED <<conn, room, sockets, call, owner>>
    PROVE  RoomInv'
<1> USE DEF RoomInv
<1>1. /\ DOMAIN streams' = DOMAIN streams \ gone
      /\ streams' \in [DOMAIN streams' -> StreamRecord]
      /\ \A z \in DOMAIN streams' : streams'[z] = streams[z]
  BY RestrictStreams
<1>2. /\ view' \in [Clients -> View]
      /\ \A d \in Clients, z \in Streams \ gone : view'[d][z] = view[d][z]
  BY SendMsgEffect DEF RoomShape
<1>3. Connected' = Connected /\ Entered' = Entered BY DEF Connected, Entered
<1>4. /\ socketStreams' \in [Clients -> SUBSET Streams]
      /\ \A d \in Clients : socketStreams[d] \ gone \subseteq socketStreams'[d]
  BY DEF RoomShape
<1>5. RoomShape' BY <1>1, <1>2, <1>4 DEF RoomShape
<1>6. ConnectedAreListed' BY <1>3 DEF ConnectedAreListed
<1>7. PublicationsHaveOwners' BY <1>1, <1>3 DEF PublicationsHaveOwners
<1>8. ReadyShown'
  <2> SUFFICES ASSUME NEW d \in Connected, NEW z \in DOMAIN streams',
                      streams'[z].status = "ready"
               PROVE  view'[d][z] = "shown"
    BY <1>3 DEF ReadyShown
  <2>1. d \in Clients /\ z \in Streams \ gone BY <1>1 DEF Connected, RoomShape
  <2>2. z \in DOMAIN streams /\ streams[z].status = "ready" BY <1>1
  <2>3. view[d][z] = "shown" BY ONLY <2>2, RoomInv, d \in Connected DEF RoomInv, ReadyShown
  <2>4. view'[d][z] = view[d][z] BY ONLY <2>1, <1>2
  <2> QED BY ONLY <2>3, <2>4
<1>9. OwnerLists'
  <2> SUFFICES ASSUME NEW z \in DOMAIN streams', owner[z] \in Connected, call[z] # "failed"
               PROVE  z \in socketStreams'[owner[z]]
    BY <1>3 DEF OwnerLists
  <2>1. owner[z] \in Clients BY DEF Connected
  <2> QED BY <2>1, <1>1, <1>4 DEF OwnerLists
<1>10. OpenHasSockets' BY DEF OpenHasSockets
<1> QED BY <1>5, <1>6, <1>7, <1>8, <1>9, <1>10

\* The streams of the room stay; one that becomes READY is shown to everyone.
LEMMA UpdateStreamInv ==
    ASSUME RoomInv, NEW id \in Streams,
           DOMAIN streams' = DOMAIN streams,
           streams' \in [DOMAIN streams -> StreamRecord],
           \A i \in DOMAIN streams \ {id} : streams'[i].status = streams[i].status,
           \/ /\ view' = view
              /\ id \in DOMAIN streams => streams'[id].status = streams[id].status
           \/ view' = SendMsgToRoom("onAddStream", {id}),
           DOMAIN call' = Streams,
           \A i \in Streams : call'[i] # call[i] =>
               call[i] \notin {"idle", "failed"} /\ call'[i] \notin {"idle", "failed"},
           UNCHANGED <<conn, room, sockets, socketStreams, owner>>
    PROVE  RoomInv'
<1> USE DEF RoomInv
<1>1. Connected' = Connected /\ Entered' = Entered BY DEF Connected, Entered
<1>2. /\ view' \in [Clients -> View]
      /\ \A d \in Clients, z \in Streams \ {id} : view'[d][z] = view[d][z]
      /\ \/ \A d \in sockets \cap Connected : view'[d][id] = "shown"
         \/ /\ view' = view
            /\ id \in DOMAIN streams => streams'[id].status = streams[id].status
  BY SendMsgEffect DEF RoomShape
<1>3. RoomShape' BY <1>2 DEF RoomShape
<1>4. ConnectedAreListed' BY <1>1 DEF ConnectedAreListed
<1>5. PublicationsHaveOwners' BY <1>1 DEF PublicationsHaveOwners, RoomShape
<1>6. ReadyShown'
  <2> SUFFICES ASSUME NEW d \in Connected, NEW z \in DOMAIN streams,
                      streams'[z].status = "ready"
               PROVE  view'[d][z] = "shown"
    BY <1>1 DEF ReadyShown
  <2>1. d \in sockets /\ d \in Clients /\ z \in Streams
    BY DEF ConnectedAreListed, Connected, RoomShape
  <2>2. CASE z = id BY <2>1, <2>2, <1>2 DEF ReadyShown
  <2>3. CASE z # id BY <2>1, <2>3, <1>2 DEF ReadyShown
  <2> QED BY <2>2, <2>3
<1>7. OwnerLists' BY <1>1 DEF OwnerLists, RoomShape
<1>8. OpenHasSockets' BY DEF OpenHasSockets
<1> QED BY <1>3, <1>4, <1>5, <1>6, <1>7, <1>8

\* Every step is one of those.
LEMMA NextRoom == RoomInv /\ [Next]_vars => RoomInv'
<1> SUFFICES ASSUME RoomInv, [Next]_vars PROVE RoomInv' OBVIOUS
<1>1. \A id \in Streams : [owner EXCEPT ![id] = owner[id]] = owner
  BY DEF RoomInv, RoomShape
<1>2. \A id \in Streams : \A x :
          /\ DOMAIN [call EXCEPT ![id] = x] = Streams
          /\ [call EXCEPT ![id] = x][id] = x
          /\ \A i \in Streams \ {id} : [call EXCEPT ![id] = x][i] = call[i]
  BY DEF RoomInv, RoomShape
<1>3. \A id \in Streams : call[id] # "idle" => owner[id] \in Entered
  BY DEF RoomInv, PublicationsHaveOwners
<1>4. ASSUME NEW c \in Clients, token(c) \/ tokenRefused(c) \/ disconnectEarly(c)
      PROVE  RoomInv'
  BY <1>4, HandshakeInv
<1>5. ASSUME NEW c \in Clients, tokenAccepted(c) PROVE RoomInv' BY <1>5, EnterInv
<1>6. ASSUME NEW c \in Clients, disconnect(c) PROVE RoomInv' BY <1>6, LeaveInv
<1>7. ASSUME NEW c \in Clients, NEW id \in Streams, publish(c, id) PROVE RoomInv'
  <2> USE <1>7
  <2>1. c \in Entered /\ id \notin DOMAIN streams
    BY DEF publish, Entered, RoomInv, PublicationsHaveOwners
  <2>2. UNCHANGED <<conn, room, sockets>> BY DEF publish, Session
  <2>3. CASE AV(id)
    <3>1. /\ owner' = [owner EXCEPT ![id] = c]
          /\ call' = [call EXCEPT ![id] = "agent"]
          /\ call[id] = "idle"
          /\ UNCHANGED <<streams, socketStreams, view>>
      BY <2>3 DEF publish
    <3> QED BY <2>1, <2>2, <3>1, <1>2, CallInv
  <2>4. CASE ~AV(id)
    <3>1. /\ owner' = [owner EXCEPT ![id] = c]
          /\ call' = [call EXCEPT ![id] = "done"]
          /\ streams' = Put(streams, id, Stream(c, "ready"))
          /\ socketStreams' = [socketStreams EXCEPT ![c] = @ \cup {id}]
          /\ view' = SendMsgToRoom("onAddStream", {id})
      BY <2>4 DEF publish
    <3>2. Stream(c, "ready") \in StreamRecord BY DEF Stream, StreamRecord
    <3> QED BY <2>1, <2>2, <3>1, <3>2, <1>2, AddStreamInv
  <2> QED BY <2>3, <2>4
<1>8. ASSUME NEW id \in Streams, NEW e \in Erizos, agentAnswers(id, e) PROVE RoomInv'
  <2>1. \E x \in {"lost", "erizo"} :
           /\ call' = [call EXCEPT ![id] = x]
           /\ call[id] \in {"agent", "agent late"}
           /\ UNCHANGED <<conn, room, sockets, streams, socketStreams, owner, view>>
    BY <1>8 DEF agentAnswers, Session
  <2> QED BY <2>1, MoveInv
<1>9. ASSUME NEW id \in Streams, agentTimeout(id) PROVE RoomInv'
  <2>1. /\ call' = [call EXCEPT ![id] = "agent late"]
        /\ call[id] = "agent"
        /\ UNCHANGED <<conn, room, sockets, streams, socketStreams, owner, view>>
    BY <1>9 DEF agentTimeout, Session
  <2> QED BY <2>1, MoveInv
<1>10. ASSUME NEW id \in Streams, erizoTimeout(id) PROVE RoomInv'
  <2>1. \E x \in {"erizo late", "done"} :
           /\ call' = [call EXCEPT ![id] = x]
           /\ call[id] \in {"lost", "erizo"}
           /\ UNCHANGED <<conn, room, sockets, streams, socketStreams, owner, view>>
    BY <1>10 DEF erizoTimeout, Session
  <2> QED BY <2>1, MoveInv
<1>11. ASSUME NEW id \in Streams, initializing(id) PROVE RoomInv'
  <2>1. /\ call' = [call EXCEPT ![id] = "initializing"]
        /\ call[id] # "idle"
        /\ streams' = Put(streams, id, Stream(owner[id], "initial"))
        /\ socketStreams' = [socketStreams EXCEPT ![owner[id]] = @ \cup {id}]
        /\ UNCHANGED <<conn, room, sockets, owner, view>>
    BY <1>11 DEF initializing, Session
  <2>2. owner[id] \in Entered /\ owner[id] \in Clients BY <2>1, <1>3 DEF Entered
  <2>3. /\ Stream(owner[id], "initial") \in StreamRecord
        /\ Stream(owner[id], "initial").status # "ready"
    BY <2>2 DEF Stream, StreamRecord
  <2> QED BY <2>1, <2>2, <2>3, <1>1, <1>2, AddStreamInv
<1>12. ASSUME NEW id \in Streams, ready(id) PROVE RoomInv'
  <2>1. /\ call' = [call EXCEPT ![id] = "ready"]
        /\ call[id] = "initializing"
        /\ streams' = [i \in DOMAIN streams |->
                          IF i = id THEN [streams[i] EXCEPT !.status = "ready"]
                          ELSE streams[i]]
        /\ view' = SendMsgToRoom("onAddStream", {id})
        /\ UNCHANGED <<conn, room, sockets, socketStreams, owner>>
    BY <1>12 DEF ready, Session
  <2>2. /\ DOMAIN streams' = DOMAIN streams
        /\ streams' \in [DOMAIN streams -> StreamRecord]
        /\ \A i \in DOMAIN streams \ {id} : streams'[i].status = streams[i].status
    BY <2>1 DEF RoomInv, RoomShape, StreamRecord
  <2> QED BY <2>1, <2>2, <1>2, UpdateStreamInv
<1>13. ASSUME NEW id \in Streams, failed(id) PROVE RoomInv'
  <2>1. /\ call' = [call EXCEPT ![id] = "failed"]
        /\ call[id] # "idle"
        /\ socketStreams' = [socketStreams EXCEPT ![owner[id]] = @ \ {id}]
        /\ UNCHANGED <<conn, room, sockets, streams, owner, view>>
    BY <1>13 DEF failed, Session
  <2> QED BY <2>1, MoveInv
<1>14. ASSUME NEW id \in Streams, NEW result, externalInput(id, result) PROVE RoomInv'
  <2>1. /\ call' = [call EXCEPT ![id] = "done"]
        /\ call[id] \in {"erizo", "erizo late"}
        /\ UNCHANGED <<conn, room, sockets, owner>>
    BY <1>14 DEF externalInput, Session
  <2>2. CASE result = "success"
    <3>1. /\ streams' = Put(streams, id, Stream(owner[id], "none"))
          /\ socketStreams' = [socketStreams EXCEPT ![owner[id]] = @ \cup {id}]
          /\ view' = SendMsgToRoom("onAddStream", {id})
      BY <1>14, <2>2 DEF externalInput
    <3>2. owner[id] \in Entered /\ owner[id] \in Clients BY <2>1, <1>3 DEF Entered
    <3>3. Stream(owner[id], "none") \in StreamRecord BY <3>2 DEF Stream, StreamRecord
    <3> QED BY <2>1, <3>1, <3>2, <3>3, <1>1, <1>2, AddStreamInv
  <2>3. CASE result # "success"
    <3>1. UNCHANGED <<streams, socketStreams, view>>
      BY <1>14, <2>3 DEF externalInput
    <3> QED BY <2>1, <3>1, MoveInv
  <2> QED BY <2>2, <2>3
<1>15. ASSUME NEW c \in Clients, NEW id \in Streams, unpublish(c, id) PROVE RoomInv'
  <2>1. /\ view' = SendMsgToRoom("onRemoveStream", {id})
        /\ socketStreams' = [socketStreams EXCEPT ![c] = @ \ {id}]
        /\ streams' = Restrict(streams, DOMAIN streams \ {id})
        /\ UNCHANGED <<conn, room, sockets, call, owner>>
    BY <1>15 DEF unpublish, Without, Restrict, Session, Calls
  <2> QED BY <2>1, RemoveStreamsInv
<1>16. ASSUME NEW c \in Clients, NEW id \in Streams, NEW wantsData,
              subscribe(c, id, wantsData) \/ unsubscribe(c, id)
       PROVE  RoomInv'
  <2>1. /\ streams' \in {streams, [streams EXCEPT ![id].data = @ \cup {c}],
                         [streams EXCEPT ![id].data = @ \ {c}]}
        /\ UNCHANGED <<conn, room, sockets, socketStreams, call, owner, view>>
    BY <1>16 DEF subscribe, unsubscribe, Session, Calls
  <2>2. /\ DOMAIN streams' = DOMAIN streams
        /\ streams' \in [DOMAIN streams -> StreamRecord]
        /\ \A i \in DOMAIN streams : streams'[i].status = streams[i].status
    BY <2>1 DEF RoomInv, RoomShape, StreamRecord
  <2>3. DOMAIN call' = Streams BY <2>1 DEF RoomInv, RoomShape
  <2> QED BY <2>1, <2>2, <2>3, UpdateStreamInv
<1>17. ASSUME UNCHANGED <<conn, room, sockets, streams, socketStreams, Calls, view>>
       PROVE  RoomInv'
  <2>1. /\ DOMAIN conn' = Clients
        /\ Connected' = Connected
        /\ Entered' = Entered
    BY <1>17 DEF RoomInv, RoomShape, Connected, Entered
  <2> QED BY <1>17, <2>1, QuietInv
<1>18. ASSUME NEW e \in Erizos, keepAliveMissed(e) PROVE RoomInv'
  <2> DEFINE r == KeepAliveMissed(controller, e)
             gone == UnpublishAll(r, e).gone
  <2>1. CASE Dead(r, e)
    <3>1. /\ view' = SendMsgToRoom("onRemoveStream", gone)
          /\ socketStreams' = [socketStreams EXCEPT ![creator] = @ \ gone]
          /\ streams' = Restrict(streams, DOMAIN streams \ gone)
          /\ UNCHANGED <<conn, room, sockets, call, owner>>
      BY <1>18, <2>1 DEF keepAliveMissed, Session, Calls
    <3> HIDE DEF gone
    <3> QED BY <3>1, RemoveStreamsInv
  <2>2. CASE ~Dead(r, e)
    <3>1. UNCHANGED <<conn, room, sockets, streams, socketStreams, Calls, view>>
      BY <1>18, <2>2 DEF keepAliveMissed, Session, Calls
    <3> QED BY <3>1, <1>17
  <2> QED BY <2>1, <2>2
<1>19. ASSUME NEW c \in Clients, NEW rec \in Recordings,
              stopRecorder(c, rec) \/ \E id \in Streams : startRecorder(c, id, rec)
       PROVE  RoomInv'
  BY <1>19, <1>17 DEF stopRecorder, startRecorder, Session
<1>20. ASSUME NEW e \in Erizos, keepAliveAnswered(e) \/ erizoDies(e) PROVE RoomInv'
  BY <1>20, <1>17 DEF keepAliveAnswered, erizoDies, Session
<1>21. ASSUME deleteRoom PROVE RoomInv' BY <1>21, <1>17 DEF deleteRoom, Session
<1>22. ASSUME UNCHANGED vars PROVE RoomInv' BY <1>22, <1>17 DEF vars, Calls
<1> QED
  BY <1>4, <1>5, <1>6, <1>7, <1>8, <1>9, <1>10, <1>11, <1>12, <1>13, <1>14, <1>15,
     <1>16, <1>18, <1>19, <1>20, <1>21, <1>22 DEF Next

-----------------------------------------------------------------------------
(***************************************************************************)
(* The maps of the RoomController. A state r of it is fit for the members  *)
(* of the room when its maps agree; its loops are folds over sets and over *)
(* sequences, whose invariants FoldProofs carries from turn to turn.       *)
(***************************************************************************)

MapsOf(r, members) ==
    /\ DOMAIN r = {"publishers", "subscribers", "erizos", "thrown"}
    /\ DOMAIN r.publishers \subseteq Streams
    /\ r.publishers \in [DOMAIN r.publishers -> Erizos]
    /\ DOMAIN r.subscribers = DOMAIN r.publishers
    /\ \A id \in DOMAIN r.subscribers : r.subscribers[id] \subseteq members
    /\ \A e \in DOMAIN r.erizos :
          /\ DOMAIN r.erizos[e] = {"publishers", "ka_count"}
          /\ r.erizos[e].publishers \in Seq(Streams)
          /\ IsInjective(r.erizos[e].publishers)
          /\ \A id \in ToSet(r.erizos[e].publishers) :
                id \in DOMAIN r.publishers /\ r.publishers[id] = e

CountsOf(r) == \A e \in DOMAIN r.erizos : r.erizos[e].ka_count \in 0 .. TIMEOUT_LIMIT

\* The loop of 'disconnect' over the publishers it removes: the maps agree, and
\* unless it has thrown exactly those done are gone.
RemoveStep(ctx, q, id) == IF q.thrown THEN q ELSE RemovePublisher(q, id)
Released(ctx, done, q) ==
    /\ MapsOf(q, ctx.members)
    /\ CountsOf(q)
    /\ DOMAIN q.publishers \subseteq ctx.publishers
    /\ ~q.thrown => DOMAIN q.publishers = ctx.publishers \ done
Removals == INSTANCE FoldProofs WITH Op <- RemoveStep, Inv <- Released

\* The list of an ErizoJS without a publisher: splice(-1) takes another one out,
\* but the publisher is gone from it either way.
LEMMA SpliceOutEffect ==
    ASSUME NEW list \in Seq(Streams), IsInjective(list), NEW x
    PROVE  /\ SpliceOut(list, x) \in Seq(Streams)
           /\ IsInjective(SpliceOut(list, x))
           /\ ToSet(SpliceOut(list, x)) \subseteq ToSet(list) \ {x}
<1> DEFINE n == Len(list)
<1>1. CASE Contains(list, x)
  <2> DEFINE I == {i \in 1 .. n : list[i] = x}
  <2>1. PICK m \in I : m = Min(I)
    <3>1. I \subseteq Nat /\ I # {} BY <1>1 DEF Contains
    <3> HIDE DEF I
    <3>2. \E k \in I : \A j \in I : k <= j BY <3>1, Removals!Least
    <3> QED BY <3>2 DEF Min
  <2>2. SpliceOut(list, x) = RemoveAt(list, m)
    <3>1. \E i \in 1 .. n : list[i] = x BY <1>1 DEF Contains
    <3> QED BY <1>1, <2>1, <3>1 DEF SpliceOut, RemoveFirst, SelectInSeq
  <2>3. m \in 1 .. n /\ list[m] = x OBVIOUS
  <2>4. /\ SpliceOut(list, x) \in Seq(Streams)
        /\ Len(SpliceOut(list, x)) = n - 1
        /\ \A j \in 1 .. n - 1 :
              SpliceOut(list, x)[j] = IF j < m THEN list[j] ELSE list[j + 1]
    <3> HIDE DEF I
    <3> DEFINE a == SubSeq(list, 1, m - 1)
               b == SubSeq(list, m + 1, n)
    <3>1. /\ a \in Seq(Streams) /\ Len(a) = m - 1
          /\ \A j \in 1 .. m - 1 : a[j] = list[j]
      BY <2>3
    <3>2. /\ b \in Seq(Streams) /\ Len(b) = n - m
          /\ \A j \in 1 .. n - m : b[j] = list[m + j]
      BY <2>3
    <3>3. SpliceOut(list, x) = a \o b BY <2>2 DEF RemoveAt
    <3>4. n \in Nat OBVIOUS
    <3> HIDE DEF a, b, n
    <3>5. \A j \in 1 .. n - 1 : (a \o b)[j] = IF j < m THEN a[j] ELSE b[j - m + 1]
      BY <3>1, <3>2, <3>4, <2>3
    <3>6. \A j \in 1 .. n - 1 : (a \o b)[j] = IF j < m THEN list[j] ELSE list[j + 1]
      <4> TAKE j \in 1 .. n - 1
      <4>1. CASE j < m BY <4>1, <3>1, <3>5, <3>4, <2>3
      <4>2. CASE ~(j < m)
        <5>1. j - m + 1 \in 1 .. n - m /\ m + (j - m + 1) = j + 1
          BY <4>2, <3>4, <2>3
        <5> QED BY <4>2, <5>1, <3>2, <3>5
      <4> QED BY <4>1, <4>2
    <3>7. a \o b \in Seq(Streams) /\ Len(a \o b) = n - 1
      <4>1. a \in Seq(Streams) /\ b \in Seq(Streams) BY <3>1, <3>2
      <4>2. a \o b \in Seq(Streams) /\ Len(a \o b) = Len(a) + Len(b) BY ONLY <4>1
      <4>3. m \in Nat /\ (m - 1) + (n - m) = n - 1 BY <3>4, <2>3
      <4> QED BY <4>2, <4>3, <3>1, <3>2
    <3> QED BY <3>3, <3>6, <3>7
  <2> HIDE DEF I
  <2> DEFINE new == SpliceOut(list, x)
             at(j) == IF j < m THEN j ELSE j + 1
  <2>5. DOMAIN list = 1 .. n /\ n \in Nat OBVIOUS
  <2>6. DOMAIN new = 1 .. n - 1 BY <2>4
  <2>7. \A j \in 1 .. n - 1 : at(j) \in 1 .. n /\ at(j) # m /\ new[j] = list[at(j)]
    BY <2>3, <2>4, <2>5
  <2>8. \A j, k \in 1 .. n - 1 : at(j) = at(k) => j = k BY <2>3, <2>5
  <2>9. new \in Seq(Streams) BY <2>4
  <2> HIDE DEF new, n, at
  <2>10. IsInjective(new) BY <2>5, <2>6, <2>7, <2>8 DEF IsInjective
  <2>11. ToSet(new) \subseteq ToSet(list) \ {x}
    <3> SUFFICES ASSUME NEW j \in 1 .. n - 1
                 PROVE  new[j] \in ToSet(list) \ {x}
      BY <2>6 DEF ToSet
    <3>1. new[j] # x BY <2>3, <2>5, <2>7 DEF IsInjective
    <3> QED BY <3>1, <2>5, <2>7 DEF ToSet
  <2> QED BY <2>9, <2>10, <2>11 DEF new
<1>2. CASE ~Contains(list, x)
  <2>1. x \notin ToSet(list) BY <1>2 DEF Contains, ToSet
  <2>2. CASE list = <<>> BY <1>2, <2>1, <2>2 DEF SpliceOut
  <2>3. CASE list # <<>>
    <3>1. SpliceOut(list, x) = SubSeq(list, 1, n - 1) BY <1>2, <2>3 DEF SpliceOut, Front
    <3>2. n \in Nat /\ n # 0 /\ DOMAIN list = 1 .. n BY <2>3
    <3>3. /\ SubSeq(list, 1, n - 1) \in Seq(Streams)
          /\ DOMAIN SubSeq(list, 1, n - 1) = 1 .. n - 1
          /\ \A j \in 1 .. n - 1 : SubSeq(list, 1, n - 1)[j] = list[j]
      BY <3>2
    <3>4. \A j \in 1 .. n - 1 : j \in 1 .. n BY <3>2
    <3> QED BY <2>1, <3>1, <3>2, <3>3, <3>4 DEF IsInjective, ToSet
  <2> QED BY <2>2, <2>3
<1> QED BY <1>1, <1>2

\* removePublisher: the publisher, its subscribers and its place in the list of
\* its ErizoJS go together, or the call throws and changes nothing else.
LEMMA RemovePublisherEffect ==
    ASSUME NEW members, NEW r, MapsOf(r, members), NEW id
    PROVE  LET new == RemovePublisher(r, id)
           IN  /\ MapsOf(new, members)
               /\ DOMAIN new.erizos = DOMAIN r.erizos
               /\ \A e \in DOMAIN r.erizos : new.erizos[e].ka_count = r.erizos[e].ka_count
               /\ DOMAIN new.publishers \subseteq DOMAIN r.publishers
               /\ ~new.thrown => DOMAIN new.publishers = DOMAIN r.publishers \ {id}
               /\ (id \notin DOMAIN r.publishers \/ r.publishers[id] \in DOMAIN r.erizos)
                     => new.thrown = r.thrown
<1> DEFINE new == RemovePublisher(r, id)
<1>1. CASE id \notin DOMAIN r.publishers
  <2>1. new = r BY <1>1 DEF RemovePublisher
  <2> QED BY <1>1, <2>1
<1>2. CASE id \in DOMAIN r.publishers /\ r.publishers[id] \notin DOMAIN r.erizos
  <2>1. new = [r EXCEPT !.thrown = TRUE] BY <1>2 DEF RemovePublisher, MapsOf
  <2>2. /\ DOMAIN new = DOMAIN r /\ new.publishers = r.publishers
        /\ new.subscribers = r.subscribers /\ new.erizos = r.erizos /\ new.thrown = TRUE
    BY <2>1 DEF MapsOf
  <2> HIDE DEF new
  <2>3. MapsOf(new, members) BY <2>2 DEF MapsOf
  <2> QED BY <1>2, <2>2, <2>3 DEF new
<1>3. CASE id \in DOMAIN r.publishers /\ r.publishers[id] \in DOMAIN r.erizos
  <2> DEFINE e0 == r.publishers[id]
             list == r.erizos[e0].publishers
             out == SpliceOut(list, id)
  <2>1. /\ DOMAIN new = DOMAIN r
        /\ new.publishers = Without(r.publishers, id)
        /\ new.subscribers = Without(r.subscribers, id)
        /\ new.erizos = [r.erizos EXCEPT ![e0].publishers = out]
        /\ new.thrown = r.thrown
    BY <1>3 DEF RemovePublisher, MapsOf
  <2>2. /\ DOMAIN new.erizos = DOMAIN r.erizos
        /\ \A e \in DOMAIN r.erizos :
              /\ DOMAIN new.erizos[e] = {"publishers", "ka_count"}
              /\ new.erizos[e].ka_count = r.erizos[e].ka_count
              /\ new.erizos[e].publishers = IF e = e0 THEN out ELSE r.erizos[e].publishers
    BY <1>3, <2>1 DEF MapsOf
  <2>3. /\ DOMAIN new.publishers = DOMAIN r.publishers \ {id}
        /\ DOMAIN new.subscribers = DOMAIN r.subscribers \ {id}
        /\ \A x \in DOMAIN new.publishers : new.publishers[x] = r.publishers[x]
        /\ \A x \in DOMAIN new.subscribers : new.subscribers[x] = r.subscribers[x]
        /\ new.publishers \in [DOMAIN new.publishers -> Erizos]
    BY <2>1 DEF MapsOf, Without
  <2>4. /\ out \in Seq(Streams) /\ IsInjective(out)
        /\ ToSet(out) \subseteq ToSet(list) \ {id}
    BY <1>3, SpliceOutEffect DEF MapsOf
  <2> HIDE DEF new, list, out
  <2>5. ASSUME NEW e \in DOMAIN r.erizos
        PROVE  /\ new.erizos[e].publishers \in Seq(Streams)
               /\ IsInjective(new.erizos[e].publishers)
               /\ \A x \in ToSet(new.erizos[e].publishers) :
                     x \in DOMAIN new.publishers /\ new.publishers[x] = e
    <3>1. CASE e = e0
      <4>1. new.erizos[e].publishers = out BY <2>2, <3>1
      <4>2. \A x \in ToSet(list) : x \in DOMAIN r.publishers /\ r.publishers[x] = e
        BY <3>1 DEF MapsOf, list
      <4> QED BY <2>3, <2>4, <4>1, <4>2
    <3>2. CASE e # e0
      <4>1. new.erizos[e].publishers = r.erizos[e].publishers BY <2>2, <3>2
      <4>2. /\ r.erizos[e].publishers \in Seq(Streams)
            /\ IsInjective(r.erizos[e].publishers)
            /\ \A x \in ToSet(r.erizos[e].publishers) :
                  x \in DOMAIN r.publishers /\ r.publishers[x] = e
        BY DEF MapsOf
      <4>3. \A x \in ToSet(r.erizos[e].publishers) : x # id BY <3>2, <4>2
      <4> QED BY <2>3, <4>1, <4>2, <4>3
    <3> QED BY <3>1, <3>2
  <2>6. MapsOf(new, members) BY <2>1, <2>2, <2>3, <2>5 DEF MapsOf
  <2> QED BY <1>3, <2>1, <2>2, <2>3, <2>6 DEF new
<1> QED BY <1>1, <1>2, <1>3

\* removePublisher of a finite set of publishers.
LEMMA RemovePublishersEffect ==
    ASSUME NEW members, NEW r, MapsOf(r, members), CountsOf(r),
           NEW ids, IsFiniteSet(ids)
    PROVE  LET new == RemovePublishers(r, ids)
           IN  /\ MapsOf(new, members)
               /\ CountsOf(new)
               /\ DOMAIN new.publishers \subseteq DOMAIN r.publishers
               /\ ~new.thrown => DOMAIN new.publishers = DOMAIN r.publishers \ ids
<1> DEFINE ctx == [members |-> members, publishers |-> DOMAIN r.publishers]
<1>1. ctx.members = members /\ ctx.publishers = DOMAIN r.publishers OBVIOUS
<1> HIDE DEF ctx
<1>2. Released(ctx, ids, Removals!SetFold(ctx, r, ids))
  <2>1. Released(ctx, {}, r) BY <1>1 DEF Released
  <2>2. ASSUME NEW T \in SUBSET ids, NEW x \in ids, NEW q,
               x \notin T, Released(ctx, T, q)
        PROVE  Released(ctx, T \cup {x}, RemoveStep(ctx, q, x))
    <3>1. CASE q.thrown BY <2>2, <3>1 DEF Released, RemoveStep
    <3>2. CASE ~q.thrown
      <4> DEFINE new == RemovePublisher(q, x)
      <4>1. /\ MapsOf(new, ctx.members)
            /\ DOMAIN new.erizos = DOMAIN q.erizos
            /\ \A e \in DOMAIN q.erizos : new.erizos[e].ka_count = q.erizos[e].ka_count
            /\ DOMAIN new.publishers \subseteq DOMAIN q.publishers
            /\ ~new.thrown => DOMAIN new.publishers = DOMAIN q.publishers \ {x}
        BY <2>2, RemovePublisherEffect DEF Released
      <4>2. RemoveStep(ctx, q, x) = new BY <3>2 DEF RemoveStep
      <4> HIDE DEF new
      <4>3. CountsOf(new) BY <2>2, <4>1 DEF Released, CountsOf
      <4>4. DOMAIN q.publishers = ctx.publishers \ T BY <2>2, <3>2 DEF Released
      <4>5. ~new.thrown => DOMAIN new.publishers = ctx.publishers \ (T \cup {x})
        BY <4>1, <4>4
      <4>6. DOMAIN new.publishers \subseteq ctx.publishers BY <4>1, <4>4
      <4> QED BY <4>1, <4>2, <4>3, <4>5, <4>6 DEF Released
    <3> QED BY <3>1, <3>2
  <2>3. Removals!IsFiniteSet(ids) BY DEF Removals!IsFiniteSet, IsFiniteSet
  <2> QED BY <2>1, <2>2, <2>3, Removals!FoldSetKeeps
<1>3. RemovePublishers(r, ids) = Removals!SetFold(ctx, r, ids)
  BY DEF RemovePublishers, FoldSet, MapThenFoldSet, RemoveStep, Removals!SetFold
<1> QED BY <1>1, <1>2, <1>3 DEF Released

\* The loop of callbackFor over the publishers of an ErizoJS that is dead: the
\* maps agree, and exactly those that the listener was told of are gone.
TurnStep(ctx, q, k) == Turn(q, ctx.erizo, k)
Unpublished(ctx, done, q) ==
    /\ MapsOf(q.controller, ctx.members)
    /\ ~q.controller.thrown
    /\ ctx.erizo \in DOMAIN q.controller.erizos
    /\ \A e \in DOMAIN q.controller.erizos \ {ctx.erizo} :
          q.controller.erizos[e].ka_count \in 0 .. TIMEOUT_LIMIT
    /\ DOMAIN q.controller.publishers = ctx.publishers \ q.gone
    /\ q.gone \subseteq ctx.publishers
Turns == INSTANCE FoldProofs WITH Op <- TurnStep, Inv <- Unpublished

\* One turn, whatever splice(-1) did to the list in the turns before it.
LEMMA TurnKeeps ==
    ASSUME NEW ctx, NEW done, NEW q, NEW k \in Nat \ {0}, Unpublished(ctx, done, q)
    PROVE  Unpublished(ctx, k, TurnStep(ctx, q, k))
<1> DEFINE r == q.controller
           list == r.erizos[ctx.erizo].publishers
<1>1. CASE k > Len(list) \/ list[k] \in Truncated
  <2>1. TurnStep(ctx, q, k) = q BY <1>1 DEF TurnStep, Turn
  <2> QED BY <2>1 DEF Unpublished
<1>2. CASE ~(k > Len(list) \/ list[k] \in Truncated)
  <2> DEFINE id == list[k]
             new == RemovePublisher(r, id)
             next == TurnStep(ctx, q, k)
  <2>1. next = [controller |-> new, gone |-> q.gone \cup {id}]
    BY <1>2 DEF TurnStep, Turn
  <2>2. MapsOf(r, ctx.members) /\ ctx.erizo \in DOMAIN r.erizos BY DEF Unpublished
  <2>3. id \in DOMAIN r.publishers /\ r.publishers[id] = ctx.erizo
    <3>1. list \in Seq(Streams) BY <2>2 DEF MapsOf
    <3>2. k \in DOMAIN list BY <1>2, <3>1
    <3>3. id \in ToSet(list) BY <3>2 DEF ToSet
    <3> QED BY <2>2, <3>3 DEF MapsOf
  <2>4. /\ MapsOf(new, ctx.members)
        /\ DOMAIN new.erizos = DOMAIN r.erizos
        /\ \A e \in DOMAIN r.erizos : new.erizos[e].ka_count = r.erizos[e].ka_count
        /\ ~new.thrown => DOMAIN new.publishers = DOMAIN r.publishers \ {id}
        /\ new.thrown = r.thrown
    <3> HIDE DEF r, id
    <3> QED BY <2>2, <2>3, RemovePublisherEffect
  <2>5. next.controller = new /\ next.gone = q.gone \cup {id} BY <2>1
  <2>6. ~new.thrown BY <2>4 DEF Unpublished
  <2> HIDE DEF new, next, id
  <2>7. \A e \in DOMAIN new.erizos \ {ctx.erizo} : new.erizos[e].ka_count \in 0 .. TIMEOUT_LIMIT
    BY <2>4 DEF Unpublished
  <2>8. /\ DOMAIN new.publishers = ctx.publishers \ (q.gone \cup {id})
        /\ q.gone \cup {id} \subseteq ctx.publishers
    BY <2>3, <2>4, <2>6 DEF Unpublished
  <2>9. ctx.erizo \in DOMAIN new.erizos BY <2>2, <2>4
  <2> QED BY <2>4, <2>5, <2>6, <2>7, <2>8, <2>9 DEF Unpublished, next
<1> QED BY <1>1, <1>2

\* The whole loop, and delete erizos[e] after it.
LEMMA UnpublishAllEffect ==
    ASSUME NEW members, NEW r, MapsOf(r, members), ~r.thrown, NEW e \in DOMAIN r.erizos,
           \A f \in DOMAIN r.erizos \ {e} : r.erizos[f].ka_count \in 0 .. TIMEOUT_LIMIT
    PROVE  LET q == UnpublishAll(r, e)
               new == ForgetErizo(q.controller, e)
           IN  /\ MapsOf(new, members)
               /\ CountsOf(new)
               /\ ~new.thrown
               /\ DOMAIN new.publishers = DOMAIN r.publishers \ q.gone
               /\ q.gone \subseteq DOMAIN r.publishers
<1> DEFINE ctx == [erizo |-> e, members |-> members, publishers |-> DOMAIN r.publishers]
           base == [controller |-> r, gone |-> {}]
           n == Len(r.erizos[ctx.erizo].publishers)
           s == [k \in 1 .. n |-> k]
           q == UnpublishAll(r, e)
<1>1. /\ ctx.erizo = e /\ ctx.members = members /\ ctx.publishers = DOMAIN r.publishers
      /\ base.controller = r /\ base.gone = {}
  OBVIOUS
<1>2. n \in Nat
  <2>1. r.erizos[e].publishers \in Seq(Streams) BY DEF MapsOf
  <2> QED BY <1>1, <2>1
<1>3. q = Turns!LeftFold(ctx, base, s)
  <2> HIDE DEF ctx
  <2>1. UnpublishAll(r, ctx.erizo) = Turns!LeftFold(ctx, base, s)
    BY DEF UnpublishAll, TurnStep, FoldLeft, MapThenFoldSet, Max, Turns!LeftFold
  <2> QED BY <1>1, <2>1
<1> HIDE DEF ctx, base, n, q
<1>4. Unpublished(ctx, n, q)
  <2>1. Unpublished(ctx, 0, base) BY <1>1 DEF Unpublished
  <2>2. ASSUME NEW k \in 1 .. n, NEW p, Unpublished(ctx, k - 1, p)
        PROVE  Unpublished(ctx, k, TurnStep(ctx, p, s[k]))
    <3>1. k \in Nat \ {0} /\ s[k] = k BY <1>2
    <3> QED BY <2>2, <3>1, TurnKeeps
  <2>3. DOMAIN s = 1 .. n OBVIOUS
  <2> HIDE DEF s
  <2> QED BY <1>2, <1>3, <2>1, <2>2, <2>3, Turns!FoldLeftKeeps
<1> DEFINE new == ForgetErizo(q.controller, e)
<1>5. /\ DOMAIN new = DOMAIN q.controller
      /\ new.publishers = q.controller.publishers
      /\ new.subscribers = q.controller.subscribers
      /\ new.thrown = q.controller.thrown
      /\ DOMAIN new.erizos = DOMAIN q.controller.erizos \ {e}
      /\ \A f \in DOMAIN new.erizos : new.erizos[f] = q.controller.erizos[f]
  BY <1>4 DEF ForgetErizo, Unpublished, MapsOf, Without
<1> HIDE DEF new
<1>6. MapsOf(new, members)
  <2>1. MapsOf(q.controller, members) BY <1>1, <1>4 DEF Unpublished
  <2>2. \A f \in DOMAIN new.erizos :
           f \in DOMAIN q.controller.erizos /\ new.erizos[f] = q.controller.erizos[f]
    BY <1>5
  <2> QED BY <1>5, <2>1, <2>2 DEF MapsOf
<1>7. CountsOf(new) BY <1>1, <1>4, <1>5 DEF Unpublished, CountsOf
<1> QED BY <1>1, <1>4, <1>5, <1>6, <1>7 DEF Unpublished, new, q

\* addPublisher of a publisher the controller does not have.
LEMMA AddPublisherEffect ==
    ASSUME NEW members, NEW r, MapsOf(r, members), CountsOf(r),
           NEW id \in Streams, id \notin DOMAIN r.publishers, NEW e \in Erizos
    PROVE  LET new == AddPublisher(r, id, e)
           IN  /\ MapsOf(new, members)
               /\ CountsOf(new)
               /\ new.thrown = r.thrown
               /\ DOMAIN new.publishers = DOMAIN r.publishers \cup {id}
<1> DEFINE t == TrackErizo(r, e)
           new == AddPublisher(r, id, e)
<1>1. /\ MapsOf(t, members) /\ CountsOf(t)
      /\ t.publishers = r.publishers /\ t.thrown = r.thrown
      /\ e \in DOMAIN t.erizos
  <2>1. CASE e \in DOMAIN r.erizos BY <2>1 DEF TrackErizo
  <2>2. CASE e \notin DOMAIN r.erizos
    <3> DEFINE empty == [publishers |-> <<>>, ka_count |-> 0]
    <3>1. /\ DOMAIN t = DOMAIN r /\ t.publishers = r.publishers
          /\ t.subscribers = r.subscribers /\ t.thrown = r.thrown
          /\ t.erizos = With(r.erizos, e, empty)
      BY <2>2 DEF TrackErizo, MapsOf
    <3>2. /\ DOMAIN t.erizos = DOMAIN r.erizos \cup {e}
          /\ t.erizos[e] = empty
          /\ \A f \in DOMAIN r.erizos : t.erizos[f] = r.erizos[f]
      BY <2>2, <3>1 DEF With
    <3>3. /\ DOMAIN empty = {"publishers", "ka_count"}
          /\ empty.publishers \in Seq(Streams)
          /\ IsInjective(empty.publishers)
          /\ ToSet(empty.publishers) = {}
          /\ empty.ka_count \in 0 .. TIMEOUT_LIMIT
      BY TimeoutAssumption DEF IsInjective, ToSet
    <3> HIDE DEF t, empty
    <3>4. MapsOf(t, members) BY <3>1, <3>2, <3>3 DEF MapsOf
    <3>5. CountsOf(t) BY <3>2, <3>3 DEF CountsOf
    <3> QED BY <3>1, <3>2, <3>4, <3>5
  <2> QED BY <2>1, <2>2
<1>2. /\ DOMAIN new = DOMAIN t
      /\ new.publishers = With(t.publishers, id, e)
      /\ new.subscribers = With(t.subscribers, id, {})
      /\ new.thrown = t.thrown
      /\ new.erizos = [t.erizos EXCEPT ![e].publishers = Append(@, id)]
  <2> HIDE DEF t
  <2>1. new = [t EXCEPT !.publishers = With(@, id, e),
                        !.subscribers = With(@, id, {}),
                        !.erizos[e].publishers = Append(@, id)]
    BY DEF AddPublisher, t
  <2> HIDE DEF new
  <2> QED BY <1>1, <2>1 DEF MapsOf
<1> HIDE DEF t, new
<1> DEFINE list == t.erizos[e].publishers
           longer == Append(list, id)
<1>3. /\ list \in Seq(Streams) /\ IsInjective(list)
      /\ \A x \in ToSet(list) : x \in DOMAIN t.publishers /\ t.publishers[x] = e
  BY <1>1 DEF MapsOf
<1>4. /\ longer \in Seq(Streams) /\ IsInjective(longer)
      /\ ToSet(longer) = ToSet(list) \cup {id}
  <2>1. id \notin ToSet(list) BY <1>1, <1>3
  <2>2. /\ DOMAIN longer = 1 .. Len(list) + 1 /\ Len(list) \in Nat
        /\ DOMAIN list = 1 .. Len(list)
        /\ longer[Len(list) + 1] = id
        /\ \A i \in 1 .. Len(list) : longer[i] = list[i]
        /\ longer \in Seq(Streams)
    BY <1>3
  <2>3. \A i \in 1 .. Len(list) + 1 : i \in 1 .. Len(list) \/ i = Len(list) + 1
    BY SMTT(30), <2>2
  <2>4. \A i \in 1 .. Len(list) : list[i] # id BY <2>1, <2>2 DEF ToSet
  <2> HIDE DEF list, longer
  <2>5. IsInjective(longer) BY <1>3, <2>2, <2>3, <2>4 DEF IsInjective
  <2>6. ToSet(longer) = ToSet(list) \cup {id}
    <3>1. Len(list) + 1 \in 1 .. Len(list) + 1 /\ 1 .. Len(list) \subseteq 1 .. Len(list) + 1
      BY <2>2
    <3> QED BY <2>2, <2>3, <3>1 DEF ToSet
  <2> QED BY <2>2, <2>5, <2>6
<1>5. /\ DOMAIN new.erizos = DOMAIN t.erizos
      /\ \A f \in DOMAIN t.erizos :
            /\ DOMAIN new.erizos[f] = {"publishers", "ka_count"}
            /\ new.erizos[f].ka_count = t.erizos[f].ka_count
            /\ new.erizos[f].publishers = IF f = e THEN longer ELSE t.erizos[f].publishers
  BY <1>1, <1>2 DEF MapsOf
<1>6. /\ DOMAIN new.publishers = DOMAIN t.publishers \cup {id}
      /\ new.publishers[id] = e
      /\ \A x \in DOMAIN t.publishers : new.publishers[x] = t.publishers[x]
      /\ new.publishers \in [DOMAIN new.publishers -> Erizos]
      /\ DOMAIN new.subscribers = DOMAIN t.subscribers \cup {id}
      /\ new.subscribers[id] = {}
      /\ \A x \in DOMAIN t.subscribers : new.subscribers[x] = t.subscribers[x]
  BY <1>1, <1>2 DEF MapsOf, With
<1> HIDE DEF list, longer
<1>7. ASSUME NEW f \in DOMAIN t.erizos
      PROVE  /\ new.erizos[f].publishers \in Seq(Streams)
             /\ IsInjective(new.erizos[f].publishers)
             /\ \A x \in ToSet(new.erizos[f].publishers) :
                   x \in DOMAIN new.publishers /\ new.publishers[x] = f
  <2>1. CASE f = e
    <3>1. new.erizos[f].publishers = longer BY <1>5, <2>1
    <3> QED BY <1>3, <1>4, <1>6, <2>1, <3>1
  <2>2. CASE f # e
    <3>1. new.erizos[f].publishers = t.erizos[f].publishers BY <1>5, <2>2
    <3> QED BY <1>1, <1>6, <3>1 DEF MapsOf
  <2> QED BY <2>1, <2>2
<1>8. MapsOf(new, members) BY <1>1, <1>2, <1>5, <1>6, <1>7 DEF MapsOf
<1>9. CountsOf(new) BY <1>1, <1>5 DEF CountsOf
<1> QED BY <1>1, <1>2, <1>6, <1>8, <1>9 DEF new

\* The functions that only change who subscribes: new subscribers that are in m
\* are all that the maps ask for.
LEMMA SubscribersEffect ==
    ASSUME NEW members, NEW r, MapsOf(r, members), NEW m, NEW new,
           DOMAIN new = DOMAIN r,
           new.publishers = r.publishers, new.erizos = r.erizos,
           DOMAIN new.subscribers = DOMAIN r.subscribers,
           \A id \in DOMAIN r.subscribers : new.subscribers[id] \subseteq m
    PROVE  MapsOf(new, m) /\ (CountsOf(r) => CountsOf(new))
BY DEF MapsOf, CountsOf

\* A member that subscribes.
LEMMA AddSubscriberEffect ==
    ASSUME NEW members, NEW r, MapsOf(r, members), NEW c \in members, NEW id
    PROVE  LET new == AddSubscriber(r, c, id)
           IN  /\ MapsOf(new, members)
               /\ CountsOf(r) => CountsOf(new)
               /\ new.thrown = r.thrown
               /\ new.publishers = r.publishers
<1> DEFINE new == AddSubscriber(r, c, id)
<1>1. /\ DOMAIN new = DOMAIN r /\ new.thrown = r.thrown
      /\ new.publishers = r.publishers /\ new.erizos = r.erizos
      /\ DOMAIN new.subscribers = DOMAIN r.subscribers
      /\ \A x \in DOMAIN r.subscribers : new.subscribers[x] \subseteq r.subscribers[x] \cup {c}
  BY DEF AddSubscriber, MapsOf
<1>2. \A x \in DOMAIN r.subscribers : new.subscribers[x] \subseteq members
  BY <1>1 DEF MapsOf
<1> HIDE DEF new
<1>3. MapsOf(new, members) /\ (CountsOf(r) => CountsOf(new))
  BY <1>1, <1>2, SubscribersEffect
<1> QED BY <1>1, <1>3 DEF new

\* 'unsubscribe', or its exception for a publisher that is gone.
LEMMA RemoveSubscriberEffect ==
    ASSUME NEW members, NEW r, MapsOf(r, members), NEW c, NEW id
    PROVE  LET new == RemoveSubscriber(r, c, id)
           IN  /\ MapsOf(new, members)
               /\ CountsOf(r) => CountsOf(new)
               /\ new.publishers = r.publishers
<1> DEFINE new == RemoveSubscriber(r, c, id)
<1>1. /\ DOMAIN new = DOMAIN r
      /\ new.publishers = r.publishers /\ new.erizos = r.erizos
      /\ DOMAIN new.subscribers = DOMAIN r.subscribers
      /\ \A x \in DOMAIN r.subscribers : new.subscribers[x] \subseteq r.subscribers[x]
  BY DEF RemoveSubscriber, MapsOf
<1>2. \A x \in DOMAIN r.subscribers : new.subscribers[x] \subseteq members
  BY <1>1 DEF MapsOf
<1> HIDE DEF new
<1>3. MapsOf(new, members) /\ (CountsOf(r) => CountsOf(new))
  BY <1>1, <1>2, SubscribersEffect
<1> QED BY <1>1, <1>3 DEF new

\* A client's subscriptions all go.
LEMMA RemoveSubscriptionsEffect ==
    ASSUME NEW members, NEW r, MapsOf(r, members), NEW c
    PROVE  LET new == RemoveSubscriptions(r, c)
           IN  /\ MapsOf(new, members \ {c})
               /\ CountsOf(r) => CountsOf(new)
               /\ new.thrown = r.thrown
               /\ new.publishers = r.publishers
<1> DEFINE new == RemoveSubscriptions(r, c)
<1>1. /\ DOMAIN new = DOMAIN r /\ new.thrown = r.thrown
      /\ new.publishers = r.publishers /\ new.erizos = r.erizos
      /\ DOMAIN new.subscribers = DOMAIN r.subscribers
      /\ \A x \in DOMAIN r.subscribers : new.subscribers[x] = r.subscribers[x] \ {c}
  BY DEF RemoveSubscriptions, MapsOf
<1>2. \A x \in DOMAIN r.subscribers : new.subscribers[x] \subseteq members \ {c}
  BY <1>1 DEF MapsOf
<1> HIDE DEF new
<1>3. MapsOf(new, members \ {c}) /\ (CountsOf(r) => CountsOf(new))
  BY <1>1, <1>2, SubscribersEffect
<1> QED BY <1>1, <1>3 DEF new

\* The count of one ErizoJS.
LEMMA CountEffect ==
    ASSUME NEW members, NEW r, MapsOf(r, members), NEW e \in DOMAIN r.erizos, NEW k,
           NEW new, new = [r EXCEPT !.erizos[e].ka_count = k]
    PROVE  /\ MapsOf(new, members)
           /\ new.publishers = r.publishers
           /\ new.thrown = r.thrown
           /\ DOMAIN new.erizos = DOMAIN r.erizos
           /\ new.erizos[e].ka_count = k
           /\ \A f \in DOMAIN r.erizos \ {e} : new.erizos[f].ka_count = r.erizos[f].ka_count
<1>1. /\ DOMAIN new = DOMAIN r /\ new.thrown = r.thrown
      /\ new.publishers = r.publishers /\ new.subscribers = r.subscribers
      /\ new.erizos = [r.erizos EXCEPT ![e].ka_count = k]
  BY DEF MapsOf
<1>2. /\ DOMAIN new.erizos = DOMAIN r.erizos
      /\ new.erizos[e].ka_count = k
      /\ \A f \in DOMAIN r.erizos \ {e} : new.erizos[f] = r.erizos[f]
      /\ \A f \in DOMAIN r.erizos : DOMAIN new.erizos[f] = {"publishers", "ka_count"}
                                    /\ new.erizos[f].publishers = r.erizos[f].publishers
  BY <1>1 DEF MapsOf
<1>3. MapsOf(new, members) BY <1>1, <1>2 DEF MapsOf
<1> QED BY <1>1, <1>2, <1>3

-----------------------------------------------------------------------------
(***************************************************************************)
(* The invariant of the maps: those of the RoomController agree, for the   *)
(* members of the room, and an id is published at most once, so that the   *)
(* answer of the agent adds a publisher that is not there yet.             *)
(***************************************************************************)

Members == sockets \cap Connected

\* The part of TypeOK that RoomShape leaves out.
RestShape ==
    /\ conn \in [Clients -> {"new", "token", "left early", "in", "gone"}]
    /\ room \in {"none", "open", "deleted"}
    /\ creator \in Clients \cup {NoClient}
    /\ externalOutputs \in [DOMAIN externalOutputs -> Streams]
    /\ call \in [Streams -> {"idle", "agent", "agent late", "lost", "erizo",
                             "erizo late", "initializing", "ready", "failed", "done"}]
    /\ answer \in [Streams -> {"none", "id", "error"}]
    /\ down \subseteq Erizos
    /\ IsFiniteSet(DOMAIN streams)

DataOfMembers == \A id \in DOMAIN streams : streams[id].data \subseteq Members

Unanswered == {"agent", "agent late"}

PublishersHaveCalls ==
    \A id \in Streams :
        /\ call[id] \in {"idle"} \cup Unanswered => id \notin DOMAIN controller.publishers
        /\ id \in DOMAIN controller.publishers \/ call[id] \in Unanswered => AV(id)

ControllerAgrees ==
    /\ MapsOf(controller, Members)
    /\ CountsOf(controller)
    /\ Running => ~controller.thrown

MapsInv == RestShape /\ DataOfMembers /\ PublishersHaveCalls /\ ControllerAgrees

\* An empty room.
LEMMA InitMaps == Init => MapsInv
<1> SUFFICES ASSUME Init PROVE MapsInv OBVIOUS
<1>1. RestShape BY FS_EmptySet DEF Init, RestShape
<1>2. DataOfMembers BY DEF Init, DataOfMembers
<1>3. /\ DOMAIN controller = {"publishers", "subscribers", "erizos", "thrown"}
      /\ DOMAIN controller.publishers = {} /\ controller.publishers = <<>>
      /\ DOMAIN controller.subscribers = {} /\ DOMAIN controller.erizos = {}
      /\ controller.thrown = FALSE
  BY DEF Init, NewController
<1>4. controller.publishers \in [DOMAIN controller.publishers -> Erizos] BY <1>3
<1>5. ControllerAgrees BY <1>3, <1>4 DEF ControllerAgrees, MapsOf, CountsOf
<1>6. PublishersHaveCalls BY <1>3 DEF Init, PublishersHaveCalls, Unanswered
<1> QED BY <1>1, <1>2, <1>5, <1>6 DEF MapsInv

\* Who is in the room changes when a client enters it or leaves it.
LEMMA MembersStep ==
    ASSUME RoomInv, [Next]_vars
    PROVE  \/ Members \subseteq Members'
           \/ \E c \in Clients : disconnect(c) /\ Members' = Members \ {c}
<1>1. ASSUME NEW c \in Clients, disconnect(c) PROVE Members' = Members \ {c}
  BY <1>1 DEF disconnect, Members, Connected, RoomInv, RoomShape
<1>2. ASSUME NEW c \in Clients, token(c) \/ tokenRefused(c) \/ disconnectEarly(c)
                                \/ tokenAccepted(c)
      PROVE  Members \subseteq Members'
  BY <1>2 DEF token, tokenAccepted, tokenRefused, disconnectEarly, Members, Connected,
              RoomInv, RoomShape
<1>3. ASSUME UNCHANGED <<conn, sockets>> PROVE Members \subseteq Members'
  BY <1>3 DEF Members, Connected
<1>4. \/ \E c \in Clients : \/ disconnect(c) \/ token(c) \/ tokenRefused(c)
                            \/ disconnectEarly(c) \/ tokenAccepted(c)
      \/ UNCHANGED <<conn, sockets>>
  BY ZenonT(60) DEF Next, vars, Session, Calls, publish, unpublish, subscribe, unsubscribe, startRecorder,
         stopRecorder, agentAnswers, agentTimeout, erizoTimeout, initializing, ready,
         failed, externalInput, keepAliveAnswered, keepAliveMissed, erizoDies, deleteRoom
<1> QED BY <1>1, <1>2, <1>3, <1>4

\* A step puts at most one stream into the room.
LEMMA StreamsStep ==
    ASSUME RoomInv, [Next]_vars
    PROVE  \E id : DOMAIN streams' \subseteq DOMAIN streams \cup {id}
<1>1. ASSUME NEW id, NEW s, streams' = Put(streams, id, s)
      PROVE  DOMAIN streams' \subseteq DOMAIN streams \cup {id}
  BY <1>1 DEF Put
<1>2. CASE \E c \in Clients, id \in Streams : publish(c, id)
  <2>1. PICK c \in Clients, id \in Streams : publish(c, id) BY <1>2
  <2>2. streams' = streams \/ streams' = Put(streams, id, Stream(c, "ready"))
    BY <2>1 DEF publish
  <2> QED BY <1>1, <2>2
<1>3. CASE \E id \in Streams, result \in {"success", "error"} :
              initializing(id) \/ externalInput(id, result)
  <2>1. PICK id \in Streams, result \in {"success", "error"} :
              initializing(id) \/ externalInput(id, result)
    BY <1>3
  <2>2. \/ streams' = streams
        \/ streams' = Put(streams, id, Stream(owner[id], "initial"))
        \/ streams' = Put(streams, id, Stream(owner[id], "none"))
    BY <2>1 DEF initializing, externalInput
  <2> QED BY <1>1, <2>2
<1>4. CASE UNCHANGED streams BY <1>4
<1>5. CASE DOMAIN streams' \subseteq DOMAIN streams BY <1>5
<1>6. ASSUME NEW c \in Clients, NEW id \in Streams, NEW wantsData,
             unpublish(c, id) \/ subscribe(c, id, wantsData) \/ unsubscribe(c, id)
      PROVE  DOMAIN streams' \subseteq DOMAIN streams
  BY <1>6 DEF unpublish, Without, subscribe, unsubscribe
<1>7. ASSUME NEW e \in Erizos, keepAliveMissed(e)
      PROVE  DOMAIN streams' \subseteq DOMAIN streams
  BY <1>7 DEF keepAliveMissed, Restrict
<1>8. \/ \E c \in Clients, id \in Streams : publish(c, id)
      \/ \E id \in Streams, result \in {"success", "error"} :
            initializing(id) \/ externalInput(id, result)
      \/ \E c \in Clients : disconnect(c)
      \/ \E c \in Clients, id \in Streams, wantsData \in BOOLEAN :
            \/ unpublish(c, id) \/ subscribe(c, id, wantsData) \/ unsubscribe(c, id)
      \/ \E id \in Streams : ready(id)
      \/ \E e \in Erizos : keepAliveMissed(e)
      \/ UNCHANGED streams
  BY DEF Next, vars, token, tokenAccepted, tokenRefused, disconnectEarly, startRecorder,
         stopRecorder, agentAnswers, agentTimeout, erizoTimeout, failed,
         keepAliveAnswered, erizoDies, deleteRoom
<1>9. ASSUME NEW c \in Clients, disconnect(c) PROVE DOMAIN streams' \subseteq DOMAIN streams
  BY <1>9 DEF disconnect
<1>10. ASSUME NEW id \in Streams, ready(id) PROVE DOMAIN streams' \subseteq DOMAIN streams
  BY <1>10 DEF ready
<1> QED BY <1>2, <1>3, <1>4, <1>5, <1>6, <1>7, <1>8, <1>9, <1>10

\* Every step preserves the shape of the rest of the state.
LEMMA RestShapeStep ==
    ASSUME RoomInv, MapsInv, [Next]_vars
    PROVE  RestShape'
<1> USE DEF MapsInv, RestShape
<1>1. IsFiniteSet(DOMAIN streams')
  <2>1. PICK id : DOMAIN streams' \subseteq DOMAIN streams \cup {id} BY StreamsStep
  <2>2. IsFiniteSet(DOMAIN streams \cup {id}) BY FS_AddElement
  <2> QED BY <2>1, <2>2, FS_Subset
<1>2. conn' \in [Clients -> {"new", "token", "left early", "in", "gone"}]
  <2>1. \/ conn' = conn
        \/ \E c \in Clients, x \in {"token", "left early", "in", "gone"} :
              conn' = [conn EXCEPT ![c] = x]
    BY ZenonT(60) DEF Next, vars, Session, token, tokenAccepted, tokenRefused, disconnectEarly,
           disconnect, publish, unpublish, subscribe, unsubscribe, startRecorder,
           stopRecorder, agentAnswers, agentTimeout, erizoTimeout, initializing, ready,
           failed, externalInput, keepAliveAnswered, keepAliveMissed, erizoDies, deleteRoom
  <2>2. conn \in [Clients -> {"new", "token", "left early", "in", "gone"}] OBVIOUS
  <2> QED BY ONLY <2>1, <2>2
<1>3. room' \in {"none", "open", "deleted"} /\ creator' \in Clients \cup {NoClient}
  <2>1. \/ UNCHANGED <<room, creator>>
        \/ \E c \in Clients : \/ disconnect(c) \/ token(c) \/ tokenRefused(c)
                              \/ disconnectEarly(c) \/ tokenAccepted(c)
    BY ZenonT(60) DEF Next, vars, Session, Calls, publish, unpublish, subscribe, unsubscribe,
           startRecorder, stopRecorder, agentAnswers, agentTimeout, erizoTimeout,
           initializing, ready, failed, externalInput, keepAliveAnswered,
           keepAliveMissed, erizoDies, deleteRoom
  <2>2. room \in {"none", "open", "deleted"} /\ creator \in Clients \cup {NoClient} OBVIOUS
  <2>3. ASSUME NEW c \in Clients,
               \/ disconnect(c) \/ token(c) \/ tokenRefused(c)
               \/ disconnectEarly(c) \/ tokenAccepted(c)
        PROVE  room' \in {room, "open", "deleted"} /\ creator' \in {creator, c}
    BY ONLY <2>3 DEF disconnect, token, tokenRefused, disconnectEarly, tokenAccepted,
                     RoomLeftWith
  <2> QED BY ONLY <2>1, <2>2, <2>3
<1>4. externalOutputs' \in [DOMAIN externalOutputs' -> Streams]
  <2>1. ASSUME NEW c \in Clients, NEW id \in Streams, NEW rec, startRecorder(c, id, rec)
        PROVE  externalOutputs' \in [DOMAIN externalOutputs' -> Streams]
    BY <2>1 DEF startRecorder, Put
  <2>2. ASSUME NEW c \in Clients, NEW rec, stopRecorder(c, rec)
        PROVE  externalOutputs' \in [DOMAIN externalOutputs' -> Streams]
    BY <2>2 DEF stopRecorder, Without
  <2>3. \/ \E c \in Clients, id \in Streams, rec \in Recordings : startRecorder(c, id, rec)
        \/ \E c \in Clients, rec \in Recordings : stopRecorder(c, rec)
        \/ UNCHANGED externalOutputs
    BY ZenonT(60) DEF Next, vars, token, tokenAccepted, tokenRefused, disconnectEarly,
           disconnect, publish, unpublish, subscribe, unsubscribe, agentAnswers,
           agentTimeout, erizoTimeout, initializing, ready, failed, externalInput,
           keepAliveAnswered, keepAliveMissed, erizoDies, deleteRoom
  <2> QED BY <2>1, <2>2, <2>3
<1>5. /\ call' \in [Streams -> {"idle", "agent", "agent late", "lost", "erizo",
                                "erizo late", "initializing", "ready", "failed", "done"}]
      /\ answer' \in [Streams -> {"none", "id", "error"}]
  <2>1. \/ call' = call
        \/ \E id \in Streams, x \in {"agent", "agent late", "lost", "erizo", "erizo late",
                                     "initializing", "ready", "failed", "done"} :
              call' = [call EXCEPT ![id] = x]
    BY ZenonT(60) DEF Next, vars, Calls, token, tokenAccepted, tokenRefused, disconnectEarly,
           disconnect, publish, unpublish, subscribe, unsubscribe, startRecorder,
           stopRecorder, agentAnswers, agentTimeout, erizoTimeout, initializing, ready,
           failed, externalInput, keepAliveAnswered, keepAliveMissed, erizoDies, deleteRoom
  <2>2. \/ answer' = answer
        \/ \E id \in Streams, x \in {"none", "id", "error"} :
              answer' = [answer EXCEPT ![id] = x]
    BY ZenonT(60) DEF Next, vars, Calls, token, tokenAccepted, tokenRefused, disconnectEarly,
           disconnect, publish, unpublish, subscribe, unsubscribe, startRecorder,
           stopRecorder, agentAnswers, agentTimeout, erizoTimeout, initializing, ready,
           failed, externalInput, keepAliveAnswered, keepAliveMissed, erizoDies,
           deleteRoom, Answer
  <2>3. /\ call \in [Streams -> {"idle", "agent", "agent late", "lost", "erizo",
                                 "erizo late", "initializing", "ready", "failed", "done"}]
        /\ answer \in [Streams -> {"none", "id", "error"}]
    OBVIOUS
  <2>4. call' \in [Streams -> {"idle", "agent", "agent late", "lost", "erizo",
                               "erizo late", "initializing", "ready", "failed", "done"}]
    BY ONLY <2>1, <2>3
  <2>5. answer' \in [Streams -> {"none", "id", "error"}] BY ONLY <2>2, <2>3
  <2> QED BY ONLY <2>4, <2>5
<1>6. down' \subseteq Erizos
  BY ZenonT(60) DEF Next, vars, token, tokenAccepted, tokenRefused, disconnectEarly,
         disconnect, publish, unpublish, subscribe, unsubscribe, startRecorder,
         stopRecorder, agentAnswers, agentTimeout, erizoTimeout, initializing, ready,
         failed, externalInput, keepAliveAnswered, keepAliveMissed, erizoDies, deleteRoom
<1> QED BY <1>1, <1>2, <1>3, <1>4, <1>5, <1>6

\* A publication that the agent has answered does not become one that it has
\* not, and only those of media ask it.
LEMMA CallsStep ==
    ASSUME MapsInv, [Next]_vars, NEW id \in Streams
    PROVE  /\ call'[id] \in {"idle"} \cup Unanswered => call[id] \in {"idle"} \cup Unanswered
           /\ call'[id] \in Unanswered => call[id] \in Unanswered \/ AV(id)
<1> USE DEF MapsInv, RestShape, Unanswered
<1>1. CASE UNCHANGED call BY <1>1
<1>2. CASE \E c \in Clients, i \in Streams : publish(c, i) BY ZenonT(60), <1>2 DEF publish
<1>3. CASE \E i \in Streams :
              \/ \E e \in Erizos : agentAnswers(i, e)
              \/ agentTimeout(i) \/ erizoTimeout(i) \/ initializing(i) \/ ready(i) \/ failed(i)
              \/ \E result \in {"success", "error"} : externalInput(i, result)
  BY ZenonT(60), <1>3 DEF agentAnswers, agentTimeout, erizoTimeout, initializing, ready, failed,
              externalInput
<1>4. CASE ~UNCHANGED call
  <2>1. \/ \E c \in Clients, i \in Streams : publish(c, i)
        \/ \E i \in Streams :
              \/ \E e \in Erizos : agentAnswers(i, e)
              \/ agentTimeout(i) \/ erizoTimeout(i) \/ initializing(i) \/ ready(i) \/ failed(i)
              \/ \E result \in {"success", "error"} : externalInput(i, result)
    BY ZenonT(60), <1>4 DEF Next, vars, Calls, token, tokenAccepted, tokenRefused, disconnectEarly,
           disconnect, unpublish, subscribe, unsubscribe, startRecorder,
           stopRecorder, keepAliveAnswered, keepAliveMissed, erizoDies, deleteRoom
  <2> QED BY <1>2, <1>3, <2>1
<1> QED BY <1>1, <1>4

\* Every step leaves the data subscribers of a stream among the members.
LEMMA DataStep ==
    ASSUME RoomInv, MapsInv, [Next]_vars
    PROVE  DataOfMembers'
<1>1. \A id \in DOMAIN streams : streams[id].data \subseteq Members
  BY DEF MapsInv, DataOfMembers
<1>2. CASE \E c \in Clients : disconnect(c)
  <2>1. PICK c \in Clients : disconnect(c) BY <1>2
  <2>2. Members' = Members \ {c}
    BY <2>1 DEF disconnect, Members, Connected, RoomInv, RoomShape
  <2>3. \A id \in DOMAIN streams' :
           id \in DOMAIN streams /\ streams'[id].data = streams[id].data \ {c}
    BY <2>1 DEF disconnect, RoomInv, RoomShape, StreamRecord
  <2> QED BY <1>1, <2>2, <2>3 DEF DataOfMembers
<1>3. CASE ~ \E c \in Clients : disconnect(c)
  <2>1. Members \subseteq Members' BY <1>3, MembersStep
  <2>2. ASSUME NEW id \in DOMAIN streams',
               \/ streams'[id].data = {}
               \/ id \in DOMAIN streams /\ streams'[id].data \subseteq streams[id].data
               \/ id \in DOMAIN streams /\ \E c \in Members :
                     streams'[id].data = streams[id].data \cup {c}
        PROVE  streams'[id].data \subseteq Members'
    BY <1>1, <2>1, <2>2
  <2>3. ASSUME NEW c, NEW i, NEW st, streams' = Put(streams, i, Stream(c, st))
        PROVE  DataOfMembers'
    <3>1. \A id \in DOMAIN streams' :
             streams'[id].data = {} \/ (id \in DOMAIN streams /\ streams'[id] = streams[id])
      BY <2>3 DEF Put, Stream
    <3> QED BY <2>2, <3>1 DEF DataOfMembers
  <2>4. ASSUME NEW c \in Clients, NEW i \in Streams, publish(c, i) PROVE DataOfMembers'
    <3>1. streams' = streams \/ streams' = Put(streams, i, Stream(c, "ready"))
      BY <2>4 DEF publish
    <3> QED BY <2>2, <2>3, <3>1 DEF DataOfMembers
  <2>5. ASSUME NEW i \in Streams, NEW result, initializing(i) \/ externalInput(i, result)
        PROVE  DataOfMembers'
    <3>1. \/ streams' = streams
          \/ streams' = Put(streams, i, Stream(owner[i], "initial"))
          \/ streams' = Put(streams, i, Stream(owner[i], "none"))
      BY <2>5 DEF initializing, externalInput
    <3> QED BY <2>2, <2>3, <3>1 DEF DataOfMembers
  <2>6. ASSUME NEW c \in Clients, NEW i \in Streams,
               unsubscribe(c, i) \/ unpublish(c, i)
        PROVE  DataOfMembers'
    <3>1. \A id \in DOMAIN streams' :
             id \in DOMAIN streams /\ streams'[id].data \subseteq streams[id].data
      BY <2>6 DEF unsubscribe, unpublish, Without, RoomInv, RoomShape, StreamRecord
    <3> QED BY <2>2, <3>1 DEF DataOfMembers
  <2>7. ASSUME NEW c \in Clients, NEW i \in Streams, NEW wantsData, subscribe(c, i, wantsData)
        PROVE  DataOfMembers'
    <3>1. c \in Members
      BY <2>7 DEF subscribe, Members, RoomInv, ConnectedAreListed, Connected
    <3>2. \A id \in DOMAIN streams' :
             id \in DOMAIN streams /\ streams'[id].data \in {streams[id].data, streams[id].data \cup {c}}
      BY <2>7 DEF subscribe, RoomInv, RoomShape, StreamRecord
    <3> QED BY <2>2, <3>1, <3>2 DEF DataOfMembers
  <2>8. ASSUME NEW e \in Erizos, keepAliveMissed(e) PROVE DataOfMembers'
    <3>1. \A id \in DOMAIN streams' :
             id \in DOMAIN streams /\ streams'[id] = streams[id]
      BY <2>8 DEF keepAliveMissed, Restrict
    <3> QED BY <2>2, <3>1 DEF DataOfMembers
  <2>9. CASE UNCHANGED streams BY <2>2, <2>9 DEF DataOfMembers
  <2>10. \/ \E c \in Clients, i \in Streams : publish(c, i)
         \/ \E i \in Streams, result \in {"success", "error"} :
               initializing(i) \/ externalInput(i, result)
         \/ \E c \in Clients, i \in Streams : unpublish(c, i) \/ unsubscribe(c, i)
         \/ \E c \in Clients, i \in Streams, wantsData \in BOOLEAN : subscribe(c, i, wantsData)
         \/ \E i \in Streams : ready(i)
         \/ \E e \in Erizos : keepAliveMissed(e)
         \/ UNCHANGED streams
    BY <1>3 DEF Next, vars, token, tokenAccepted, tokenRefused, disconnectEarly, startRecorder,
           stopRecorder, agentAnswers, agentTimeout, erizoTimeout, failed,
           keepAliveAnswered, erizoDies, deleteRoom
  <2>11. ASSUME NEW i \in Streams, ready(i) PROVE DataOfMembers'
    <3>1. \A id \in DOMAIN streams' :
             id \in DOMAIN streams /\ streams'[id].data = streams[id].data
      BY <2>11 DEF ready, RoomInv, RoomShape, StreamRecord
    <3> QED BY <2>2, <3>1 DEF DataOfMembers
  <2> QED BY <2>4, <2>5, <2>6, <2>7, <2>8, <2>9, <2>10, <2>11
<1> QED BY <1>2, <1>3

\* removePublisher preserves the counts.
LEMMA RemovePublisherCounts ==
    ASSUME NEW members, NEW r, MapsOf(r, members), CountsOf(r), NEW id
    PROVE  CountsOf(RemovePublisher(r, id))
<1>1. LET new == RemovePublisher(r, id)
      IN  /\ DOMAIN new.erizos = DOMAIN r.erizos
          /\ \A e \in DOMAIN r.erizos : new.erizos[e].ka_count = r.erizos[e].ka_count
  BY RemovePublisherEffect
<1> QED BY <1>1 DEF CountsOf

\* 'disconnect' and the controller.
LEMMA ReleaseEffect ==
    ASSUME RoomInv, MapsInv, NEW c \in Clients
    PROVE  LET new == Release(controller, c)
               ids == {id \in socketStreams[c] \cap DOMAIN streams : AV(id)}
           IN  /\ MapsOf(new, Members \ {c})
               /\ CountsOf(new)
               /\ DOMAIN new.publishers \subseteq DOMAIN controller.publishers
               /\ ~new.thrown => DOMAIN new.publishers = DOMAIN controller.publishers \ ids
<1> DEFINE ids == {id \in socketStreams[c] \cap DOMAIN streams : AV(id)}
           mid == RemoveSubscriptions(controller, c)
           new == Release(controller, c)
<1>1. /\ MapsOf(mid, Members \ {c}) /\ CountsOf(mid)
      /\ mid.publishers = controller.publishers
  BY RemoveSubscriptionsEffect DEF MapsInv, ControllerAgrees
<1>2. IsFiniteSet(ids) BY FS_Subset DEF MapsInv, RestShape
<1>3. new = RemovePublishers(mid, ids) BY DEF Release
<1> HIDE DEF ids, mid, new
<1>4. /\ MapsOf(new, Members \ {c}) /\ CountsOf(new)
      /\ DOMAIN new.publishers \subseteq DOMAIN mid.publishers
      /\ ~new.thrown => DOMAIN new.publishers = DOMAIN mid.publishers \ ids
  BY <1>1, <1>2, <1>3, RemovePublishersEffect
<1> QED BY <1>1, <1>4 DEF ids, new

\* The keepAlive of an ErizoJS that is given up for dead, and of one that is not.
LEMMA MissedEffect ==
    ASSUME RoomInv, MapsInv, NEW e \in Erizos, keepAliveMissed(e)
    PROVE  LET r == KeepAliveMissed(controller, e)
               gone == UnpublishAll(r, e).gone
           IN  /\ ControllerAgrees'
               /\ Dead(r, e) =>
                     /\ DOMAIN controller'.publishers = DOMAIN controller.publishers \ gone
                     /\ gone \subseteq DOMAIN controller.publishers
               /\ ~Dead(r, e) => controller'.publishers = controller.publishers
<1> DEFINE k == controller.erizos[e].ka_count
           r == KeepAliveMissed(controller, e)
           q == UnpublishAll(r, e)
           new == ForgetErizo(q.controller, e)
<1>1. /\ e \in DOMAIN controller.erizos
      /\ MapsOf(controller, Members) /\ CountsOf(controller)
      /\ ~controller.thrown
      /\ IF Dead(r, e) THEN controller' = new ELSE controller' = r
      /\ UNCHANGED <<conn, sockets>>
  BY DEF keepAliveMissed, MapsInv, ControllerAgrees, Session
<1>2. k \in Nat /\ k <= TIMEOUT_LIMIT
  BY <1>1, TimeoutAssumption DEF CountsOf
<1>3. r = [controller EXCEPT !.erizos[e].ka_count = k + 1]
  BY <1>1 DEF KeepAliveMissed, MapsOf
<1>4. Members' = Members BY <1>1 DEF Members, Connected
<1> HIDE DEF r, k, q, new
<1>5. /\ MapsOf(r, Members)
      /\ r.publishers = controller.publishers
      /\ r.thrown = controller.thrown
      /\ DOMAIN r.erizos = DOMAIN controller.erizos
      /\ r.erizos[e].ka_count = k + 1
      /\ \A f \in DOMAIN r.erizos \ {e} : r.erizos[f].ka_count = controller.erizos[f].ka_count
  BY <1>1, <1>3, CountEffect
<1>6. \A f \in DOMAIN r.erizos \ {e} : r.erizos[f].ka_count \in 0 .. TIMEOUT_LIMIT
  BY <1>1, <1>5 DEF CountsOf
<1>7. CASE Dead(r, e)
  <2>1. /\ MapsOf(new, Members) /\ CountsOf(new) /\ ~new.thrown
        /\ DOMAIN new.publishers = DOMAIN r.publishers \ q.gone
        /\ q.gone \subseteq DOMAIN r.publishers
    BY <1>1, <1>5, <1>6, UnpublishAllEffect DEF q, new
  <2>2. ControllerAgrees' BY <1>1, <1>4, <1>7, <2>1 DEF ControllerAgrees, MapsOf, CountsOf
  <2> QED BY <1>1, <1>5, <1>7, <2>1, <2>2 DEF q, r
<1>8. CASE ~Dead(r, e)
  <2>1. k + 1 \in 0 .. TIMEOUT_LIMIT
    BY <1>2, <1>5, <1>8, TimeoutAssumption DEF Dead
  <2>2. CountsOf(r) BY <1>5, <1>6, <2>1 DEF CountsOf
  <2>3. ControllerAgrees' BY <1>1, <1>4, <1>5, <1>8, <2>2 DEF ControllerAgrees, MapsOf, CountsOf
  <2> QED BY <1>1, <1>5, <1>8, <2>3 DEF r
<1> QED BY <1>7, <1>8

\* The controller's maps agree after every step, and a publisher that is new is
\* one that the agent has just answered.
LEMMA ControllerStep ==
    ASSUME RoomInv, MapsInv, [Next]_vars
    PROVE  /\ ControllerAgrees'
           /\ \A id \in DOMAIN controller'.publishers \ DOMAIN controller.publishers :
                 call[id] \in Unanswered /\ call'[id] \notin {"idle"} \cup Unanswered
<1> DEFINE Good ==
               /\ ControllerAgrees'
               /\ \A id \in DOMAIN controller'.publishers \ DOMAIN controller.publishers :
                     call[id] \in Unanswered /\ call'[id] \notin {"idle"} \cup Unanswered
<1> SUFFICES Good OBVIOUS
<1>1. /\ MapsOf(controller, Members) /\ CountsOf(controller)
      /\ Running => ~controller.thrown
  BY DEF MapsInv, ControllerAgrees
<1>2. ASSUME ~ \E c \in Clients : disconnect(c),
             MapsOf(controller', Members), CountsOf(controller'),
             Running' => ~controller'.thrown,
             DOMAIN controller'.publishers \subseteq DOMAIN controller.publishers
      PROVE  Good
  <2>1. Members \subseteq Members' BY <1>2, MembersStep
  <2>2. MapsOf(controller', Members') BY <1>2, <2>1 DEF MapsOf
  <2> QED BY <1>2, <2>2 DEF ControllerAgrees, CountsOf
<1>3. ASSUME NEW c \in Clients, disconnect(c) PROVE Good
  <2>1. Members' = Members \ {c}
    BY <1>3 DEF disconnect, Members, Connected, RoomInv, RoomShape
  <2>2. /\ MapsOf(controller', Members \ {c}) /\ CountsOf(controller')
        /\ DOMAIN controller'.publishers \subseteq DOMAIN controller.publishers
    BY <1>3, ReleaseEffect DEF disconnect, EndsWith
  <2>3. Running' => ~controller'.thrown BY <1>3 DEF disconnect, EndsWith, Running
  <2> QED BY <2>1, <2>2, <2>3 DEF ControllerAgrees, CountsOf
<1>4. CASE ~ \E c \in Clients : disconnect(c)
  <2>1. ASSUME NEW id \in Streams, NEW e \in Erizos, agentAnswers(id, e) PROVE Good
    <3>1. /\ controller' = AddPublisher(controller, id, e)
          /\ call[id] \in Unanswered /\ call'[id] \notin {"idle"} \cup Unanswered
          /\ UNCHANGED <<conn, sockets>>
          /\ Running' => ~controller'.thrown
      BY <2>1 DEF agentAnswers, EndsWith, Session, Running, Unanswered, RoomInv, RoomShape
    <3>2. id \notin DOMAIN controller.publishers
      BY <3>1 DEF MapsInv, PublishersHaveCalls
    <3>3. /\ MapsOf(controller', Members) /\ CountsOf(controller')
          /\ DOMAIN controller'.publishers = DOMAIN controller.publishers \cup {id}
      BY <1>1, <3>1, <3>2, AddPublisherEffect
    <3>4. Members' = Members BY <3>1 DEF Members, Connected
    <3> QED BY <3>1, <3>3, <3>4 DEF ControllerAgrees, CountsOf, MapsOf
  <2>2. ASSUME NEW id, controller' = RemovePublisher(controller, id),
               Running' => ~controller'.thrown
        PROVE  Good
    <3>1. /\ MapsOf(controller', Members)
          /\ DOMAIN controller'.publishers \subseteq DOMAIN controller.publishers
      BY <1>1, <2>2, RemovePublisherEffect
    <3>2. CountsOf(controller') BY <1>1, <2>2, RemovePublisherCounts
    <3> QED BY <1>2, <1>4, <2>2, <3>1, <3>2
  <2>3. ASSUME UNCHANGED controller, Running' => Running PROVE Good
    BY <1>1, <1>2, <1>4, <2>3
  <2>4. ASSUME NEW id \in Streams, failed(id) PROVE Good
    <3>1. controller' = RemovePublisher(controller, id) /\ (Running' => ~controller'.thrown)
      BY <2>4 DEF failed, EndsWith, Running
    <3> QED BY <2>2, <3>1
  <2>5. ASSUME NEW c \in Clients, NEW id \in Streams, unpublish(c, id) PROVE Good
    <3>1. CASE AV(id)
      <4>1. controller' = RemovePublisher(controller, id) /\ (Running' => ~controller'.thrown)
        BY <2>5, <3>1 DEF unpublish, EndsWith, Running
      <4> QED BY <2>2, <4>1
    <3>2. CASE ~AV(id)
      <4>1. UNCHANGED controller /\ Running BY <2>5, <3>2 DEF unpublish, EndsWith
      <4> QED BY <2>3, <4>1
    <3> QED BY <3>1, <3>2
  <2>6. ASSUME NEW c \in Clients, NEW id \in Streams, NEW wantsData, subscribe(c, id, wantsData)
        PROVE  Good
    <3>1. /\ c \in Members /\ Running
          /\ controller' = controller \/ controller' = AddSubscriber(controller, c, id)
      BY <2>6 DEF subscribe, Members, RoomInv, ConnectedAreListed, Connected
    <3>2. CASE controller' = controller BY <2>3, <3>1, <3>2
    <3>3. CASE controller' = AddSubscriber(controller, c, id)
      <4>1. /\ MapsOf(controller', Members) /\ CountsOf(controller')
            /\ controller'.thrown = controller.thrown
            /\ controller'.publishers = controller.publishers
        BY <1>1, <3>1, <3>3, AddSubscriberEffect
      <4> QED BY <1>1, <1>2, <1>4, <3>1, <4>1
    <3> QED BY <3>1, <3>2, <3>3
  <2>7. ASSUME NEW c \in Clients, NEW id \in Streams, unsubscribe(c, id) PROVE Good
    <3>1. CASE AV(id)
      <4>1. controller' = RemoveSubscriber(controller, c, id) /\ (Running' => ~controller'.thrown)
        BY <2>7, <3>1 DEF unsubscribe, EndsWith, Running
      <4>2. /\ MapsOf(controller', Members) /\ CountsOf(controller')
            /\ controller'.publishers = controller.publishers
        BY <1>1, <4>1, RemoveSubscriberEffect
      <4> QED BY <1>2, <1>4, <4>1, <4>2
    <3>2. CASE ~AV(id)
      <4>1. UNCHANGED controller /\ Running BY <2>7, <3>2 DEF unsubscribe, EndsWith
      <4> QED BY <2>3, <4>1
    <3> QED BY <3>1, <3>2
  <2>8. ASSUME NEW e \in Erizos, keepAliveAnswered(e) PROVE Good
    <3>1. /\ e \in DOMAIN controller.erizos /\ Running
          /\ controller' = [controller EXCEPT !.erizos[e].ka_count = 0]
      BY <2>8 DEF keepAliveAnswered, KeepAliveAnswered
    <3>2. /\ MapsOf(controller', Members)
          /\ controller'.publishers = controller.publishers
          /\ controller'.thrown = controller.thrown
          /\ DOMAIN controller'.erizos = DOMAIN controller.erizos
          /\ controller'.erizos[e].ka_count = 0
          /\ \A f \in DOMAIN controller.erizos \ {e} :
                controller'.erizos[f].ka_count = controller.erizos[f].ka_count
      BY <1>1, <3>1, CountEffect
    <3>3. CountsOf(controller') BY <1>1, <3>2, TimeoutAssumption DEF CountsOf
    <3> QED BY <1>1, <1>2, <1>4, <3>1, <3>2, <3>3
  <2>9. ASSUME NEW e \in Erizos, keepAliveMissed(e) PROVE Good
    <3>1. /\ ControllerAgrees'
          /\ DOMAIN controller'.publishers \subseteq DOMAIN controller.publishers
      BY <2>9, MissedEffect
    <3> QED BY <3>1
  <2>10. \/ \E id \in Streams : failed(id) \/ \E e \in Erizos : agentAnswers(id, e)
         \/ \E c \in Clients, id \in Streams : unpublish(c, id) \/ unsubscribe(c, id)
         \/ \E c \in Clients, id \in Streams, wantsData \in BOOLEAN : subscribe(c, id, wantsData)
         \/ \E e \in Erizos : keepAliveAnswered(e) \/ keepAliveMissed(e)
         \/ UNCHANGED controller
    BY <1>4 DEF Next, vars, token, tokenAccepted, tokenRefused, disconnectEarly, publish,
           startRecorder, stopRecorder, agentTimeout, erizoTimeout, initializing, ready,
           externalInput, erizoDies, deleteRoom
  <2>11. CASE UNCHANGED controller
    <3>1. Running' => ~controller'.thrown
      <4>1. Running \/ UNCHANGED crashed
        BY ZenonT(60) DEF Next, vars, token, tokenAccepted, tokenRefused, disconnectEarly, publish,
           startRecorder, stopRecorder, agentTimeout, erizoTimeout, initializing, ready,
           externalInput, erizoDies, deleteRoom, failed, agentAnswers, unpublish,
           unsubscribe, subscribe, keepAliveAnswered, keepAliveMissed, disconnect
      <4> QED BY <1>1, <2>11, <4>1 DEF Running
    <3> QED BY <1>1, <1>2, <1>4, <2>11, <3>1
  <2> QED BY <2>1, <2>4, <2>5, <2>6, <2>7, <2>8, <2>9, <2>10, <2>11
<1> QED BY <1>3, <1>4

\* Every step preserves the invariant of the maps.
LEMMA NextMaps == RoomInv /\ MapsInv /\ [Next]_vars => MapsInv'
<1> SUFFICES ASSUME RoomInv, MapsInv, [Next]_vars PROVE MapsInv' OBVIOUS
<1>1. RestShape' BY RestShapeStep
<1>2. DataOfMembers' BY DataStep
<1>3. /\ ControllerAgrees'
      /\ \A id \in DOMAIN controller'.publishers \ DOMAIN controller.publishers :
            call[id] \in Unanswered /\ call'[id] \notin {"idle"} \cup Unanswered
  BY ControllerStep
<1>4. PublishersHaveCalls'
  <2> SUFFICES ASSUME NEW id \in Streams
               PROVE  /\ call'[id] \in {"idle"} \cup Unanswered
                            => id \notin DOMAIN controller'.publishers
                      /\ id \in DOMAIN controller'.publishers \/ call'[id] \in Unanswered
                            => AV(id)
    BY DEF PublishersHaveCalls, AV, Unanswered
  <2>1. /\ call[id] \in {"idle"} \cup Unanswered => id \notin DOMAIN controller.publishers
        /\ id \in DOMAIN controller.publishers \/ call[id] \in Unanswered => AV(id)
    BY DEF MapsInv, PublishersHaveCalls
  <2>2. /\ call'[id] \in {"idle"} \cup Unanswered => call[id] \in {"idle"} \cup Unanswered
        /\ call'[id] \in Unanswered => call[id] \in Unanswered \/ AV(id)
    BY CallsStep
  <2> QED BY <1>3, <2>1, <2>2
<1> QED BY <1>1, <1>2, <1>3, <1>4 DEF MapsInv

\* The action of PublisherGoesWithStream, about one stream.
GoesWithStream(id) ==
    /\ id \in DOMAIN streams \ DOMAIN streams' => id \notin DOMAIN controller'.publishers
    /\ id \in DOMAIN controller.publishers \ DOMAIN controller'.publishers
          => id \notin DOMAIN streams' \/ call'[id] = "failed"

\* What each step takes out of the room and out of the controller.
LEMMA GoesStep ==
    ASSUME RoomInv, MapsInv, [Next]_vars, crashed' = "no", NEW id \in Streams
    PROVE  GoesWithStream(id)
<1> USE DEF GoesWithStream
<1>1. /\ MapsOf(controller, Members)
      /\ id \in DOMAIN controller.publishers => AV(id)
  BY DEF MapsInv, ControllerAgrees, PublishersHaveCalls
<1>2. ASSUME NEW c \in Clients, disconnect(c) PROVE GoesWithStream(id)
  <2> DEFINE ids == {i \in socketStreams[c] \cap DOMAIN streams : AV(i)}
  <2>1. /\ DOMAIN controller'.publishers = DOMAIN controller.publishers \ ids
        /\ DOMAIN streams' = DOMAIN streams \ socketStreams[c]
    <3>1. controller' = Release(controller, c) /\ ~controller'.thrown
      BY <1>2 DEF disconnect, EndsWith
    <3>2. DOMAIN controller'.publishers = DOMAIN controller.publishers \ ids
      BY <3>1, ReleaseEffect
    <3> QED BY <1>2, <3>2 DEF disconnect
  <2> QED BY <1>1, <2>1
<1>3. ASSUME NEW i \in Streams, failed(i) PROVE GoesWithStream(id)
  <2>1. /\ UNCHANGED streams
        /\ controller' = RemovePublisher(controller, i)
        /\ ~controller'.thrown
        /\ call'[i] = "failed"
    BY <1>3 DEF failed, EndsWith, RoomInv, RoomShape
  <2>2. DOMAIN controller'.publishers = DOMAIN controller.publishers \ {i}
    BY <1>1, <2>1, RemovePublisherEffect
  <2> QED BY <2>1, <2>2
<1>4. ASSUME NEW c \in Clients, NEW i \in Streams, unpublish(c, i) PROVE GoesWithStream(id)
  <2>1. DOMAIN streams' = DOMAIN streams \ {i} BY <1>4 DEF unpublish, Without
  <2>2. CASE AV(i)
    <3>1. controller' = RemovePublisher(controller, i) /\ ~controller'.thrown
      BY <1>4, <2>2 DEF unpublish, EndsWith
    <3>2. DOMAIN controller'.publishers = DOMAIN controller.publishers \ {i}
      BY <1>1, <3>1, RemovePublisherEffect
    <3> QED BY <2>1, <3>2
  <2>3. CASE ~AV(i)
    <3>1. UNCHANGED controller BY <1>4, <2>3 DEF unpublish, EndsWith
    <3> QED BY <1>1, <2>1, <2>3, <3>1
  <2> QED BY <2>2, <2>3
<1>5. ASSUME NEW e \in Erizos, keepAliveMissed(e) PROVE GoesWithStream(id)
  <2> DEFINE r == KeepAliveMissed(controller, e)
             gone == UnpublishAll(r, e).gone
  <2>1. /\ Dead(r, e) =>
              /\ DOMAIN controller'.publishers = DOMAIN controller.publishers \ gone
              /\ gone \subseteq DOMAIN controller.publishers
        /\ ~Dead(r, e) => controller'.publishers = controller.publishers
    BY <1>5, MissedEffect
  <2>2. /\ Dead(r, e) => streams' = Restrict(streams, DOMAIN streams \ gone)
        /\ ~Dead(r, e) => streams' = streams
    BY <1>5 DEF keepAliveMissed
  <2> HIDE DEF r, gone
  <2>3. Dead(r, e) => DOMAIN streams' = DOMAIN streams \ gone BY <2>2 DEF Restrict
  <2> QED BY <2>1, <2>2, <2>3
<1>6. ASSUME DOMAIN streams \subseteq DOMAIN streams',
             DOMAIN controller.publishers \subseteq DOMAIN controller'.publishers
      PROVE  GoesWithStream(id)
  BY <1>6
<1>7. ASSUME NEW i, NEW s, streams' = Put(streams, i, s)
      PROVE  DOMAIN streams \subseteq DOMAIN streams'
  BY <1>7 DEF Put
<1>8. ASSUME NEW c \in Clients, NEW i \in Streams, publish(c, i) PROVE GoesWithStream(id)
  <2>1. /\ streams' = streams \/ streams' = Put(streams, i, Stream(c, "ready"))
        /\ UNCHANGED controller
    BY <1>8 DEF publish
  <2> QED BY <1>6, <1>7, <2>1
<1>9. ASSUME NEW i \in Streams, NEW result, initializing(i) \/ externalInput(i, result)
      PROVE  GoesWithStream(id)
  <2>1. /\ \/ streams' = streams
           \/ streams' = Put(streams, i, Stream(owner[i], "initial"))
           \/ streams' = Put(streams, i, Stream(owner[i], "none"))
        /\ UNCHANGED controller
    BY <1>9 DEF initializing, externalInput
  <2> QED BY <1>6, <1>7, <2>1
<1>10. ASSUME NEW c \in Clients, NEW i \in Streams, NEW wantsData, subscribe(c, i, wantsData)
       PROVE  GoesWithStream(id)
  <2>1. c \in Members
    BY <1>10 DEF subscribe, Members, RoomInv, ConnectedAreListed, Connected
  <2>2. controller' = controller \/ controller' = AddSubscriber(controller, c, i)
    BY <1>10 DEF subscribe
  <2>3. controller'.publishers = controller.publishers
    BY <1>1, <2>1, <2>2, AddSubscriberEffect
  <2>4. DOMAIN streams' = DOMAIN streams BY <1>10 DEF subscribe
  <2> QED BY <1>6, <2>3, <2>4
<1>11. ASSUME NEW c \in Clients, NEW i \in Streams, unsubscribe(c, i)
       PROVE  GoesWithStream(id)
  <2>1. controller' = controller \/ controller' = RemoveSubscriber(controller, c, i)
    BY <1>11 DEF unsubscribe, EndsWith
  <2>2. controller'.publishers = controller.publishers
    BY <1>1, <2>1, RemoveSubscriberEffect
  <2>3. DOMAIN streams' = DOMAIN streams BY <1>11 DEF unsubscribe
  <2> QED BY <1>6, <2>2, <2>3
<1>12. ASSUME NEW i \in Streams, NEW e \in Erizos, agentAnswers(i, e) PROVE GoesWithStream(id)
  <2>1. /\ controller' = AddPublisher(controller, i, e)
        /\ call[i] \in Unanswered /\ UNCHANGED streams
    BY <1>12 DEF agentAnswers, EndsWith, Unanswered
  <2>2. i \notin DOMAIN controller.publishers
    BY <2>1 DEF MapsInv, PublishersHaveCalls
  <2>3. DOMAIN controller'.publishers = DOMAIN controller.publishers \cup {i}
    BY <2>1, <2>2, AddPublisherEffect DEF MapsInv, ControllerAgrees
  <2> QED BY <1>6, <2>1, <2>3
<1>13. ASSUME NEW i \in Streams, ready(i) PROVE GoesWithStream(id)
  <2>1. DOMAIN streams' = DOMAIN streams /\ UNCHANGED controller BY <1>13 DEF ready
  <2> QED BY <1>6, <2>1
<1>14. ASSUME NEW e \in Erizos, keepAliveAnswered(e) PROVE GoesWithStream(id)
  <2>1. controller'.publishers = controller.publishers /\ UNCHANGED streams
    BY <1>1, <1>14 DEF keepAliveAnswered, KeepAliveAnswered, MapsOf
  <2> QED BY <1>6, <2>1
<1>15. CASE UNCHANGED <<streams, controller>> BY <1>6, <1>15
<1>16. \/ \E c \in Clients : disconnect(c)
       \/ \E i \in Streams : failed(i) \/ ready(i) \/ \E e \in Erizos : agentAnswers(i, e)
       \/ \E c \in Clients, i \in Streams : publish(c, i) \/ unpublish(c, i) \/ unsubscribe(c, i)
       \/ \E c \in Clients, i \in Streams, wantsData \in BOOLEAN : subscribe(c, i, wantsData)
       \/ \E i \in Streams, result \in {"success", "error"} :
             initializing(i) \/ externalInput(i, result)
       \/ \E e \in Erizos : keepAliveAnswered(e) \/ keepAliveMissed(e)
       \/ UNCHANGED <<streams, controller>>
  BY DEF Next, vars, token, tokenAccepted, tokenRefused, disconnectEarly, startRecorder,
         stopRecorder, agentTimeout, erizoTimeout, erizoDies, deleteRoom
<1> QED
  BY <1>2, <1>3, <1>4, <1>5, <1>8, <1>9, <1>10, <1>11, <1>12, <1>13, <1>14, <1>15, <1>16

-----------------------------------------------------------------------------
(***************************************************************************)
(* Theorems                                                                *)
(***************************************************************************)

\* Streams are shown and listed in every state.
THEOREM RoomInvariant == Spec => []RoomInv
<1> QED BY InitRoom, NextRoom, PTL DEF Spec

\* The maps agree in every state, given what RoomInv says of who is in the room.
THEOREM MapsInvariant == Spec => []MapsInv
<1>1. Spec => []RoomInv BY RoomInvariant
<1> QED BY <1>1, InitMaps, NextMaps, PTL DEF Spec

\* The maps of a room agree with each other and with who is in it, whatever was
\* in flight when a client left, and even when splice(-1) takes out of the list
\* of an ErizoJS a publisher that was not meant.
THEOREM MapsStayInAgreement == Spec => []MapsAgree
<1>1. RoomInv /\ MapsInv => MapsAgree
  <2> SUFFICES ASSUME RoomInv, MapsInv PROVE MapsAgree OBVIOUS
  <2> USE DEF MapsInv
  <2>1. /\ MapsOf(controller, Members) /\ CountsOf(controller) BY DEF ControllerAgrees
  <2>2. TypeOK
    <3>1. /\ controller.publishers \in [DOMAIN controller.publishers -> Erizos]
          /\ \A e \in DOMAIN controller.erizos :
                /\ controller.erizos[e].publishers \in Seq(Streams)
                /\ controller.erizos[e].ka_count \in 0 .. TIMEOUT_LIMIT
      BY <2>1 DEF MapsOf, CountsOf
    <3>2. \A id \in DOMAIN streams :
             streams[id] \in [socket : Clients, status : {"initial", "ready", "none"},
                              data : SUBSET Clients]
      BY DEF RoomInv, RoomShape, StreamRecord
    <3> QED BY <3>1, <3>2 DEF TypeOK, RestShape, RoomInv, RoomShape, View
  <2>3. SubscribersAreMembers
    BY <2>1 DEF SubscribersAreMembers, DataOfMembers, MapsOf, Members
  <2>4. PublishersAreListed BY <2>1 DEF PublishersAreListed, MapsOf
  <2> QED BY <2>2, <2>3, <2>4 DEF MapsAgree
<1> QED BY <1>1, RoomInvariant, MapsInvariant, PTL

\* A publisher leaves the RoomController exactly when its stream leaves the
\* room, whoever removes it and however many others go with it, unless its
\* connection failed: whenever a handler has ended without an exception.
THEOREM PublishersGoWithStreams == Spec => PublisherGoesWithStream
<1>1. RoomInv /\ MapsInv /\ [Next]_vars =>
        [\A id \in Streams :
          LET leavesRoom == id \in DOMAIN streams \ DOMAIN streams'
              leavesController ==
                  id \in DOMAIN controller.publishers \ DOMAIN controller'.publishers
          IN  crashed' = "no" =>
                /\ leavesRoom => id \notin DOMAIN controller'.publishers
                /\ leavesController => id \notin DOMAIN streams' \/ call'[id] = "failed"]_vars
  BY GoesStep DEF GoesWithStream
<1> QED BY <1>1, RoomInvariant, MapsInvariant, PTL DEF Spec, PublisherGoesWithStream

\* Every connected client has been shown every READY stream of the room,
\* whatever was in flight when it came and whatever fails: the list a client
\* gets with its token and the later onAddStream messages leave no gap.
THEOREM ReadyStreamsAreShown == Spec => []ReadyIsShown
<1>1. RoomInv => ReadyIsShown BY DEF RoomInv, ReadyShown, ReadyIsShown
<1> QED BY <1>1, RoomInvariant, PTL

\* A stream is in the list of its client's socket for as long as that client is
\* connected and its connection has not failed, so 'disconnect' removes it.
THEOREM OwnersListTheirStreams == Spec => []OwnerListsStream
<1>1. RoomInv => OwnerListsStream BY DEF RoomInv, OwnerLists, OwnerListsStream
<1> QED BY <1>1, RoomInvariant, PTL

\* A room exists exactly as long as it has a socket, even if sockets leave while
\* their token is checked.
THEOREM OpenRoomsHaveSockets == Spec => []RoomHasSockets
<1>1. RoomInv => RoomHasSockets BY DEF RoomInv, OpenHasSockets, RoomHasSockets
<1> QED BY <1>1, RoomInvariant, PTL

=============================================================================
