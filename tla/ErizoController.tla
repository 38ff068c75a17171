-------------------------- MODULE ErizoController --------------------------
(***************************************************************************)
(* One room of an erizoController (erizo/controller/index.js), from the    *)
(* token that creates it to the disconnection that deletes it: the         *)
(* handlers of its clients' sockets, the room's RoomController, and the    *)
(* calls in flight to nuve, to the ErizoAgent and to the ErizoJS.          *)
(*                                                                         *)
(* A handler runs to completion; an exception it does not catch ends the   *)
(* process. A call's reply may come after its 'timeout' (rpc_nats.js       *)
(* clears the timer and calls back again), and an ErizoJS replies to       *)
(* addPublisher once per event of the connection.                          *)
(***************************************************************************)
EXTENDS RoomController, FiniteSets, FiniteSetsExt

CONSTANTS
    Clients,     \* sockets; a socket that disconnects does not come back
    Streams,     \* ids of the streams that may be published
    Kind,        \* what is published under an id: "erizo", "url" or "data"
    HasData,     \* ids of the streams whose spec.data is set
    Truncated,   \* ids that parseInt changes: those that are not integers
    Erizos,      \* ids of the ErizoJS processes the agent gives out
    Recordings,  \* ids of the recordings that may be made
    Events       \* what may happen around the controller

ASSUME RoomAssumption ==
    /\ Kind \in [Streams -> {"erizo", "url", "data"}]
    /\ {id \in Streams : Kind[id] = "data"} \subseteq HasData
    /\ HasData \subseteq Streams
    /\ Truncated \subseteq Streams
    /\ Events \subseteq {"agent timeout", "erizo timeout", "connection failed",
                         "erizo dies", "keepalive lost", "leaves early",
                         "room deletion"}

VARIABLES
    conn,       \* client -> "new", "token", "left early", "in" or "gone"
    room,       \* "none", "open" (in rooms) or "deleted"
    creator,    \* room "open": the client whose token created it
    sockets,    \* room.sockets
    streams,    \* room.streams: id -> [socket, status, data]
    socketStreams,    \* client -> socket.streams
    controller,       \* room.controller, a RoomController state
    externalOutputs,  \* its externalOutputs: recording -> publisher
    call,       \* id -> the calls of its publication that are in flight
    owner,      \* id -> the client that published it
    answer,     \* history: id -> first call of the publish callback
    view,       \* client -> id -> "unseen", "shown" or "removed"
    down,       \* ErizoJS processes that have died
    crashed     \* the handler whose exception ended the process, or "no"

vars == <<conn, room, creator, sockets, streams, socketStreams, controller,
          externalOutputs, call, owner, answer, view, down, crashed>>

NoClient == "nobody"
AV(id) == Kind[id] # "data"    \* hasAudio() || hasVideo() || hasScreen()
Connected == {c \in Clients : conn[c] = "in"}

Stream(c, st) == [socket |-> c, status |-> st, data |-> {}]
\* f[x] = y, whether f has x or not.
Put(f, x, y) == [z \in {x} \cup DOMAIN f |-> IF z = x THEN y ELSE f[z]]

\* What a client sees of a stream, seen as st before, after a message about it.
Seen(type, st) ==
    CASE type = "onAddStream" -> "shown"
      [] type = "onRemoveStream" /\ st = "shown" -> "removed"
      [] OTHER -> st

\* sendMsgToRoom: the views after a message about each stream of ids.
SendMsgToRoom(type, ids) ==
    [c \in Clients |->
        [id \in Streams |->
            IF c \in sockets \cap Connected /\ id \in ids
              THEN Seen(type, view[c][id]) ELSE view[c][id]]]

\* The process runs: no handler has ended in an exception.
Running == crashed = "no"

-----------------------------------------------------------------------------
Init ==
    /\ conn = [c \in Clients |-> "new"]
    /\ room = "none"
    /\ creator = NoClient
    /\ sockets = {}
    /\ streams = <<>>
    /\ socketStreams = [c \in Clients |-> {}]
    /\ controller = NewController
    /\ externalOutputs = <<>>
    /\ call = [id \in Streams |-> "idle"]
    /\ owner = [id \in Streams |-> NoClient]
    /\ answer = [id \in Streams |-> "none"]
    /\ view = [c \in Clients |-> [id \in Streams |-> "unseen"]]
    /\ down = {}
    /\ crashed = "no"

\* What most handlers leave alone.
Session == <<conn, room, creator, sockets>>
Calls == <<call, owner, answer>>

\* The handler h ends with the controller in state r, or throws.
EndsWith(h, r) ==
    /\ controller' = r
    /\ crashed' = IF r.thrown THEN h ELSE "no"

-----------------------------------------------------------------------------
(***************************************************************************)
(* Coming and going                                                        *)
(***************************************************************************)

\* A client sends its token; deleteToken is asked of nuve.
token(c) ==
    /\ Running
    /\ conn[c] = "new"
    /\ conn' = [conn EXCEPT ![c] = "token"]
    /\ UNCHANGED <<room, creator, sockets, streams, socketStreams, controller,
                   externalOutputs, Calls, view, down, crashed>>

\* Mutant: a new client is given the streams that are not READY.
ListedInitial == {id \in DOMAIN streams : streams[id].status = "initial"}

\* The streams a new client is given.
Listed == {id \in DOMAIN streams : streams[id].status = "ready"}

\* nuve accepts the token. Nothing checks that the socket is still connected. A
\* room deleted meanwhile is created again, which is another room object.
tokenAccepted(c) ==
    /\ Running
    /\ conn[c] \in {"token", "left early"}
    /\ room # "deleted"
    /\ room' = "open"
    /\ creator' = IF room = "none" THEN c ELSE creator
    /\ sockets' = sockets \cup {c}
    /\ conn' = [conn EXCEPT ![c] = IF @ = "token" THEN "in" ELSE "gone"]
    /\ view' = [view EXCEPT ![c] =
                  [id \in Streams |->
                      IF conn[c] = "token" /\ id \in Listed THEN "shown" ELSE "unseen"]]
    /\ UNCHANGED <<streams, socketStreams, controller, externalOutputs, Calls,
                   down, crashed>>

\* nuve refuses the token or does not answer: the socket is disconnected.
tokenRefused(c) ==
    /\ Running
    /\ conn[c] \in {"token", "left early"}
    /\ conn' = [conn EXCEPT ![c] = "gone"]
    /\ UNCHANGED <<room, creator, sockets, streams, socketStreams, controller,
                   externalOutputs, Calls, view, down, crashed>>

\* 'disconnect' before nuve has answered finds no socket.room.
disconnectEarly(c) ==
    /\ Running
    /\ "leaves early" \in Events
    /\ conn[c] = "token"
    /\ conn' = [conn EXCEPT ![c] = "left early"]
    /\ UNCHANGED <<room, creator, sockets, streams, socketStreams, controller,
                   externalOutputs, Calls, view, down, crashed>>

\* removePublisher of each of ids; the first exception ends the loop.
RemovePublishers(r, ids) ==
    FoldSet(LAMBDA id, q : IF q.thrown THEN q ELSE RemovePublisher(q, id), r, ids)

\* What 'disconnect' does to the controller: removeSubscriptions, then
\* removePublisher of the socket's streams that are still in the room.
Release(r, c) ==
    RemovePublishers(RemoveSubscriptions(r, c),
                     {id \in socketStreams[c] \cap DOMAIN streams : AV(id)})

\* Mutant: the last client but one closes the room.
RoomLeftWithAtMostOne(left) == IF Cardinality(left) <= 1 THEN "deleted" ELSE room

\* A room without sockets is deleted.
RoomLeftWith(left) == IF left = {} THEN "deleted" ELSE room

\* 'disconnect'. The views of a client that is gone are forgotten.
disconnect(c) ==
    LET r == Release(controller, c)
        left == DOMAIN streams \ socketStreams[c]
        shown == SendMsgToRoom("onRemoveStream", socketStreams[c])
    IN  /\ Running
        /\ conn[c] = "in"
        /\ conn' = [conn EXCEPT ![c] = "gone"]
        /\ sockets' = sockets \ {c}
        /\ view' = [shown EXCEPT ![c] = [id \in Streams |-> "unseen"]]
        /\ streams' = [id \in left |->
                          [streams[id] EXCEPT !.data = @ \ {c}]]
        /\ EndsWith("disconnect", r)
        /\ room' = RoomLeftWith(sockets')
        /\ UNCHANGED <<creator, socketStreams, externalOutputs, Calls, down>>

-----------------------------------------------------------------------------
(***************************************************************************)
(* Publishing                                                              *)
(***************************************************************************)

\* 'publish'. A data stream is served by the controller itself; the others
\* need an ErizoJS, and createErizoJS is asked of the agent.
publish(c, id) ==
    /\ Running
    /\ conn[c] = "in"
    /\ call[id] = "idle"
    /\ owner' = [owner EXCEPT ![id] = c]
    /\ IF AV(id)
         THEN /\ call' = [call EXCEPT ![id] = "agent"]
              /\ UNCHANGED <<streams, socketStreams, answer, view>>
         ELSE /\ call' = [call EXCEPT ![id] = "done"]
              /\ streams' = Put(streams, id, Stream(c, "ready"))
              /\ socketStreams' = [socketStreams EXCEPT ![c] = @ \cup {id}]
              /\ answer' = [answer EXCEPT ![id] = "id"]
              /\ view' = SendMsgToRoom("onAddStream", {id})
    /\ UNCHANGED <<Session, controller, externalOutputs, down, crashed>>

\* The first call of the publish callback is the one socket.io sends.
Answer(id, a) ==
    answer' = [answer EXCEPT ![id] = IF @ = "none" THEN a ELSE @]

\* The agent answers e, in time or after the timeout, and addPublisher or
\* addExternalInput is asked of e. No one receives it if e is dead.
agentAnswers(id, e) ==
    /\ Running
    /\ call[id] \in {"agent", "agent late"}
    /\ call' = [call EXCEPT ![id] = IF e \in down THEN "lost" ELSE "erizo"]
    /\ EndsWith("publish", AddPublisher(controller, id, e))
    /\ UNCHANGED <<Session, streams, socketStreams, externalOutputs, owner,
                   answer, view, down>>

\* Mutant: the timeout of the agent is only logged.
agentTimeoutLogged(id) ==
    /\ Running
    /\ "agent timeout" \in Events
    /\ call[id] = "agent"
    /\ call' = [call EXCEPT ![id] = "agent late"]
    /\ UNCHANGED <<Session, streams, socketStreams, controller, externalOutputs,
                   answer, owner, view, down, crashed>>

\* The agent does not answer in time. addExternalInput takes 'timeout' for the
\* id of an ErizoJS and throws at erizos['timeout'].publishers.
agentTimeout(id) ==
    /\ Running
    /\ "agent timeout" \in Events
    /\ call[id] = "agent"
    /\ call' = [call EXCEPT ![id] = "agent late"]
    /\ IF Kind[id] = "erizo"
         THEN Answer(id, "error") /\ UNCHANGED crashed
         ELSE crashed' = "publish" /\ UNCHANGED answer
    /\ UNCHANGED <<Session, streams, socketStreams, controller, externalOutputs,
                   owner, view, down>>

\* The ErizoJS does not answer in time.
erizoTimeout(id) ==
    /\ Running
    /\ call[id] = "lost" \/ (call[id] = "erizo" /\ "erizo timeout" \in Events)
    /\ call' = [call EXCEPT ![id] = IF @ = "erizo" THEN "erizo late" ELSE "done"]
    /\ Answer(id, "error")
    /\ UNCHANGED <<Session, streams, socketStreams, controller, externalOutputs,
                   owner, view, down, crashed>>

\* Mutant: the id goes to the socket the room's listener captured.
initializingForCreator(id) ==
    /\ Running
    /\ Kind[id] = "erizo"
    /\ call[id] \in {"erizo", "erizo late"}
    /\ call' = [call EXCEPT ![id] = "initializing"]
    /\ Answer(id, "id")
    /\ streams' = Put(streams, id, Stream(owner[id], "initial"))
    /\ socketStreams' = [socketStreams EXCEPT ![creator] = @ \cup {id}]
    /\ UNCHANGED <<Session, controller, externalOutputs, owner, view, down, crashed>>

\* 'initializing', the first reply to addPublisher.
initializing(id) ==
    /\ Running
    /\ Kind[id] = "erizo"
    /\ call[id] \in {"erizo", "erizo late"}
    /\ call' = [call EXCEPT ![id] = "initializing"]
    /\ Answer(id, "id")
    /\ streams' = Put(streams, id, Stream(owner[id], "initial"))
    /\ socketStreams' = [socketStreams EXCEPT ![owner[id]] = @ \cup {id}]
    /\ UNCHANGED <<Session, controller, externalOutputs, owner, view, down, crashed>>

\* 'ready'. The stream may have left room.streams; it is announced all the same.
ready(id) ==
    /\ Running
    /\ call[id] = "initializing"
    /\ call' = [call EXCEPT ![id] = "ready"]
    /\ streams' = [i \in DOMAIN streams |->
                      IF i = id THEN [streams[i] EXCEPT !.status = "ready"]
                      ELSE streams[i]]
    /\ view' = SendMsgToRoom("onAddStream", {id})
    /\ UNCHANGED <<Session, socketStreams, controller, externalOutputs, owner,
                   answer, down, crashed>>

\* 'failed': the publisher goes, and the id leaves its socket's list. The
\* stream stays in room.streams.
failed(id) ==
    /\ Running
    /\ "connection failed" \in Events
    /\ call[id] \in {"initializing", "ready"}
    /\ call' = [call EXCEPT ![id] = "failed"]
    /\ EndsWith("failed", RemovePublisher(controller, id))
    /\ socketStreams' = [socketStreams EXCEPT ![owner[id]] = @ \ {id}]
    /\ UNCHANGED <<Session, streams, externalOutputs, owner, answer, view, down>>

\* The only reply to addExternalInput. On success the stream is added with no
\* status, so that clients who come later are not given it.
externalInput(id, result) ==
    /\ Running
    /\ Kind[id] = "url"
    /\ call[id] \in {"erizo", "erizo late"}
    /\ call' = [call EXCEPT ![id] = "done"]
    /\ IF result = "success"
         THEN /\ Answer(id, "id")
              /\ streams' = Put(streams, id, Stream(owner[id], "none"))
              /\ socketStreams' = [socketStreams EXCEPT ![owner[id]] = @ \cup {id}]
              /\ view' = SendMsgToRoom("onAddStream", {id})
         ELSE Answer(id, "error") /\ UNCHANGED <<streams, socketStreams, view>>
    /\ UNCHANGED <<Session, controller, externalOutputs, owner, down, crashed>>

\* Mutant: only the client's own stream is deleted.
unpublishOwn(c, id) ==
    /\ Running
    /\ conn[c] = "in"
    /\ id \in DOMAIN streams
    /\ view' = SendMsgToRoom("onRemoveStream", {id})
    /\ EndsWith("unpublish", IF AV(id) THEN RemovePublisher(controller, id)
                             ELSE controller)
    /\ socketStreams' = [socketStreams EXCEPT ![c] = @ \ {id}]
    /\ streams' = IF id \in socketStreams[c] THEN Without(streams, id) ELSE streams
    /\ UNCHANGED <<Session, externalOutputs, Calls, down>>

\* 'unpublish', by any client of the room that may publish.
unpublish(c, id) ==
    /\ Running
    /\ conn[c] = "in"
    /\ id \in DOMAIN streams
    /\ view' = SendMsgToRoom("onRemoveStream", {id})
    /\ EndsWith("unpublish", IF AV(id) THEN RemovePublisher(controller, id)
                             ELSE controller)
    /\ socketStreams' = [socketStreams EXCEPT ![c] = @ \ {id}]
    /\ streams' = Without(streams, id)
    /\ UNCHANGED <<Session, externalOutputs, Calls, down>>

-----------------------------------------------------------------------------
(***************************************************************************)
(* Subscribing and recording                                               *)
(***************************************************************************)

\* 'subscribe' to a stream of the room; wantsData is options.data !== false.
subscribe(c, id, wantsData) ==
    /\ Running
    /\ conn[c] = "in"
    /\ id \in DOMAIN streams
    /\ streams' = IF wantsData /\ id \in HasData
                    THEN [streams EXCEPT ![id].data = @ \cup {c}] ELSE streams
    /\ controller' = IF AV(id) THEN AddSubscriber(controller, c, id) ELSE controller
    /\ UNCHANGED <<Session, socketStreams, externalOutputs, Calls, view, down, crashed>>

\* 'unsubscribe' from a stream of the room.
unsubscribe(c, id) ==
    /\ Running
    /\ conn[c] = "in"
    /\ id \in DOMAIN streams
    /\ streams' = [streams EXCEPT ![id].data = @ \ {c}]
    /\ EndsWith("unsubscribe", IF AV(id) THEN RemoveSubscriber(controller, c, id)
                               ELSE controller)
    /\ UNCHANGED <<Session, socketStreams, externalOutputs, Calls, view, down>>

\* 'startRecorder' of a stream the client has seen, maybe no longer in the
\* room: then streams[id].hasAudio throws.
startRecorder(c, id, rec) ==
    /\ Running
    /\ conn[c] = "in"
    /\ view[c][id] # "unseen"
    /\ rec \notin DOMAIN externalOutputs
    /\ crashed' = IF id \in DOMAIN streams THEN "no" ELSE "startRecorder"
    /\ externalOutputs' =
          IF id \in DOMAIN streams /\ AV(id) /\ id \in DOMAIN controller.publishers
            THEN Put(externalOutputs, rec, id) ELSE externalOutputs
    /\ UNCHANGED <<Session, streams, socketStreams, controller, Calls, view, down>>

\* 'stopRecorder' of a recording whose publisher is still there.
stopRecorder(c, rec) ==
    /\ Running
    /\ conn[c] = "in"
    /\ rec \in DOMAIN externalOutputs
    /\ externalOutputs[rec] \in DOMAIN controller.publishers
    /\ externalOutputs' = Without(externalOutputs, rec)
    /\ UNCHANGED <<Session, streams, socketStreams, controller, Calls, view, down, crashed>>

-----------------------------------------------------------------------------
(***************************************************************************)
(* Keep alives                                                             *)
(***************************************************************************)

\* A reply to the keepAlive of e, in time or late.
keepAliveAnswered(e) ==
    /\ Running
    /\ e \in DOMAIN controller.erizos \ down
    /\ controller' = KeepAliveAnswered(controller, e)
    /\ UNCHANGED <<Session, streams, socketStreams, externalOutputs, Calls,
                   view, down, crashed>>

\* One turn of the for-in loop of callbackFor(e): 'unpublish' of the publisher
\* that is the k-th of e now. The listener parses the id before it uses it.
Turn(q, e, k) ==
    LET list == q.controller.erizos[e].publishers
    IN  IF k > Len(list) \/ list[k] \in Truncated THEN q
        ELSE [controller |-> RemovePublisher(q.controller, list[k]),
              gone |-> q.gone \cup {list[k]}]

\* The loop asks for the keys that the list had at first, while the listener
\* takes elements out of it.
UnpublishAll(r, e) ==
    FoldLeft(LAMBDA q, k : Turn(q, e, k), [controller |-> r, gone |-> {}],
             [k \in 1 .. Len(r.erizos[e].publishers) |-> k])

\* The keepAlive of e times out. After too many, its publishers are unpublished
\* and the agent is asked to kill it. The listener knows the creator's socket.
keepAliveMissed(e) ==
    LET r == KeepAliveMissed(controller, e)
        q == UnpublishAll(r, e)
    IN  /\ Running
        /\ e \in DOMAIN controller.erizos
        /\ e \in down \/ "keepalive lost" \in Events
        /\ IF Dead(r, e)
             THEN /\ controller' = ForgetErizo(q.controller, e)
                  /\ view' = SendMsgToRoom("onRemoveStream", q.gone)
                  /\ socketStreams' = [socketStreams EXCEPT ![creator] = @ \ q.gone]
                  /\ streams' = Restrict(streams, DOMAIN streams \ q.gone)
             ELSE controller' = r /\ UNCHANGED <<view, socketStreams, streams>>
        /\ UNCHANGED <<Session, externalOutputs, Calls, down, crashed>>

-----------------------------------------------------------------------------
(***************************************************************************)
(* Around the controller                                                   *)
(***************************************************************************)

\* An ErizoJS ends: killed by the agent, of itself or of an exception.
erizoDies(e) ==
    /\ "erizo dies" \in Events
    /\ e \notin down
    /\ down' = down \cup {e}
    /\ UNCHANGED <<Session, streams, socketStreams, controller, externalOutputs,
                   Calls, view, crashed>>

\* nuve asks deleteRoom of a room that exists: rooms[room].roomController is
\* not a field of the room.
deleteRoom ==
    /\ Running
    /\ "room deletion" \in Events
    /\ room = "open"
    /\ crashed' = "deleteRoom"
    /\ UNCHANGED <<Session, streams, socketStreams, controller, externalOutputs,
                   Calls, view, down>>

Next ==
    \/ \E c \in Clients :
          \/ token(c) \/ tokenAccepted(c) \/ tokenRefused(c)
          \/ disconnectEarly(c) \/ disconnect(c)
          \/ \E id \in Streams :
                \/ publish(c, id) \/ unpublish(c, id) \/ unsubscribe(c, id)
                \/ \E wantsData \in BOOLEAN : subscribe(c, id, wantsData)
                \/ \E rec \in Recordings : startRecorder(c, id, rec)
          \/ \E rec \in Recordings : stopRecorder(c, rec)
    \/ \E id \in Streams :
          \/ \E e \in Erizos : agentAnswers(id, e)
          \/ agentTimeout(id) \/ erizoTimeout(id)
          \/ initializing(id) \/ ready(id) \/ failed(id)
          \/ \E result \in {"success", "error"} : externalInput(id, result)
    \/ \E e \in Erizos :
          keepAliveAnswered(e) \/ keepAliveMissed(e) \/ erizoDies(e)
    \/ deleteRoom

Spec == Init /\ [][Next]_vars

\* The timers of the controller expire: the one of each call (5 s) and the keep
\* alive (5 s), which a dead ErizoJS never answers.
Fairness ==
    /\ \A id \in Streams : WF_vars(agentTimeout(id)) /\ WF_vars(erizoTimeout(id))
    /\ \A e \in Erizos : WF_vars(e \in down /\ keepAliveMissed(e))

FairSpec == Spec /\ Fairness

-----------------------------------------------------------------------------
(***************************************************************************)
(* Properties                                                              *)
(***************************************************************************)

\* Shape of the state.
TypeOK ==
    /\ conn \in [Clients -> {"new", "token", "left early", "in", "gone"}]
    /\ room \in {"none", "open", "deleted"}
    /\ creator \in Clients \cup {NoClient}
    /\ sockets \subseteq Clients
    /\ DOMAIN streams \subseteq Streams
    /\ \A id \in DOMAIN streams :
          streams[id] \in [socket : Clients, status : {"initial", "ready", "none"},
                           data : SUBSET Clients]
    /\ socketStreams \in [Clients -> SUBSET Streams]
    /\ controller.publishers \in [DOMAIN controller.publishers -> Erizos]
    /\ \A e \in DOMAIN controller.erizos :
          /\ controller.erizos[e].publishers \in Seq(Streams)
          /\ controller.erizos[e].ka_count \in 0 .. TIMEOUT_LIMIT
    /\ externalOutputs \in [DOMAIN externalOutputs -> Streams]
    /\ call \in [Streams -> {"idle", "agent", "agent late", "lost", "erizo",
                             "erizo late", "initializing", "ready", "failed", "done"}]
    /\ owner \in [Streams -> Clients \cup {NoClient}]
    /\ answer \in [Streams -> {"none", "id", "error"}]
    /\ view \in [Clients -> [Streams -> {"unseen", "shown", "removed"}]]
    /\ down \subseteq Erizos

\* A subscriber of a stream, media or data, is a connected client of the room,
\* whatever calls were in flight when a client left ('disconnect').
SubscribersAreMembers ==
    Running =>
      /\ \A id \in DOMAIN controller.subscribers :
            controller.subscribers[id] \subseteq sockets \cap Connected
      /\ \A id \in DOMAIN streams : streams[id].data \subseteq sockets \cap Connected

\* The maps of the RoomController agree: a publisher has a subscriber list as
\* long as it has an ErizoJS, and an ErizoJS lists, once, only publishers it
\* serves, even when splice(-1) takes another one out.
PublishersAreListed ==
    Running =>
      /\ DOMAIN controller.publishers = DOMAIN controller.subscribers
      /\ \A e \in DOMAIN controller.erizos :
            LET list == controller.erizos[e].publishers
            IN  /\ IsInjective(list)
                /\ \A id \in ToSet(list) :
                      id \in DOMAIN controller.publishers /\ controller.publishers[id] = e

\* The maps of a room agree with each other and with who is in it.
MapsAgree == TypeOK /\ SubscribersAreMembers /\ PublishersAreListed

\* Every connected client has been shown every READY stream of the room, be it
\* by the list it got with its token or by an onAddStream, and not removed.
ReadyIsShown ==
    Running =>
      \A c \in Connected, id \in DOMAIN streams :
          streams[id].status = "ready" => view[c][id] = "shown"

\* A stream whose connection did not fail is in the list of its client's
\* socket as long as that client is there, so that its 'disconnect' removes it.
OwnerListsStream ==
    Running =>
      \A id \in DOMAIN streams :
          owner[id] \in Connected /\ call[id] # "failed"
            => id \in socketStreams[owner[id]]

\* A publisher leaves the RoomController exactly when its stream leaves the
\* room, whoever removes it, unless its connection failed: no stream of the room
\* refuses subscriptions in silence, and no ErizoJS serves one that is gone.
PublisherGoesWithStream ==
    [][\A id \in Streams :
          LET leavesRoom == id \in DOMAIN streams \ DOMAIN streams'
              leavesController ==
                  id \in DOMAIN controller.publishers \ DOMAIN controller'.publishers
          IN  crashed' = "no" =>
                /\ leavesRoom => id \notin DOMAIN controller'.publishers
                /\ leavesController => id \notin DOMAIN streams' \/ call'[id] = "failed"]_vars

\* The room is in rooms exactly as long as it has a socket.
RoomHasSockets == Running => (room = "open" <=> sockets # {})

\* An ErizoJS that dies is eventually dropped from erizos, even if the agent
\* gives it out again meanwhile.
DeadIsForgotten ==
    \A e \in Erizos :
        (e \in down) ~> (~Running \/ e \notin DOMAIN controller.erizos)

\* A client that publishes gets an answer, whatever the agent and the ErizoJS
\* do, while the controller runs.
PublishIsAnswered ==
    \A id \in Streams :
        (owner[id] # NoClient) ~> (~Running \/ answer[id] # "none")

=============================================================================
