---------------------------- MODULE MediaControl ----------------------------
(***************************************************************************)
(* The RoomControllers of several rooms and the ErizoJS processes they     *)
(* share: the controllers send calls, each process handles those of a room *)
(* in the order they were sent (one NATS connection and subject), those of *)
(* different rooms in any order, and none once it has ended.               *)
(*                                                                         *)
(* When the sockets of a room's clients make its controller act is the     *)
(* subject of ErizoController; here any controller acts at any time.       *)
(***************************************************************************)
EXTENDS RoomController, ErizoJS, FiniteSets

CONSTANTS
    Rooms,
    Streams,
    RoomOf,      \* stream or client -> its room
    Kind,        \* stream -> "erizo" or "url"
    Clients,     \* subscribers
    Erizos,      \* ids of the ErizoJS processes the agent gives out
    Recordings,  \* ids of the recordings that may be made
    MaxCalls     \* bound: calls of a room to a process in flight

ASSUME MediaAssumption ==
    /\ RoomOf \in [Streams \cup Clients -> Rooms]
    /\ Kind \in [Streams -> {"erizo", "url"}]
    /\ MaxCalls \in Nat

VARIABLES
    controller,       \* room -> its RoomController
    externalOutputs,  \* room -> recording -> publisher, in its RoomController
    calls,            \* room -> process -> calls in flight, in order
    erizo,            \* process -> its ErizoJS state
    begun             \* streams and recordings asked for so far

vars == <<controller, externalOutputs, calls, erizo, begun>>

Up(e) == erizo[e].end = Running
StreamsOf(r) == {id \in Streams : RoomOf[id] = r}
ClientsOf(r) == {c \in Clients : RoomOf[c] = r}
Serving(r, id) == controller[r].publishers[id]   \* getErizoQueue

Call(method, id, peer) == [method |-> method, id |-> id, peer |-> peer]

\* peer: a client, a recording, or "publisher". The calls of a client also say
\* whether the controller had it as a subscriber; no code reads that.
Signaling(r, id, c) ==
    [method |-> "processSignaling", id |-> id, peer |-> c,
     listed |-> c \in controller[r].subscribers[id]]

\* callRpc: nobody receives what is sent to a process that has ended.
CallsWith(r, e, new) ==
    [calls EXCEPT ![r][e] = IF Up(e) THEN @ \o new ELSE @]

\* The bound.
Room(r, e) == Len(calls[r][e]) < MaxCalls

-----------------------------------------------------------------------------
Init ==
    /\ controller = [r \in Rooms |-> NewController]
    /\ externalOutputs = [r \in Rooms |-> <<>>]
    /\ calls = [r \in Rooms |-> [e \in Erizos |-> <<>>]]
    /\ erizo = [e \in Erizos |-> NewErizoJS]
    /\ begun = {}

\* The agent gives e, maybe one that is about to end, for a publisher of r.
publish(r, id, e) ==
    /\ id \in StreamsOf(r) \ begun
    /\ Room(r, e)
    /\ begun' = begun \cup {id}
    /\ controller' = [controller EXCEPT ![r] = AddPublisher(@, id, e)]
    /\ calls' = CallsWith(r, e, <<Call(IF Kind[id] = "erizo" THEN "addPublisher"
                                       ELSE "addExternalInput", id, "publisher")>>)
    /\ UNCHANGED <<externalOutputs, erizo>>

subscribe(r, c, id) ==
    /\ id \in DOMAIN controller[r].publishers
    /\ c \notin controller[r].subscribers[id]
    /\ Room(r, Serving(r, id))
    /\ controller' = [controller EXCEPT ![r] = AddSubscriber(@, c, id)]
    /\ calls' = CallsWith(r, Serving(r, id), <<Call("addSubscriber", id, c)>>)
    /\ UNCHANGED <<externalOutputs, erizo, begun>>

unsubscribe(r, c, id) ==
    /\ id \in DOMAIN controller[r].publishers
    /\ c \in controller[r].subscribers[id]
    /\ Room(r, Serving(r, id))
    /\ controller' = [controller EXCEPT ![r] = RemoveSubscriber(@, c, id)]
    /\ calls' = CallsWith(r, Serving(r, id), <<Call("removeSubscriber", id, c)>>)
    /\ UNCHANGED <<externalOutputs, erizo, begun>>

\* removeSubscriptions: one call for each of the client's subscriptions.
leave(r, c) ==
    LET left == {id \in DOMAIN controller[r].subscribers :
                    c \in controller[r].subscribers[id]}
        to(e) == SetToSeq({Call("removeSubscriber", id, c) :
                              id \in {i \in left : Serving(r, i) = e}})
    IN  /\ left # {}
        /\ \A id \in left : Room(r, Serving(r, id))
        /\ controller' = [controller EXCEPT ![r] = RemoveSubscriptions(@, c)]
        /\ calls' = [calls EXCEPT ![r] =
                        [e \in Erizos |-> IF Up(e) THEN @[e] \o to(e) ELSE @[e]]]
        /\ UNCHANGED <<externalOutputs, erizo, begun>>

unpublish(r, id) ==
    /\ id \in DOMAIN controller[r].publishers
    /\ Room(r, Serving(r, id))
    /\ controller' = [controller EXCEPT ![r] = RemovePublisher(@, id)]
    /\ calls' = CallsWith(r, Serving(r, id), <<Call("removePublisher", id, "publisher")>>)
    /\ UNCHANGED <<externalOutputs, erizo, begun>>

\* An offer or a candidate of a subscriber, or of a client that was one.
signal(r, c, id) ==
    /\ id \in DOMAIN controller[r].publishers
    /\ Room(r, Serving(r, id))
    /\ calls' = CallsWith(r, Serving(r, id), <<Signaling(r, id, c)>>)
    /\ UNCHANGED <<controller, externalOutputs, erizo, begun>>

startRecorder(r, id, rec) ==
    /\ id \in DOMAIN controller[r].publishers
    /\ rec \notin begun
    /\ Room(r, Serving(r, id))
    /\ begun' = begun \cup {rec}
    /\ externalOutputs' = [externalOutputs EXCEPT ![r] = With(@, rec, id)]
    /\ calls' = CallsWith(r, Serving(r, id), <<Call("addExternalOutput", id, rec)>>)
    /\ UNCHANGED <<controller, erizo>>

stopRecorder(r, rec) ==
    LET id == externalOutputs[r][rec]
    IN  /\ rec \in DOMAIN externalOutputs[r]
        /\ id \in DOMAIN controller[r].publishers
        /\ Room(r, Serving(r, id))
        /\ externalOutputs' = [externalOutputs EXCEPT ![r] = Without(@, rec)]
        /\ calls' = CallsWith(r, Serving(r, id), <<Call("removeExternalOutput", id, rec)>>)
        /\ UNCHANGED <<controller, erizo, begun>>

-----------------------------------------------------------------------------
\* The calls in flight once e has handled one of r, or none of them once it ended.
CallsAfter(r, e, up) ==
    IF up THEN [calls EXCEPT ![r][e] = Tail(@)]
    ELSE [x \in Rooms |-> [calls[x] EXCEPT ![e] = <<>>]]

\* The process e handles the next call of the room r.
handle(r, e) ==
    /\ calls[r][e] # <<>>
    /\ erizo' = [erizo EXCEPT ![e] = Handle(@, Head(calls[r][e]))]
    /\ calls' = CallsAfter(r, e, erizo'[e].end = Running)
    /\ UNCHANGED <<controller, externalOutputs, begun>>

\* SIGTERM of the agent, or a crash of the native code.
killed(e) ==
    /\ Up(e)
    /\ erizo' = [erizo EXCEPT ![e].end = Killed]
    /\ calls' = [x \in Rooms |-> [calls[x] EXCEPT ![e] = <<>>]]
    /\ UNCHANGED <<controller, externalOutputs, begun>>

Next ==
    \/ \E r \in Rooms :
          \/ \E id \in Streams, e \in Erizos : publish(r, id, e)
          \/ \E id \in Streams : unpublish(r, id)
          \/ \E c \in ClientsOf(r) : leave(r, c)
          \/ \E c \in ClientsOf(r), id \in Streams :
                subscribe(r, c, id) \/ unsubscribe(r, c, id) \/ signal(r, c, id)
          \/ \E id \in Streams, rec \in Recordings : startRecorder(r, id, rec)
          \/ \E rec \in Recordings : stopRecorder(r, rec)
          \/ \E e \in Erizos : handle(r, e)
    \/ \E e \in Erizos : killed(e)

Spec == Init /\ [][Next]_vars

-----------------------------------------------------------------------------
Methods == {"addPublisher", "addExternalInput", "addSubscriber", "removeSubscriber",
            "removePublisher", "processSignaling", "addExternalOutput",
            "removeExternalOutput"}
Peers == Clients \cup Recordings \cup {"publisher"}

Maps(S, T) == UNION {[D -> T] : D \in SUBSET S}

\* Controllers, calls and processes have the shapes described above.
TypeOK ==
    /\ \A r \in Rooms :
        /\ controller[r].publishers \in Maps(StreamsOf(r), Erizos)
        /\ controller[r].subscribers \in Maps(StreamsOf(r), SUBSET ClientsOf(r))
        /\ ~controller[r].thrown
        /\ externalOutputs[r] \in Maps(Recordings, StreamsOf(r))
        /\ \A e \in Erizos : \A i \in DOMAIN calls[r][e] :
            /\ calls[r][e][i].method \in Methods
            /\ calls[r][e][i].id \in StreamsOf(r)
            /\ calls[r][e][i].peer \in Peers
    /\ \A e \in Erizos :
        /\ erizo[e].publishers \in Maps(Streams, {"wrtc", "input"})
        /\ erizo[e].subscribers \in Maps(Streams, SUBSET Clients)
        /\ erizo[e].outputs \in Maps(Recordings, Streams)
        /\ erizo[e].open \in SUBSET ((Streams \X Clients) \cup {<<id>> : id \in Streams})
        /\ erizo[e].end \in {Running, Exit, Killed} \cup {TypeError(id) : id \in Streams}
    /\ begun \subseteq Streams \cup Recordings

\* What a map of recordings holds for publishers that live.
Recorded(outputs, live) ==
    {<<rec, outputs[rec]>> : rec \in {x \in DOMAIN outputs : outputs[x] \in live}}

\* The controller writes down what it only asked for. Once a process that stays
\* up has handled the calls of a room in flight, it carries the publishers that
\* the room's controller has on it, with the same subscribers and recordings,
\* and nothing else of the room.
CallsBringAgreement ==
    \A r \in Rooms, e \in Erizos :
        LET j == FoldLeft(Handle, erizo[e], calls[r][e])
            carried == DOMAIN j.publishers \cap StreamsOf(r)
        IN  j.end = Running =>
                /\ carried = {id \in DOMAIN controller[r].publishers : Serving(r, id) = e}
                /\ \A id \in carried : j.subscribers[id] = controller[r].subscribers[id]
                /\ Recorded(j.outputs, carried) = Recorded(externalOutputs[r], carried)

\* Controllers and processes tell the same story once they have talked.
ControlIsSound == TypeOK /\ CallsBringAgreement

\* Unsubscriptions cross the removal of publishers, and removeSubscriber and
\* addSubscriber of rpcPublic read the list of a publisher without a test. An
\* exception ends a process with the streams of every room on it; only an
\* external input can cause one.
OnlyInputsThrow ==
    \A e \in Erizos, id \in Streams :
        erizo[e].end = TypeError(id) => Kind[id] = "url"

\* processSignaling gives the offer of a peer without a connection to the
\* publisher's. The offer of a client that the controller lists when it is sent
\* always finds the client's own connection.
SignalingFindsItsPeer ==
    \A r \in Rooms, e \in Erizos :
        LET call == Head(calls[r][e])
        IN  (/\ calls[r][e] # <<>>
             /\ call.method = "processSignaling"
             /\ call.listed
             /\ call.id \in DOMAIN erizo[e].publishers)
            => call.peer \in erizo[e].subscribers[call.id]

\* The connections that the maps of a process hold.
Held(j) ==
    {<<id>> : id \in {i \in DOMAIN j.publishers : j.publishers[i] = "wrtc"}}
      \cup UNION {{<<id, c>> : c \in j.subscribers[id]} : id \in DOMAIN j.publishers}

\* rpcPublic drops connections by leaving them out of its maps: those that are
\* open are the ones a running process still holds, so each will be closed.
ConnectionsAreHeld ==
    \A e \in Erizos : Up(e) => erizo[e].open = Held(erizo[e])

Carries(r, e, id) ==
    id \in DOMAIN controller[r].publishers /\ Serving(r, id) = e

Asked(r, e, id) ==
    \E i \in DOMAIN calls[r][e] :
        /\ calls[r][e][i].method \in {"addPublisher", "addExternalInput"}
        /\ calls[r][e][i].id = id

\* A process that exits with its last publisher has, of all rooms, only
\* publishers to lose that it has not heard of.
ExitLosesNothing ==
    [][\A e \in Erizos :
        Up(e) /\ erizo'[e].end = Exit =>
            \A r \in Rooms, id \in Streams :
                Carries(r, e, id) => Asked(r, e, id)]_vars

=============================================================================
