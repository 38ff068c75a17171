------------------------- MODULE MediaControlProofs -------------------------
(***************************************************************************)
(* What holds of MediaControl for any rooms, streams, clients and          *)
(* processes: of an ErizoJS, whatever calls it receives, and of the calls  *)
(* in flight between the RoomControllers and the processes they share.     *)
(* Nothing in a queue is of a publisher its process does not know, and a   *)
(* queue brings its process to where its controller already is: to the     *)
(* same publishers, subscribers and recordings.                            *)
(***************************************************************************)
EXTENDS MediaControl, FiniteSetTheorems, TLAPS

Fields == {"publishers", "subscribers", "outputs", "open", "end"}

\* A process that runs: every publisher has its list of subscribers, and the maps
\* hold what is open.
Consistent(j) ==
    /\ DOMAIN j.subscribers = DOMAIN j.publishers
    /\ j.open = Held(j)

\* Every process is such a one while it runs.
ProcessInv ==
    /\ DOMAIN erizo = Erizos
    /\ \A e \in Erizos :
          /\ DOMAIN erizo[e] = Fields
          /\ Up(e) => Consistent(erizo[e])

-----------------------------------------------------------------------------
\* A new publisher has no subscribers; with a connection of its own, that is open.
LEMMA AddKeeps ==
    ASSUME NEW j, NEW id, NEW kind \in {"wrtc", "input"}, NEW k,
           Consistent(j), id \notin DOMAIN j.publishers,
           k.publishers = With(j.publishers, id, kind),
           k.subscribers = With(j.subscribers, id, {}),
           k.open = j.open \cup (IF kind = "wrtc" THEN {<<id>>} ELSE {})
    PROVE  Consistent(k)
<1>1. /\ DOMAIN k.publishers = DOMAIN j.publishers \cup {id}
      /\ k.publishers[id] = kind
      /\ \A i \in DOMAIN j.publishers : k.publishers[i] = j.publishers[i]
  BY DEF With
<1>2. /\ DOMAIN k.subscribers = DOMAIN j.publishers \cup {id}
      /\ k.subscribers[id] = {}
      /\ \A i \in DOMAIN j.publishers : k.subscribers[i] = j.subscribers[i]
  BY DEF With, Consistent
<1>3. {<<i>> : i \in {i \in DOMAIN k.publishers : k.publishers[i] = "wrtc"}}
        = {<<i>> : i \in {i \in DOMAIN j.publishers : j.publishers[i] = "wrtc"}}
            \cup (IF kind = "wrtc" THEN {<<id>>} ELSE {})
  BY <1>1
<1>4. UNION {{<<i, c>> : c \in k.subscribers[i]} : i \in DOMAIN k.publishers}
        = UNION {{<<i, c>> : c \in j.subscribers[i]} : i \in DOMAIN j.publishers}
  BY <1>1, <1>2
<1>5. k.open = Held(k) BY <1>3, <1>4 DEF Held, Consistent
<1> QED BY <1>1, <1>2, <1>5 DEF Consistent

\* The subscribers of one publisher change, and the connections with them.
LEMMA SubscribersKeep ==
    ASSUME NEW j, NEW id \in DOMAIN j.publishers, NEW list, NEW k,
           Consistent(j),
           k.publishers = j.publishers,
           k.subscribers = [j.subscribers EXCEPT ![id] = list],
           k.open = (j.open \ {<<id, c>> : c \in j.subscribers[id]})
                      \cup {<<id, c>> : c \in list}
    PROVE  Consistent(k)
<1> DEFINE Own(h) == {<<i>> : i \in {i \in DOMAIN h.publishers : h.publishers[i] = "wrtc"}}
           Subs(h) == UNION {{<<i, c>> : c \in h.subscribers[i]} : i \in DOMAIN h.publishers}
<1>1. /\ DOMAIN k.subscribers = DOMAIN j.publishers
      /\ k.subscribers[id] = list
      /\ \A i \in DOMAIN j.publishers : i # id => k.subscribers[i] = j.subscribers[i]
  BY DEF Consistent
<1>2. Own(k) = Own(j) OBVIOUS
<1>3. Subs(k) = (Subs(j) \ {<<id, c>> : c \in j.subscribers[id]}) \cup {<<id, c>> : c \in list}
  BY <1>1
<1>4. Own(j) \ {<<id, c>> : c \in j.subscribers[id]} = Own(j) OBVIOUS
<1>5. j.open = Own(j) \cup Subs(j) BY DEF Consistent, Held
<1>6. k.open = Own(k) \cup Subs(k) BY <1>2, <1>3, <1>4, <1>5
<1> QED BY <1>1, <1>6 DEF Consistent, Held

\* A publisher goes with its subscribers and all their connections.
LEMMA RemoveKeeps ==
    ASSUME NEW j, NEW id \in DOMAIN j.publishers, NEW k,
           Consistent(j), j.publishers[id] # "input",
           k.publishers = Without(j.publishers, id),
           k.subscribers = Without(j.subscribers, id),
           k.open = j.open \ ({<<id, c>> : c \in j.subscribers[id]} \cup {<<id>>})
    PROVE  Consistent(k)
<1> DEFINE Own(h) == {<<i>> : i \in {i \in DOMAIN h.publishers : h.publishers[i] = "wrtc"}}
           Subs(h) == UNION {{<<i, c>> : c \in h.subscribers[i]} : i \in DOMAIN h.publishers}
<1>1. /\ DOMAIN k.publishers = DOMAIN j.publishers \ {id}
      /\ \A i \in DOMAIN j.publishers \ {id} : k.publishers[i] = j.publishers[i]
  BY DEF Without
<1>2. /\ DOMAIN k.subscribers = DOMAIN j.publishers \ {id}
      /\ \A i \in DOMAIN j.publishers \ {id} : k.subscribers[i] = j.subscribers[i]
  BY DEF Without, Consistent
<1>3. Own(k) = Own(j) \ {<<id>>} BY <1>1
<1>4. Subs(k) = Subs(j) \ {<<id, c>> : c \in j.subscribers[id]} BY <1>1, <1>2
<1>5. /\ Own(j) \ {<<id, c>> : c \in j.subscribers[id]} = Own(j)
      /\ Subs(j) \ {<<id>>} = Subs(j)
  OBVIOUS
<1>6. j.open = Own(j) \cup Subs(j) BY DEF Consistent, Held
<1>7. k.open = Own(k) \cup Subs(k) BY <1>3, <1>4, <1>5, <1>6
<1> QED BY <1>1, <1>2, <1>7 DEF Consistent, Held

\* What other fields say does not matter.
LEMMA SameMaps ==
    ASSUME NEW j, NEW k, Consistent(j),
           k.publishers = j.publishers, k.subscribers = j.subscribers, k.open = j.open
    PROVE  Consistent(k)
  BY DEF Consistent, Held

LEMMA AddPublisherKeeps ==
    ASSUME NEW j, NEW id, DOMAIN j = Fields, Consistent(j)
    PROVE  /\ DOMAIN addPublisher(j, id) = Fields
           /\ Consistent(addPublisher(j, id))
<1> DEFINE k == addPublisher(j, id)
<1>1. CASE id \in DOMAIN j.publishers BY <1>1 DEF addPublisher
<1>2. CASE id \notin DOMAIN j.publishers
  <2>1. /\ DOMAIN k = Fields
        /\ k.publishers = With(j.publishers, id, "wrtc")
        /\ k.subscribers = With(j.subscribers, id, {})
        /\ k.open = j.open \cup {<<id>>}
    BY <1>2 DEF addPublisher, Fields
  <2> HIDE DEF k
  <2>2. Consistent(k) BY <1>2, <2>1, AddKeeps, "wrtc" \in {"wrtc", "input"}
  <2> QED BY <2>1, <2>2 DEF k
<1> QED BY <1>1, <1>2

LEMMA AddInputKeeps ==
    ASSUME NEW j, NEW id, DOMAIN j = Fields, Consistent(j)
    PROVE  /\ DOMAIN addExternalInput(j, id) = Fields
           /\ Consistent(addExternalInput(j, id))
<1> DEFINE k == addExternalInput(j, id)
<1>1. CASE id \in DOMAIN j.publishers BY <1>1 DEF addExternalInput
<1>2. CASE id \notin DOMAIN j.publishers
  <2>1. /\ DOMAIN k = Fields
        /\ k.publishers = With(j.publishers, id, "input")
        /\ k.subscribers = With(j.subscribers, id, {})
        /\ k.open = j.open \cup (IF "input" = "wrtc" THEN {<<id>>} ELSE {})
    BY <1>2 DEF addExternalInput, Fields
  <2> HIDE DEF k
  <2>2. Consistent(k) BY <1>2, <2>1, AddKeeps, "input" \in {"wrtc", "input"}
  <2> QED BY <2>1, <2>2 DEF k
<1> QED BY <1>1, <1>2

LEMMA AddSubscriberKeeps ==
    ASSUME NEW j, NEW c, NEW id, DOMAIN j = Fields, Consistent(j)
    PROVE  /\ DOMAIN addSubscriber(j, c, id) = Fields
           /\ Consistent(addSubscriber(j, c, id))
<1> DEFINE k == addSubscriber(j, c, id)
<1>1. CASE id \notin DOMAIN j.publishers BY <1>1 DEF addSubscriber
<1>2. CASE id \in DOMAIN j.publishers
  <2>1. id \in DOMAIN j.subscribers BY <1>2 DEF Consistent
  <2>2. CASE c \in j.subscribers[id] BY <1>2, <2>1, <2>2 DEF addSubscriber
  <2>3. CASE c \notin j.subscribers[id]
    <3>1. /\ DOMAIN k = Fields
          /\ k.publishers = j.publishers
          /\ k.subscribers = [j.subscribers EXCEPT ![id] = @ \cup {c}]
          /\ k.open = j.open \cup {<<id, c>>}
      BY <1>2, <2>1, <2>3 DEF addSubscriber, Fields
    <3> HIDE DEF k
    <3>2. {<<id, d>> : d \in j.subscribers[id]} \subseteq j.open
      BY <1>2 DEF Consistent, Held
    <3>3. {<<id, d>> : d \in j.subscribers[id] \cup {c}}
            = {<<id, d>> : d \in j.subscribers[id]} \cup {<<id, c>>}
      OBVIOUS
    <3>4. k.open = (j.open \ {<<id, d>> : d \in j.subscribers[id]})
                      \cup {<<id, d>> : d \in j.subscribers[id] \cup {c}}
      BY <3>1, <3>2, <3>3
    <3> DEFINE list == j.subscribers[id] \cup {c}
    <3>5. k.subscribers = [j.subscribers EXCEPT ![id] = list] BY <3>1
    <3>6. k.open = (j.open \ {<<id, d>> : d \in j.subscribers[id]})
                      \cup {<<id, d>> : d \in list}
      BY <3>4
    <3> HIDE DEF list
    <3>7. Consistent(k) BY <1>2, <3>1, <3>5, <3>6, SubscribersKeep
    <3> QED BY <3>1, <3>7 DEF k
  <2> QED BY <2>2, <2>3
<1> QED BY <1>1, <1>2

LEMMA RemoveSubscriberKeeps ==
    ASSUME NEW j, NEW c, NEW id, DOMAIN j = Fields, Consistent(j),
           j.end = Running, removeSubscriber(j, c, id).end = Running
    PROVE  Consistent(removeSubscriber(j, c, id))
<1> DEFINE k == removeSubscriber(j, c, id)
<1>1. CASE id \notin DOMAIN j.subscribers
  <2>1. k.publishers = j.publishers /\ k.subscribers = j.subscribers /\ k.open = j.open
    BY <1>1 DEF removeSubscriber, Fields
  <2> HIDE DEF k
  <2>2. Consistent(k) BY <2>1, SameMaps
  <2> QED BY <2>2 DEF k
<1>2. CASE id \in DOMAIN j.subscribers
  <2>1. id \in DOMAIN j.publishers BY <1>2 DEF Consistent
  <2>2. CASE c \notin j.subscribers[id] BY <1>2, <2>2 DEF removeSubscriber
  <2>3. CASE c \in j.subscribers[id]
    <3>1. /\ k.publishers = j.publishers
          /\ k.subscribers = [j.subscribers EXCEPT ![id] = @ \ {c}]
          /\ k.open = j.open \ {<<id, c>>}
      BY <1>2, <2>3 DEF removeSubscriber, Fields
    <3> HIDE DEF k
    <3>2. {<<id, d>> : d \in j.subscribers[id]} \subseteq j.open
      BY <2>1 DEF Consistent, Held
    <3>3. {<<id, d>> : d \in j.subscribers[id] \ {c}}
            = {<<id, d>> : d \in j.subscribers[id]} \ {<<id, c>>}
      OBVIOUS
    <3>4. <<id, c>> \in {<<id, d>> : d \in j.subscribers[id]} BY <2>3
    <3>5. k.open = (j.open \ {<<id, d>> : d \in j.subscribers[id]})
                      \cup {<<id, d>> : d \in j.subscribers[id] \ {c}}
      BY <3>1, <3>2, <3>3, <3>4
    <3> DEFINE list == j.subscribers[id] \ {c}
    <3>6. k.subscribers = [j.subscribers EXCEPT ![id] = list] BY <3>1
    <3>7. k.open = (j.open \ {<<id, d>> : d \in j.subscribers[id]})
                      \cup {<<id, d>> : d \in list}
      BY <3>5
    <3> HIDE DEF list
    <3>8. Consistent(k) BY <2>1, <3>1, <3>6, <3>7, SubscribersKeep
    <3> QED BY <3>8 DEF k
  <2> QED BY <2>2, <2>3
<1> QED BY <1>1, <1>2

LEMMA RemovePublisherKeeps ==
    ASSUME NEW j, NEW id, DOMAIN j = Fields, Consistent(j),
           removePublisher(j, id).end = Running
    PROVE  Consistent(removePublisher(j, id))
<1> DEFINE k == removePublisher(j, id)
<1>1. CASE id \notin DOMAIN j.publishers \cap DOMAIN j.subscribers
  BY <1>1 DEF removePublisher
<1>2. CASE id \in DOMAIN j.publishers \cap DOMAIN j.subscribers
  <2>1. j.publishers[id] # "input"
    BY <1>2 DEF removePublisher, Fields, TypeError, Running
  <2>2. /\ k.publishers = Without(j.publishers, id)
        /\ k.subscribers = Without(j.subscribers, id)
        /\ k.open = j.open \ ({<<id, c>> : c \in j.subscribers[id]} \cup {<<id>>})
    BY <1>2, <2>1 DEF removePublisher, Fields
  <2> HIDE DEF k
  <2>3. Consistent(k) BY <1>2, <2>1, <2>2, RemoveKeeps
  <2> QED BY <2>3 DEF k
<1> QED BY <1>1, <1>2

\* The end of a process and its recordings change no connection.
LEMMA OthersKeep ==
    ASSUME NEW j, NEW x, NEW id, DOMAIN j = Fields, Consistent(j)
    PROVE  /\ Consistent(processSignaling(j, x, id))
           /\ Consistent(addExternalOutput(j, id, x))
           /\ Consistent(removeExternalOutput(j, id, x))
<1>1. Consistent(processSignaling(j, x, id))
  <2> DEFINE k == processSignaling(j, x, id)
  <2>1. k.publishers = j.publishers /\ k.subscribers = j.subscribers /\ k.open = j.open
    BY DEF processSignaling, Fields
  <2> HIDE DEF k
  <2>2. Consistent(k) BY <2>1, SameMaps
  <2> QED BY <2>2 DEF k
<1>2. Consistent(addExternalOutput(j, id, x))
  <2> DEFINE k == addExternalOutput(j, id, x)
  <2>1. k.publishers = j.publishers /\ k.subscribers = j.subscribers /\ k.open = j.open
    BY DEF addExternalOutput, Fields
  <2> HIDE DEF k
  <2>2. Consistent(k) BY <2>1, SameMaps
  <2> QED BY <2>2 DEF k
<1>3. Consistent(removeExternalOutput(j, id, x))
  <2> DEFINE k == removeExternalOutput(j, id, x)
  <2>1. k.publishers = j.publishers /\ k.subscribers = j.subscribers /\ k.open = j.open
    BY DEF removeExternalOutput, Fields
  <2> HIDE DEF k
  <2>2. Consistent(k) BY <2>1, SameMaps
  <2> QED BY <2>2 DEF k
<1> QED BY <1>1, <1>2, <1>3

\* No function adds a field.
LEMMA FieldsStay ==
    ASSUME NEW j, NEW x, NEW id, DOMAIN j = Fields
    PROVE  /\ DOMAIN addPublisher(j, id) = Fields
           /\ DOMAIN addExternalInput(j, id) = Fields
           /\ DOMAIN addSubscriber(j, x, id) = Fields
           /\ DOMAIN removeSubscriber(j, x, id) = Fields
           /\ DOMAIN removePublisher(j, id) = Fields
           /\ DOMAIN processSignaling(j, x, id) = Fields
           /\ DOMAIN addExternalOutput(j, id, x) = Fields
           /\ DOMAIN removeExternalOutput(j, id, x) = Fields
<1>1. DOMAIN addPublisher(j, id) = Fields BY DEF addPublisher
<1>2. DOMAIN addExternalInput(j, id) = Fields BY DEF addExternalInput
<1>3. DOMAIN addSubscriber(j, x, id) = Fields BY DEF addSubscriber
<1>4. DOMAIN removeSubscriber(j, x, id) = Fields BY DEF removeSubscriber
<1>5. DOMAIN removePublisher(j, id) = Fields BY DEF removePublisher
<1>6. DOMAIN processSignaling(j, x, id) = Fields BY DEF processSignaling
<1>7. DOMAIN addExternalOutput(j, id, x) = Fields BY DEF addExternalOutput
<1>8. DOMAIN removeExternalOutput(j, id, x) = Fields BY DEF removeExternalOutput
<1> QED BY <1>1, <1>2, <1>3, <1>4, <1>5, <1>6, <1>7, <1>8

\* Whatever the call is, a process that is still running is consistent after it.
LEMMA HandleKeeps ==
    ASSUME NEW j, NEW call, DOMAIN j = Fields, j.end = Running => Consistent(j)
    PROVE  /\ DOMAIN Handle(j, call) = Fields
           /\ Handle(j, call).end = Running => Consistent(Handle(j, call))
<1>1. CASE j.end # Running BY <1>1 DEF Handle
<1>2. CASE j.end = Running
  <2> DEFINE Keeps(k) == DOMAIN k = Fields /\ (k.end = Running => Consistent(k))
             x == call.peer
             id == call.id
  <2>1. Keeps(addPublisher(j, id)) BY <1>2, AddPublisherKeeps
  <2>2. Keeps(addExternalInput(j, id)) BY <1>2, AddInputKeeps
  <2>3. Keeps(addSubscriber(j, x, id)) BY <1>2, AddSubscriberKeeps
  <2>4. Keeps(removeSubscriber(j, x, id)) BY <1>2, RemoveSubscriberKeeps, FieldsStay
  <2>5. Keeps(removePublisher(j, id)) BY <1>2, RemovePublisherKeeps, FieldsStay
  <2>6. Keeps(processSignaling(j, x, id)) BY <1>2, OthersKeep, FieldsStay
  <2>7. Keeps(addExternalOutput(j, id, x)) BY <1>2, OthersKeep, FieldsStay
  <2>8. Keeps(removeExternalOutput(j, id, x)) BY <1>2, OthersKeep, FieldsStay
  <2>9. Keeps(j) BY <1>2
  <2> HIDE DEF Keeps
  <2>10. Keeps(Handle(j, call))
    BY <1>2, <2>1, <2>2, <2>3, <2>4, <2>5, <2>6, <2>7, <2>8, <2>9 DEF Handle
  <2> QED BY <2>10 DEF Keeps
<1> QED BY <1>1, <1>2

-----------------------------------------------------------------------------
LEMMA InitProcesses == Init => ProcessInv
<1> SUFFICES ASSUME Init PROVE ProcessInv OBVIOUS
<1>1. erizo = [e \in Erizos |-> NewErizoJS] BY DEF Init
<1>2. DOMAIN NewErizoJS = Fields BY DEF NewErizoJS, Fields
<1>3. /\ NewErizoJS.publishers = <<>> /\ NewErizoJS.subscribers = <<>>
      /\ NewErizoJS.open = {}
  BY DEF NewErizoJS
<1>4. DOMAIN NewErizoJS.publishers = {} BY <1>3
<1>5. Consistent(NewErizoJS) BY <1>3, <1>4 DEF Consistent, Held
<1> QED BY <1>1, <1>2, <1>5 DEF ProcessInv

\* Only handle and killed change a process.
LEMMA NextProcesses == ProcessInv /\ [Next]_vars => ProcessInv'
<1> SUFFICES ASSUME ProcessInv, [Next]_vars PROVE ProcessInv' OBVIOUS
<1>1. CASE UNCHANGED erizo BY <1>1 DEF ProcessInv, Up, Consistent, Held
<1>2. ASSUME NEW r \in Rooms, NEW e \in Erizos, handle(r, e) PROVE ProcessInv'
  <2> DEFINE call == Head(calls[r][e])
             k == Handle(erizo[e], call)
  <2>1. erizo' = [erizo EXCEPT ![e] = k] BY <1>2 DEF handle
  <2>2. DOMAIN k = Fields /\ (k.end = Running => Consistent(k))
    BY HandleKeeps DEF ProcessInv, Up
  <2> HIDE DEF k
  <2>3. DOMAIN erizo' = Erizos /\ erizo'[e] = k BY <2>1 DEF ProcessInv
  <2>4. \A d \in Erizos \ {e} : erizo'[d] = erizo[d] BY <2>1 DEF ProcessInv
  <2> QED BY <2>2, <2>3, <2>4 DEF ProcessInv, Up, Consistent, Held
<1>3. ASSUME NEW e \in Erizos, killed(e) PROVE ProcessInv'
  <2> DEFINE k == [erizo[e] EXCEPT !.end = Killed]
  <2>1. erizo' = [erizo EXCEPT ![e] = k] BY <1>3 DEF killed
  <2>2. DOMAIN k = Fields /\ k.end # Running
    BY DEF ProcessInv, Fields, Killed, Running
  <2> HIDE DEF k
  <2>3. DOMAIN erizo' = Erizos /\ erizo'[e] = k BY <2>1 DEF ProcessInv
  <2>4. \A d \in Erizos \ {e} : erizo'[d] = erizo[d] BY <2>1 DEF ProcessInv
  <2> QED BY <2>2, <2>3, <2>4 DEF ProcessInv, Up, Consistent, Held
<1> QED BY ZenonT(60), <1>1, <1>2, <1>3 DEF Next, vars, publish, subscribe, unsubscribe, leave,
                            unpublish, signal, startRecorder, stopRecorder

\* ProcessInv is an invariant of what rpcPublic does with the calls of any room.
THEOREM ProcessInvariant == Spec => []ProcessInv
BY InitProcesses, NextProcesses, PTL DEF Spec

\* Whatever calls the rooms send, and in whatever order they arrive, the connections
\* a running process has open are those its maps hold.
THEOREM OpenConnectionsAreHeld == Spec => []ConnectionsAreHeld
<1>1. ProcessInv => ConnectionsAreHeld BY DEF ProcessInv, Consistent, ConnectionsAreHeld
<1> QED BY <1>1, ProcessInvariant, PTL

-----------------------------------------------------------------------------
\* The calls in flight.

Message ==
    [method : Methods, id : Streams, peer : Peers]
      \cup [method : {"processSignaling"}, id : Streams, peer : Peers, listed : BOOLEAN]

Adds(x) == x.method \in {"addPublisher", "addExternalInput"}
Removes(x) == x.method = "removePublisher"
Subscribes(x, id, c) == x.method = "addSubscriber" /\ x.id = id /\ x.peer = c
Unsubscribes(x, id, c) == x.method = "removeSubscriber" /\ x.id = id /\ x.peer = c
Listed(x) == x.method = "processSignaling" /\ x.listed

\* A process in state j knows the publisher id when it comes to place i of q.
KnownAt(q, j, id, i) ==
    \/ id \in DOMAIN j.subscribers
    \/ \E k \in 1 .. Len(q) : k < i /\ Adds(q[k]) /\ q[k].id = id

\* And it has the client c among its subscribers.
SubscribedAt(q, j, id, c, i) ==
    \/ /\ id \in DOMAIN j.subscribers /\ c \in j.subscribers[id]
       /\ \A k \in 1 .. Len(q) : k < i => ~Unsubscribes(q[k], id, c)
    \/ \E k \in 1 .. Len(q) :
          /\ k < i /\ Subscribes(q[k], id, c)
          /\ \A m \in 1 .. Len(q) : k < m /\ m < i => ~Unsubscribes(q[m], id, c)

\* What a room asks of a process, in order: nothing of a publisher after its
\* removal or before it was added, and an offer of a client that is listed only
\* while it subscribes.
Orderly(q, j) ==
    /\ \A i, k \in 1 .. Len(q) : i < k /\ Removes(q[i]) => q[k].id # q[i].id
    /\ \A i \in 1 .. Len(q) :
          /\ ~Adds(q[i]) => KnownAt(q, j, q[i].id, i)
          /\ Listed(q[i]) => SubscribedAt(q, j, q[i].id, q[i].peer, i)

\* Once these calls are handled the process knows what the controller has on it.
Served(q, j, id, clients) ==
    /\ KnownAt(q, j, id, Len(q) + 1)
    /\ \A c \in clients : SubscribedAt(q, j, id, c, Len(q) + 1)

-----------------------------------------------------------------------------
ControllerFields == {"publishers", "subscribers", "erizos", "thrown"}

\* A controller in state t of the room r: each publisher has its list of
\* subscribers, and the process that serves it is tracked.
Keeps(t, r, known) ==
    /\ DOMAIN t = ControllerFields
    /\ DOMAIN t.publishers = DOMAIN t.subscribers
    /\ DOMAIN t.publishers \subseteq StreamsOf(r) \cap known
    /\ \A id \in DOMAIN t.publishers : t.publishers[id] \in Erizos \cap DOMAIN t.erizos

ControllerInv ==
    /\ DOMAIN controller = Rooms
    /\ IsFiniteSet(begun)
    /\ \A r \in Rooms : Keeps(controller[r], r, begun)

\* Only external inputs have no connection, and only they end a process.
InputsInv ==
    \A e \in Erizos, id \in Streams :
        /\ id \in DOMAIN erizo[e].publishers /\ erizo[e].publishers[id] = "input" =>
              Kind[id] = "url"
        /\ erizo[e].end = TypeError(id) => Kind[id] = "url"

\* A call of the room r.
CallOf(x, r, known) ==
    /\ x \in Message
    /\ x.id \in StreamsOf(r) \cap known
    /\ x.method = "addExternalInput" => Kind[x.id] = "url"

QueuesInv ==
    /\ DOMAIN calls = Rooms
    /\ \A r \in Rooms :
          /\ DOMAIN calls[r] = Erizos
          /\ \A e \in Erizos :
                /\ calls[r][e] \in Seq(Message)
                /\ ~Up(e) => calls[r][e] = <<>>
                /\ \A i \in 1 .. Len(calls[r][e]) : CallOf(calls[r][e][i], r, begun)

\* What the controller t of a room has on the process e in state j, and the calls
\* q between them.
Agrees(q, j, up, t, e) ==
    /\ Orderly(q, j)
    /\ \A i \in 1 .. Len(q) : Removes(q[i]) => q[i].id \notin DOMAIN t.publishers
    /\ up => \A id \in DOMAIN t.publishers :
                 t.publishers[id] = e => Served(q, j, id, t.subscribers[id])

AgreementInv ==
    \A r \in Rooms, e \in Erizos :
        Agrees(calls[r][e], erizo[e], Up(e), controller[r], e)

CallsInv == ProcessInv /\ ControllerInv /\ InputsInv /\ QueuesInv /\ AgreementInv

-----------------------------------------------------------------------------
\* Queues one call shorter, and longer.
Shifted(p, q) ==
    /\ Len(p) \in Nat /\ Len(q) = Len(p) + 1
    /\ \A i \in 1 .. Len(p) : p[i] = q[i + 1]

Extended(p, q, n) ==
    /\ Len(p) \in Nat /\ Len(q) \in Nat /\ Len(n) \in Nat /\ Len(p) = Len(q) + Len(n)
    /\ \A i \in 1 .. Len(q) : p[i] = q[i]
    /\ \A i \in 1 .. Len(n) : p[Len(q) + i] = n[i]

LEMMA TailShifts ==
    ASSUME NEW S, NEW q \in Seq(S), q # <<>>
    PROVE  /\ Shifted(Tail(q), q) /\ Tail(q) \in Seq(S)
           /\ Head(q) = q[1] /\ 1 \in 1 .. Len(q)
<1>1. Len(q) \in Nat /\ Len(q) # 0 /\ Len(Tail(q)) = Len(q) - 1 /\ Tail(q) \in Seq(S)
  OBVIOUS
<1>2. \A i \in 1 .. Len(Tail(q)) : Tail(q)[i] = q[i + 1] OBVIOUS
<1>3. Head(q) = q[1] OBVIOUS
<1> QED BY <1>1, <1>2, <1>3 DEF Shifted

LEMMA ConcatExtends ==
    ASSUME NEW S, NEW q \in Seq(S), NEW n \in Seq(S)
    PROVE  Extended(q \o n, q, n) /\ q \o n \in Seq(S)
<1>1. Len(q) \in Nat /\ Len(n) \in Nat /\ Len(q \o n) = Len(q) + Len(n) OBVIOUS
<1>2. q \o n \in Seq(S) OBVIOUS
<1>3. \A i \in 1 .. Len(q) : (q \o n)[i] = q[i] OBVIOUS
<1>4. \A i \in 1 .. Len(n) : (q \o n)[Len(q) + i] = n[i] OBVIOUS
<1> QED BY <1>1, <1>2, <1>3, <1>4 DEF Extended

\* Each call of a longer queue is one of the old or one of the new.
LEMMA ExtendedParts ==
    ASSUME NEW p, NEW q, NEW n, Extended(p, q, n)
    PROVE  \A k \in 1 .. Len(p) :
               \/ k \in 1 .. Len(q) /\ p[k] = q[k]
               \/ k - Len(q) \in 1 .. Len(n) /\ p[k] = n[k - Len(q)] /\ k > Len(q)
<1> SUFFICES ASSUME NEW k \in 1 .. Len(p), k \notin 1 .. Len(q)
             PROVE  /\ k - Len(q) \in 1 .. Len(n) /\ p[k] = n[k - Len(q)]
                    /\ k > Len(q)
  BY DEF Extended
<1>1. k - Len(q) \in 1 .. Len(n) /\ Len(q) + (k - Len(q)) = k /\ k > Len(q)
  BY DEF Extended
<1> QED BY <1>1 DEF Extended

-----------------------------------------------------------------------------
\* What stays known when calls follow.
LEMMA KnownExtends ==
    ASSUME NEW p, NEW q, NEW n, NEW j, NEW id, NEW i \in Int, NEW m \in Int,
           Extended(p, q, n), KnownAt(q, j, id, i), i <= m
    PROVE  KnownAt(p, j, id, m)
<1>1. CASE id \in DOMAIN j.subscribers BY <1>1 DEF KnownAt
<1>2. CASE \E k \in 1 .. Len(q) : k < i /\ Adds(q[k]) /\ q[k].id = id
  <2>1. PICK k \in 1 .. Len(q) : k < i /\ Adds(q[k]) /\ q[k].id = id BY <1>2
  <2>2. k \in 1 .. Len(p) /\ k < m /\ p[k] = q[k] BY <2>1 DEF Extended
  <2> QED BY <2>1, <2>2 DEF KnownAt
<1> QED BY <1>1, <1>2 DEF KnownAt

LEMMA SubscribedExtends ==
    ASSUME NEW p, NEW q, NEW n, NEW j, NEW id, NEW c, NEW i \in Int,
           Extended(p, q, n), SubscribedAt(q, j, id, c, i), i <= Len(q) + 1
    PROVE  SubscribedAt(p, j, id, c, i)
<1>1. \A k \in 1 .. Len(p) : k < i => k \in 1 .. Len(q) /\ p[k] = q[k]
  BY DEF Extended
<1>2. \A k \in 1 .. Len(q) : k \in 1 .. Len(p) /\ p[k] = q[k] BY DEF Extended
<1>3. CASE /\ id \in DOMAIN j.subscribers /\ c \in j.subscribers[id]
           /\ \A k \in 1 .. Len(q) : k < i => ~Unsubscribes(q[k], id, c)
  BY <1>1, <1>3 DEF SubscribedAt
<1>4. CASE \E k \in 1 .. Len(q) :
              /\ k < i /\ Subscribes(q[k], id, c)
              /\ \A m \in 1 .. Len(q) : k < m /\ m < i => ~Unsubscribes(q[m], id, c)
  <2>1. PICK k \in 1 .. Len(q) :
              /\ k < i /\ Subscribes(q[k], id, c)
              /\ \A m \in 1 .. Len(q) : k < m /\ m < i => ~Unsubscribes(q[m], id, c)
    BY <1>4
  <2>2. \A m \in 1 .. Len(p) : k < m /\ m < i => ~Unsubscribes(p[m], id, c)
    BY <1>1, <2>1
  <2> QED BY <1>2, <2>1, <2>2 DEF SubscribedAt
<1> QED BY <1>3, <1>4 DEF SubscribedAt

\* A subscription outlasts the calls that do not end it.
LEMMA SubscribedLasts ==
    ASSUME NEW p, NEW q, NEW n, NEW j, NEW id, NEW c,
           Extended(p, q, n), SubscribedAt(q, j, id, c, Len(q) + 1),
           \A k \in 1 .. Len(n) : ~Unsubscribes(n[k], id, c)
    PROVE  SubscribedAt(p, j, id, c, Len(p) + 1)
<1>1. \A k \in 1 .. Len(p) :
          \/ k \in 1 .. Len(q) /\ p[k] = q[k]
          \/ k - Len(q) \in 1 .. Len(n) /\ p[k] = n[k - Len(q)]
  BY ExtendedParts
<1>2. \A k \in 1 .. Len(q) : k \in 1 .. Len(p) /\ p[k] = q[k] /\ k < Len(p) + 1
  BY DEF Extended
<1>3. CASE /\ id \in DOMAIN j.subscribers /\ c \in j.subscribers[id]
           /\ \A k \in 1 .. Len(q) : k < Len(q) + 1 => ~Unsubscribes(q[k], id, c)
  <2>1. \A k \in 1 .. Len(q) : ~Unsubscribes(q[k], id, c) BY <1>3 DEF Extended
  <2> QED BY <1>1, <1>3, <2>1 DEF SubscribedAt
<1>4. CASE \E k \in 1 .. Len(q) :
              /\ k < Len(q) + 1 /\ Subscribes(q[k], id, c)
              /\ \A m \in 1 .. Len(q) :
                    k < m /\ m < Len(q) + 1 => ~Unsubscribes(q[m], id, c)
  <2>1. PICK k \in 1 .. Len(q) :
              /\ k < Len(q) + 1 /\ Subscribes(q[k], id, c)
              /\ \A m \in 1 .. Len(q) :
                    k < m /\ m < Len(q) + 1 => ~Unsubscribes(q[m], id, c)
    BY <1>4
  <2>2. \A m \in 1 .. Len(q) : m < Len(q) + 1 BY DEF Extended
  <2>3. \A m \in 1 .. Len(p) : k < m => ~Unsubscribes(p[m], id, c)
    BY <1>1, <2>1, <2>2
  <2> QED BY <1>2, <2>1, <2>3 DEF SubscribedAt
<1> QED BY <1>3, <1>4 DEF SubscribedAt

\* What keeps a queue orderly when calls follow.
LEMMA OrderlyExtends ==
    ASSUME NEW p, NEW q, NEW n, NEW j, Extended(p, q, n), Orderly(q, j),
           \A i \in 1 .. Len(q), k \in 1 .. Len(n) : Removes(q[i]) => n[k].id # q[i].id,
           \A k \in 1 .. Len(n) :
              /\ Removes(n[k]) \/ Listed(n[k]) => Len(n) = 1
              /\ ~Adds(n[k]) => KnownAt(q, j, n[k].id, Len(q) + 1)
              /\ Listed(n[k]) => SubscribedAt(q, j, n[k].id, n[k].peer, Len(q) + 1)
    PROVE  Orderly(p, j)
<1>1. \A k \in 1 .. Len(p) :
          \/ k \in 1 .. Len(q) /\ p[k] = q[k]
          \/ k - Len(q) \in 1 .. Len(n) /\ p[k] = n[k - Len(q)] /\ k > Len(q)
  BY ExtendedParts
<1>2. ASSUME NEW i \in 1 .. Len(p), NEW k \in 1 .. Len(p), i < k, Removes(p[i])
      PROVE  p[k].id # p[i].id
  <2>1. CASE i \in 1 .. Len(q) /\ p[i] = q[i]
    <3>1. CASE k \in 1 .. Len(q) /\ p[k] = q[k] BY <1>2, <2>1, <3>1 DEF Orderly
    <3>2. CASE k - Len(q) \in 1 .. Len(n) /\ p[k] = n[k - Len(q)]
      BY <1>2, <2>1, <3>2
    <3> QED BY <1>1, <3>1, <3>2
  <2>2. CASE i - Len(q) \in 1 .. Len(n) /\ p[i] = n[i - Len(q)] /\ i > Len(q)
    <3>1. Len(n) = 1 BY <1>2, <2>2
    <3>2. i = Len(p) BY <2>2, <3>1 DEF Extended
    <3> QED BY <1>2, <3>2 DEF Extended
  <2> QED BY <1>1, <2>1, <2>2
<1>3. ASSUME NEW i \in 1 .. Len(p)
      PROVE  /\ ~Adds(p[i]) => KnownAt(p, j, p[i].id, i)
             /\ Listed(p[i]) => SubscribedAt(p, j, p[i].id, p[i].peer, i)
  <2>0. i \in Int /\ Len(q) + 1 \in Int BY DEF Extended
  <2>1. CASE i \in 1 .. Len(q) /\ p[i] = q[i]
    <3>1. i <= i /\ i <= Len(q) + 1 BY <2>1 DEF Extended
    <3>2. /\ ~Adds(q[i]) => KnownAt(q, j, q[i].id, i)
          /\ Listed(q[i]) => SubscribedAt(q, j, q[i].id, q[i].peer, i)
      BY <2>1 DEF Orderly
    <3>3. ~Adds(q[i]) => KnownAt(p, j, q[i].id, i)
      BY <2>0, <3>1, <3>2, KnownExtends
    <3>4. Listed(q[i]) => SubscribedAt(p, j, q[i].id, q[i].peer, i)
      BY <2>0, <3>1, <3>2, SubscribedExtends
    <3> QED BY <2>1, <3>3, <3>4
  <2>2. CASE i - Len(q) \in 1 .. Len(n) /\ p[i] = n[i - Len(q)] /\ i > Len(q)
    <3>1. Len(q) + 1 <= i BY <2>2 DEF Extended
    <3>2. ~Adds(p[i]) => KnownAt(q, j, p[i].id, Len(q) + 1) BY <2>2
    <3>3. ~Adds(p[i]) => KnownAt(p, j, p[i].id, i)
      BY <2>0, <3>1, <3>2, KnownExtends
    <3>4. ASSUME Listed(p[i]) PROVE SubscribedAt(p, j, p[i].id, p[i].peer, i)
      <4>1. Len(n) = 1 BY <2>2, <3>4
      <4>2. i = Len(q) + 1 /\ Len(q) + 1 <= Len(q) + 1 BY <2>2, <4>1 DEF Extended
      <4>3. SubscribedAt(q, j, p[i].id, p[i].peer, Len(q) + 1) BY <2>2, <3>4
      <4>4. SubscribedAt(q, j, p[i].id, p[i].peer, i) BY <4>2, <4>3
      <4>5. i <= Len(q) + 1 BY <2>0, <4>2
      <4> QED BY <2>0, <4>4, <4>5, SubscribedExtends
    <3> QED BY <3>3, <3>4
  <2> QED BY <1>1, <2>1, <2>2
<1> QED BY <1>2, <1>3 DEF Orderly

-----------------------------------------------------------------------------
\* What a call that does not end the process makes of its publishers: those of
\* other ids are as they were.
Effect(j, k, x) ==
    /\ DOMAIN k.subscribers =
          IF Adds(x) THEN DOMAIN j.subscribers \cup {x.id}
          ELSE IF Removes(x) THEN DOMAIN j.subscribers \ {x.id}
          ELSE DOMAIN j.subscribers
    /\ \A id \in DOMAIN k.subscribers \cap DOMAIN j.subscribers :
          \A c \in j.subscribers[id] :
              ~Unsubscribes(x, id, c) => c \in k.subscribers[id]
    /\ \A id \in DOMAIN j.subscribers : \A c :
          Subscribes(x, id, c) => c \in k.subscribers[id]
    /\ \A id \in DOMAIN k.publishers : k.publishers[id] = "input" =>
          \/ id \in DOMAIN j.publishers /\ j.publishers[id] = "input"
          \/ x.method = "addExternalInput" /\ x.id = id

LEMMA AddEffect ==
    ASSUME NEW j, NEW x, DOMAIN j = Fields, Consistent(j), j.end = Running, Adds(x)
    PROVE  Effect(j, Handle(j, x), x) /\ Handle(j, x).end = Running
<1> DEFINE id == x.id
<1>0. ~Removes(x) /\ \A i, c : ~Subscribes(x, i, c)
  BY DEF Adds, Removes, Subscribes
<1>1. CASE id \in DOMAIN j.publishers
  <2>1. Handle(j, x) = j BY <1>1 DEF Handle, Adds, addPublisher, addExternalInput
  <2>2. DOMAIN j.subscribers = DOMAIN j.subscribers \cup {id} BY <1>1 DEF Consistent
  <2> QED BY <1>0, <2>1, <2>2 DEF Effect
<1>2. CASE id \notin DOMAIN j.publishers
  <2> DEFINE kind == IF x.method = "addPublisher" THEN "wrtc" ELSE "input"
  <2>1. /\ Handle(j, x).publishers = With(j.publishers, id, kind)
        /\ Handle(j, x).subscribers = With(j.subscribers, id, {})
        /\ Handle(j, x).end = Running
    BY <1>2 DEF Handle, Adds, addPublisher, addExternalInput, Fields
  <2> DEFINE k == Handle(j, x)
  <2> HIDE DEF k
  <2>2. /\ DOMAIN k.subscribers = DOMAIN j.subscribers \cup {id}
        /\ \A i \in DOMAIN j.subscribers : i # id /\ k.subscribers[i] = j.subscribers[i]
    BY <1>2, <2>1 DEF k, With, Consistent
  <2>3. /\ DOMAIN k.publishers = DOMAIN j.publishers \cup {id}
        /\ k.publishers[id] = kind
        /\ \A i \in DOMAIN j.publishers : k.publishers[i] = j.publishers[i]
    BY <1>2, <2>1 DEF k, With
  <2>4. kind = "input" => x.method = "addExternalInput" BY DEF Adds
  <2> HIDE DEF kind
  <2>5. Effect(j, k, x) BY <1>0, <2>2, <2>3, <2>4 DEF Effect
  <2> QED BY <2>1, <2>5 DEF k
<1> QED BY <1>1, <1>2

LEMMA SubscribeEffect ==
    ASSUME NEW j, NEW x, DOMAIN j = Fields, Consistent(j), j.end = Running,
           x.method = "addSubscriber"
    PROVE  Effect(j, Handle(j, x), x) /\ Handle(j, x).end = Running
<1> DEFINE id == x.id
           k == Handle(j, x)
<1>0. k = addSubscriber(j, x.peer, id) BY DEF Handle
<1>1. ~Adds(x) /\ ~Removes(x) BY DEF Adds, Removes
<1>2. CASE id \notin DOMAIN j.publishers
  <2>1. k = j BY <1>0, <1>2 DEF addSubscriber
  <2>2. \A i, c : Subscribes(x, i, c) => i \notin DOMAIN j.subscribers
    BY <1>2 DEF Subscribes, Consistent
  <2> QED BY <1>1, <2>1, <2>2 DEF Effect
<1>3. CASE id \in DOMAIN j.publishers
  <2>1. id \in DOMAIN j.subscribers BY <1>3 DEF Consistent
  <2>2. CASE x.peer \in j.subscribers[id]
    <3>1. k = j BY <1>0, <1>3, <2>1, <2>2 DEF addSubscriber
    <3> QED BY <1>1, <2>2, <3>1 DEF Effect, Subscribes
  <2>3. CASE x.peer \notin j.subscribers[id]
    <3>1. /\ k.publishers = j.publishers /\ k.end = Running
          /\ k.subscribers = [j.subscribers EXCEPT ![id] = @ \cup {x.peer}]
      BY <1>0, <1>3, <2>1, <2>3 DEF addSubscriber, Fields
    <3> HIDE DEF k
    <3>2. Effect(j, k, x) BY <1>1, <2>1, <3>1 DEF Effect, Subscribes
    <3> QED BY <3>1, <3>2 DEF k
  <2> QED BY <2>2, <2>3
<1> QED BY <1>2, <1>3

LEMMA UnsubscribeEffect ==
    ASSUME NEW j, NEW x, DOMAIN j = Fields, Consistent(j), j.end = Running,
           x.method = "removeSubscriber", x.id \in DOMAIN j.subscribers
    PROVE  Effect(j, Handle(j, x), x) /\ Handle(j, x).end = Running
<1> DEFINE id == x.id
           k == Handle(j, x)
<1>0. k = removeSubscriber(j, x.peer, id) BY DEF Handle
<1>1. ~Adds(x) /\ ~Removes(x) /\ \A i, c : ~Subscribes(x, i, c)
  BY DEF Adds, Removes, Subscribes
<1>2. CASE x.peer \notin j.subscribers[id]
  <2>1. k = j BY <1>0, <1>2 DEF removeSubscriber
  <2> QED BY <1>1, <2>1 DEF Effect
<1>3. CASE x.peer \in j.subscribers[id]
  <2>1. /\ k.publishers = j.publishers /\ k.end = Running
        /\ k.subscribers = [j.subscribers EXCEPT ![id] = @ \ {x.peer}]
    BY <1>0, <1>3 DEF removeSubscriber, Fields
  <2> HIDE DEF k
  <2>2. Effect(j, k, x) BY <1>1, <2>1 DEF Effect, Unsubscribes
  <2> QED BY <2>1, <2>2 DEF k
<1> QED BY <1>2, <1>3

\* The removal of a publisher ends the process if it is an input, or the last.
LEMMA RemoveEffect ==
    ASSUME NEW j, NEW x, DOMAIN j = Fields, Consistent(j), j.end = Running, Removes(x)
    PROVE  LET k == Handle(j, x)
           IN  \/ Effect(j, k, x) /\ k.end = Running
               \/ /\ x.id \in DOMAIN j.publishers /\ j.publishers[x.id] = "input"
                  /\ k.end = TypeError(x.id) /\ k.publishers = j.publishers
               \/ k.end = Exit /\ DOMAIN j.publishers = {x.id} /\ DOMAIN k.publishers = {}
<1> DEFINE id == x.id
           k == Handle(j, x)
<1>0. k = removePublisher(j, id) BY DEF Handle, Removes
<1>1. ~Adds(x) /\ \A i, c : ~Subscribes(x, i, c) /\ ~Unsubscribes(x, i, c)
  BY DEF Adds, Removes, Subscribes, Unsubscribes
<1>2. CASE id \notin DOMAIN j.publishers
  <2>1. k = j BY <1>0, <1>2 DEF removePublisher
  <2>2. DOMAIN j.subscribers = DOMAIN j.subscribers \ {id} BY <1>2 DEF Consistent
  <2>3. Effect(j, j, x) BY <1>1, <2>2 DEF Effect
  <2> QED BY <2>1, <2>3
<1>3. CASE id \in DOMAIN j.publishers /\ j.publishers[id] = "input"
  <2>1. id \in DOMAIN j.publishers \cap DOMAIN j.subscribers BY <1>3 DEF Consistent
  <2>2. k.end = TypeError(id) /\ k.publishers = j.publishers
    BY <1>0, <1>3, <2>1 DEF removePublisher, Fields
  <2> QED BY <1>3, <2>2
<1>4. CASE id \in DOMAIN j.publishers /\ j.publishers[id] # "input"
  <2>1. id \in DOMAIN j.publishers \cap DOMAIN j.subscribers BY <1>4 DEF Consistent
  <2>2. /\ k.publishers = Without(j.publishers, id)
        /\ k.subscribers = Without(j.subscribers, id)
        /\ k.end = IF Unused(Without(j.publishers, id)) THEN Exit ELSE Running
    BY <1>0, <1>4, <2>1 DEF removePublisher, Fields
  <2> HIDE DEF k
  <2>3. /\ DOMAIN k.subscribers = DOMAIN j.subscribers \ {id}
        /\ \A i \in DOMAIN k.subscribers : k.subscribers[i] = j.subscribers[i]
        /\ DOMAIN k.publishers = DOMAIN j.publishers \ {id}
        /\ \A i \in DOMAIN k.publishers :
              i \in DOMAIN j.publishers /\ k.publishers[i] = j.publishers[i]
    BY <2>2 DEF Without
  <2>4. CASE Unused(Without(j.publishers, id))
    <3>1. DOMAIN k.publishers = {} BY <2>2, <2>4 DEF Unused
    <3>2. DOMAIN j.publishers = {id} BY <1>4, <2>3, <3>1
    <3> QED BY <2>2, <2>4, <3>1, <3>2 DEF k
  <2>5. CASE ~Unused(Without(j.publishers, id))
    <3>1. Effect(j, k, x)
      <4>1. \A i \in DOMAIN j.subscribers : \A c :
                Subscribes(x, i, c) => c \in k.subscribers[i]
        BY <1>1
      <4> QED BY <1>1, <2>3, <4>1 DEF Effect
    <3> QED BY <2>2, <2>5, <3>1 DEF k
  <2> QED BY <2>4, <2>5
<1> QED BY <1>2, <1>3, <1>4

\* Recordings and offers change no publisher; the offer of a peer without a
\* connection ends the process of an external input.
LEMMA OtherEffect ==
    ASSUME NEW j, NEW x, DOMAIN j = Fields, Consistent(j), j.end = Running,
           x.method \in {"processSignaling", "addExternalOutput", "removeExternalOutput"}
    PROVE  LET k == Handle(j, x)
           IN  /\ Effect(j, k, x)
               /\ k.publishers = j.publishers
               /\ \/ k.end = Running
                  \/ /\ x.id \in DOMAIN j.publishers /\ j.publishers[x.id] = "input"
                     /\ k.end = TypeError(x.id)
<1> DEFINE k == Handle(j, x)
<1>1. /\ ~Adds(x) /\ ~Removes(x)
      /\ \A i, c : ~Subscribes(x, i, c) /\ ~Unsubscribes(x, i, c)
  BY DEF Adds, Removes, Subscribes, Unsubscribes
<1>2. k.publishers = j.publishers /\ k.subscribers = j.subscribers
  BY DEF Handle, processSignaling, addExternalOutput, removeExternalOutput, Fields
<1>3. \/ k.end = Running
      \/ /\ x.id \in DOMAIN j.publishers /\ j.publishers[x.id] = "input"
         /\ k.end = TypeError(x.id)
  BY DEF Handle, processSignaling, addExternalOutput, removeExternalOutput, Fields,
         Consistent
<1> HIDE DEF k
<1>4. Effect(j, k, x) BY <1>1, <1>2 DEF Effect
<1> QED BY <1>2, <1>3, <1>4 DEF k

\* The three ways a call of a known publisher can go: it is done, an external input
\* ends the process, or the process exits with its only publisher.
LEMMA HandleEffect ==
    ASSUME NEW j, NEW x \in Message, DOMAIN j = Fields, Consistent(j), j.end = Running,
           x.method = "removeSubscriber" => x.id \in DOMAIN j.subscribers
    PROVE  LET k == Handle(j, x)
           IN  \/ Effect(j, k, x) /\ k.end = Running
               \/ /\ x.id \in DOMAIN j.publishers /\ j.publishers[x.id] = "input"
                  /\ k.end = TypeError(x.id) /\ k.publishers = j.publishers
               \/ /\ k.end = Exit /\ Removes(x)
                  /\ DOMAIN j.publishers = {x.id} /\ DOMAIN k.publishers = {}
<1>1. x.method \in Methods BY DEF Message, Methods
<1>2. CASE Adds(x) BY <1>2, AddEffect
<1>3. CASE x.method = "addSubscriber" BY <1>3, SubscribeEffect
<1>4. CASE x.method = "removeSubscriber" BY <1>4, UnsubscribeEffect
<1>5. CASE Removes(x) BY <1>5, RemoveEffect
<1>6. CASE x.method \in {"processSignaling", "addExternalOutput", "removeExternalOutput"}
  BY <1>6, OtherEffect
<1> QED BY <1>1, <1>2, <1>3, <1>4, <1>5, <1>6 DEF Methods, Adds, Removes

-----------------------------------------------------------------------------
\* What a process knows before a call it knows after, unless that removed it.
LEMMA KnownShifts ==
    ASSUME NEW p, NEW q, Shifted(p, q), NEW j, NEW k, Effect(j, k, q[1]),
           NEW id, ~(Removes(q[1]) /\ q[1].id = id),
           NEW i \in Int, i > 1, KnownAt(q, j, id, i)
    PROVE  KnownAt(p, k, id, i - 1)
<1>1. CASE id \in DOMAIN j.subscribers BY <1>1 DEF KnownAt, Effect
<1>2. CASE \E m \in 1 .. Len(q) : m < i /\ Adds(q[m]) /\ q[m].id = id
  <2>1. PICK m \in 1 .. Len(q) : m < i /\ Adds(q[m]) /\ q[m].id = id BY <1>2
  <2>2. CASE m = 1 BY <2>1, <2>2 DEF KnownAt, Effect
  <2>3. CASE m # 1
    <3>1. m - 1 \in 1 .. Len(p) /\ m - 1 < i - 1 /\ p[m - 1] = q[m]
      <4>1. m - 1 \in 1 .. Len(p) /\ (m - 1) + 1 = m /\ m - 1 < i - 1
        BY <2>1, <2>3 DEF Shifted
      <4> QED BY <4>1 DEF Shifted
    <3> QED BY <2>1, <3>1 DEF KnownAt
  <2> QED BY <2>2, <2>3
<1> QED BY <1>1, <1>2 DEF KnownAt

LEMMA SubscribedShifts ==
    ASSUME NEW p, NEW q, Shifted(p, q), NEW j, NEW k, Effect(j, k, q[1]),
           NEW id, ~(Removes(q[1]) /\ q[1].id = id), NEW c,
           ~Adds(q[1]) => q[1].id \in DOMAIN j.subscribers,
           NEW i \in Int, i > 1, SubscribedAt(q, j, id, c, i)
    PROVE  SubscribedAt(p, k, id, c, i - 1)
<1>0. \A m \in 1 .. Len(p) : /\ m + 1 \in 1 .. Len(q) /\ p[m] = q[m + 1]
                             /\ m < i - 1 => m + 1 < i
  BY DEF Shifted
<1>1. CASE /\ id \in DOMAIN j.subscribers /\ c \in j.subscribers[id]
           /\ \A m \in 1 .. Len(q) : m < i => ~Unsubscribes(q[m], id, c)
  <2>1. id \in DOMAIN k.subscribers BY <1>1 DEF Effect
  <2>2. ~Unsubscribes(q[1], id, c)
    <3>1. 1 \in 1 .. Len(q) /\ 1 < i BY DEF Shifted
    <3> QED BY <1>1, <3>1
  <2>3. c \in k.subscribers[id] BY <1>1, <2>1, <2>2 DEF Effect
  <2>4. \A m \in 1 .. Len(p) : m < i - 1 => ~Unsubscribes(p[m], id, c)
    BY <1>0, <1>1
  <2> QED BY <2>1, <2>3, <2>4 DEF SubscribedAt
<1>2. CASE \E m \in 1 .. Len(q) :
              /\ m < i /\ Subscribes(q[m], id, c)
              /\ \A l \in 1 .. Len(q) : m < l /\ l < i => ~Unsubscribes(q[l], id, c)
  <2>1. PICK m \in 1 .. Len(q) :
              /\ m < i /\ Subscribes(q[m], id, c)
              /\ \A l \in 1 .. Len(q) : m < l /\ l < i => ~Unsubscribes(q[l], id, c)
    BY <1>2
  <2>2. CASE m = 1
    <3>1. ~Adds(q[1]) /\ q[1].id = id BY <2>1, <2>2 DEF Adds, Subscribes
    <3>2. id \in DOMAIN j.subscribers BY <3>1
    <3>3. id \in DOMAIN k.subscribers BY <3>2 DEF Effect
    <3>4. c \in k.subscribers[id] BY <2>1, <2>2, <3>2 DEF Effect
    <3>5. \A l \in 1 .. Len(p) : l < i - 1 => ~Unsubscribes(p[l], id, c)
      <4>1. \A l \in 1 .. Len(p) : 1 < l + 1 BY DEF Shifted
      <4> QED BY <1>0, <2>1, <2>2, <4>1
    <3> QED BY <3>3, <3>4, <3>5 DEF SubscribedAt
  <2>3. CASE m # 1
    <3>1. m - 1 \in 1 .. Len(p) /\ m - 1 < i - 1 /\ p[m - 1] = q[m]
      <4>1. m - 1 \in 1 .. Len(p) /\ (m - 1) + 1 = m /\ m - 1 < i - 1
        BY <2>1, <2>3 DEF Shifted
      <4> QED BY <4>1 DEF Shifted
    <3>2. \A l \in 1 .. Len(p) : m - 1 < l /\ l < i - 1 => ~Unsubscribes(p[l], id, c)
      <4>1. \A l \in 1 .. Len(p) : m - 1 < l => m < l + 1 BY DEF Shifted
      <4> QED BY <1>0, <2>1, <4>1
    <3> QED BY <2>1, <3>1, <3>2 DEF SubscribedAt
  <2> QED BY <2>2, <2>3
<1> QED BY <1>1, <1>2 DEF SubscribedAt

\* The rest of an orderly queue is orderly for the process after its first call.
LEMMA OrderlyShifts ==
    ASSUME NEW p, NEW q, Shifted(p, q), NEW j, NEW k, Effect(j, k, q[1]), Orderly(q, j)
    PROVE  /\ ~Adds(q[1]) => q[1].id \in DOMAIN j.subscribers
           /\ Orderly(p, k)
<1>0. /\ 1 \in 1 .. Len(q)
      /\ \A i \in 1 .. Len(p) : /\ i + 1 \in 1 .. Len(q) /\ p[i] = q[i + 1]
                                /\ i + 1 > 1 /\ i + 1 \in Int /\ (i + 1) - 1 = i
  BY DEF Shifted
<1>1. ~Adds(q[1]) => q[1].id \in DOMAIN j.subscribers
  <2>1. ~Adds(q[1]) => KnownAt(q, j, q[1].id, 1) BY <1>0 DEF Orderly
  <2>2. ~ \E m \in 1 .. Len(q) : m < 1 BY DEF Shifted
  <2> QED BY <2>1, <2>2 DEF KnownAt
<1>2. ASSUME NEW i \in 1 .. Len(p), NEW m \in 1 .. Len(p), i < m, Removes(p[i])
      PROVE  p[m].id # p[i].id
  <2>1. i + 1 < m + 1 BY <1>2, <1>0 DEF Shifted
  <2> QED BY <1>0, <1>2, <2>1 DEF Orderly
<1>3. ASSUME NEW i \in 1 .. Len(p)
      PROVE  /\ ~Adds(p[i]) => KnownAt(p, k, p[i].id, i)
             /\ Listed(p[i]) => SubscribedAt(p, k, p[i].id, p[i].peer, i)
  <2>1. ~(Removes(q[1]) /\ q[1].id = p[i].id)
    <3>1. 1 < i + 1 BY <1>0
    <3> QED BY <1>0, <3>1 DEF Orderly
  <2>2. /\ ~Adds(p[i]) => KnownAt(q, j, p[i].id, i + 1)
        /\ Listed(p[i]) => SubscribedAt(q, j, p[i].id, p[i].peer, i + 1)
    BY <1>0 DEF Orderly
  <2>4. ~Adds(p[i]) => KnownAt(p, k, p[i].id, (i + 1) - 1)
    BY <1>0, <2>1, <2>2, KnownShifts
  <2>5. Listed(p[i]) => SubscribedAt(p, k, p[i].id, p[i].peer, (i + 1) - 1)
    BY <1>0, <1>1, <2>1, <2>2, SubscribedShifts
  <2> QED BY <1>0, <2>4, <2>5
<1> QED BY <1>1, <1>2, <1>3 DEF Orderly

\* The queue of another room: none of its publishers is touched.
LEMMA OrderlyElsewhere ==
    ASSUME NEW q, NEW j, NEW k, NEW x, Effect(j, k, x),
           \A i \in 1 .. Len(q) : q[i].id # x.id, Orderly(q, j)
    PROVE  Orderly(q, k)
<1>1. \A id, i : id # x.id /\ KnownAt(q, j, id, i) => KnownAt(q, k, id, i)
  BY DEF KnownAt, Effect
<1>2. \A id, c, i : id # x.id /\ SubscribedAt(q, j, id, c, i) => SubscribedAt(q, k, id, c, i)
  BY DEF SubscribedAt, Effect, Unsubscribes
<1> QED BY <1>1, <1>2 DEF Orderly

LEMMA ServedElsewhere ==
    ASSUME NEW q, NEW j, NEW k, NEW x, Effect(j, k, x), NEW id, id # x.id,
           NEW clients, Served(q, j, id, clients)
    PROVE  Served(q, k, id, clients)
<1>1. \A i : KnownAt(q, j, id, i) => KnownAt(q, k, id, i)
  BY DEF KnownAt, Effect
<1>2. \A c, i : SubscribedAt(q, j, id, c, i) => SubscribedAt(q, k, id, c, i)
  BY DEF SubscribedAt, Effect, Unsubscribes
<1> QED BY <1>1, <1>2 DEF Served

-----------------------------------------------------------------------------
\* What the functions of a controller make of its maps.
LEMMA AddPublisherStep ==
    ASSUME NEW t, NEW r, NEW known, Keeps(t, r, known),
           NEW id \in StreamsOf(r), NEW e \in Erizos, NEW u, u = AddPublisher(t, id, e),
           NEW begunNow, begunNow = known \cup {id}
    PROVE  /\ Keeps(u, r, begunNow)
           /\ DOMAIN u.publishers = DOMAIN t.publishers \cup {id}
           /\ u.publishers[id] = e /\ u.subscribers[id] = {}
           /\ \A i \in DOMAIN t.publishers : i # id =>
                 u.publishers[i] = t.publishers[i] /\ u.subscribers[i] = t.subscribers[i]
<1> DEFINE v == TrackErizo(t, e)
<1>1. /\ DOMAIN v = ControllerFields
      /\ v.publishers = t.publishers /\ v.subscribers = t.subscribers
      /\ DOMAIN v.erizos = DOMAIN t.erizos \cup {e}
  BY DEF TrackErizo, With, Keeps, ControllerFields
<1>2. u = [v EXCEPT !.publishers = With(@, id, e),
                    !.subscribers = With(@, id, {}),
                    !.erizos[e].publishers = Append(@, id)]
  BY DEF AddPublisher
<1> HIDE DEF v
<1>3. /\ DOMAIN u = ControllerFields
      /\ u.publishers = With(t.publishers, id, e)
      /\ u.subscribers = With(t.subscribers, id, {})
      /\ DOMAIN u.erizos = DOMAIN t.erizos \cup {e}
  BY <1>1, <1>2 DEF ControllerFields
<1>4. /\ DOMAIN u.publishers = DOMAIN t.publishers \cup {id}
      /\ DOMAIN u.subscribers = DOMAIN t.subscribers \cup {id}
      /\ u.publishers[id] = e /\ u.subscribers[id] = {}
  BY <1>3 DEF With
<1>5. \A i \in DOMAIN t.publishers : i # id =>
          u.publishers[i] = t.publishers[i] /\ u.subscribers[i] = t.subscribers[i]
  BY <1>3 DEF With, Keeps
<1>6. Keeps(u, r, begunNow) BY <1>3, <1>4, <1>5 DEF Keeps
<1> QED BY <1>4, <1>5, <1>6

LEMMA AddSubscriberStep ==
    ASSUME NEW t, NEW r, NEW known, Keeps(t, r, known),
           NEW id \in DOMAIN t.publishers, NEW c, NEW u, u = AddSubscriber(t, c, id)
    PROVE  /\ Keeps(u, r, known)
           /\ u.publishers = t.publishers
           /\ u.subscribers[id] = t.subscribers[id] \cup {c}
           /\ \A i \in DOMAIN t.publishers : i # id => u.subscribers[i] = t.subscribers[i]
<1>1. /\ DOMAIN u = ControllerFields
      /\ u.publishers = t.publishers /\ u.erizos = t.erizos
      /\ u.subscribers = [t.subscribers EXCEPT ![id] = @ \cup {c}]
  BY DEF AddSubscriber, Keeps, ControllerFields
<1> QED BY <1>1 DEF Keeps

LEMMA RemoveSubscriberStep ==
    ASSUME NEW t, NEW r, NEW known, Keeps(t, r, known),
           NEW id \in DOMAIN t.publishers, NEW c, NEW u, u = RemoveSubscriber(t, c, id)
    PROVE  /\ Keeps(u, r, known)
           /\ u.publishers = t.publishers
           /\ u.subscribers[id] = t.subscribers[id] \ {c}
           /\ \A i \in DOMAIN t.publishers : i # id => u.subscribers[i] = t.subscribers[i]
<1>1. /\ DOMAIN u = ControllerFields
      /\ u.publishers = t.publishers /\ u.erizos = t.erizos
      /\ u.subscribers = [t.subscribers EXCEPT ![id] = @ \ {c}]
  BY DEF RemoveSubscriber, Keeps, ControllerFields
<1> QED BY <1>1 DEF Keeps

LEMMA RemoveSubscriptionsStep ==
    ASSUME NEW t, NEW r, NEW known, Keeps(t, r, known),
           NEW c, NEW u, u = RemoveSubscriptions(t, c)
    PROVE  /\ Keeps(u, r, known)
           /\ u.publishers = t.publishers
           /\ \A i \in DOMAIN t.publishers : u.subscribers[i] = t.subscribers[i] \ {c}
<1>1. /\ DOMAIN u = ControllerFields
      /\ u.publishers = t.publishers /\ u.erizos = t.erizos
      /\ u.subscribers = [i \in DOMAIN t.subscribers |-> t.subscribers[i] \ {c}]
  BY DEF RemoveSubscriptions, Keeps, ControllerFields
<1> QED BY <1>1 DEF Keeps

\* The process of a publisher is tracked, so removePublisher never throws.
LEMMA RemovePublisherStep ==
    ASSUME NEW t, NEW r, NEW known, Keeps(t, r, known),
           NEW id \in DOMAIN t.publishers, NEW u, u = RemovePublisher(t, id)
    PROVE  /\ Keeps(u, r, known)
           /\ DOMAIN u.publishers = DOMAIN t.publishers \ {id}
           /\ \A i \in DOMAIN u.publishers :
                 /\ u.publishers[i] = t.publishers[i]
                 /\ u.subscribers[i] = t.subscribers[i]
<1>1. id \in DOMAIN t.publishers \cap DOMAIN t.subscribers BY DEF Keeps
<1>2. t.publishers[id] \in DOMAIN t.erizos BY DEF Keeps
<1>3. /\ DOMAIN u = ControllerFields
      /\ u.publishers = Without(t.publishers, id)
      /\ u.subscribers = Without(t.subscribers, id)
      /\ DOMAIN u.erizos = DOMAIN t.erizos
  BY <1>1, <1>2 DEF RemovePublisher, Keeps, ControllerFields
<1>4. /\ DOMAIN u.publishers = DOMAIN t.publishers \ {id}
      /\ DOMAIN u.subscribers = DOMAIN t.publishers \ {id}
      /\ \A i \in DOMAIN t.publishers \ {id} :
            /\ u.publishers[i] = t.publishers[i]
            /\ u.subscribers[i] = t.subscribers[i]
  BY <1>3 DEF Without, Keeps
<1> QED BY <1>3, <1>4 DEF Keeps

-----------------------------------------------------------------------------
\* The calls n to the process e go with what they change in the controller, from t
\* to u: each is of a publisher that e serves, or of one that nobody asked for yet.
Answers(t, u, known, n, e) ==
    /\ \A k \in 1 .. Len(n) :
          /\ Removes(n[k]) \/ Listed(n[k]) => Len(n) = 1
          /\ \/ n[k].id \in DOMAIN t.publishers /\ t.publishers[n[k].id] = e
             \/ n[k].id \notin known /\ Adds(n[k])
          /\ Listed(n[k]) => ~Adds(n[k]) /\ n[k].peer \in t.subscribers[n[k].id]
          /\ Removes(n[k]) => n[k].id \notin DOMAIN u.publishers
    /\ \A id \in DOMAIN u.publishers : id \in DOMAIN t.publishers \/ id \notin known
    /\ \A id \in DOMAIN u.publishers : u.publishers[id] = e =>
          \/ /\ id \in DOMAIN t.publishers /\ t.publishers[id] = e
             /\ \A c \in u.subscribers[id] :
                   \/ c \in t.subscribers[id] /\ \A k \in 1 .. Len(n) : ~Unsubscribes(n[k], id, c)
                   \/ Len(n) = 1 /\ Subscribes(n[1], id, c)
          \/ Len(n) = 1 /\ Adds(n[1]) /\ n[1].id = id /\ u.subscribers[id] = {}

LEMMA AgreesExtends ==
    ASSUME NEW p, NEW q, NEW n, NEW j, NEW t, NEW u, NEW known, NEW e,
           Extended(p, q, n), Agrees(q, j, TRUE, t, e), Answers(t, u, known, n, e),
           DOMAIN t.publishers \subseteq known, \A i \in 1 .. Len(q) : q[i].id \in known
    PROVE  Agrees(p, j, TRUE, u, e)
<1>0. Len(q) \in Nat /\ Len(n) \in Nat /\ Len(p) = Len(q) + Len(n) /\ Len(p) \in Nat
  BY DEF Extended
<1>1. \A k \in 1 .. Len(p) :
          \/ k \in 1 .. Len(q) /\ p[k] = q[k]
          \/ k - Len(q) \in 1 .. Len(n) /\ p[k] = n[k - Len(q)]
  BY ExtendedParts
<1>2. \A i \in 1 .. Len(q) : Removes(q[i]) => q[i].id \notin DOMAIN t.publishers
  BY DEF Agrees
<1>3. \A id \in DOMAIN t.publishers : t.publishers[id] = e =>
          Served(q, j, id, t.subscribers[id])
  BY DEF Agrees
<1>4. Orderly(p, j)
  <2>1. \A i \in 1 .. Len(q), k \in 1 .. Len(n) : Removes(q[i]) => n[k].id # q[i].id
    BY <1>2 DEF Answers
  <2>2. \A k \in 1 .. Len(n) :
              /\ Removes(n[k]) \/ Listed(n[k]) => Len(n) = 1
              /\ ~Adds(n[k]) => KnownAt(q, j, n[k].id, Len(q) + 1)
              /\ Listed(n[k]) => SubscribedAt(q, j, n[k].id, n[k].peer, Len(q) + 1)
    BY <1>3 DEF Answers, Served
  <2>3. Orderly(q, j) BY DEF Agrees
  <2> QED BY <2>1, <2>2, <2>3, OrderlyExtends
<1>5. \A i \in 1 .. Len(p) : Removes(p[i]) => p[i].id \notin DOMAIN u.publishers
  BY <1>1, <1>2 DEF Answers
<1>6. ASSUME NEW id \in DOMAIN u.publishers, u.publishers[id] = e
      PROVE  Served(p, j, id, u.subscribers[id])
  <2>0. /\ Len(q) + 1 \in Int /\ Len(p) + 1 \in Int /\ Len(q) + 1 <= Len(p) + 1
    BY <1>0
  <2>1. CASE /\ id \in DOMAIN t.publishers /\ t.publishers[id] = e
             /\ \A c \in u.subscribers[id] :
                   \/ c \in t.subscribers[id] /\ \A k \in 1 .. Len(n) : ~Unsubscribes(n[k], id, c)
                   \/ Len(n) = 1 /\ Subscribes(n[1], id, c)
    <3>1. Served(q, j, id, t.subscribers[id]) BY <1>3, <2>1
    <3>2. KnownAt(p, j, id, Len(p) + 1) BY <2>0, <3>1, KnownExtends DEF Served
    <3>3. ASSUME NEW c \in u.subscribers[id]
          PROVE  SubscribedAt(p, j, id, c, Len(p) + 1)
      <4>1. CASE c \in t.subscribers[id] /\ \A k \in 1 .. Len(n) : ~Unsubscribes(n[k], id, c)
        BY <3>1, <4>1, SubscribedLasts DEF Served
      <4>2. CASE Len(n) = 1 /\ Subscribes(n[1], id, c)
        <5>1. /\ Len(p) \in 1 .. Len(p) /\ Len(p) < Len(p) + 1
              /\ \A m \in 1 .. Len(p) : ~(Len(p) < m)
          BY <1>0, <4>2
        <5>2. p[Len(p)] = n[1]
          <6>1. 1 \in 1 .. Len(n) /\ Len(p) = Len(q) + 1 BY <1>0, <4>2
          <6> QED BY <6>1 DEF Extended
        <5> QED BY <4>2, <5>1, <5>2 DEF SubscribedAt
      <4> QED BY <2>1, <4>1, <4>2
    <3> QED BY <3>2, <3>3 DEF Served
  <2>2. CASE Len(n) = 1 /\ Adds(n[1]) /\ n[1].id = id /\ u.subscribers[id] = {}
    <3>1. Len(p) \in 1 .. Len(p) /\ Len(p) < Len(p) + 1 BY <1>0, <2>2
    <3>2. p[Len(p)] = n[1]
      <4>1. 1 \in 1 .. Len(n) /\ Len(p) = Len(q) + 1 BY <1>0, <2>2
      <4> QED BY <4>1 DEF Extended
    <3>3. KnownAt(p, j, id, Len(p) + 1) BY <2>2, <3>1, <3>2 DEF KnownAt
    <3> QED BY <2>2, <3>3 DEF Served
  <2> QED BY <1>6, <2>1, <2>2 DEF Answers
<1> QED BY <1>4, <1>5, <1>6 DEF Agrees

\* Nobody answers, and nothing is sent: a process that has ended.
LEMMA AgreesEnded == \A j, t, e : Agrees(<<>>, j, FALSE, t, e)
<1>1. \A i : i \notin 1 .. Len(<<>>) OBVIOUS
<1> QED BY <1>1 DEF Agrees, Orderly

\* A room changes its controller and sends the calls n, which go with the change.
SendsOnly(r, n) ==
    /\ erizo' = erizo
    /\ begun \subseteq begun' /\ IsFiniteSet(begun')
    /\ DOMAIN controller' = Rooms
    /\ \A x \in Rooms \ {r} : controller'[x] = controller[x]
    /\ DOMAIN calls' = Rooms
    /\ \A x \in Rooms \ {r} : calls'[x] = calls[x]
    /\ DOMAIN calls'[r] = Erizos
    /\ \A e \in Erizos :
          calls'[r][e] = IF Up(e) THEN calls[r][e] \o n[e] ELSE calls[r][e]

LEMMA SendKeeps ==
    ASSUME CallsInv, NEW r \in Rooms, NEW n, SendsOnly(r, n),
           Keeps(controller'[r], r, begun'),
           \A e \in Erizos :
              /\ n[e] \in Seq(Message)
              /\ \A k \in 1 .. Len(n[e]) : CallOf(n[e][k], r, begun')
              /\ Answers(controller[r], controller'[r], begun, n[e], e)
    PROVE  CallsInv'
<1>1. ProcessInv' BY DEF CallsInv, ProcessInv, SendsOnly, Up, Consistent, Held
<1>2. InputsInv' BY DEF CallsInv, InputsInv, SendsOnly
<1>3. ControllerInv'
  <2>1. ASSUME NEW x \in Rooms PROVE Keeps(controller'[x], x, begun')
    <3>1. CASE x = r BY <3>1
    <3>2. CASE x # r
      <4>1. Keeps(controller[x], x, begun) /\ controller'[x] = controller[x]
        BY <3>2 DEF CallsInv, ControllerInv, SendsOnly
      <4>2. begun \subseteq begun' BY DEF SendsOnly
      <4> QED BY <4>1, <4>2 DEF Keeps
    <3> QED BY <3>1, <3>2
  <2> QED BY <2>1 DEF ControllerInv, SendsOnly, Keeps, StreamsOf
<1>4. \A e \in Erizos : Up(e)' = Up(e) BY DEF Up, SendsOnly
<1>5. ASSUME NEW e \in Erizos, Up(e)
      PROVE  /\ Extended(calls'[r][e], calls[r][e], n[e])
             /\ calls'[r][e] \in Seq(Message)
  <2>1. calls[r][e] \in Seq(Message) BY DEF CallsInv, QueuesInv
  <2>2. n[e] \in Seq(Message) OBVIOUS
  <2>3. calls'[r][e] = calls[r][e] \o n[e] BY <1>5 DEF SendsOnly
  <2> QED BY <2>1, <2>2, <2>3, ConcatExtends
<1>6. \A x \in Rooms, e \in Erizos : ~(x = r /\ Up(e)) => calls'[x][e] = calls[x][e]
  BY DEF SendsOnly
<1>7. QueuesInv'
  <2>1. \A x \in Rooms : DOMAIN calls'[x] = Erizos
    BY DEF CallsInv, QueuesInv, SendsOnly
  <2>2. ASSUME NEW x \in Rooms, NEW e \in Erizos
        PROVE  /\ calls'[x][e] \in Seq(Message)
               /\ ~Up(e) => calls'[x][e] = <<>>
               /\ \A i \in 1 .. Len(calls'[x][e]) : CallOf(calls'[x][e][i], x, begun')
    <3>1. /\ calls[x][e] \in Seq(Message)
          /\ ~Up(e) => calls[x][e] = <<>>
          /\ \A i \in 1 .. Len(calls[x][e]) : CallOf(calls[x][e][i], x, begun')
      BY DEF CallsInv, QueuesInv, CallOf, SendsOnly
    <3>2. CASE ~(x = r /\ Up(e)) BY <1>6, <3>1, <3>2
    <3>3. CASE x = r /\ Up(e)
      <4>1. Extended(calls'[x][e], calls[x][e], n[e]) BY <1>5, <3>3
      <4>2. ASSUME NEW i \in 1 .. Len(calls'[x][e])
            PROVE  CallOf(calls'[x][e][i], x, begun')
        <5> DEFINE p == calls'[x][e]
                   q == calls[x][e]
        <5> HIDE DEF p, q
        <5>1. Extended(p, q, n[e]) BY <4>1 DEF p, q
        <5>2. \/ i \in 1 .. Len(q) /\ p[i] = q[i]
              \/ i - Len(q) \in 1 .. Len(n[e]) /\ p[i] = n[e][i - Len(q)]
          BY <5>1, ExtendedParts DEF p
        <5>3. \A m \in 1 .. Len(q) : CallOf(q[m], x, begun') BY <3>1 DEF q
        <5>4. \A m \in 1 .. Len(n[e]) : CallOf(n[e][m], x, begun') BY <3>3
        <5> QED BY <5>2, <5>3, <5>4 DEF p
      <4> QED BY <1>5, <3>3, <4>2
    <3> QED BY <3>2, <3>3
  <2>3. DOMAIN calls' = Rooms BY DEF SendsOnly
  <2> QED BY <1>4, <2>1, <2>2, <2>3 DEF QueuesInv, CallOf, StreamsOf
<1>8. AgreementInv'
  <2>1. ASSUME NEW x \in Rooms, NEW e \in Erizos
        PROVE  Agrees(calls'[x][e], erizo[e], Up(e), controller'[x], e)
    <3>0. Agrees(calls[x][e], erizo[e], Up(e), controller[x], e)
      BY DEF CallsInv, AgreementInv
    <3>1. CASE x # r
      <4>1. calls'[x][e] = calls[x][e] /\ controller'[x] = controller[x]
        BY <1>6, <3>1 DEF SendsOnly
      <4> QED BY <3>0, <4>1
    <3>2. CASE x = r /\ ~Up(e)
      <4>1. calls[x][e] = <<>> BY <3>2 DEF CallsInv, QueuesInv
      <4>2. calls'[x][e] = <<>> BY <1>6, <3>2, <4>1
      <4>3. Agrees(<<>>, erizo[e], FALSE, controller'[x], e) BY AgreesEnded
      <4> QED BY <3>2, <4>2, <4>3 DEF Up
    <3>3. CASE x = r /\ Up(e)
      <4>1. Agrees(calls[r][e], erizo[e], TRUE, controller[r], e)
        BY <3>0, <3>3 DEF Agrees
      <4>2. Answers(controller[r], controller'[r], begun, n[e], e) OBVIOUS
      <4>3. DOMAIN controller[r].publishers \subseteq begun
        BY DEF CallsInv, ControllerInv, Keeps
      <4>4. \A i \in 1 .. Len(calls[r][e]) : calls[r][e][i].id \in begun
        BY DEF CallsInv, QueuesInv, CallOf
      <4>5. Extended(calls'[r][e], calls[r][e], n[e]) BY <1>5, <3>3
      <4> DEFINE p == calls'[r][e]
                 u == controller'[r]
      <4> HIDE DEF p, u
      <4>6. Agrees(p, erizo[e], TRUE, u, e)
        BY <4>1, <4>2, <4>3, <4>4, <4>5, AgreesExtends DEF p, u
      <4> QED BY <3>3, <4>6 DEF p, u, Agrees
    <3> QED BY <3>1, <3>2, <3>3
  <2>2. erizo' = erizo BY DEF SendsOnly
  <2> QED BY SMTT(30), <1>4, <2>1, <2>2 DEF AgreementInv, Agrees, Orderly, Served, KnownAt,
                                  SubscribedAt
<1> QED BY <1>1, <1>2, <1>3, <1>7, <1>8 DEF CallsInv

-----------------------------------------------------------------------------
\* All calls go to one process, and are one call.
LEMMA OneSends ==
    ASSUME CallsInv, NEW r \in Rooms, NEW e \in Erizos, NEW x,
           erizo' = erizo, begun \subseteq begun', IsFiniteSet(begun'),
           DOMAIN controller' = Rooms,
           \A y \in Rooms \ {r} : controller'[y] = controller[y],
           calls' = CallsWith(r, e, <<x>>)
    PROVE  SendsOnly(r, [d \in Erizos |-> IF d = e THEN <<x>> ELSE <<>>])
<1> DEFINE n == [d \in Erizos |-> IF d = e THEN <<x>> ELSE <<>>]
<1>1. DOMAIN calls = Rooms /\ DOMAIN calls[r] = Erizos BY DEF CallsInv, QueuesInv
<1>2. \A d \in Erizos : calls[r][d] \o <<>> = calls[r][d] BY DEF CallsInv, QueuesInv
<1>3. /\ DOMAIN calls' = Rooms
      /\ \A y \in Rooms \ {r} : calls'[y] = calls[y]
      /\ DOMAIN calls'[r] = Erizos
  BY <1>1 DEF CallsWith
<1>4. \A d \in Erizos : calls'[r][d] = IF Up(d) THEN calls[r][d] \o n[d] ELSE calls[r][d]
  <2>1. calls'[r][e] = IF Up(e) THEN calls[r][e] \o <<x>> ELSE calls[r][e]
    BY <1>1 DEF CallsWith
  <2>2. \A d \in Erizos \ {e} : calls'[r][d] = calls[r][d] BY <1>1 DEF CallsWith
  <2> QED BY <1>2, <2>1, <2>2
<1> HIDE DEF n
<1>5. SendsOnly(r, n) BY <1>3, <1>4 DEF SendsOnly
<1> QED BY <1>5 DEF n

LEMMA OneSent ==
    ASSUME CallsInv, NEW r \in Rooms, NEW e \in Erizos, NEW x, CallOf(x, r, begun'),
           erizo' = erizo, begun \subseteq begun', IsFiniteSet(begun'),
           DOMAIN controller' = Rooms,
           \A y \in Rooms \ {r} : controller'[y] = controller[y],
           calls' = CallsWith(r, e, <<x>>),
           Keeps(controller'[r], r, begun'),
           Answers(controller[r], controller'[r], begun, <<x>>, e),
           \A d \in Erizos \ {e} : Answers(controller[r], controller'[r], begun, <<>>, d)
    PROVE  CallsInv'
<1> DEFINE n == [d \in Erizos |-> IF d = e THEN <<x>> ELSE <<>>]
<1>5. SendsOnly(r, n) BY OneSends
<1>6. ASSUME NEW d \in Erizos
      PROVE  /\ n[d] \in Seq(Message)
             /\ \A k \in 1 .. Len(n[d]) : CallOf(n[d][k], r, begun')
             /\ Answers(controller[r], controller'[r], begun, n[d], d)
  <2>1. CASE d = e
    <3>1. n[d] = <<x>> BY <2>1
    <3>2. x \in Message BY DEF CallOf
    <3>3. <<x>> \in Seq(Message) /\ Len(<<x>>) = 1 /\ <<x>>[1] = x BY <3>2
    <3>4. \A k \in 1 .. Len(<<x>>) : <<x>>[k] = x BY <3>3
    <3> HIDE DEF n
    <3> QED BY <2>1, <3>1, <3>3, <3>4
  <2>2. CASE d # e
    <3>1. n[d] = <<>> BY <2>2
    <3>2. <<>> \in Seq(Message) /\ \A k : k \notin 1 .. Len(<<>>) OBVIOUS
    <3> HIDE DEF n
    <3> QED BY <2>2, <3>1, <3>2
  <2> QED BY <2>1, <2>2
<1> HIDE DEF n
<1> QED BY <1>5, <1>6, SendKeeps

\* The call of a publisher that its controller keeps: to the process that serves it.
LEMMA ToServing ==
    ASSUME CallsInv, NEW r \in Rooms, NEW id \in DOMAIN controller[r].publishers
    PROVE  /\ Serving(r, id) \in Erizos
           /\ id \in StreamsOf(r) /\ id \in Streams /\ id \in begun
           /\ Keeps(controller[r], r, begun)
           /\ DOMAIN controller = Rooms /\ IsFiniteSet(begun)
  BY DEF CallsInv, ControllerInv, Keeps, Serving, StreamsOf

LEMMA CallIsMessage ==
    ASSUME NEW method \in Methods, NEW id \in Streams, NEW peer \in Peers
    PROVE  /\ Call(method, id, peer) \in Message
           /\ Call(method, id, peer).method = method
           /\ Call(method, id, peer).id = id
           /\ Call(method, id, peer).peer = peer
  BY DEF Message, Call

LEMMA One == \A x : Len(<<x>>) = 1 /\ <<x>>[1] = x /\ \A k : k \in 1 .. 1 <=> k = 1
  OBVIOUS

LEMMA None == Len(<<>>) = 0 /\ \A k : k \notin 1 .. 0
  OBVIOUS

LEMMA PublishKeeps ==
    ASSUME CallsInv, NEW r \in Rooms, NEW id \in Streams, NEW e \in Erizos,
           publish(r, id, e)
    PROVE  CallsInv'
<1> DEFINE t == controller[r]
           u == controller'[r]
           x == Call(IF Kind[id] = "erizo" THEN "addPublisher" ELSE "addExternalInput",
                     id, "publisher")
<1>1. id \in StreamsOf(r) /\ id \notin begun /\ begun' = begun \cup {id} /\ erizo' = erizo
  BY DEF publish
<1>2. /\ Keeps(t, r, begun) /\ DOMAIN controller = Rooms /\ IsFiniteSet(begun)
  BY DEF CallsInv, ControllerInv
<1>3. /\ u = AddPublisher(t, id, e) /\ DOMAIN controller' = Rooms
      /\ \A y \in Rooms \ {r} : controller'[y] = controller[y]
  BY <1>2 DEF publish
<1>4. /\ Keeps(u, r, begun')
      /\ DOMAIN u.publishers = DOMAIN t.publishers \cup {id}
      /\ u.publishers[id] = e /\ u.subscribers[id] = {}
      /\ \A i \in DOMAIN t.publishers : i # id =>
            u.publishers[i] = t.publishers[i] /\ u.subscribers[i] = t.subscribers[i]
  <2> HIDE DEF t, u
  <2> QED BY <1>1, <1>2, <1>3, AddPublisherStep
<1>5. /\ x \in Message /\ x.id = id /\ Adds(x) /\ ~Removes(x) /\ ~Listed(x)
      /\ \A i, c : ~Subscribes(x, i, c) /\ ~Unsubscribes(x, i, c)
      /\ x.method = "addExternalInput" => Kind[id] = "url"
  <2>1. (IF Kind[id] = "erizo" THEN "addPublisher" ELSE "addExternalInput") \in Methods
    BY DEF Methods
  <2>2. "publisher" \in Peers BY DEF Peers
  <2>3. /\ x \in Message /\ x.id = id
        /\ x.method = IF Kind[id] = "erizo" THEN "addPublisher" ELSE "addExternalInput"
    BY <2>1, <2>2, CallIsMessage
  <2>4. Kind[id] \in {"erizo", "url"} BY MediaAssumption
  <2> HIDE DEF x
  <2> QED BY <2>3, <2>4 DEF Adds, Removes, Listed, Subscribes, Unsubscribes
<1>6. calls' = CallsWith(r, e, <<x>>) BY DEF publish
<1> HIDE DEF t, u, x
<1>7. CallOf(x, r, begun') BY <1>1, <1>5 DEF CallOf
<1>8. IsFiniteSet(begun') BY <1>1, <1>2, FS_AddElement
<1>9. Answers(t, u, begun, <<x>>, e)
  BY <1>1, <1>4, <1>5, One DEF Answers
<1>10. \A d \in Erizos \ {e} : Answers(t, u, begun, <<>>, d)
  BY <1>1, <1>4, None DEF Answers
<1> QED BY <1>1, <1>3, <1>4, <1>6, <1>7, <1>8, <1>9, <1>10, OneSent DEF t, u

LEMMA SubscribeKeeps ==
    ASSUME CallsInv, NEW r \in Rooms, NEW c \in ClientsOf(r), NEW id, subscribe(r, c, id)
    PROVE  CallsInv'
<1> DEFINE t == controller[r]
           u == controller'[r]
           e == Serving(r, id)
           x == Call("addSubscriber", id, c)
<1>1. id \in DOMAIN t.publishers /\ begun' = begun /\ erizo' = erizo BY DEF subscribe
<1>2. /\ e \in Erizos /\ id \in StreamsOf(r) /\ id \in Streams /\ id \in begun
      /\ Keeps(t, r, begun) /\ DOMAIN controller = Rooms /\ IsFiniteSet(begun)
  BY <1>1, ToServing
<1>3. /\ u = AddSubscriber(t, c, id) /\ DOMAIN controller' = Rooms
      /\ \A y \in Rooms \ {r} : controller'[y] = controller[y]
  BY <1>2 DEF subscribe
<1>4. /\ Keeps(u, r, begun) /\ u.publishers = t.publishers
      /\ u.subscribers[id] = t.subscribers[id] \cup {c}
      /\ \A i \in DOMAIN t.publishers : i # id => u.subscribers[i] = t.subscribers[i]
  <2> HIDE DEF t, u
  <2> QED BY <1>1, <1>2, <1>3, AddSubscriberStep
<1>5. /\ x \in Message /\ x.id = id /\ ~Adds(x) /\ ~Removes(x) /\ ~Listed(x)
      /\ x.method # "addExternalInput"
      /\ Subscribes(x, id, c) /\ \A i, d : ~Unsubscribes(x, i, d)
  <2>1. "addSubscriber" \in Methods /\ c \in Peers BY DEF Methods, Peers, ClientsOf
  <2>2. x \in Message /\ x.id = id /\ x.method = "addSubscriber" /\ x.peer = c
    BY <1>2, <2>1, CallIsMessage
  <2> HIDE DEF x
  <2> QED BY <2>2 DEF Adds, Removes, Listed, Subscribes, Unsubscribes
<1>6. calls' = CallsWith(r, e, <<x>>) BY DEF subscribe
<1>0. e = t.publishers[id] BY DEF Serving
<1> HIDE DEF t, u, x, e
<1>7. CallOf(x, r, begun') BY <1>1, <1>2, <1>5 DEF CallOf
<1>9. Answers(t, u, begun, <<x>>, e)
  BY <1>0, <1>1, <1>4, <1>5, One DEF Answers
<1>10. \A d \in Erizos \ {e} : Answers(t, u, begun, <<>>, d)
  BY <1>0, <1>1, <1>4, None DEF Answers
<1> QED BY <1>1, <1>2, <1>3, <1>4, <1>6, <1>7, <1>9, <1>10, OneSent DEF t, u

LEMMA UnsubscribeKeeps ==
    ASSUME CallsInv, NEW r \in Rooms, NEW c \in ClientsOf(r), NEW id, unsubscribe(r, c, id)
    PROVE  CallsInv'
<1> DEFINE t == controller[r]
           u == controller'[r]
           e == Serving(r, id)
           x == Call("removeSubscriber", id, c)
<1>1. id \in DOMAIN t.publishers /\ begun' = begun /\ erizo' = erizo BY DEF unsubscribe
<1>2. /\ e \in Erizos /\ id \in StreamsOf(r) /\ id \in Streams /\ id \in begun
      /\ Keeps(t, r, begun) /\ DOMAIN controller = Rooms /\ IsFiniteSet(begun)
  BY <1>1, ToServing
<1>3. /\ u = RemoveSubscriber(t, c, id) /\ DOMAIN controller' = Rooms
      /\ \A y \in Rooms \ {r} : controller'[y] = controller[y]
  BY <1>2 DEF unsubscribe
<1>4. /\ Keeps(u, r, begun) /\ u.publishers = t.publishers
      /\ u.subscribers[id] = t.subscribers[id] \ {c}
      /\ \A i \in DOMAIN t.publishers : i # id => u.subscribers[i] = t.subscribers[i]
  <2> HIDE DEF t, u
  <2> QED BY <1>1, <1>2, <1>3, RemoveSubscriberStep
<1>5. /\ x \in Message /\ x.id = id /\ ~Adds(x) /\ ~Removes(x) /\ ~Listed(x)
      /\ x.method # "addExternalInput"
      /\ \A i, d : i # id \/ d # c => ~Unsubscribes(x, i, d)
  <2>1. "removeSubscriber" \in Methods /\ c \in Peers BY DEF Methods, Peers, ClientsOf
  <2>2. x \in Message /\ x.id = id /\ x.method = "removeSubscriber" /\ x.peer = c
    BY <1>2, <2>1, CallIsMessage
  <2> HIDE DEF x
  <2> QED BY <2>2 DEF Adds, Removes, Listed, Unsubscribes
<1>6. calls' = CallsWith(r, e, <<x>>) BY DEF unsubscribe
<1>0. e = t.publishers[id] BY DEF Serving
<1> HIDE DEF t, u, x, e
<1>7. CallOf(x, r, begun') BY <1>1, <1>2, <1>5 DEF CallOf
<1>9. Answers(t, u, begun, <<x>>, e)
  BY <1>0, <1>1, <1>4, <1>5, One DEF Answers
<1>10. \A d \in Erizos \ {e} : Answers(t, u, begun, <<>>, d)
  BY <1>0, <1>1, <1>4, None DEF Answers
<1> QED BY <1>1, <1>2, <1>3, <1>4, <1>6, <1>7, <1>9, <1>10, OneSent DEF t, u

LEMMA UnpublishKeeps ==
    ASSUME CallsInv, NEW r \in Rooms, NEW id, unpublish(r, id)
    PROVE  CallsInv'
<1> DEFINE t == controller[r]
           u == controller'[r]
           e == Serving(r, id)
           x == Call("removePublisher", id, "publisher")
<1>1. id \in DOMAIN t.publishers /\ begun' = begun /\ erizo' = erizo BY DEF unpublish
<1>2. /\ e \in Erizos /\ id \in StreamsOf(r) /\ id \in Streams /\ id \in begun
      /\ Keeps(t, r, begun) /\ DOMAIN controller = Rooms /\ IsFiniteSet(begun)
  BY <1>1, ToServing
<1>3. /\ u = RemovePublisher(t, id) /\ DOMAIN controller' = Rooms
      /\ \A y \in Rooms \ {r} : controller'[y] = controller[y]
  BY <1>2 DEF unpublish
<1>4. /\ Keeps(u, r, begun)
      /\ DOMAIN u.publishers = DOMAIN t.publishers \ {id}
      /\ \A i \in DOMAIN u.publishers :
            u.publishers[i] = t.publishers[i] /\ u.subscribers[i] = t.subscribers[i]
  <2> HIDE DEF t, u
  <2> QED BY <1>1, <1>2, <1>3, RemovePublisherStep
<1>5. /\ x \in Message /\ x.id = id /\ ~Adds(x) /\ ~Listed(x)
      /\ x.method # "addExternalInput" /\ \A i, d : ~Unsubscribes(x, i, d)
  <2>1. "removePublisher" \in Methods /\ "publisher" \in Peers BY DEF Methods, Peers
  <2>2. x \in Message /\ x.id = id /\ x.method = "removePublisher"
    BY <1>2, <2>1, CallIsMessage
  <2> HIDE DEF x
  <2> QED BY <2>2 DEF Adds, Listed, Unsubscribes
<1>6. calls' = CallsWith(r, e, <<x>>) BY DEF unpublish
<1>0. e = t.publishers[id] BY DEF Serving
<1> HIDE DEF t, u, x, e
<1>7. CallOf(x, r, begun') BY <1>1, <1>2, <1>5 DEF CallOf
<1>9. Answers(t, u, begun, <<x>>, e)
  BY <1>0, <1>1, <1>4, <1>5, One DEF Answers
<1>10. \A d \in Erizos \ {e} : Answers(t, u, begun, <<>>, d)
  BY <1>0, <1>1, <1>4, None DEF Answers
<1> QED BY <1>1, <1>2, <1>3, <1>4, <1>6, <1>7, <1>9, <1>10, OneSent DEF t, u

\* The calls that leave the controller as it is.
LEMMA AskKeeps ==
    ASSUME CallsInv, NEW r \in Rooms, NEW id \in DOMAIN controller[r].publishers,
           NEW x \in Message, x.id = id, ~Adds(x), ~Removes(x),
           Listed(x) => x.peer \in controller[r].subscribers[id],
           x.method # "removeSubscriber",
           controller' = controller, erizo' = erizo,
           begun \subseteq begun', IsFiniteSet(begun'),
           calls' = CallsWith(r, Serving(r, id), <<x>>)
    PROVE  CallsInv'
<1> DEFINE t == controller[r]
           e == Serving(r, id)
<1>1. /\ e \in Erizos /\ id \in StreamsOf(r) /\ id \in begun
      /\ Keeps(t, r, begun) /\ DOMAIN controller = Rooms
  BY ToServing
<1>2. e = t.publishers[id] BY DEF Serving
<1>3. controller'[r] = t OBVIOUS
<1>4. calls' = CallsWith(r, e, <<x>>) OBVIOUS
<1>5. id \in DOMAIN t.publishers /\ (Listed(x) => x.peer \in t.subscribers[id]) OBVIOUS
<1> HIDE DEF t, e
<1>6. CallOf(x, r, begun') BY <1>1 DEF CallOf, Adds
<1>7. Keeps(t, r, begun') BY <1>1 DEF Keeps
<1>8. \A i, d : ~Unsubscribes(x, i, d) BY DEF Unsubscribes
<1>9. Answers(t, t, begun, <<x>>, e)
  BY <1>2, <1>5, <1>8, One DEF Answers
<1>10. \A d \in Erizos \ {e} : Answers(t, t, begun, <<>>, d)
  BY None DEF Answers
<1>11. \A y \in Rooms \ {r} : controller'[y] = controller[y] OBVIOUS
<1>12. DOMAIN controller' = Rooms BY <1>1
<1>13. /\ Keeps(controller'[r], r, begun')
       /\ Answers(controller[r], controller'[r], begun, <<x>>, e)
       /\ \A d \in Erizos \ {e} : Answers(controller[r], controller'[r], begun, <<>>, d)
  BY <1>3, <1>7, <1>9, <1>10 DEF t
<1> QED BY <1>1, <1>4, <1>6, <1>11, <1>12, <1>13, OneSent

LEMMA SignalKeeps ==
    ASSUME CallsInv, NEW r \in Rooms, NEW c \in ClientsOf(r), NEW id, signal(r, c, id)
    PROVE  CallsInv'
<1> DEFINE x == Signaling(r, id, c)
<1>1. id \in DOMAIN controller[r].publishers BY DEF signal
<1>2. id \in Streams /\ IsFiniteSet(begun) BY <1>1, ToServing
<1>3. c \in Peers /\ "processSignaling" \in Methods BY DEF Peers, Methods, ClientsOf
<1>4. /\ x.id = id /\ x.peer = c /\ x.method = "processSignaling"
      /\ x.listed = (c \in controller[r].subscribers[id])
  BY DEF Signaling
<1>5. x \in Message BY <1>2, <1>3 DEF Signaling, Message
<1>6. /\ controller' = controller /\ erizo' = erizo /\ begun' = begun
      /\ calls' = CallsWith(r, Serving(r, id), <<x>>)
  BY DEF signal
<1> HIDE DEF x
<1> QED BY <1>1, <1>2, <1>4, <1>5, <1>6, AskKeeps DEF Adds, Removes, Listed

LEMMA RecorderKeeps ==
    ASSUME CallsInv, NEW r \in Rooms, NEW id, NEW rec \in Recordings,
           startRecorder(r, id, rec) \/ stopRecorder(r, rec)
    PROVE  CallsInv'
<1>0. ASSUME NEW i \in DOMAIN controller[r].publishers,
             NEW method \in {"addExternalOutput", "removeExternalOutput"},
             controller' = controller, erizo' = erizo,
             begun \subseteq begun', IsFiniteSet(begun'),
             calls' = CallsWith(r, Serving(r, i), <<Call(method, i, rec)>>)
      PROVE  CallsInv'
  <2> DEFINE x == Call(method, i, rec)
  <2>1. i \in Streams BY <1>0, ToServing
  <2>2. method \in Methods /\ rec \in Peers BY DEF Methods, Peers
  <2>3. x \in Message /\ x.id = i /\ x.method = method BY <2>1, <2>2, CallIsMessage
  <2>4. calls' = CallsWith(r, Serving(r, i), <<x>>) BY <1>0
  <2> HIDE DEF x
  <2>5. ~Adds(x) /\ ~Removes(x) /\ ~Listed(x) /\ x.method # "removeSubscriber"
    BY <2>3 DEF Adds, Removes, Listed
  <2> QED BY <1>0, <2>3, <2>4, <2>5, AskKeeps
<1>1. CASE startRecorder(r, id, rec)
  <2>1. /\ id \in DOMAIN controller[r].publishers
        /\ controller' = controller /\ erizo' = erizo /\ begun' = begun \cup {rec}
        /\ calls' = CallsWith(r, Serving(r, id), <<Call("addExternalOutput", id, rec)>>)
    BY <1>1 DEF startRecorder
  <2>2. IsFiniteSet(begun) BY <2>1, ToServing
  <2>3. IsFiniteSet(begun') BY <2>1, <2>2, FS_AddElement
  <2> QED BY <1>0, <2>1, <2>3
<1>2. CASE stopRecorder(r, rec)
  <2> DEFINE i == externalOutputs[r][rec]
  <2>1. /\ i \in DOMAIN controller[r].publishers
        /\ controller' = controller /\ erizo' = erizo /\ begun' = begun
        /\ calls' = CallsWith(r, Serving(r, i), <<Call("removeExternalOutput", i, rec)>>)
    BY <1>2 DEF stopRecorder
  <2> HIDE DEF i
  <2>2. IsFiniteSet(begun') BY <2>1, ToServing
  <2> QED BY <1>0, <2>1, <2>2
<1> QED BY <1>1, <1>2

-----------------------------------------------------------------------------
\* The calls that SetToSeq puts in a row are those of the set.
LEMMA SetToSeqIsSeq ==
    ASSUME NEW S, IsFiniteSet(S)
    PROVE  /\ SetToSeq(S) \in Seq(S)
           /\ \A i \in 1 .. Len(SetToSeq(S)) : SetToSeq(S)[i] \in S
           /\ \A x \in S : \E i \in 1 .. Len(SetToSeq(S)) : SetToSeq(S)[i] = x
<1> DEFINE n == Cardinality(S)
           s == SetToSeq(S)
<1>1. n \in Nat /\ ExistsBijection(1 .. n, S) BY FS_CardinalityType
<1>2. PICK f \in [1 .. n -> S] : IsInjective(f)
  BY <1>1 DEF ExistsBijection, Bijection, Injection, IsInjective
<1>3. s \in [1 .. n -> S] /\ IsInjective(s) BY <1>2 DEF SetToSeq
<1> HIDE DEF n, s
<1>4. s \in Seq(S) BY <1>1, <1>3
<1>5. Len(s) = n BY <1>1, <1>3, <1>4
<1>6. s \in Surjection(1 .. n, S)
  <2>1. s \in Injection(1 .. n, S) BY <1>3 DEF Injection, IsInjective
  <2>2. IsFiniteSet(1 .. n) /\ Cardinality(1 .. n) = n BY <1>1, FS_Interval
  <2> QED BY <2>1, <2>2, FS_Injection DEF n
<1>7. \A x \in S : \E i \in 1 .. n : s[i] = x BY <1>6 DEF Surjection
<1> QED BY <1>3, <1>4, <1>5, <1>7 DEF s

\* What the room of a client that leaves sends: to each process one call for each
\* publisher on it that the client subscribes to.
LEMMA LeaveSends ==
    ASSUME CallsInv, NEW r \in Rooms, NEW c \in ClientsOf(r), leave(r, c)
    PROVE  \E n :
              /\ SendsOnly(r, n)
              /\ \A e \in Erizos :
                    /\ n[e] \in Seq(Message)
                    /\ \A k \in 1 .. Len(n[e]) :
                          /\ n[e][k] \in Message
                          /\ n[e][k].method = "removeSubscriber" /\ n[e][k].peer = c
                          /\ n[e][k].id \in DOMAIN controller[r].publishers
                          /\ controller[r].publishers[n[e][k].id] = e
                    /\ \A id \in DOMAIN controller[r].publishers :
                          controller[r].publishers[id] = e /\ c \in controller[r].subscribers[id]
                             => \E k \in 1 .. Len(n[e]) : n[e][k].id = id
<1> DEFINE t == controller[r]
           left == {id \in DOMAIN t.subscribers : c \in t.subscribers[id]}
           from(e) == {i \in left : Serving(r, i) = e}
           sent(e) == {Call("removeSubscriber", id, c) : id \in from(e)}
           n == [e \in Erizos |-> SetToSeq(sent(e))]
<1>1. begun' = begun /\ erizo' = erizo BY DEF leave
<1>2. /\ Keeps(t, r, begun) /\ DOMAIN controller = Rooms /\ IsFiniteSet(begun)
      /\ DOMAIN calls = Rooms /\ DOMAIN calls[r] = Erizos
  BY DEF CallsInv, ControllerInv, QueuesInv
<1>3. /\ DOMAIN controller' = Rooms
      /\ \A y \in Rooms \ {r} : controller'[y] = controller[y]
  BY <1>2 DEF leave
<1>5. left \subseteq DOMAIN t.publishers /\ IsFiniteSet(left)
  <2>1. left \subseteq DOMAIN t.publishers /\ left \subseteq begun BY <1>2 DEF Keeps
  <2> HIDE DEF left
  <2> QED BY <1>2, <2>1, FS_Subset
<1>6. calls' = [calls EXCEPT ![r] =
                   [e \in Erizos |-> IF Up(e) THEN calls[r][e] \o SetToSeq(sent(e))
                                     ELSE calls[r][e]]]
  BY DEF leave
<1>7. ASSUME NEW e \in Erizos
      PROVE  /\ IsFiniteSet(sent(e))
             /\ \A x \in sent(e) :
                   /\ x \in Message /\ x.id \in DOMAIN t.publishers /\ x.peer = c
                   /\ t.publishers[x.id] = e /\ x.method = "removeSubscriber"
             /\ \A id \in from(e) : \E x \in sent(e) : x.id = id
  <2> DEFINE F == from(e)
             G == sent(e)
             call == [id \in F |-> Call("removeSubscriber", id, c)]
  <2>1. IsFiniteSet(F)
    <3>1. F \subseteq left OBVIOUS
    <3> HIDE DEF F, left
    <3> QED BY <1>5, <3>1, FS_Subset
  <2>2. call \in Surjection(F, G)
    <3>1. G = {Call("removeSubscriber", id, c) : id \in F} OBVIOUS
    <3> HIDE DEF F, G
    <3> QED BY <3>1 DEF Surjection
  <2>3. IsFiniteSet(G)
    <3> HIDE DEF F, G, call
    <3> QED BY <2>1, <2>2, FS_Surjection DEF ExistsSurjection
  <2>4. ASSUME NEW x \in G
        PROVE  /\ x \in Message /\ x.id \in DOMAIN t.publishers /\ x.peer = c
               /\ t.publishers[x.id] = e /\ x.method = "removeSubscriber"
    <3>1. PICK id \in F : x = Call("removeSubscriber", id, c) OBVIOUS
    <3>2. id \in DOMAIN t.publishers /\ Serving(r, id) = e BY <1>5, <3>1
    <3>3. id \in Streams BY <1>2, <3>2 DEF Keeps, StreamsOf
    <3>4. "removeSubscriber" \in Methods /\ c \in Peers BY DEF Methods, Peers, ClientsOf
    <3>5. x \in Message /\ x.id = id /\ x.peer = c /\ x.method = "removeSubscriber"
      BY <3>1, <3>3, <3>4, CallIsMessage
    <3> QED BY <3>2, <3>5 DEF Serving
  <2>5. \A id \in F : \E x \in G : x.id = id
    <3>1. \A id \in F : Call("removeSubscriber", id, c) \in G OBVIOUS
    <3>2. \A id : Call("removeSubscriber", id, c).id = id BY DEF Call
    <3> QED BY <3>1, <3>2
  <2> QED BY <2>3, <2>4, <2>5
<1>8. \A id \in DOMAIN t.publishers : \A e \in Erizos :
          t.publishers[id] = e /\ c \in t.subscribers[id] => id \in from(e)
  BY <1>2 DEF Keeps, Serving
<1> HIDE DEF left, from, sent
<1>9. ASSUME NEW e \in Erizos
      PROVE  /\ n[e] \in Seq(Message)
             /\ \A k \in 1 .. Len(n[e]) : n[e][k] \in sent(e)
             /\ \A x \in sent(e) : \E k \in 1 .. Len(n[e]) : n[e][k] = x
  <2> DEFINE m == SetToSeq(sent(e))
  <2>1. /\ m \in Seq(sent(e)) /\ \A k \in 1 .. Len(m) : m[k] \in sent(e)
        /\ \A x \in sent(e) : \E k \in 1 .. Len(m) : m[k] = x
    BY <1>7, SetToSeqIsSeq
  <2>2. sent(e) \subseteq Message BY <1>7
  <2>3. n[e] = m OBVIOUS
  <2> HIDE DEF m, n
  <2>4. m \in Seq(Message) BY <2>1, <2>2
  <2> QED BY <2>1, <2>3, <2>4
<1>10. \A e \in Erizos :
          calls'[r][e] = IF Up(e) THEN calls[r][e] \o n[e] ELSE calls[r][e]
  BY <1>2, <1>6
<1>11. /\ DOMAIN calls' = Rooms /\ DOMAIN calls'[r] = Erizos
       /\ \A y \in Rooms \ {r} : calls'[y] = calls[y]
  BY <1>2, <1>6
<1> HIDE DEF n, t
<1>12. SendsOnly(r, n) BY <1>1, <1>2, <1>3, <1>10, <1>11 DEF SendsOnly
<1>13. ASSUME NEW e \in Erizos
       PROVE  /\ \A k \in 1 .. Len(n[e]) :
                    /\ n[e][k] \in Message
                    /\ n[e][k].method = "removeSubscriber" /\ n[e][k].peer = c
                    /\ n[e][k].id \in DOMAIN t.publishers /\ t.publishers[n[e][k].id] = e
              /\ \A id \in DOMAIN t.publishers :
                    t.publishers[id] = e /\ c \in t.subscribers[id]
                       => \E k \in 1 .. Len(n[e]) : n[e][k].id = id
  <2>1. \A k \in 1 .. Len(n[e]) :
            /\ n[e][k] \in Message
            /\ n[e][k].method = "removeSubscriber" /\ n[e][k].peer = c
            /\ n[e][k].id \in DOMAIN t.publishers /\ t.publishers[n[e][k].id] = e
    BY <1>7, <1>9
  <2>2. ASSUME NEW id \in DOMAIN t.publishers, t.publishers[id] = e, c \in t.subscribers[id]
        PROVE  \E k \in 1 .. Len(n[e]) : n[e][k].id = id
    <3>1. id \in from(e) BY <1>8, <2>2
    <3>2. PICK x \in sent(e) : x.id = id BY <1>7, <3>1
    <3>3. PICK k \in 1 .. Len(n[e]) : n[e][k] = x BY <1>9
    <3> QED BY <3>2, <3>3
  <2> QED BY <2>1, <2>2
<1> QED BY <1>9, <1>12, <1>13 DEF t

LEMMA LeaveKeeps ==
    ASSUME CallsInv, NEW r \in Rooms, NEW c \in ClientsOf(r), leave(r, c)
    PROVE  CallsInv'
<1> DEFINE t == controller[r]
           u == controller'[r]
<1>1. begun' = begun BY DEF leave
<1>2. Keeps(t, r, begun) /\ DOMAIN controller = Rooms BY DEF CallsInv, ControllerInv
<1>3. u = RemoveSubscriptions(t, c) BY <1>2 DEF leave
<1>4. /\ Keeps(u, r, begun) /\ u.publishers = t.publishers
      /\ \A i \in DOMAIN t.publishers : u.subscribers[i] = t.subscribers[i] \ {c}
  <2> HIDE DEF t, u
  <2> QED BY <1>2, <1>3, RemoveSubscriptionsStep
<1>5. PICK n : /\ SendsOnly(r, n)
               /\ \A e \in Erizos :
                     /\ n[e] \in Seq(Message)
                     /\ \A k \in 1 .. Len(n[e]) :
                           /\ n[e][k] \in Message
                           /\ n[e][k].method = "removeSubscriber" /\ n[e][k].peer = c
                           /\ n[e][k].id \in DOMAIN t.publishers
                           /\ t.publishers[n[e][k].id] = e
  BY LeaveSends
<1> HIDE DEF t, u
<1>6. ASSUME NEW e \in Erizos
      PROVE  /\ \A k \in 1 .. Len(n[e]) : CallOf(n[e][k], r, begun')
             /\ Answers(t, u, begun, n[e], e)
  <2>1. \A k \in 1 .. Len(n[e]) : CallOf(n[e][k], r, begun')
    BY <1>1, <1>2, <1>5 DEF CallOf, Keeps
  <2>2. \A k \in 1 .. Len(n[e]) :
            /\ ~Removes(n[e][k]) /\ ~Listed(n[e][k])
            /\ \A i, d : d # c => ~Unsubscribes(n[e][k], i, d)
    BY <1>5 DEF Removes, Listed, Unsubscribes
  <2>3. \A k \in 1 .. Len(n[e]) :
            /\ n[e][k].id \in DOMAIN t.publishers /\ n[e][k].peer = c
            /\ t.publishers[n[e][k].id] = e /\ n[e][k].method = "removeSubscriber"
    BY <1>5
  <2>4. Answers(t, u, begun, n[e], e) BY <1>4, <2>2, <2>3 DEF Answers
  <2> QED BY <2>1, <2>4
<1> QED BY <1>1, <1>4, <1>5, <1>6, SendKeeps DEF t, u

-----------------------------------------------------------------------------
\* Streams of different rooms are different.
LEMMA RoomsApart ==
    \A r, s \in Rooms : \A id : id \in StreamsOf(r) /\ id \in StreamsOf(s) => r = s
BY DEF StreamsOf

\* The first call of an orderly queue, and what the process makes of it.
LEMMA FirstCall ==
    ASSUME CallsInv, NEW r \in Rooms, NEW e \in Erizos, calls[r][e] # <<>>
    PROVE  LET q == calls[r][e]
               x == Head(q)
               k == Handle(erizo[e], x)
           IN  /\ Up(e) /\ q \in Seq(Message) /\ Shifted(Tail(q), q) /\ x = q[1]
               /\ Tail(q) \in Seq(Message) /\ 1 \in 1 .. Len(q)
               /\ CallOf(x, r, begun)
               /\ ~Adds(x) => x.id \in DOMAIN erizo[e].subscribers
               /\ Effect(erizo[e], k, x) => Orderly(Tail(q), k)
               /\ \/ Effect(erizo[e], k, x) /\ k.end = Running
                  \/ /\ x.id \in DOMAIN erizo[e].publishers
                     /\ erizo[e].publishers[x.id] = "input"
                     /\ k.end = TypeError(x.id) /\ k.publishers = erizo[e].publishers
                  \/ /\ k.end = Exit /\ Removes(x)
                     /\ DOMAIN erizo[e].publishers = {x.id} /\ DOMAIN k.publishers = {}
<1> DEFINE q == calls[r][e]
           j == erizo[e]
           x == Head(q)
           k == Handle(j, x)
<1>1. /\ q \in Seq(Message) /\ Up(e)
      /\ \A i \in 1 .. Len(q) : CallOf(q[i], r, begun)
  BY DEF CallsInv, QueuesInv
<1>2. DOMAIN j = Fields /\ Consistent(j) /\ j.end = Running
  BY <1>1 DEF CallsInv, ProcessInv, Up
<1>3. Orderly(q, j) BY DEF CallsInv, AgreementInv, Agrees
<1>4. q # <<>> OBVIOUS
<1> HIDE DEF q, j, k, x
<1>5. /\ Shifted(Tail(q), q) /\ Tail(q) \in Seq(Message)
      /\ Head(q) = q[1] /\ 1 \in 1 .. Len(q)
  BY <1>1, <1>4, TailShifts
<1>6. x = q[1] BY <1>5 DEF x
<1>8. ~Adds(x) => x.id \in DOMAIN j.subscribers
  <2>1. ~Adds(q[1]) => KnownAt(q, j, q[1].id, 1) BY <1>3, <1>5 DEF Orderly
  <2>2. ~ \E m \in 1 .. Len(q) : m < 1 BY <1>5 DEF Shifted
  <2> QED BY <1>6, <2>1, <2>2 DEF KnownAt
<1>9. Effect(j, k, x) => Orderly(Tail(q), k) BY <1>3, <1>5, <1>6, OrderlyShifts
<1>10. CallOf(x, r, begun) BY <1>1, <1>5, <1>6
<1>11. \/ Effect(j, k, x) /\ k.end = Running
       \/ /\ x.id \in DOMAIN j.publishers /\ j.publishers[x.id] = "input"
          /\ k.end = TypeError(x.id) /\ k.publishers = j.publishers
       \/ /\ k.end = Exit /\ Removes(x)
          /\ DOMAIN j.publishers = {x.id} /\ DOMAIN k.publishers = {}
  <2>1. x \in Message BY <1>10 DEF CallOf
  <2>2. x.method = "removeSubscriber" => x.id \in DOMAIN j.subscribers BY <1>8 DEF Adds
  <2> QED BY <1>2, <2>1, <2>2, HandleEffect DEF k
<1> QED BY <1>1, <1>5, <1>6, <1>8, <1>9, <1>10, <1>11 DEF q, j, x, k

\* A process that has ended has no calls; the others are as they were.
LEMMA EndKeeps ==
    ASSUME CallsInv, NEW e \in Erizos, NEW k, k.end # Running,
           erizo' = [erizo EXCEPT ![e] = k],
           calls' = [x \in Rooms |-> [calls[x] EXCEPT ![e] = <<>>]],
           UNCHANGED <<controller, begun>>,
           ProcessInv', InputsInv'
    PROVE  CallsInv'
<1>1. /\ DOMAIN erizo' = Erizos /\ erizo'[e] = k
      /\ \A d \in Erizos \ {e} : erizo'[d] = erizo[d] /\ (Up(d)' = Up(d))
      /\ ~Up(e)'
  BY DEF CallsInv, ProcessInv, Up
<1>2. \A x \in Rooms : /\ DOMAIN calls'[x] = Erizos /\ calls'[x][e] = <<>>
                       /\ \A d \in Erizos \ {e} : calls'[x][d] = calls[x][d]
  BY DEF CallsInv, QueuesInv
<1>3. <<>> \in Seq(Message) /\ \A i : i \notin 1 .. Len(<<>>) OBVIOUS
<1>4. ControllerInv' BY DEF CallsInv, ControllerInv, Keeps, StreamsOf
<1>5. QueuesInv'
  <2>1. ASSUME NEW x \in Rooms, NEW d \in Erizos
        PROVE  /\ calls'[x][d] \in Seq(Message)
               /\ ~Up(d)' => calls'[x][d] = <<>>
               /\ \A i \in 1 .. Len(calls'[x][d]) : CallOf(calls'[x][d][i], x, begun)
    <3>1. CASE d = e BY <1>2, <1>3, <3>1
    <3>2. CASE d # e
      <4>1. calls'[x][d] = calls[x][d] /\ (Up(d)' = Up(d)) BY <1>1, <1>2, <3>2
      <4> QED BY <4>1 DEF CallsInv, QueuesInv
    <3> QED BY <3>1, <3>2
  <2>2. DOMAIN calls' = Rooms OBVIOUS
  <2>3. begun' = begun OBVIOUS
  <2> QED BY <1>2, <2>1, <2>2, <2>3 DEF QueuesInv, CallOf, StreamsOf
<1>6. AgreementInv'
  <2>1. ASSUME NEW x \in Rooms, NEW d \in Erizos
        PROVE  Agrees(calls'[x][d], erizo'[d], erizo'[d].end = Running, controller[x], d)
    <3>1. CASE d = e
      <4>1. calls'[x][d] = <<>> /\ erizo'[d].end # Running BY <1>1, <1>2, <3>1
      <4>2. Agrees(<<>>, erizo'[d], FALSE, controller[x], d) BY AgreesEnded
      <4> QED BY <4>1, <4>2 DEF Agrees
    <3>2. CASE d # e
      <4>1. calls'[x][d] = calls[x][d] /\ erizo'[d] = erizo[d] BY <1>1, <1>2, <3>2
      <4> QED BY <4>1 DEF CallsInv, AgreementInv, Up
    <3> QED BY <3>1, <3>2
  <2>2. controller' = controller OBVIOUS
  <2> QED BY <2>1, <2>2 DEF AgreementInv, Up, Agrees, Orderly, Served, KnownAt,
                            SubscribedAt
<1> QED BY <1>4, <1>5, <1>6 DEF CallsInv

\* A process handles a call and goes on.
LEMMA DoneKeeps ==
    ASSUME CallsInv, NEW r \in Rooms, NEW e \in Erizos, NEW q, NEW j, NEW x, NEW k,
           q = calls[r][e], q # <<>>, j = erizo[e], x = Head(q), k = Handle(j, x),
           Effect(j, k, x), k.end = Running,
           erizo' = [erizo EXCEPT ![e] = k],
           calls' = [calls EXCEPT ![r][e] = Tail(@)],
           UNCHANGED <<controller, begun>>,
           ProcessInv'
    PROVE  CallsInv'
<1> DEFINE p == Tail(q)
<1>1. /\ DOMAIN erizo' = Erizos /\ erizo'[e] = k
      /\ \A d \in Erizos \ {e} : erizo'[d] = erizo[d]
  BY DEF CallsInv, ProcessInv
<1>2. /\ DOMAIN calls' = Rooms /\ calls'[r][e] = p
      /\ \A y \in Rooms : DOMAIN calls'[y] = Erizos
      /\ \A y \in Rooms, d \in Erizos : y # r \/ d # e => calls'[y][d] = calls[y][d]
  BY DEF CallsInv, QueuesInv
<1>3. /\ j.end = Running /\ Shifted(p, q) /\ x = q[1] /\ p \in Seq(Message)
      /\ 1 \in 1 .. Len(q) /\ CallOf(x, r, begun) /\ Orderly(p, k)
      /\ ~Adds(x) => x.id \in DOMAIN j.subscribers
  BY FirstCall DEF Up
<1> HIDE DEF p
<1>4. \A i \in 1 .. Len(p) : i + 1 \in 1 .. Len(q) /\ p[i] = q[i + 1]
  BY <1>3 DEF Shifted
<1>5. InputsInv'
  <2>1. ASSUME NEW d \in Erizos, NEW id \in Streams
        PROVE  /\ id \in DOMAIN erizo'[d].publishers /\ erizo'[d].publishers[id] = "input" =>
                     Kind[id] = "url"
               /\ erizo'[d].end = TypeError(id) => Kind[id] = "url"
    <3>1. CASE d = e
      <4>1. ASSUME id \in DOMAIN k.publishers, k.publishers[id] = "input"
            PROVE  Kind[id] = "url"
        <5>1. CASE id \in DOMAIN j.publishers /\ j.publishers[id] = "input"
          BY <5>1 DEF CallsInv, InputsInv
        <5>2. CASE x.method = "addExternalInput" /\ x.id = id
          BY <1>3, <5>2 DEF CallOf
        <5> QED BY <4>1, <5>1, <5>2 DEF Effect
      <4>2. k.end # TypeError(id) BY DEF Running, TypeError
      <4> QED BY <1>1, <3>1, <4>1, <4>2
    <3>2. CASE d # e BY <1>1, <3>2 DEF CallsInv, InputsInv
    <3> QED BY <3>1, <3>2
  <2> QED BY <2>1 DEF InputsInv
<1>6. ControllerInv' BY DEF CallsInv, ControllerInv, Keeps, StreamsOf
<1>7. \A d \in Erizos : Up(d)' = Up(d) BY <1>1, <1>3 DEF Up
<1>8. QueuesInv'
  <2>1. ASSUME NEW y \in Rooms, NEW d \in Erizos
        PROVE  /\ calls'[y][d] \in Seq(Message)
               /\ ~Up(d) => calls'[y][d] = <<>>
               /\ \A i \in 1 .. Len(calls'[y][d]) : CallOf(calls'[y][d][i], y, begun)
    <3>1. CASE y = r /\ d = e
      <4>1. \A i \in 1 .. Len(q) : CallOf(q[i], r, begun) BY DEF CallsInv, QueuesInv
      <4>2. \A i \in 1 .. Len(p) : CallOf(p[i], r, begun) BY <1>4, <4>1
      <4>3. Up(e) BY <1>3 DEF Up
      <4> QED BY <1>2, <1>3, <3>1, <4>2, <4>3
    <3>2. CASE y # r \/ d # e
      <4>1. calls'[y][d] = calls[y][d] BY <1>2, <3>2
      <4> QED BY <4>1 DEF CallsInv, QueuesInv
    <3> QED BY <3>1, <3>2
  <2>2. \A i, y : CallOf(i, y, begun) <=> CallOf(i, y, begun)'
    BY DEF CallOf, StreamsOf
  <2>3. DOMAIN calls' = Rooms /\ \A y \in Rooms : DOMAIN calls'[y] = Erizos
    BY <1>2 DEF CallsInv, QueuesInv
  <2> QED BY <1>7, <2>1, <2>2, <2>3 DEF QueuesInv
<1>9. ASSUME NEW y \in Rooms
      PROVE  Agrees(calls'[y][e], k, TRUE, controller[y], e)
  <2>1. Agrees(calls[y][e], j, TRUE, controller[y], e)
    BY <1>3 DEF CallsInv, AgreementInv, Up, Agrees
  <2>2. CASE y = r
    <3> DEFINE t == controller[r]
    <3>1. /\ \A i \in 1 .. Len(q) : Removes(q[i]) => q[i].id \notin DOMAIN t.publishers
          /\ \A id \in DOMAIN t.publishers : t.publishers[id] = e =>
                Served(q, j, id, t.subscribers[id])
      BY <2>1, <2>2 DEF Agrees
    <3> HIDE DEF t
    <3>2. \A i \in 1 .. Len(p) : Removes(p[i]) => p[i].id \notin DOMAIN t.publishers
      BY <1>4, <3>1
    <3>3. ASSUME NEW id \in DOMAIN t.publishers, t.publishers[id] = e
          PROVE  Served(p, k, id, t.subscribers[id])
      <4>1. ~(Removes(q[1]) /\ q[1].id = id) BY <1>3, <3>1
      <4>2. Served(q, j, id, t.subscribers[id]) BY <3>1, <3>3
      <4>3. /\ Len(q) + 1 \in Int /\ Len(q) + 1 > 1 /\ (Len(q) + 1) - 1 = Len(p) + 1
        BY <1>3 DEF Shifted
      <4>4. Effect(j, k, q[1]) /\ (~Adds(q[1]) => q[1].id \in DOMAIN j.subscribers)
        BY <1>3
      <4>5. KnownAt(p, k, id, (Len(q) + 1) - 1)
        BY <1>3, <4>1, <4>2, <4>3, <4>4, KnownShifts DEF Served
      <4>6. \A c \in t.subscribers[id] : SubscribedAt(p, k, id, c, (Len(q) + 1) - 1)
        BY <1>3, <4>1, <4>2, <4>3, <4>4, SubscribedShifts DEF Served
      <4> QED BY <4>3, <4>5, <4>6 DEF Served
    <3>4. Agrees(p, k, TRUE, t, e) BY <1>3, <3>2, <3>3 DEF Agrees
    <3> QED BY <1>2, <2>2, <3>4 DEF t
  <2>3. CASE y # r
    <3> DEFINE t == controller[y]
               z == calls[y][e]
    <3>1. calls'[y][e] = z BY <1>2, <2>3
    <3>2. \A i \in 1 .. Len(z) : z[i].id \in StreamsOf(y)
      BY DEF CallsInv, QueuesInv, CallOf
    <3>3. \A id \in DOMAIN t.publishers : id \in StreamsOf(y)
      BY DEF CallsInv, ControllerInv, Keeps
    <3>4. \A id \in StreamsOf(y) : id # x.id BY <1>3, <2>3, RoomsApart DEF CallOf
    <3> HIDE DEF t, z
    <3>5. Agrees(z, j, TRUE, t, e) BY <2>1 DEF t, z
    <3>6. Orderly(z, k) BY <3>2, <3>4, <3>5, OrderlyElsewhere DEF Agrees
    <3>7. \A id \in DOMAIN t.publishers :
              t.publishers[id] = e => Served(z, k, id, t.subscribers[id])
      BY <3>3, <3>4, <3>5, ServedElsewhere DEF Agrees
    <3>8. Agrees(z, k, TRUE, t, e) BY <3>5, <3>6, <3>7 DEF Agrees
    <3> QED BY <3>1, <3>8 DEF t
  <2> QED BY <2>2, <2>3
<1>10. AgreementInv'
  <2>1. ASSUME NEW y \in Rooms, NEW d \in Erizos
        PROVE  Agrees(calls'[y][d], erizo'[d], erizo'[d].end = Running, controller[y], d)
    <3>1. CASE d = e BY <1>1, <1>9, <3>1 DEF Agrees
    <3>2. CASE d # e
      <4>1. calls'[y][d] = calls[y][d] /\ erizo'[d] = erizo[d] BY <1>1, <1>2, <3>2
      <4> QED BY <4>1 DEF CallsInv, AgreementInv, Up
    <3> QED BY <3>1, <3>2
  <2>2. controller' = controller OBVIOUS
  <2> QED BY ONLY <2>1, <2>2 DEF AgreementInv, Up
<1> QED BY <1>5, <1>6, <1>8, <1>10 DEF CallsInv

LEMMA HandleCallKeeps ==
    ASSUME CallsInv, NEW r \in Rooms, NEW e \in Erizos, handle(r, e), ProcessInv'
    PROVE  CallsInv'
<1> DEFINE q == calls[r][e]
           j == erizo[e]
           x == Head(q)
           k == Handle(j, x)
<1>1. /\ q # <<>> /\ erizo' = [erizo EXCEPT ![e] = k]
      /\ calls' = CallsAfter(r, e, erizo'[e].end = Running)
      /\ UNCHANGED <<controller, begun>>
  BY DEF handle
<1>2. /\ erizo'[e] = k
      /\ \A d \in Erizos \ {e} : erizo'[d] = erizo[d]
  BY <1>1 DEF CallsInv, ProcessInv
<1> HIDE DEF q, j, x, k
<1>3. CASE Effect(j, k, x) /\ k.end = Running
  <2>1. calls' = [calls EXCEPT ![r][e] = Tail(@)] BY <1>1, <1>2, <1>3 DEF CallsAfter
  <2> QED BY <1>1, <1>3, <2>1, DoneKeeps DEF q, j, x, k
<1>4. CASE k.end # Running
  <2>1. calls' = [y \in Rooms |-> [calls[y] EXCEPT ![e] = <<>>]]
    BY <1>1, <1>2, <1>4 DEF CallsAfter
  <2>2. InputsInv'
    <3>1. \/ /\ x.id \in DOMAIN j.publishers /\ j.publishers[x.id] = "input"
             /\ k.end = TypeError(x.id) /\ k.publishers = j.publishers
          \/ k.end = Exit /\ DOMAIN k.publishers = {}
      BY <1>1, <1>4, FirstCall DEF q, j, x, k
    <3>2. x.id \in Streams
      <4>1. CallOf(x, r, begun) BY <1>1, FirstCall DEF q, x
      <4> QED BY <4>1 DEF CallOf, StreamsOf
    <3>3. ASSUME NEW id \in Streams
          PROVE  /\ id \in DOMAIN k.publishers /\ k.publishers[id] = "input" =>
                       Kind[id] = "url"
                 /\ k.end = TypeError(id) => Kind[id] = "url"
      <4>1. \A i \in Streams : i \in DOMAIN j.publishers /\ j.publishers[i] = "input" =>
                Kind[i] = "url"
        BY DEF CallsInv, InputsInv, j
      <4>2. TypeError(x.id) = TypeError(id) => x.id = id BY DEF TypeError
      <4>3. Exit # TypeError(id) BY DEF Exit, TypeError
      <4> QED BY <3>1, <3>2, <4>1, <4>2, <4>3
    <3> QED BY <1>2, <3>3 DEF CallsInv, InputsInv
  <2> QED BY <1>1, <1>4, <2>1, <2>2, EndKeeps
<1>5. (Effect(j, k, x) /\ k.end = Running) \/ k.end # Running
  <2>1. \/ Effect(j, k, x) /\ k.end = Running
        \/ k.end = TypeError(x.id)
        \/ k.end = Exit
    BY <1>1, FirstCall DEF q, j, x, k
  <2>2. TypeError(x.id) # Running /\ Exit # Running BY DEF TypeError, Running, Exit
  <2> QED BY <2>1, <2>2
<1> QED BY <1>3, <1>4, <1>5

LEMMA KilledKeeps ==
    ASSUME CallsInv, NEW e \in Erizos, killed(e), ProcessInv'
    PROVE  CallsInv'
<1> DEFINE k == [erizo[e] EXCEPT !.end = Killed]
<1>1. /\ erizo' = [erizo EXCEPT ![e] = k]
      /\ calls' = [y \in Rooms |-> [calls[y] EXCEPT ![e] = <<>>]]
      /\ UNCHANGED <<controller, begun>>
  BY DEF killed
<1>2. k.end = Killed /\ k.publishers = erizo[e].publishers
  BY DEF CallsInv, ProcessInv, Fields
<1> HIDE DEF k
<1>3. /\ erizo'[e] = k
      /\ \A d \in Erizos \ {e} : erizo'[d] = erizo[d]
  BY <1>1 DEF CallsInv, ProcessInv
<1>4. Killed # Running /\ \A id : Killed # TypeError(id)
  BY DEF Killed, Running, TypeError
<1>5. InputsInv' BY <1>2, <1>3, <1>4 DEF CallsInv, InputsInv
<1> QED BY <1>1, <1>2, <1>4, <1>5, EndKeeps

-----------------------------------------------------------------------------
LEMMA InitCalls == Init => CallsInv
<1> SUFFICES ASSUME Init PROVE CallsInv OBVIOUS
<1>1. ProcessInv BY InitProcesses
<1>2. /\ \A r \in Rooms : controller[r] = NewController
      /\ DOMAIN controller = Rooms /\ DOMAIN calls = Rooms
      /\ \A r \in Rooms : DOMAIN calls[r] = Erizos
      /\ \A r \in Rooms, e \in Erizos : calls[r][e] = <<>>
      /\ \A e \in Erizos : erizo[e] = NewErizoJS
      /\ begun = {}
  BY DEF Init
<1>3. DOMAIN <<>> = {} /\ Len(<<>>) = 0 /\ <<>> \in Seq(Message) OBVIOUS
<1>4. ControllerInv
  <2>1. IsFiniteSet(begun) BY <1>2, FS_EmptySet
  <2>2. \A r \in Rooms : Keeps(controller[r], r, begun)
    BY <1>2, <1>3 DEF Keeps, NewController, ControllerFields
  <2> QED BY <1>2, <2>1, <2>2 DEF ControllerInv
<1>5. InputsInv
  <2>1. DOMAIN NewErizoJS.publishers = {} /\ NewErizoJS.end = Running
    BY <1>3 DEF NewErizoJS
  <2>2. \A id : Running # TypeError(id) BY DEF Running, TypeError
  <2> QED BY <1>2, <2>1, <2>2 DEF InputsInv
<1>6. QueuesInv BY <1>2, <1>3, None DEF QueuesInv
<1>7. AgreementInv
  <2>1. \A r \in Rooms : DOMAIN controller[r].publishers = {}
    BY <1>2, <1>3 DEF NewController
  <2> QED BY <1>2, <2>1, None DEF AgreementInv, Agrees, Orderly
<1> QED BY <1>1, <1>4, <1>5, <1>6, <1>7 DEF CallsInv

LEMMA NextCalls == CallsInv /\ [Next]_vars => CallsInv'
<1> SUFFICES ASSUME CallsInv, [Next]_vars PROVE CallsInv' OBVIOUS
<1>0. ProcessInv' BY NextProcesses DEF CallsInv
<1>1. CASE UNCHANGED vars
  BY <1>1 DEF vars, CallsInv, ProcessInv, Up, Consistent, Held, ControllerInv, Keeps,
              StreamsOf, InputsInv, QueuesInv, CallOf, AgreementInv, Agrees, Orderly,
              Served, KnownAt, SubscribedAt
<1>2. ASSUME NEW r \in Rooms, NEW id \in Streams, NEW e \in Erizos, publish(r, id, e)
      PROVE  CallsInv'
  BY <1>2, PublishKeeps
<1>3. ASSUME NEW r \in Rooms, NEW id \in Streams, unpublish(r, id) PROVE CallsInv'
  BY <1>3, UnpublishKeeps
<1>4. ASSUME NEW r \in Rooms, NEW c \in ClientsOf(r), leave(r, c) PROVE CallsInv'
  BY <1>4, LeaveKeeps
<1>5. ASSUME NEW r \in Rooms, NEW c \in ClientsOf(r), NEW id \in Streams,
             subscribe(r, c, id) \/ unsubscribe(r, c, id) \/ signal(r, c, id)
      PROVE  CallsInv'
  BY <1>5, SubscribeKeeps, UnsubscribeKeeps, SignalKeeps
<1>6. ASSUME NEW r \in Rooms, NEW id \in Streams, NEW rec \in Recordings,
             startRecorder(r, id, rec)
      PROVE  CallsInv'
  BY <1>6, RecorderKeeps
<1>7. ASSUME NEW r \in Rooms, NEW rec \in Recordings, stopRecorder(r, rec)
      PROVE  CallsInv'
  BY <1>7, RecorderKeeps
<1>8. ASSUME NEW r \in Rooms, NEW e \in Erizos, handle(r, e) PROVE CallsInv'
  BY <1>0, <1>8, HandleCallKeeps
<1>9. ASSUME NEW e \in Erizos, killed(e) PROVE CallsInv'
  BY <1>0, <1>9, KilledKeeps
<1> QED BY <1>1, <1>2, <1>3, <1>4, <1>5, <1>6, <1>7, <1>8, <1>9 DEF Next

\* CallsInv is an invariant of any rooms and the processes they share.
THEOREM CallsInvariant == Spec => []CallsInv
BY InitCalls, NextCalls, PTL DEF Spec

\* No unsubscription, subscription or offer, in any order that the rooms can send
\* them, makes rpcPublic read the list of a publisher it does not have: the only
\* exceptions that end a process are those of external inputs.
THEOREM StreamsNeverThrow == Spec => []OnlyInputsThrow
<1>1. CallsInv => OnlyInputsThrow BY DEF CallsInv, InputsInv, OnlyInputsThrow
<1> QED BY <1>1, CallsInvariant, PTL

\* The offer of a client that its controller listed when it was sent reaches the
\* client's own connection, whatever was sent before it.
THEOREM OffersFindTheirPeer == Spec => []SignalingFindsItsPeer
<1>1. CallsInv => SignalingFindsItsPeer
  <2> SUFFICES ASSUME CallsInv, NEW r \in Rooms, NEW e \in Erizos, calls[r][e] # <<>>,
                      Listed(Head(calls[r][e]))
               PROVE  LET call == Head(calls[r][e])
                      IN  call.peer \in erizo[e].subscribers[call.id]
    BY DEF SignalingFindsItsPeer, Listed
  <2> DEFINE q == calls[r][e]
             j == erizo[e]
  <2>1. Head(q) = q[1] /\ 1 \in 1 .. Len(q) BY FirstCall
  <2>2. Orderly(q, j) BY DEF CallsInv, AgreementInv, Agrees
  <2>3. Len(q) \in Nat BY DEF CallsInv, QueuesInv
  <2>4. Listed(q[1]) BY <2>1
  <2> HIDE DEF q, j
  <2>5. SubscribedAt(q, j, q[1].id, q[1].peer, 1) BY <2>1, <2>2, <2>4 DEF Orderly
  <2>6. ~ \E k \in 1 .. Len(q) : k < 1 BY <2>3
  <2>7. q[1].peer \in j.subscribers[q[1].id] BY <2>5, <2>6 DEF SubscribedAt
  <2> QED BY <2>1, <2>7 DEF q, j
<1> QED BY <1>1, CallsInvariant, PTL

\* A process that exits with its last publisher takes along nothing that a controller
\* has on it, except publishers it was asked for and has not heard of yet.
THEOREM LastPublisherTakesNothing == Spec => ExitLosesNothing
<1> DEFINE Loses == \A e \in Erizos :
                        Up(e) /\ erizo'[e].end = Exit =>
                            \A r \in Rooms, id \in Streams :
                                Carries(r, e, id) => Asked(r, e, id)
<1>1. CallsInv /\ [Next]_vars => Loses
  <2> SUFFICES ASSUME CallsInv, [Next]_vars, NEW e \in Erizos, Up(e),
                      erizo'[e].end = Exit, NEW s \in Rooms, NEW id \in Streams,
                      Carries(s, e, id)
               PROVE  Asked(s, e, id)
    OBVIOUS
  <2>0. Running # Exit /\ Killed # Exit /\ \A i : TypeError(i) # Exit
    BY DEF Running, Exit, Killed, TypeError
  <2>1. PICK r \in Rooms : handle(r, e)
    <3>1. erizo' # erizo BY <2>0 DEF Up
    <3>2. ~killed(e)
      <4> SUFFICES ASSUME killed(e) PROVE FALSE OBVIOUS
      <4>1. erizo'[e].end = Killed BY DEF killed, CallsInv, ProcessInv, Fields
      <4> QED BY <2>0, <4>1
    <3>3. \A d \in Erizos : d # e => ~killed(d)
      <4> SUFFICES ASSUME NEW d \in Erizos, d # e, killed(d) PROVE FALSE OBVIOUS
      <4>1. erizo'[e] = erizo[e] BY DEF killed, CallsInv, ProcessInv
      <4> QED BY <2>0, <4>1 DEF Up
    <3>4. \A r \in Rooms, d \in Erizos : d # e => ~handle(r, d)
      <4> SUFFICES ASSUME NEW r \in Rooms, NEW d \in Erizos, d # e, handle(r, d)
                   PROVE  FALSE
        OBVIOUS
      <4>1. erizo'[e] = erizo[e] BY DEF handle, CallsInv, ProcessInv
      <4> QED BY <2>0, <4>1 DEF Up
    <3> QED BY ZenonT(60), <3>1, <3>2, <3>3, <3>4
            DEF Next, vars, publish, subscribe, unsubscribe, leave, unpublish, signal,
                startRecorder, stopRecorder
  <2> DEFINE q == calls[r][e]
             j == erizo[e]
             x == Head(q)
             k == Handle(j, x)
  <2>2. q # <<>> /\ erizo'[e] = k BY <2>1 DEF handle, CallsInv, ProcessInv
  <2> HIDE DEF q, j, x, k
  <2>3. Removes(x) /\ DOMAIN j.publishers = {x.id}
    BY <2>0, <2>2, FirstCall DEF q, j, x, k
  <2>4. CallOf(x, r, begun) /\ x = q[1] /\ 1 \in 1 .. Len(q)
    BY <2>2, FirstCall DEF q, x
  <2>5. x.id \notin DOMAIN controller[r].publishers
    BY <2>3, <2>4 DEF CallsInv, AgreementInv, Agrees, q
  <2>6. DOMAIN j.subscribers = {x.id}
    BY <2>3 DEF CallsInv, ProcessInv, Consistent, j
  <2>7. id \in DOMAIN controller[s].publishers /\ id \in StreamsOf(s)
    BY DEF Carries, CallsInv, ControllerInv, Keeps
  <2>8. id \notin DOMAIN j.subscribers
    <3> SUFFICES ASSUME id = x.id PROVE FALSE BY <2>6
    <3>1. s = r BY <2>4, <2>7, RoomsApart DEF CallOf
    <3> QED BY <2>5, <2>7, <3>1
  <2> DEFINE z == calls[s][e]
  <2>9. Served(z, j, id, controller[s].subscribers[id])
    BY DEF Carries, Serving, CallsInv, AgreementInv, Agrees, j
  <2>10. z \in Seq(Message) BY DEF CallsInv, QueuesInv
  <2> HIDE DEF z
  <2>11. \E i \in 1 .. Len(z) : Adds(z[i]) /\ z[i].id = id
    BY <2>8, <2>9 DEF Served, KnownAt
  <2>12. DOMAIN z = 1 .. Len(z) BY <2>10
  <2> QED BY <2>11, <2>12 DEF Asked, Adds, z
<1>2. CallsInv /\ [Next]_vars => [Loses]_vars BY <1>1
<1>3. Spec => [][Loses]_vars BY CallsInvariant, <1>2, PTL DEF Spec
<1> QED BY <1>3 DEF ExitLosesNothing

-----------------------------------------------------------------------------
\* Maps, and what assignments and deletions make of them.
LEMMA MapsAre ==
    ASSUME NEW S, NEW T, NEW f
    PROVE  f \in Maps(S, T) <=>
              /\ f = [x \in DOMAIN f |-> f[x]] /\ DOMAIN f \subseteq S
              /\ \A x \in DOMAIN f : f[x] \in T
<1>1. ASSUME f \in Maps(S, T)
      PROVE  /\ f = [x \in DOMAIN f |-> f[x]] /\ DOMAIN f \subseteq S
             /\ \A x \in DOMAIN f : f[x] \in T
  <2>1. PICK D \in SUBSET S : f \in [D -> T] BY <1>1 DEF Maps
  <2> QED BY <2>1
<1>2. ASSUME f = [x \in DOMAIN f |-> f[x]], DOMAIN f \subseteq S,
             \A x \in DOMAIN f : f[x] \in T
      PROVE  f \in Maps(S, T)
  <2>1. f \in [DOMAIN f -> T] BY <1>2
  <2> QED BY <1>2, <2>1 DEF Maps
<1> QED BY <1>1, <1>2

LEMMA EmptyMap == \A S, T : <<>> \in Maps(S, T)
<1> TAKE S, T
<1>1. <<>> = [x \in DOMAIN <<>> |-> <<>>[x]] /\ DOMAIN <<>> = {} OBVIOUS
<1> QED BY <1>1, MapsAre

LEMMA WithMap ==
    ASSUME NEW S, NEW T, NEW f \in Maps(S, T), NEW x \in S, NEW y \in T
    PROVE  With(f, x, y) \in Maps(S, T)
<1> DEFINE g == With(f, x, y)
<1>1. DOMAIN f \subseteq S /\ \A z \in DOMAIN f : f[z] \in T BY MapsAre
<1>2. DOMAIN g = DOMAIN f \cup {x} /\ g = [z \in DOMAIN g |-> g[z]] BY DEF With
<1>3. \A z \in DOMAIN g : g[z] = IF z = x THEN y ELSE f[z] BY DEF With
<1> HIDE DEF g
<1>4. DOMAIN g \subseteq S /\ \A z \in DOMAIN g : g[z] \in T BY <1>1, <1>2, <1>3
<1> QED BY <1>2, <1>4, MapsAre DEF g

LEMMA WithoutMap ==
    ASSUME NEW S, NEW T, NEW f \in Maps(S, T), NEW x
    PROVE  Without(f, x) \in Maps(S, T)
<1> DEFINE g == Without(f, x)
<1>1. DOMAIN f \subseteq S /\ \A z \in DOMAIN f : f[z] \in T BY MapsAre
<1>2. DOMAIN g = DOMAIN f \ {x} /\ g = [z \in DOMAIN g |-> g[z]] BY DEF Without
<1>3. \A z \in DOMAIN g : g[z] = f[z] BY DEF Without
<1> HIDE DEF g
<1>4. DOMAIN g \subseteq S /\ \A z \in DOMAIN g : g[z] \in T BY <1>1, <1>2, <1>3
<1> QED BY <1>2, <1>4, MapsAre DEF g

LEMMA ExceptMap ==
    ASSUME NEW S, NEW T, NEW f \in Maps(S, T), NEW x, NEW y \in T
    PROVE  [f EXCEPT ![x] = y] \in Maps(S, T)
<1> DEFINE g == [f EXCEPT ![x] = y]
<1>1. DOMAIN f \subseteq S /\ \A z \in DOMAIN f : f[z] \in T BY MapsAre
<1>2. DOMAIN g = DOMAIN f /\ g = [z \in DOMAIN g |-> g[z]] OBVIOUS
<1>3. \A z \in DOMAIN g : g[z] = y \/ g[z] = f[z] OBVIOUS
<1> HIDE DEF g
<1>4. DOMAIN g \subseteq S /\ \A z \in DOMAIN g : g[z] \in T BY <1>1, <1>2, <1>3
<1> QED BY <1>2, <1>4, MapsAre DEF g

-----------------------------------------------------------------------------
\* What a process has is of the types of TypeOK.
Ends == {Running, Exit, Killed} \cup {TypeError(id) : id \in Streams}
Connections == (Streams \X Clients) \cup {<<id>> : id \in Streams}

Typed(j) ==
    /\ j.publishers \in Maps(Streams, {"wrtc", "input"})
    /\ j.subscribers \in Maps(Streams, SUBSET Clients)
    /\ j.outputs \in Maps(Recordings, Streams)
    /\ j.open \in SUBSET Connections
    /\ j.end \in Ends

\* The recording of a call, and the peers that calls name.
OfRecording(x) == x.method \in {"addExternalOutput", "removeExternalOutput"}
PeerOf(x) ==
    /\ x.method = "addSubscriber" => x.peer \in Clients
    /\ OfRecording(x) => x.peer \in Recordings

LEMMA TypedFields ==
    ASSUME NEW j, NEW k, Typed(j), DOMAIN j = Fields,
           k.publishers \in Maps(Streams, {"wrtc", "input"}),
           k.subscribers \in Maps(Streams, SUBSET Clients),
           k.outputs \in Maps(Recordings, Streams),
           \A o \in k.open : o \in j.open \/ o \in Connections,
           k.end = j.end \/ k.end \in Ends
    PROVE  Typed(k)
BY DEF Typed

LEMMA AddTyped ==
    ASSUME NEW j, NEW id \in Streams, Typed(j), DOMAIN j = Fields
    PROVE  Typed(addPublisher(j, id)) /\ Typed(addExternalInput(j, id))
<1>1. CASE id \in DOMAIN j.publishers BY <1>1 DEF addPublisher, addExternalInput
<1>2. CASE id \notin DOMAIN j.publishers
  <2> DEFINE a == addPublisher(j, id)
             b == addExternalInput(j, id)
  <2>1. /\ a.publishers = With(j.publishers, id, "wrtc") /\ a.outputs = j.outputs
        /\ a.subscribers = With(j.subscribers, id, {}) /\ a.end = j.end
        /\ a.open = j.open \cup {<<id>>}
    BY <1>2 DEF addPublisher, Fields
  <2>2. /\ b.publishers = With(j.publishers, id, "input") /\ b.outputs = j.outputs
        /\ b.subscribers = With(j.subscribers, id, {}) /\ b.end = j.end
        /\ b.open = j.open
    BY <1>2 DEF addExternalInput, Fields
  <2> HIDE DEF a, b
  <2>3. /\ \A kind \in {"wrtc", "input"} :
              With(j.publishers, id, kind) \in Maps(Streams, {"wrtc", "input"})
        /\ With(j.subscribers, id, {}) \in Maps(Streams, SUBSET Clients)
    BY WithMap DEF Typed
  <2>4. <<id>> \in Connections BY DEF Connections
  <2> QED BY <2>1, <2>2, <2>3, <2>4 DEF Typed, a, b
<1> QED BY <1>1, <1>2

LEMMA SubscribersTyped ==
    ASSUME NEW j, NEW id \in Streams, Typed(j), DOMAIN j = Fields
    PROVE  /\ \A c \in Clients : Typed(addSubscriber(j, c, id))
           /\ \A c : Typed(removeSubscriber(j, c, id))
<1>1. TypeError(id) \in Ends BY DEF Ends
<1>2. /\ j.subscribers \in Maps(Streams, SUBSET Clients)
      /\ j.open \subseteq Connections
  BY DEF Typed
<1>3. \A i \in DOMAIN j.subscribers : j.subscribers[i] \subseteq Clients
  BY <1>2, MapsAre
<1>4. Typed([j EXCEPT !.end = TypeError(id)]) BY <1>1 DEF Typed, Fields
<1>5. ASSUME NEW c \in Clients PROVE Typed(addSubscriber(j, c, id))
  <2>1. CASE \/ id \notin DOMAIN j.publishers \/ id \notin DOMAIN j.subscribers
             \/ c \in j.subscribers[id]
    BY <1>4, <2>1 DEF addSubscriber
  <2>2. CASE /\ id \in DOMAIN j.publishers /\ id \in DOMAIN j.subscribers
             /\ c \notin j.subscribers[id]
    <3> DEFINE k == addSubscriber(j, c, id)
               to == j.subscribers[id] \cup {c}
    <3>1. /\ k.publishers = j.publishers /\ k.outputs = j.outputs /\ k.end = j.end
          /\ k.subscribers = [j.subscribers EXCEPT ![id] = to]
          /\ k.open = j.open \cup {<<id, c>>}
      BY <2>2 DEF addSubscriber, Fields
    <3>2. to \in SUBSET Clients BY <1>3, <2>2
    <3> HIDE DEF k, to
    <3>3. [j.subscribers EXCEPT ![id] = to] \in Maps(Streams, SUBSET Clients)
      BY <1>2, <3>2, ExceptMap
    <3>4. <<id, c>> \in Connections BY DEF Connections
    <3> QED BY <3>1, <3>3, <3>4 DEF Typed, k
  <2> QED BY <2>1, <2>2
<1>6. ASSUME NEW c PROVE Typed(removeSubscriber(j, c, id))
  <2>1. CASE id \notin DOMAIN j.subscribers \/ c \notin j.subscribers[id]
    BY <1>4, <2>1 DEF removeSubscriber
  <2>2. CASE id \in DOMAIN j.subscribers /\ c \in j.subscribers[id]
    <3> DEFINE k == removeSubscriber(j, c, id)
               to == j.subscribers[id] \ {c}
    <3>1. /\ k.publishers = j.publishers /\ k.outputs = j.outputs /\ k.end = j.end
          /\ k.subscribers = [j.subscribers EXCEPT ![id] = to]
          /\ k.open = j.open \ {<<id, c>>}
      BY <2>2 DEF removeSubscriber, Fields
    <3>2. to \in SUBSET Clients BY <1>3, <2>2
    <3> HIDE DEF k, to
    <3>3. [j.subscribers EXCEPT ![id] = to] \in Maps(Streams, SUBSET Clients)
      BY <1>2, <3>2, ExceptMap
    <3> QED BY <3>1, <3>3 DEF Typed, k
  <2> QED BY <2>1, <2>2
<1> QED BY <1>5, <1>6

LEMMA RemoveTyped ==
    ASSUME NEW j, NEW id \in Streams, Typed(j), DOMAIN j = Fields
    PROVE  Typed(removePublisher(j, id))
<1> DEFINE k == removePublisher(j, id)
<1>1. TypeError(id) \in Ends /\ Exit \in Ends BY DEF Ends
<1>2. CASE id \notin DOMAIN j.publishers \cap DOMAIN j.subscribers
  BY <1>2 DEF removePublisher
<1>3. CASE /\ id \in DOMAIN j.publishers \cap DOMAIN j.subscribers
           /\ j.publishers[id] = "input"
  <2>1. /\ k.publishers = j.publishers /\ k.outputs = j.outputs
        /\ k.subscribers = j.subscribers /\ k.open \subseteq j.open
        /\ k.end = TypeError(id)
    BY <1>3 DEF removePublisher, Fields
  <2> HIDE DEF k
  <2> QED BY <1>1, <2>1 DEF Typed, k
<1>4. CASE /\ id \in DOMAIN j.publishers \cap DOMAIN j.subscribers
           /\ j.publishers[id] # "input"
  <2>1. /\ k.publishers = Without(j.publishers, id) /\ k.outputs = j.outputs
        /\ k.subscribers = Without(j.subscribers, id) /\ k.open \subseteq j.open
        /\ k.end = j.end \/ k.end = Exit
    BY <1>4 DEF removePublisher, Fields
  <2> HIDE DEF k
  <2>2. /\ Without(j.publishers, id) \in Maps(Streams, {"wrtc", "input"})
        /\ Without(j.subscribers, id) \in Maps(Streams, SUBSET Clients)
    BY WithoutMap DEF Typed
  <2> QED BY <1>1, <2>1, <2>2 DEF Typed, k
<1> QED BY <1>2, <1>3, <1>4

LEMMA OthersTyped ==
    ASSUME NEW j, NEW id \in Streams, Typed(j), DOMAIN j = Fields
    PROVE  /\ \A c : Typed(processSignaling(j, c, id))
           /\ \A rec \in Recordings : Typed(addExternalOutput(j, id, rec))
           /\ \A rec : Typed(removeExternalOutput(j, id, rec))
<1>1. TypeError(id) \in Ends BY DEF Ends
<1>2. Typed([j EXCEPT !.end = TypeError(id)]) BY <1>1 DEF Typed, Fields
<1>3. ASSUME NEW m \in Maps(Recordings, Streams) PROVE Typed([j EXCEPT !.outputs = m])
  BY DEF Typed, Fields
<1>4. \A c : Typed(processSignaling(j, c, id)) BY <1>2 DEF processSignaling
<1>5. ASSUME NEW rec \in Recordings PROVE Typed(addExternalOutput(j, id, rec))
  <2>1. With(j.outputs, rec, id) \in Maps(Recordings, Streams) BY WithMap DEF Typed
  <2> QED BY <1>3, <2>1 DEF addExternalOutput
<1>6. ASSUME NEW rec PROVE Typed(removeExternalOutput(j, id, rec))
  <2>1. Without(j.outputs, rec) \in Maps(Recordings, Streams) BY WithoutMap DEF Typed
  <2> QED BY <1>3, <2>1 DEF removeExternalOutput
<1> QED BY <1>4, <1>5, <1>6

LEMMA HandleTyped ==
    ASSUME NEW j, NEW x, Typed(j), DOMAIN j = Fields, x.id \in Streams, PeerOf(x)
    PROVE  Typed(Handle(j, x))
<1> DEFINE c == x.peer
           id == x.id
<1>1. Typed(addPublisher(j, id)) /\ Typed(addExternalInput(j, id)) BY AddTyped
<1>2. x.method = "addSubscriber" => Typed(addSubscriber(j, c, id))
  BY SubscribersTyped DEF PeerOf
<1>3. Typed(removeSubscriber(j, c, id)) BY SubscribersTyped
<1>4. Typed(removePublisher(j, id)) BY RemoveTyped
<1>5. /\ Typed(processSignaling(j, c, id))
      /\ x.method = "addExternalOutput" => Typed(addExternalOutput(j, id, c))
      /\ Typed(removeExternalOutput(j, id, c))
  BY OthersTyped DEF PeerOf, OfRecording
<1> QED BY <1>1, <1>2, <1>3, <1>4, <1>5 DEF Handle

-----------------------------------------------------------------------------
\* A controller in state t of the room r has the types of TypeOK.
Shaped(t, r) ==
    /\ t.publishers \in Maps(StreamsOf(r), Erizos)
    /\ t.subscribers \in Maps(StreamsOf(r), SUBSET ClientsOf(r))
    /\ t.thrown = FALSE

LEMMA AddPublisherShaped ==
    ASSUME NEW t, NEW r, Shaped(t, r), DOMAIN t = ControllerFields,
           NEW id \in StreamsOf(r), NEW e \in Erizos
    PROVE  Shaped(AddPublisher(t, id, e), r)
<1> DEFINE v == TrackErizo(t, e)
           u == AddPublisher(t, id, e)
<1>1. /\ DOMAIN v = ControllerFields /\ v.thrown = t.thrown
      /\ v.publishers = t.publishers /\ v.subscribers = t.subscribers
  BY DEF TrackErizo, ControllerFields
<1>2. u = [v EXCEPT !.publishers = With(@, id, e),
                    !.subscribers = With(@, id, {}),
                    !.erizos[e].publishers = Append(@, id)]
  BY DEF AddPublisher
<1> HIDE DEF v, u
<1>3. /\ u.publishers = With(t.publishers, id, e)
      /\ u.subscribers = With(t.subscribers, id, {}) /\ u.thrown = t.thrown
  BY <1>1, <1>2 DEF ControllerFields
<1>4. /\ With(t.publishers, id, e) \in Maps(StreamsOf(r), Erizos)
      /\ With(t.subscribers, id, {}) \in Maps(StreamsOf(r), SUBSET ClientsOf(r))
  BY WithMap DEF Shaped
<1> QED BY <1>3, <1>4 DEF Shaped, u

LEMMA SubscribersShaped ==
    ASSUME NEW t, NEW r, Shaped(t, r), DOMAIN t = ControllerFields
    PROVE  /\ \A id, c : c \in ClientsOf(r) /\ id \in DOMAIN t.subscribers =>
                 Shaped(AddSubscriber(t, c, id), r)
           /\ \A id, c : id \in DOMAIN t.subscribers => Shaped(RemoveSubscriber(t, c, id), r)
           /\ \A c : Shaped(RemoveSubscriptions(t, c), r)
<1>1. t.subscribers \in Maps(StreamsOf(r), SUBSET ClientsOf(r)) BY DEF Shaped
<1>2. \A id \in DOMAIN t.subscribers : t.subscribers[id] \subseteq ClientsOf(r)
  BY <1>1, MapsAre
<1>3. ASSUME NEW m \in Maps(StreamsOf(r), SUBSET ClientsOf(r))
      PROVE  Shaped([t EXCEPT !.subscribers = m], r)
  BY DEF Shaped, ControllerFields
<1>4. ASSUME NEW id \in DOMAIN t.subscribers, NEW to \in SUBSET ClientsOf(r)
      PROVE  Shaped([t EXCEPT !.subscribers[id] = to], r)
  <2>1. [t.subscribers EXCEPT ![id] = to] \in Maps(StreamsOf(r), SUBSET ClientsOf(r))
    BY <1>1, ExceptMap
  <2>2. [t EXCEPT !.subscribers[id] = to] =
            [t EXCEPT !.subscribers = [t.subscribers EXCEPT ![id] = to]]
    OBVIOUS
  <2> QED BY <1>3, <2>1, <2>2
<1>5. ASSUME NEW id \in DOMAIN t.subscribers, NEW c \in ClientsOf(r)
      PROVE  Shaped(AddSubscriber(t, c, id), r)
  <2>1. t.subscribers[id] \cup {c} \in SUBSET ClientsOf(r) BY <1>2
  <2>2. Shaped([t EXCEPT !.subscribers[id] = t.subscribers[id] \cup {c}], r) BY <1>4, <2>1
  <2> QED BY <2>2 DEF AddSubscriber
<1>6. ASSUME NEW id \in DOMAIN t.subscribers, NEW c
      PROVE  Shaped(RemoveSubscriber(t, c, id), r)
  <2>1. t.subscribers[id] \ {c} \in SUBSET ClientsOf(r) BY <1>2
  <2>2. Shaped([t EXCEPT !.subscribers[id] = t.subscribers[id] \ {c}], r) BY <1>4, <2>1
  <2> QED BY <2>2 DEF RemoveSubscriber
<1>7. ASSUME NEW c PROVE Shaped(RemoveSubscriptions(t, c), r)
  <2> DEFINE m == [id \in DOMAIN t.subscribers |-> t.subscribers[id] \ {c}]
  <2>1. DOMAIN m \subseteq StreamsOf(r) BY <1>1, MapsAre
  <2>2. \A id \in DOMAIN m : m[id] \in SUBSET ClientsOf(r) BY <1>2
  <2>3. m = [id \in DOMAIN m |-> m[id]] OBVIOUS
  <2>4. RemoveSubscriptions(t, c) = [t EXCEPT !.subscribers = m] BY DEF RemoveSubscriptions
  <2> HIDE DEF m
  <2>5. m \in Maps(StreamsOf(r), SUBSET ClientsOf(r)) BY <2>1, <2>2, <2>3, MapsAre
  <2> QED BY <1>3, <2>4, <2>5
<1> QED BY <1>5, <1>6, <1>7

LEMMA RemovePublisherShaped ==
    ASSUME NEW t, NEW r, NEW known, Shaped(t, r), Keeps(t, r, known),
           NEW id \in DOMAIN t.publishers
    PROVE  Shaped(RemovePublisher(t, id), r)
<1> DEFINE u == RemovePublisher(t, id)
<1>1. /\ id \in DOMAIN t.publishers \cap DOMAIN t.subscribers
      /\ t.publishers[id] \in DOMAIN t.erizos /\ DOMAIN t = ControllerFields
  BY DEF Keeps
<1>2. /\ u.publishers = Without(t.publishers, id)
      /\ u.subscribers = Without(t.subscribers, id) /\ u.thrown = t.thrown
  BY <1>1 DEF RemovePublisher, ControllerFields
<1> HIDE DEF u
<1>3. /\ Without(t.publishers, id) \in Maps(StreamsOf(r), Erizos)
      /\ Without(t.subscribers, id) \in Maps(StreamsOf(r), SUBSET ClientsOf(r))
  BY WithoutMap DEF Shaped
<1> QED BY <1>2, <1>3 DEF Shaped, u

-----------------------------------------------------------------------------
\* Whose a recording is: that of the room whose controller has it, asked for it,
\* or has the publisher that is recorded.
Uses(r, rec) ==
    \/ rec \in DOMAIN externalOutputs[r]
    \/ \E e \in Erizos : \E i \in 1 .. Len(calls[r][e]) :
          OfRecording(calls[r][e][i]) /\ calls[r][e][i].peer = rec
    \/ \E e \in Erizos : rec \in DOMAIN erizo[e].outputs /\ erizo[e].outputs[rec] \in StreamsOf(r)

RecordingsInv ==
    \A r \in Rooms : \A rec : Uses(r, rec) =>
        rec \in begun /\ \A s \in Rooms : Uses(s, rec) => s = r

ShapeInv ==
    /\ DOMAIN externalOutputs = Rooms
    /\ \A r \in Rooms :
          /\ Shaped(controller[r], r)
          /\ externalOutputs[r] \in Maps(Recordings, StreamsOf(r) \cap begun)
          /\ \A e \in Erizos : \A i \in 1 .. Len(calls[r][e]) : PeerOf(calls[r][e][i])
    /\ \A e \in Erizos : Typed(erizo[e])
    /\ begun \subseteq Streams \cup Recordings

\* What a process has of a room is seen as v: its publishers, the subscribers of
\* each, and the publisher each recording is of, if any. Here of the process j.
Shows(v, j, r) ==
    /\ v.pubs = DOMAIN j.publishers \cap StreamsOf(r)
    /\ \A id \in v.pubs : v.subs[id] = j.subscribers[id]
    /\ \A rec \in Recordings :
          v.recs[rec] = {id \in StreamsOf(r) : rec \in DOMAIN j.outputs /\ id = j.outputs[rec]}

\* w is v after the call x.
Tells(v, x, w) ==
    /\ w.pubs = IF Adds(x) THEN v.pubs \cup {x.id}
                ELSE IF Removes(x) THEN v.pubs \ {x.id} ELSE v.pubs
    /\ \A id \in w.pubs :
          w.subs[id] = IF id \notin v.pubs THEN {}
                       ELSE IF id = x.id /\ x.method = "addSubscriber"
                         THEN v.subs[id] \cup {x.peer}
                       ELSE IF id = x.id /\ x.method = "removeSubscriber"
                         THEN v.subs[id] \ {x.peer}
                       ELSE v.subs[id]
    /\ \A rec \in Recordings :
          w.recs[rec] = IF OfRecording(x) /\ rec = x.peer /\ x.id \in v.pubs
                          THEN IF x.method = "addExternalOutput" THEN {x.id} ELSE {}
                        ELSE v.recs[rec]

\* v is what the controller t, with the recordings outs, has on the process e.
Meets(v, t, outs, e, known) ==
    /\ v.pubs = {id \in DOMAIN t.publishers : t.publishers[id] = e}
    /\ \A id \in v.pubs : v.subs[id] = t.subscribers[id]
    /\ \A rec \in Recordings :
          /\ v.recs[rec] \subseteq known
          /\ \A id \in v.pubs : id \in v.recs[rec] <=> (rec \in DOMAIN outs /\ outs[rec] = id)

\* The calls q lead from v to what the controller has.
Leads(v, q, t, outs, e, known) ==
    \E g : /\ g[0] = v
           /\ \A i \in 1 .. Len(q) : Tells(g[i - 1], q[i], g[i])
           /\ Meets(g[Len(q)], t, outs, e, known)

LeadsInv ==
    \A r \in Rooms, e \in Erizos : Up(e) =>
        \E v : /\ Shows(v, erizo[e], r)
               /\ Leads(v, calls[r][e], controller[r], externalOutputs[r], e, begun)

AgreeInv == CallsInv /\ ShapeInv /\ RecordingsInv /\ LeadsInv

-----------------------------------------------------------------------------
\* What is left of one call is the same whatever the process has.
Told(v, x) ==
    LET pubs == IF Adds(x) THEN v.pubs \cup {x.id}
                ELSE IF Removes(x) THEN v.pubs \ {x.id} ELSE v.pubs
    IN  [pubs |-> pubs,
         subs |-> [id \in pubs |-> IF id \notin v.pubs THEN {}
                                   ELSE IF id = x.id /\ x.method = "addSubscriber"
                                     THEN v.subs[id] \cup {x.peer}
                                   ELSE IF id = x.id /\ x.method = "removeSubscriber"
                                     THEN v.subs[id] \ {x.peer}
                                   ELSE v.subs[id]],
         recs |-> [rec \in Recordings |->
                      IF OfRecording(x) /\ rec = x.peer /\ x.id \in v.pubs
                        THEN IF x.method = "addExternalOutput" THEN {x.id} ELSE {}
                      ELSE v.recs[rec]]]

LEMMA ToldTells == \A v, x : Tells(v, x, Told(v, x))
BY DEF Tells, Told

\* What a call makes of the maps of a process that goes on.
Does(j, x, k) ==
    /\ DOMAIN k.publishers =
          IF Adds(x) THEN DOMAIN j.publishers \cup {x.id}
          ELSE IF Removes(x) THEN DOMAIN j.publishers \ {x.id} ELSE DOMAIN j.publishers
    /\ \A id \in DOMAIN k.publishers :
          k.subscribers[id] = IF id \notin DOMAIN j.publishers THEN {}
                              ELSE IF id = x.id /\ x.method = "addSubscriber"
                                THEN j.subscribers[id] \cup {x.peer}
                              ELSE IF id = x.id /\ x.method = "removeSubscriber"
                                THEN j.subscribers[id] \ {x.peer}
                              ELSE j.subscribers[id]
    /\ \A rec :
          IF OfRecording(x) /\ rec = x.peer /\ x.id \in DOMAIN j.publishers
            THEN IF x.method = "addExternalOutput"
                   THEN rec \in DOMAIN k.outputs /\ k.outputs[rec] = x.id
                   ELSE rec \notin DOMAIN k.outputs
            ELSE /\ rec \in DOMAIN k.outputs <=> rec \in DOMAIN j.outputs
                 /\ rec \in DOMAIN j.outputs => k.outputs[rec] = j.outputs[rec]

LEMMA HandleDoes ==
    ASSUME NEW j, NEW x, DOMAIN j = Fields, Consistent(j), j.end = Running,
           Handle(j, x).end = Running, x.method \in Methods
    PROVE  Does(j, x, Handle(j, x))
<1> DEFINE k == Handle(j, x)
           id == x.id
<1>0. \A i : TypeError(i) # Running BY DEF TypeError, Running
<1>1. CASE Adds(x)
  <2>1. k = IF x.method = "addPublisher" THEN addPublisher(j, id) ELSE addExternalInput(j, id)
    BY <1>1 DEF Handle, Adds
  <2>2. CASE id \in DOMAIN j.publishers
    <3>1. k = j BY <2>1, <2>2 DEF addPublisher, addExternalInput
    <3> HIDE DEF k
    <3> QED BY <1>1, <2>2, <3>1 DEF Does, Adds, Removes, OfRecording, k
  <2>3. CASE id \notin DOMAIN j.publishers
    <3>1. /\ DOMAIN k.publishers = DOMAIN j.publishers \cup {id}
          /\ k.subscribers = With(j.subscribers, id, {}) /\ k.outputs = j.outputs
      BY <2>1, <2>3 DEF addPublisher, addExternalInput, Fields, With
    <3>2. /\ k.subscribers[id] = {}
          /\ \A i \in DOMAIN j.publishers : k.subscribers[i] = j.subscribers[i]
      BY <2>3, <3>1 DEF With, Consistent
    <3> HIDE DEF k
    <3> QED BY <1>1, <2>3, <3>1, <3>2 DEF Does, Adds, Removes, OfRecording, k
  <2> QED BY <2>2, <2>3
<1>2. CASE Removes(x)
  <2>1. k = removePublisher(j, id) BY <1>2 DEF Handle, Removes
  <2>2. CASE id \notin DOMAIN j.publishers
    <3>1. k = j BY <2>1, <2>2 DEF removePublisher
    <3> HIDE DEF k
    <3> QED BY <1>2, <2>2, <3>1 DEF Does, Adds, Removes, OfRecording, k
  <2>3. CASE id \in DOMAIN j.publishers
    <3>1. id \in DOMAIN j.publishers \cap DOMAIN j.subscribers BY <2>3 DEF Consistent
    <3>2. j.publishers[id] # "input" BY <1>0, <2>1, <3>1 DEF removePublisher, Fields
    <3>3. /\ k.publishers = Without(j.publishers, id)
          /\ k.subscribers = Without(j.subscribers, id) /\ k.outputs = j.outputs
      BY <2>1, <3>1, <3>2 DEF removePublisher, Fields
    <3>4. /\ DOMAIN k.publishers = DOMAIN j.publishers \ {id}
          /\ \A i \in DOMAIN j.publishers \ {id} : k.subscribers[i] = j.subscribers[i]
      BY <3>3 DEF Without, Consistent
    <3> HIDE DEF k
    <3> QED BY <1>2, <3>3, <3>4 DEF Does, Adds, Removes, OfRecording, k
  <2> QED BY <2>2, <2>3
<1>3. CASE x.method = "addSubscriber"
  <2>1. k = addSubscriber(j, x.peer, id) BY <1>3 DEF Handle
  <2>2. CASE id \notin DOMAIN j.publishers
    <3>1. k = j BY <2>1, <2>2 DEF addSubscriber
    <3> HIDE DEF k
    <3> QED BY <1>3, <2>2, <3>1 DEF Does, Adds, Removes, OfRecording, k
  <2>3. CASE id \in DOMAIN j.publishers
    <3>1. id \in DOMAIN j.subscribers BY <2>3 DEF Consistent
    <3>2. /\ k.publishers = j.publishers /\ k.outputs = j.outputs
          /\ k.subscribers[id] = j.subscribers[id] \cup {x.peer}
          /\ \A i \in DOMAIN j.subscribers \ {id} : k.subscribers[i] = j.subscribers[i]
      BY <2>1, <2>3, <3>1 DEF addSubscriber, Fields
    <3>3. DOMAIN j.subscribers = DOMAIN j.publishers BY DEF Consistent
    <3> HIDE DEF k
    <3> QED BY <1>3, <3>2, <3>3 DEF Does, Adds, Removes, OfRecording, k
  <2> QED BY <2>2, <2>3
<1>4. CASE x.method = "removeSubscriber"
  <2>1. k = removeSubscriber(j, x.peer, id) BY <1>4 DEF Handle
  <2>2. id \in DOMAIN j.subscribers
    BY <1>0, <2>1 DEF removeSubscriber, Fields
  <2>3. /\ k.publishers = j.publishers /\ k.outputs = j.outputs
        /\ k.subscribers[id] = j.subscribers[id] \ {x.peer}
        /\ \A i \in DOMAIN j.subscribers \ {id} : k.subscribers[i] = j.subscribers[i]
    BY <2>1, <2>2 DEF removeSubscriber, Fields
  <2>4. DOMAIN j.subscribers = DOMAIN j.publishers BY DEF Consistent
  <2> HIDE DEF k
  <2> QED BY <1>4, <2>3, <2>4 DEF Does, Adds, Removes, OfRecording, k
<1>5. CASE x.method = "processSignaling"
  <2>1. k = processSignaling(j, x.peer, id) BY <1>5 DEF Handle
  <2>2. k = j BY <1>0, <2>1 DEF processSignaling, Fields
  <2> HIDE DEF k
  <2> QED BY <1>5, <2>2 DEF Does, Adds, Removes, OfRecording, k
<1>6. CASE OfRecording(x)
  <2>1. k = IF x.method = "addExternalOutput" THEN addExternalOutput(j, id, x.peer)
            ELSE removeExternalOutput(j, id, x.peer)
    BY <1>6 DEF Handle, OfRecording
  <2>2. ~Adds(x) /\ ~Removes(x) /\ x.method \notin {"addSubscriber", "removeSubscriber"}
    BY <1>6 DEF Adds, Removes, OfRecording
  <2>3. k.publishers = j.publishers /\ k.subscribers = j.subscribers
    BY <2>1 DEF addExternalOutput, removeExternalOutput, Fields
  <2>4. CASE id \notin DOMAIN j.publishers
    <3>1. k.outputs = j.outputs BY <2>1, <2>4 DEF addExternalOutput, removeExternalOutput
    <3> HIDE DEF k
    <3> QED BY <2>2, <2>3, <2>4, <3>1 DEF Does, k
  <2>5. CASE id \in DOMAIN j.publishers /\ x.method = "addExternalOutput"
    <3>1. k.outputs = With(j.outputs, x.peer, id) BY <2>1, <2>5 DEF addExternalOutput, Fields
    <3>2. /\ DOMAIN k.outputs = DOMAIN j.outputs \cup {x.peer} /\ k.outputs[x.peer] = id
          /\ \A rec \in DOMAIN j.outputs \ {x.peer} : k.outputs[rec] = j.outputs[rec]
      BY <3>1 DEF With
    <3> HIDE DEF k
    <3> QED BY <1>6, <2>2, <2>3, <2>5, <3>2 DEF Does, k
  <2>6. CASE id \in DOMAIN j.publishers /\ x.method # "addExternalOutput"
    <3>1. k.outputs = IF x.peer \in DOMAIN j.outputs THEN Without(j.outputs, x.peer)
                      ELSE j.outputs
      BY <2>1, <2>6 DEF removeExternalOutput, Fields
    <3>2. /\ DOMAIN k.outputs = DOMAIN j.outputs \ {x.peer}
          /\ \A rec \in DOMAIN j.outputs \ {x.peer} : k.outputs[rec] = j.outputs[rec]
      BY <3>1 DEF Without
    <3> HIDE DEF k
    <3> QED BY <1>6, <2>2, <2>3, <2>6, <3>2 DEF Does, k
  <2> QED BY <2>4, <2>5, <2>6
<1> QED BY <1>1, <1>2, <1>3, <1>4, <1>5, <1>6 DEF Methods, Adds, Removes, OfRecording

\* A process that goes on shows what it was told.
LEMMA HandleShows ==
    ASSUME NEW j, NEW x, NEW r, NEW v, NEW w, DOMAIN j = Fields, Consistent(j),
           j.end = Running, Handle(j, x).end = Running, x.id \in StreamsOf(r),
           x.method \in Methods, Shows(v, j, r), Tells(v, x, w)
    PROVE  Shows(w, Handle(j, x), r)
<1> DEFINE k == Handle(j, x)
<1>1. Does(j, x, k) BY HandleDoes
<1> HIDE DEF k
<1>2. w.pubs = DOMAIN k.publishers \cap StreamsOf(r) BY <1>1 DEF Does, Shows, Tells
<1>3. ASSUME NEW id \in w.pubs PROVE w.subs[id] = k.subscribers[id]
  <2>1. id \in DOMAIN k.publishers /\ id \in StreamsOf(r) BY <1>2
  <2>2. id \in v.pubs <=> id \in DOMAIN j.publishers BY <2>1 DEF Shows
  <2>3. id \in v.pubs => v.subs[id] = j.subscribers[id] BY DEF Shows
  <2> QED BY <1>1, <2>1, <2>2, <2>3 DEF Does, Tells
<1>4. ASSUME NEW rec \in Recordings
      PROVE  w.recs[rec] = {id \in StreamsOf(r) : rec \in DOMAIN k.outputs /\ id = k.outputs[rec]}
  <2> DEFINE of(q) == {id \in StreamsOf(r) : rec \in DOMAIN q.outputs /\ id = q.outputs[rec]}
  <2>1. v.recs[rec] = of(j) BY DEF Shows
  <2>2. x.id \in v.pubs <=> x.id \in DOMAIN j.publishers BY DEF Shows
  <2>3. CASE OfRecording(x) /\ rec = x.peer /\ x.id \in DOMAIN j.publishers
    <3>1. of(k) = IF x.method = "addExternalOutput" THEN {x.id} ELSE {}
      BY <1>1, <2>3 DEF Does
    <3> QED BY <2>2, <2>3, <3>1 DEF Tells
  <2>4. CASE ~(OfRecording(x) /\ rec = x.peer /\ x.id \in DOMAIN j.publishers)
    <3>1. of(k) = of(j) BY <1>1, <2>4 DEF Does
    <3>2. w.recs[rec] = v.recs[rec] BY <2>2, <2>4 DEF Tells
    <3> QED BY <2>1, <3>1, <3>2
  <2> QED BY <2>3, <2>4
<1> QED BY <1>2, <1>3, <1>4 DEF Shows, k

\* What a room says does not show in another.
LEMMA ShowsElsewhere ==
    ASSUME NEW j, NEW x, NEW k, NEW s, NEW v, Does(j, x, k), Shows(v, j, s),
           x.id \notin StreamsOf(s),
           OfRecording(x) /\ x.peer \in DOMAIN j.outputs => j.outputs[x.peer] \notin StreamsOf(s)
    PROVE  Shows(v, k, s)
<1>1. v.pubs = DOMAIN k.publishers \cap StreamsOf(s) BY DEF Does, Shows
<1>2. \A id \in v.pubs : v.subs[id] = k.subscribers[id] BY <1>1 DEF Does, Shows
<1>3. ASSUME NEW rec \in Recordings
      PROVE  v.recs[rec] = {id \in StreamsOf(s) : rec \in DOMAIN k.outputs /\ id = k.outputs[rec]}
  <2> DEFINE of(q) == {id \in StreamsOf(s) : rec \in DOMAIN q.outputs /\ id = q.outputs[rec]}
  <2>1. v.recs[rec] = of(j) BY DEF Shows
  <2>2. CASE OfRecording(x) /\ rec = x.peer /\ x.id \in DOMAIN j.publishers
    <3>1. of(j) = {} BY <2>2
    <3>2. of(k) = {} BY <2>2 DEF Does
    <3> QED BY <2>1, <3>1, <3>2
  <2>3. CASE ~(OfRecording(x) /\ rec = x.peer /\ x.id \in DOMAIN j.publishers)
    <3>1. of(k) = of(j) BY <2>3 DEF Does
    <3> QED BY <2>1, <3>1
  <2> QED BY <2>2, <2>3
<1> QED BY <1>1, <1>2, <1>3 DEF Shows

-----------------------------------------------------------------------------
\* Calls lead on when one is taken, and when others follow.
LEMMA LeadsTail ==
    ASSUME NEW v, NEW p, NEW q, NEW t, NEW outs, NEW e, NEW known,
           Leads(v, q, t, outs, e, known), Shifted(p, q), 1 \in 1 .. Len(q)
    PROVE  \E w : Tells(v, q[1], w) /\ Leads(w, p, t, outs, e, known)
<1>1. PICK g : /\ g[0] = v
               /\ \A i \in 1 .. Len(q) : Tells(g[i - 1], q[i], g[i])
               /\ Meets(g[Len(q)], t, outs, e, known)
  BY DEF Leads
<1>2. Len(p) \in Nat /\ Len(q) = Len(p) + 1 /\ \A i \in 1 .. Len(p) : p[i] = q[i + 1]
  BY DEF Shifted
<1> DEFINE h == [i \in 0 .. Len(p) |-> g[i + 1]]
<1>3. Tells(v, q[1], g[1])
  <2>1. 1 - 1 = 0 OBVIOUS
  <2> QED BY <1>1, <2>1
<1>4. h[0] = g[1] BY <1>2
<1>5. \A i \in 1 .. Len(p) : Tells(h[i - 1], p[i], h[i])
  <2> SUFFICES ASSUME NEW i \in 1 .. Len(p) PROVE Tells(h[i - 1], p[i], h[i]) OBVIOUS
  <2>1. i + 1 \in 1 .. Len(q) /\ i - 1 \in 0 .. Len(p) /\ i \in 0 .. Len(p) BY <1>2
  <2>2. (i + 1) - 1 = i /\ (i - 1) + 1 = i OBVIOUS
  <2>3. h[i - 1] = g[i] /\ h[i] = g[i + 1] BY <2>1, <2>2
  <2>4. Tells(g[(i + 1) - 1], q[i + 1], g[i + 1]) BY <1>1, <2>1
  <2> QED BY <1>2, <2>2, <2>3, <2>4
<1>6. h[Len(p)] = g[Len(q)] BY <1>2
<1> HIDE DEF h
<1>7. Leads(g[1], p, t, outs, e, known) BY <1>1, <1>4, <1>5, <1>6 DEF Leads
<1> QED BY <1>3, <1>7

LEMMA LeadsExtends ==
    ASSUME NEW v, NEW p, NEW q, NEW n, NEW t, NEW outs, NEW e, NEW known,
           NEW u, NEW outsNow, NEW knownNow,
           Leads(v, q, t, outs, e, known), Extended(p, q, n),
           \A w : Meets(w, t, outs, e, known) => Leads(w, n, u, outsNow, e, knownNow)
    PROVE  Leads(v, p, u, outsNow, e, knownNow)
<1>1. PICK g : /\ g[0] = v
               /\ \A i \in 1 .. Len(q) : Tells(g[i - 1], q[i], g[i])
               /\ Meets(g[Len(q)], t, outs, e, known)
  BY DEF Leads
<1>2. PICK h : /\ h[0] = g[Len(q)]
               /\ \A i \in 1 .. Len(n) : Tells(h[i - 1], n[i], h[i])
               /\ Meets(h[Len(n)], u, outsNow, e, knownNow)
  BY <1>1 DEF Leads
<1>3. /\ Len(p) \in Nat /\ Len(q) \in Nat /\ Len(n) \in Nat /\ Len(p) = Len(q) + Len(n)
      /\ \A i \in 1 .. Len(q) : p[i] = q[i]
  BY DEF Extended
<1> DEFINE f == [i \in 0 .. Len(p) |-> IF i <= Len(q) THEN g[i] ELSE h[i - Len(q)]]
<1>4. \A i \in 0 .. Len(q) : f[i] = g[i] BY <1>3
<1>5. \A i \in 0 .. Len(n) : f[Len(q) + i] = h[i]
  <2> SUFFICES ASSUME NEW i \in 0 .. Len(n) PROVE f[Len(q) + i] = h[i] OBVIOUS
  <2>1. CASE i = 0
    <3>1. Len(q) + i = Len(q) /\ Len(q) \in 0 .. Len(q) BY <1>3, <2>1
    <3> HIDE DEF f
    <3> QED BY <1>2, <1>4, <2>1, <3>1
  <2>2. CASE i # 0
    <3>1. /\ Len(q) + i \in 0 .. Len(p) /\ ~(Len(q) + i <= Len(q))
          /\ (Len(q) + i) - Len(q) = i
      BY <1>3, <2>2
    <3> QED BY <3>1
  <2> QED BY <2>1, <2>2
<1> HIDE DEF f
<1>6. \A i \in 1 .. Len(p) : Tells(f[i - 1], p[i], f[i])
  <2> SUFFICES ASSUME NEW i \in 1 .. Len(p) PROVE Tells(f[i - 1], p[i], f[i]) OBVIOUS
  <2>1. CASE i \in 1 .. Len(q) /\ p[i] = q[i]
    <3>1. i \in 0 .. Len(q) /\ i - 1 \in 0 .. Len(q) BY <1>3, <2>1
    <3> QED BY <1>1, <1>4, <2>1, <3>1
  <2>2. CASE i - Len(q) \in 1 .. Len(n) /\ p[i] = n[i - Len(q)]
    <3> DEFINE m == i - Len(q)
    <3>1. /\ m \in 0 .. Len(n) /\ m - 1 \in 0 .. Len(n)
          /\ Len(q) + m = i /\ Len(q) + (m - 1) = i - 1
      BY <1>3, <2>2
    <3>2. m \in 1 .. Len(n) /\ p[i] = n[m] BY <2>2
    <3> HIDE DEF m
    <3>3. f[i] = h[m] /\ f[i - 1] = h[m - 1] BY <1>5, <3>1
    <3> QED BY <1>2, <3>2, <3>3
  <2> QED BY <2>1, <2>2, ExtendedParts
<1>7. f[0] = v /\ f[Len(p)] = h[Len(n)] BY <1>1, <1>3, <1>4, <1>5
<1> QED BY <1>2, <1>6, <1>7 DEF Leads

LEMMA LeadsNone ==
    ASSUME NEW v, NEW t, NEW outs, NEW e, NEW known, Meets(v, t, outs, e, known)
    PROVE  Leads(v, <<>>, t, outs, e, known)
<1> DEFINE g == [i \in {0} |-> v]
<1>1. g[0] = v /\ Len(<<>>) = 0 /\ \A i : i \notin 1 .. Len(<<>>) OBVIOUS
<1> HIDE DEF g
<1>2. /\ \A i \in 1 .. Len(<<>>) : Tells(g[i - 1], <<>>[i], g[i])
      /\ Meets(g[Len(<<>>)], t, outs, e, known)
  BY <1>1
<1> QED BY <1>1, <1>2 DEF Leads

LEMMA LeadsOne ==
    ASSUME NEW v, NEW x, NEW t, NEW outs, NEW e, NEW known,
           Meets(Told(v, x), t, outs, e, known)
    PROVE  Leads(v, <<x>>, t, outs, e, known)
<1> DEFINE g == [i \in {0, 1} |-> IF i = 0 THEN v ELSE Told(v, x)]
<1>1. /\ g[0] = v /\ g[1] = Told(v, x) /\ Len(<<x>>) = 1 /\ <<x>>[1] = x
      /\ \A i \in 1 .. Len(<<x>>) : i = 1 /\ i - 1 = 0
  OBVIOUS
<1> HIDE DEF g
<1>2. \A i \in 1 .. Len(<<x>>) : Tells(g[i - 1], <<x>>[i], g[i]) BY <1>1, ToldTells
<1>3. Meets(g[Len(<<x>>)], t, outs, e, known) BY <1>1
<1> QED BY <1>1, <1>2, <1>3 DEF Leads

\* A client leaves: it is taken from one publisher after the other.
LEMMA LeadsLeave ==
    ASSUME NEW v, NEW n, NEW c, NEW t, NEW u, NEW outs, NEW e, NEW known,
           Meets(v, t, outs, e, known), Len(n) \in Nat,
           \A k \in 1 .. Len(n) : n[k].method = "removeSubscriber" /\ n[k].peer = c,
           u.publishers = t.publishers,
           \A id \in DOMAIN t.publishers : u.subscribers[id] = t.subscribers[id] \ {c},
           \A id \in DOMAIN t.publishers : t.publishers[id] = e /\ c \in t.subscribers[id] =>
               \E k \in 1 .. Len(n) : n[k].id = id
    PROVE  Leads(v, n, u, outs, e, known)
<1> DEFINE out(id, k) == IF \E m \in 1 .. Len(n) : m <= k /\ n[m].id = id THEN {c} ELSE {}
           after(k) == [pubs |-> v.pubs,
                        subs |-> [id \in v.pubs |-> v.subs[id] \ out(id, k)],
                        recs |-> v.recs]
           g == [k \in 0 .. Len(n) |-> IF k = 0 THEN v ELSE after(k)]
<1>1. g[0] = v OBVIOUS
<1>2. ASSUME NEW k \in 0 .. Len(n)
      PROVE  /\ g[k].pubs = v.pubs /\ g[k].recs = v.recs
             /\ \A id \in v.pubs : g[k].subs[id] = v.subs[id] \ out(id, k)
  <2>1. CASE k = 0
    <3>1. g[k] = v BY <2>1
    <3>2. \A id : out(id, k) = {} BY <2>1
    <3> HIDE DEF g, out, after
    <3>3. \A id : v.subs[id] \ out(id, k) = v.subs[id] BY <3>2
    <3> QED BY <3>1, <3>3
  <2>2. CASE k # 0
    <3>1. g[k] = after(k) BY <2>2
    <3> HIDE DEF g, out
    <3> QED BY <3>1
  <2> QED BY <2>1, <2>2
<1> HIDE DEF g
<1>3. ASSUME NEW k \in 1 .. Len(n) PROVE Tells(g[k - 1], n[k], g[k])
  <2>1. k \in 0 .. Len(n) /\ k - 1 \in 0 .. Len(n) OBVIOUS
  <2>2. \A id : id # n[k].id => out(id, k) = out(id, k - 1) OBVIOUS
  <2>3. \A id : id = n[k].id => out(id, k) = out(id, k - 1) \cup {c} OBVIOUS
  <2>4. n[k].method = "removeSubscriber" /\ n[k].peer = c OBVIOUS
  <2>5. ~Adds(n[k]) /\ ~Removes(n[k]) /\ ~OfRecording(n[k])
    BY <2>4 DEF Adds, Removes, OfRecording
  <2> HIDE DEF out
  <2>6. /\ g[k].pubs = v.pubs /\ g[k].recs = v.recs
        /\ \A id \in v.pubs : g[k].subs[id] = v.subs[id] \ out(id, k)
        /\ g[k - 1].pubs = v.pubs /\ g[k - 1].recs = v.recs
        /\ \A id \in v.pubs : g[k - 1].subs[id] = v.subs[id] \ out(id, k - 1)
    BY <1>2, <2>1
  <2>7. \A id \in v.pubs :
            g[k].subs[id] = IF id = n[k].id THEN g[k - 1].subs[id] \ {c} ELSE g[k - 1].subs[id]
    <3> SUFFICES ASSUME NEW id \in v.pubs
                 PROVE  g[k].subs[id] = IF id = n[k].id THEN g[k - 1].subs[id] \ {c}
                                        ELSE g[k - 1].subs[id]
      OBVIOUS
    <3>1. /\ g[k].subs[id] = v.subs[id] \ out(id, k)
          /\ g[k - 1].subs[id] = v.subs[id] \ out(id, k - 1)
      BY <2>6
    <3>2. CASE id = n[k].id
      <4>1. out(id, k) = out(id, k - 1) \cup {c} BY <2>3, <3>2
      <4> QED BY <3>1, <3>2, <4>1
    <3>3. CASE id # n[k].id
      <4>1. out(id, k) = out(id, k - 1) BY <2>2, <3>3
      <4> QED BY <3>1, <3>3, <4>1
    <3> QED BY <3>2, <3>3
  <2> QED BY <2>4, <2>5, <2>6, <2>7 DEF Tells
<1>4. Meets(g[Len(n)], u, outs, e, known)
  <2>1. Len(n) \in 0 .. Len(n) OBVIOUS
  <2>2. \A id \in DOMAIN t.publishers : t.publishers[id] = e =>
            u.subscribers[id] = t.subscribers[id] \ out(id, Len(n))
    OBVIOUS
  <2> HIDE DEF out
  <2>3. ASSUME NEW id \in v.pubs PROVE g[Len(n)].subs[id] = u.subscribers[id]
    <3>1. g[Len(n)].subs[id] = v.subs[id] \ out(id, Len(n)) BY <1>2, <2>1
    <3>2. /\ id \in DOMAIN t.publishers /\ t.publishers[id] = e
          /\ v.subs[id] = t.subscribers[id]
      BY DEF Meets
    <3> QED BY <2>2, <3>1, <3>2
  <2> QED BY <1>2, <2>1, <2>3 DEF Meets
<1> QED BY <1>1, <1>3, <1>4 DEF Leads

-----------------------------------------------------------------------------
\* A room sends the calls n; a recording of its own, or a new one, is what it may name.
Mine(r, rec) == Uses(r, rec) \/ (rec \notin begun /\ rec \in begun')

Says(r, n) ==
    /\ SendsOnly(r, n)
    /\ begun' \subseteq Streams \cup Recordings
    /\ DOMAIN externalOutputs' = Rooms
    /\ \A x \in Rooms \ {r} : externalOutputs'[x] = externalOutputs[x]
    /\ externalOutputs'[r] \in Maps(Recordings, StreamsOf(r) \cap begun')
    /\ \A rec \in DOMAIN externalOutputs'[r] : Mine(r, rec)
    /\ Shaped(controller'[r], r)
    /\ \A e \in Erizos :
          /\ n[e] \in Seq(Message)
          /\ \A k \in 1 .. Len(n[e]) :
                /\ PeerOf(n[e][k])
                /\ OfRecording(n[e][k]) => Mine(r, n[e][k].peer)

LEMMA SaidCalls ==
    ASSUME CallsInv, NEW r \in Rooms, NEW n, Says(r, n)
    PROVE  /\ \A e \in Erizos : Up(e) => Extended(calls'[r][e], calls[r][e], n[e])
           /\ \A x \in Rooms, e \in Erizos : ~(x = r /\ Up(e)) => calls'[x][e] = calls[x][e]
           /\ \A x \in Rooms, e \in Erizos : \A i \in 1 .. Len(calls'[x][e]) :
                 \/ /\ i \in 1 .. Len(calls[x][e])
                    /\ calls'[x][e][i] = calls[x][e][i]
                 \/ x = r /\ \E k \in 1 .. Len(n[e]) : calls'[x][e][i] = n[e][k]
<1>1. ASSUME NEW e \in Erizos, Up(e) PROVE Extended(calls'[r][e], calls[r][e], n[e])
  <2>1. calls[r][e] \in Seq(Message) BY DEF CallsInv, QueuesInv
  <2>2. n[e] \in Seq(Message) BY DEF Says
  <2>3. calls'[r][e] = calls[r][e] \o n[e] BY <1>1 DEF Says, SendsOnly
  <2> QED BY <2>1, <2>2, <2>3, ConcatExtends
<1>2. \A x \in Rooms, e \in Erizos : ~(x = r /\ Up(e)) => calls'[x][e] = calls[x][e]
  BY DEF Says, SendsOnly
<1>3. ASSUME NEW x \in Rooms, NEW e \in Erizos, NEW i \in 1 .. Len(calls'[x][e])
      PROVE  \/ /\ i \in 1 .. Len(calls[x][e])
                /\ calls'[x][e][i] = calls[x][e][i]
             \/ x = r /\ \E k \in 1 .. Len(n[e]) : calls'[x][e][i] = n[e][k]
  <2>1. CASE x = r /\ Up(e) BY <1>1, <2>1, ExtendedParts
  <2>2. CASE ~(x = r /\ Up(e)) BY <1>2, <2>2
  <2> QED BY <2>1, <2>2
<1> QED BY <1>1, <1>2, <1>3

LEMMA SayShapes ==
    ASSUME CallsInv, ShapeInv, NEW r \in Rooms, NEW n, Says(r, n) PROVE ShapeInv'
<1>1. ASSUME NEW x \in Rooms
      PROVE  /\ Shaped(controller'[x], x)
             /\ externalOutputs'[x] \in Maps(Recordings, StreamsOf(x) \cap begun')
             /\ \A e \in Erizos : \A i \in 1 .. Len(calls'[x][e]) : PeerOf(calls'[x][e][i])
  <2>1. Shaped(controller'[x], x) BY DEF Says, SendsOnly, ShapeInv
  <2>2. externalOutputs'[x] \in Maps(Recordings, StreamsOf(x) \cap begun')
    <3>1. CASE x = r BY <3>1 DEF Says
    <3>2. CASE x # r
      <4> DEFINE m == externalOutputs[x]
      <4>1. m \in Maps(Recordings, StreamsOf(x) \cap begun) /\ begun \subseteq begun'
        BY DEF ShapeInv, Says, SendsOnly
      <4>2. externalOutputs'[x] = m BY <3>2 DEF Says
      <4> HIDE DEF m
      <4>3. m \in Maps(Recordings, StreamsOf(x) \cap begun') BY <4>1, MapsAre
      <4> QED BY <4>2, <4>3
    <3> QED BY <3>1, <3>2
  <2>3. ASSUME NEW e \in Erizos, NEW i \in 1 .. Len(calls'[x][e])
        PROVE  PeerOf(calls'[x][e][i])
    <3>1. CASE i \in 1 .. Len(calls[x][e]) /\ calls'[x][e][i] = calls[x][e][i]
      BY <3>1 DEF ShapeInv
    <3>2. CASE \E k \in 1 .. Len(n[e]) : calls'[x][e][i] = n[e][k] BY <3>2 DEF Says
    <3> QED BY <3>1, <3>2, SaidCalls
  <2> QED BY <2>1, <2>2, <2>3
<1>2. erizo' = erizo /\ begun' \subseteq Streams \cup Recordings /\ DOMAIN externalOutputs' = Rooms
  BY DEF Says, SendsOnly
<1>3. \A e \in Erizos : Typed(erizo'[e]) BY <1>2 DEF ShapeInv
<1> QED BY <1>1, <1>2, <1>3 DEF ShapeInv, StreamsOf, ClientsOf, Shaped, PeerOf, OfRecording,
                                Typed, Ends, Connections

LEMMA SayUses ==
    ASSUME CallsInv, RecordingsInv, NEW r \in Rooms, NEW n, Says(r, n) PROVE RecordingsInv'
<1>1. ASSUME NEW x \in Rooms, NEW rec, Uses(x, rec)'
      PROVE  Uses(x, rec) \/ (x = r /\ Mine(r, rec))
  <2>1. CASE rec \in DOMAIN externalOutputs'[x]
    <3>1. CASE x = r BY <2>1, <3>1 DEF Says
    <3>2. CASE x # r BY <2>1, <3>2 DEF Says, Uses
    <3> QED BY <3>1, <3>2
  <2>2. CASE \E e \in Erizos : \E i \in 1 .. Len(calls'[x][e]) :
                OfRecording(calls'[x][e][i]) /\ calls'[x][e][i].peer = rec
    <3>1. PICK e \in Erizos : \E i \in 1 .. Len(calls'[x][e]) :
                OfRecording(calls'[x][e][i]) /\ calls'[x][e][i].peer = rec
      BY <2>2
    <3>2. PICK i \in 1 .. Len(calls'[x][e]) :
                OfRecording(calls'[x][e][i]) /\ calls'[x][e][i].peer = rec
      BY <3>1
    <3>3. CASE i \in 1 .. Len(calls[x][e]) /\ calls'[x][e][i] = calls[x][e][i]
      BY <3>2, <3>3 DEF Uses
    <3>4. CASE x = r /\ \E k \in 1 .. Len(n[e]) : calls'[x][e][i] = n[e][k]
      BY <3>2, <3>4 DEF Says
    <3> QED BY <3>3, <3>4, SaidCalls
  <2>3. CASE \E e \in Erizos : /\ rec \in DOMAIN erizo'[e].outputs
                              /\ erizo'[e].outputs[rec] \in StreamsOf(x)
    BY <2>3 DEF Says, SendsOnly, Uses
  <2> QED BY <1>1, <2>1, <2>2, <2>3 DEF Uses, OfRecording, StreamsOf
<1>2. begun \subseteq begun' BY DEF Says, SendsOnly
<1> SUFFICES ASSUME NEW x \in Rooms, NEW rec, Uses(x, rec)'
             PROVE  rec \in begun' /\ \A s \in Rooms : Uses(s, rec)' => s = x
  BY DEF RecordingsInv
<1>3. Uses(x, rec) \/ (x = r /\ Mine(r, rec)) BY <1>1
<1>4. rec \in begun' BY <1>2, <1>3 DEF RecordingsInv, Mine
<1>5. ASSUME NEW s \in Rooms, Uses(s, rec)' PROVE s = x
  <2>1. Uses(s, rec) \/ (s = r /\ Mine(r, rec)) BY <1>1, <1>5
  <2> QED BY <1>3, <2>1 DEF RecordingsInv, Mine
<1> QED BY <1>4, <1>5

LEMMA SayLeads ==
    ASSUME CallsInv, LeadsInv, NEW r \in Rooms, NEW n, Says(r, n),
           \A e \in Erizos : \A v :
               Meets(v, controller[r], externalOutputs[r], e, begun) =>
               Leads(v, n[e], controller'[r], externalOutputs'[r], e, begun')
    PROVE  LeadsInv'
<1>1. erizo' = erizo /\ begun \subseteq begun' BY DEF Says, SendsOnly
<1>2. ASSUME NEW x \in Rooms, NEW e \in Erizos, Up(e)
      PROVE  \E v : /\ Shows(v, erizo[e], x)
                    /\ Leads(v, calls'[x][e], controller'[x], externalOutputs'[x], e, begun')
  <2>1. PICK v : /\ Shows(v, erizo[e], x)
                 /\ Leads(v, calls[x][e], controller[x], externalOutputs[x], e, begun)
    BY <1>2 DEF LeadsInv
  <2>2. CASE x = r
    <3>1. Extended(calls'[r][e], calls[r][e], n[e]) BY <1>2, SaidCalls
    <3>2. Leads(v, calls[r][e], controller[r], externalOutputs[r], e, begun) BY <2>1, <2>2
    <3> DEFINE p == calls'[r][e]
               u == controller'[r]
               o == externalOutputs'[r]
               known == begun'
    <3>3. \A w : Meets(w, controller[r], externalOutputs[r], e, begun) =>
                  Leads(w, n[e], u, o, e, known)
      OBVIOUS
    <3> HIDE DEF p, u, o, known
    <3>4. Leads(v, p, u, o, e, known) BY <3>1, <3>2, <3>3, LeadsExtends DEF p
    <3> QED BY <2>1, <2>2, <3>4 DEF p, u, o, known
  <2>3. CASE x # r
    <3>1. /\ calls'[x][e] = calls[x][e] /\ controller'[x] = controller[x]
          /\ externalOutputs'[x] = externalOutputs[x]
      BY <2>3, SaidCalls DEF Says, SendsOnly
    <3>2. \A w : Meets(w, controller[x], externalOutputs[x], e, begun) =>
                  Meets(w, controller[x], externalOutputs[x], e, begun')
      BY <1>1 DEF Meets
    <3> DEFINE known == begun'
    <3> HIDE DEF known
    <3>3. Leads(v, calls[x][e], controller[x], externalOutputs[x], e, known)
      BY <2>1, <3>2 DEF Leads, known
    <3> QED BY <2>1, <3>1, <3>3 DEF known
  <2> QED BY <2>2, <2>3
<1>3. \A e \in Erizos : Up(e)' = Up(e) BY <1>1 DEF Up
<1> QED BY <1>1, <1>2, <1>3 DEF LeadsInv

LEMMA SayKeeps ==
    ASSUME AgreeInv, CallsInv', NEW r \in Rooms, NEW n, Says(r, n),
           \A e \in Erizos : \A v :
               Meets(v, controller[r], externalOutputs[r], e, begun) =>
               Leads(v, n[e], controller'[r], externalOutputs'[r], e, begun')
    PROVE  AgreeInv'
<1>1. ShapeInv' BY SayShapes DEF AgreeInv
<1>2. RecordingsInv' BY SayUses DEF AgreeInv
<1>3. LeadsInv' BY SayLeads DEF AgreeInv
<1> QED BY <1>1, <1>2, <1>3 DEF AgreeInv

\* The same of one call.
LEMMA OneSays ==
    ASSUME AgreeInv, CallsInv', NEW r \in Rooms, NEW e \in Erizos, NEW x \in Message,
           PeerOf(x), OfRecording(x) => Mine(r, x.peer),
           erizo' = erizo, begun \subseteq begun', begun' \subseteq Streams \cup Recordings,
           \A y \in Rooms \ {r} : /\ controller'[y] = controller[y]
                                  /\ externalOutputs'[y] = externalOutputs[y],
           calls' = CallsWith(r, e, <<x>>),
           Shaped(controller'[r], r), DOMAIN externalOutputs' = Rooms,
           externalOutputs'[r] \in Maps(Recordings, StreamsOf(r) \cap begun'),
           \A rec \in DOMAIN externalOutputs'[r] : Mine(r, rec),
           \A v : Meets(v, controller[r], externalOutputs[r], e, begun) =>
                   Meets(Told(v, x), controller'[r], externalOutputs'[r], e, begun'),
           \A d \in Erizos \ {e} : \A v :
               Meets(v, controller[r], externalOutputs[r], d, begun) =>
               Meets(v, controller'[r], externalOutputs'[r], d, begun')
    PROVE  AgreeInv'
<1> DEFINE n == [d \in Erizos |-> IF d = e THEN <<x>> ELSE <<>>]
<1>1. /\ DOMAIN controller' = Rooms /\ IsFiniteSet(begun')
  BY DEF CallsInv, ControllerInv
<1>2. SendsOnly(r, n) BY <1>1, OneSends DEF AgreeInv
<1>3. n[e] = <<x>> /\ \A d \in Erizos \ {e} : n[d] = <<>> OBVIOUS
<1> HIDE DEF n
<1>4. ASSUME NEW d \in Erizos
      PROVE  /\ n[d] \in Seq(Message)
             /\ \A k \in 1 .. Len(n[d]) : n[d][k] = x
             /\ \A v : Meets(v, controller[r], externalOutputs[r], d, begun) =>
                        Leads(v, n[d], controller'[r], externalOutputs'[r], d, begun')
  <2>1. CASE d = e
    <3>1. <<x>> \in Seq(Message) /\ \A k \in 1 .. Len(<<x>>) : <<x>>[k] = x OBVIOUS
    <3>2. n[d] = <<x>> BY <1>3, <2>1
    <3> DEFINE u == controller'[r]
               o == externalOutputs'[r]
               known == begun'
    <3>3. \A v : Meets(v, controller[r], externalOutputs[r], d, begun) =>
                 Meets(Told(v, x), u, o, d, known)
      BY <2>1
    <3> HIDE DEF u, o, known
    <3>4. \A v : Meets(v, controller[r], externalOutputs[r], d, begun) =>
                 Leads(v, <<x>>, u, o, d, known)
      BY <3>3, LeadsOne
    <3> QED BY <3>1, <3>2, <3>4 DEF u, o, known
  <2>2. CASE d # e
    <3>1. <<>> \in Seq(Message) /\ \A k : k \notin 1 .. Len(<<>>) OBVIOUS
    <3>2. n[d] = <<>> BY <1>3, <2>2
    <3> DEFINE u == controller'[r]
               o == externalOutputs'[r]
               known == begun'
    <3>3. \A v : Meets(v, controller[r], externalOutputs[r], d, begun) =>
                 Meets(v, u, o, d, known)
      BY <2>2
    <3> HIDE DEF u, o, known
    <3>4. \A v : Meets(v, controller[r], externalOutputs[r], d, begun) =>
                 Leads(v, <<>>, u, o, d, known)
      BY <3>3, LeadsNone
    <3> QED BY <3>1, <3>2, <3>4 DEF u, o, known
  <2> QED BY <2>1, <2>2
<1>5. Says(r, n) BY <1>2, <1>4 DEF Says
<1> QED BY <1>4, <1>5, SayKeeps

LEMMA CallPeers ==
    \A method, id, peer :
        /\ PeerOf(Call(method, id, peer)) <=>
              /\ method = "addSubscriber" => peer \in Clients
              /\ method \in {"addExternalOutput", "removeExternalOutput"} => peer \in Recordings
        /\ OfRecording(Call(method, id, peer)) <=>
              method \in {"addExternalOutput", "removeExternalOutput"}
BY DEF PeerOf, OfRecording, Call

\* What holds of a room whose recordings do not change.
LEMMA SameOutputs ==
    ASSUME AgreeInv, NEW r \in Rooms, begun \subseteq begun', externalOutputs' = externalOutputs
    PROVE  /\ externalOutputs'[r] \in Maps(Recordings, StreamsOf(r) \cap begun')
           /\ DOMAIN externalOutputs' = Rooms
           /\ \A rec \in DOMAIN externalOutputs'[r] : Mine(r, rec)
<1> DEFINE m == externalOutputs[r]
<1>1. m \in Maps(Recordings, StreamsOf(r) \cap begun) /\ DOMAIN externalOutputs = Rooms
  BY DEF AgreeInv, ShapeInv
<1>2. \A rec \in DOMAIN m : Mine(r, rec) BY DEF Mine, Uses
<1> HIDE DEF m
<1>3. m \in Maps(Recordings, StreamsOf(r) \cap begun') BY <1>1, MapsAre
<1> QED BY <1>1, <1>2, <1>3 DEF m

LEMMA PublishAgrees ==
    ASSUME AgreeInv, NEW r \in Rooms, NEW id \in Streams, NEW e \in Erizos,
           publish(r, id, e)
    PROVE  AgreeInv'
<1> DEFINE t == controller[r]
           u == controller'[r]
           o == externalOutputs[r]
           x == Call(IF Kind[id] = "erizo" THEN "addPublisher" ELSE "addExternalInput",
                     id, "publisher")
<1>0. CallsInv' BY PublishKeeps DEF AgreeInv
<1>1. /\ id \in StreamsOf(r) /\ id \notin begun /\ begun' = begun \cup {id}
      /\ erizo' = erizo /\ externalOutputs' = externalOutputs
      /\ calls' = CallsWith(r, e, <<x>>)
  BY DEF publish
<1>2. Keeps(t, r, begun) /\ DOMAIN controller = Rooms
  BY DEF AgreeInv, CallsInv, ControllerInv
<1>3. u = AddPublisher(t, id, e) /\ \A y \in Rooms \ {r} : controller'[y] = controller[y]
  BY <1>2 DEF publish
<1>4. /\ DOMAIN u.publishers = DOMAIN t.publishers \cup {id}
      /\ u.publishers[id] = e /\ u.subscribers[id] = {}
      /\ \A i \in DOMAIN t.publishers : i # id =>
            u.publishers[i] = t.publishers[i] /\ u.subscribers[i] = t.subscribers[i]
  <2> HIDE DEF t, u
  <2> QED BY <1>1, <1>2, <1>3, AddPublisherStep
<1>5. x \in Message /\ PeerOf(x) /\ ~OfRecording(x) /\ x.id = id /\ Adds(x)
  <2>1. (IF Kind[id] = "erizo" THEN "addPublisher" ELSE "addExternalInput") \in Methods
    BY DEF Methods
  <2>2. "publisher" \in Peers BY DEF Peers
  <2>3. x \in Message /\ x.id = id
        /\ x.method = IF Kind[id] = "erizo" THEN "addPublisher" ELSE "addExternalInput"
    BY <2>1, <2>2, CallIsMessage
  <2> HIDE DEF x
  <2> QED BY <2>3 DEF PeerOf, OfRecording, Adds
<1>6. Shaped(u, r)
  <2>1. Shaped(t, r) /\ DOMAIN t = ControllerFields BY <1>2 DEF AgreeInv, ShapeInv, Keeps
  <2> HIDE DEF t, u
  <2> QED BY <1>1, <1>3, <2>1, AddPublisherShaped
<1>7. begun' \subseteq Streams \cup Recordings BY <1>1 DEF AgreeInv, ShapeInv
<1> HIDE DEF t, u, o, x
<1>8. id \notin DOMAIN t.publishers BY <1>1, <1>2 DEF Keeps
<1>9. ASSUME NEW v, Meets(v, t, o, e, begun) PROVE Meets(Told(v, x), u, o, e, begun')
  <2> DEFINE w == Told(v, x)
  <2>1. Tells(v, x, w) BY ToldTells
  <2> HIDE DEF w
  <2>2. /\ w.pubs = v.pubs \cup {id}
        /\ \A i \in w.pubs : w.subs[i] = IF i \notin v.pubs THEN {} ELSE v.subs[i]
        /\ \A rec \in Recordings : w.recs[rec] = v.recs[rec]
    BY <1>5, <2>1 DEF Tells, Adds
  <2>3. w.pubs = {i \in DOMAIN u.publishers : u.publishers[i] = e}
    BY <1>4, <1>8, <1>9, <2>2 DEF Meets
  <2>4. \A i \in w.pubs : w.subs[i] = u.subscribers[i]
    BY <1>4, <1>8, <1>9, <2>2 DEF Meets
  <2>5. ASSUME NEW rec \in Recordings
        PROVE  /\ w.recs[rec] \subseteq begun'
               /\ \A i \in w.pubs : i \in w.recs[rec] <=> (rec \in DOMAIN o /\ o[rec] = i)
    <3>1. rec \in DOMAIN o => o[rec] \in begun
      <4>1. o \in Maps(Recordings, StreamsOf(r) \cap begun) BY DEF AgreeInv, ShapeInv, o
      <4> QED BY <4>1, MapsAre
    <3> QED BY <1>1, <1>9, <2>2, <3>1 DEF Meets
  <2> QED BY <2>3, <2>4, <2>5 DEF Meets, w
<1>10. ASSUME NEW d \in Erizos \ {e}, NEW v, Meets(v, t, o, d, begun)
       PROVE  Meets(v, u, o, d, begun')
  BY <1>1, <1>4, <1>8, <1>10 DEF Meets
<1>11. begun \subseteq begun' BY <1>1
<1>12. /\ externalOutputs'[r] \in Maps(Recordings, StreamsOf(r) \cap begun')
       /\ DOMAIN externalOutputs' = Rooms
       /\ \A rec \in DOMAIN externalOutputs'[r] : Mine(r, rec)
  BY <1>1, <1>11, SameOutputs
<1>13. \A y \in Rooms \ {r} : /\ controller'[y] = controller[y]
                              /\ externalOutputs'[y] = externalOutputs[y]
  BY <1>1, <1>3
<1>14. externalOutputs'[r] = o BY <1>1 DEF o
<1> QED BY <1>0, <1>1, <1>5, <1>6, <1>7, <1>9, <1>10, <1>11, <1>12, <1>13, <1>14, OneSays
        DEF t, u, o

\* What a controller changes, from t to u, when it sends the call x.
Makes(t, u, x) ==
    /\ DOMAIN u.publishers = IF Removes(x) THEN DOMAIN t.publishers \ {x.id}
                             ELSE DOMAIN t.publishers
    /\ \A i \in DOMAIN u.publishers :
          /\ u.publishers[i] = t.publishers[i]
          /\ u.subscribers[i] =
                IF i = x.id /\ x.method = "addSubscriber" THEN t.subscribers[i] \cup {x.peer}
                ELSE IF i = x.id /\ x.method = "removeSubscriber"
                  THEN t.subscribers[i] \ {x.peer}
                ELSE t.subscribers[i]

\* A call about a publisher of the room to the process that serves it, and what
\* the controller changes for it.
LEMMA ServingSays ==
    ASSUME AgreeInv, CallsInv', NEW r \in Rooms, NEW id \in DOMAIN controller[r].publishers,
           NEW x \in Message, x.id = id, PeerOf(x), ~OfRecording(x), ~Adds(x),
           erizo' = erizo, externalOutputs' = externalOutputs, begun' = begun,
           \A y \in Rooms \ {r} : controller'[y] = controller[y],
           calls' = CallsWith(r, Serving(r, id), <<x>>),
           NEW t, t = controller[r], NEW u, u = controller'[r], Shaped(u, r),
           Makes(t, u, x)
    PROVE  AgreeInv'
<1> DEFINE o == externalOutputs[r]
           e == Serving(r, id)
<1>1. e \in Erizos BY ToServing DEF AgreeInv
<1>2. e = t.publishers[id] BY DEF Serving
<1>3. calls' = CallsWith(r, e, <<x>>) OBVIOUS
<1> HIDE DEF o, e
<1>9. ASSUME NEW v, Meets(v, t, o, e, begun) PROVE Meets(Told(v, x), u, o, e, begun')
  <2> DEFINE w == Told(v, x)
  <2>1. Tells(v, x, w) BY ToldTells
  <2> HIDE DEF w
  <2>2. /\ w.pubs = IF Removes(x) THEN v.pubs \ {id} ELSE v.pubs
        /\ \A i \in w.pubs : w.subs[i] =
                    IF i = id /\ x.method = "addSubscriber" THEN v.subs[i] \cup {x.peer}
                    ELSE IF i = id /\ x.method = "removeSubscriber" THEN v.subs[i] \ {x.peer}
                    ELSE v.subs[i]
        /\ \A rec \in Recordings : w.recs[rec] = v.recs[rec]
    BY <2>1 DEF Tells
  <2>3. w.pubs \subseteq v.pubs BY <2>2
  <2>4. w.pubs = {i \in DOMAIN u.publishers : u.publishers[i] = e}
    <3>1. v.pubs = {i \in DOMAIN t.publishers : t.publishers[i] = e} BY <1>9 DEF Meets
    <3>2. \A i \in DOMAIN u.publishers : u.publishers[i] = t.publishers[i] BY DEF Makes
    <3>3. CASE Removes(x)
      <4>1. w.pubs = v.pubs \ {id} /\ DOMAIN u.publishers = DOMAIN t.publishers \ {id}
        BY <2>2, <3>3 DEF Makes
      <4> QED BY <3>1, <3>2, <4>1
    <3>4. CASE ~Removes(x)
      <4>1. w.pubs = v.pubs /\ DOMAIN u.publishers = DOMAIN t.publishers BY <2>2, <3>4 DEF Makes
      <4> QED BY <3>1, <3>2, <4>1
    <3> QED BY <3>3, <3>4
  <2>5. ASSUME NEW i \in w.pubs PROVE w.subs[i] = u.subscribers[i]
    <3>1. v.subs[i] = t.subscribers[i] BY <1>9, <2>3 DEF Meets
    <3>2. i \in DOMAIN u.publishers BY <2>4
    <3>3. u.subscribers[i] =
              IF i = id /\ x.method = "addSubscriber" THEN t.subscribers[i] \cup {x.peer}
              ELSE IF i = id /\ x.method = "removeSubscriber" THEN t.subscribers[i] \ {x.peer}
              ELSE t.subscribers[i]
      BY <3>2 DEF Makes
    <3>4. w.subs[i] = IF i = id /\ x.method = "addSubscriber" THEN v.subs[i] \cup {x.peer}
                      ELSE IF i = id /\ x.method = "removeSubscriber"
                        THEN v.subs[i] \ {x.peer}
                      ELSE v.subs[i]
      BY <2>2
    <3> QED BY ONLY <3>1, <3>3, <3>4
  <2>6. ASSUME NEW rec \in Recordings
        PROVE  /\ w.recs[rec] \subseteq begun'
               /\ \A i \in w.pubs : i \in w.recs[rec] <=> (rec \in DOMAIN o /\ o[rec] = i)
    BY <1>9, <2>2, <2>3 DEF Meets
  <2> QED BY <2>4, <2>5, <2>6 DEF Meets, w
<1>10. ASSUME NEW d \in Erizos \ {e}, NEW v, Meets(v, t, o, d, begun)
       PROVE  Meets(v, u, o, d, begun')
  <2>1. v.pubs = {i \in DOMAIN u.publishers : u.publishers[i] = d}
    <3>1. v.pubs = {i \in DOMAIN t.publishers : t.publishers[i] = d} BY <1>10 DEF Meets
    <3>2. \A i \in DOMAIN u.publishers : u.publishers[i] = t.publishers[i] BY DEF Makes
    <3>3. \A i \in DOMAIN t.publishers : i = id \/ i \in DOMAIN u.publishers BY DEF Makes
    <3>4. DOMAIN u.publishers \subseteq DOMAIN t.publishers BY DEF Makes
    <3>5. d # t.publishers[id] BY <1>2
    <3> QED BY ONLY <3>1, <3>2, <3>3, <3>4, <3>5
  <2>2. id \notin v.pubs BY <1>2, <1>10 DEF Meets
  <2>3. ASSUME NEW i \in v.pubs PROVE v.subs[i] = u.subscribers[i]
    <3>1. v.subs[i] = t.subscribers[i] BY <1>10 DEF Meets
    <3>2. i \in DOMAIN u.publishers /\ i # x.id BY <2>1, <2>2
    <3> QED BY <3>1, <3>2 DEF Makes
  <2> QED BY <1>10, <2>1, <2>3 DEF Meets
<1>11. begun \subseteq begun' /\ begun' \subseteq Streams \cup Recordings
  BY DEF AgreeInv, ShapeInv
<1>12. /\ externalOutputs'[r] \in Maps(Recordings, StreamsOf(r) \cap begun')
       /\ DOMAIN externalOutputs' = Rooms
       /\ \A rec \in DOMAIN externalOutputs'[r] : Mine(r, rec)
  BY <1>11, SameOutputs
<1>13. externalOutputs'[r] = o BY DEF o
<1>14. \A y \in Rooms \ {r} : /\ controller'[y] = controller[y]
                              /\ externalOutputs'[y] = externalOutputs[y]
  OBVIOUS
<1> QED BY <1>1, <1>3, <1>9, <1>10, <1>11, <1>12, <1>13, <1>14, OneSays DEF o

LEMMA SubscribeAgrees ==
    ASSUME AgreeInv, NEW r \in Rooms, NEW c \in ClientsOf(r), NEW id, subscribe(r, c, id)
    PROVE  AgreeInv'
<1> DEFINE t == controller[r]
           u == controller'[r]
           x == Call("addSubscriber", id, c)
<1>0. CallsInv' BY SubscribeKeeps DEF AgreeInv
<1>1. /\ id \in DOMAIN t.publishers /\ erizo' = erizo /\ begun' = begun
      /\ externalOutputs' = externalOutputs
      /\ calls' = CallsWith(r, Serving(r, id), <<x>>)
  BY DEF subscribe
<1>2. id \in Streams /\ Keeps(t, r, begun) /\ DOMAIN controller = Rooms
  BY <1>1, ToServing DEF AgreeInv
<1>3. u = AddSubscriber(t, c, id) /\ \A y \in Rooms \ {r} : controller'[y] = controller[y]
  BY <1>2 DEF subscribe
<1>4. /\ u.publishers = t.publishers
      /\ u.subscribers[id] = t.subscribers[id] \cup {c}
      /\ \A i \in DOMAIN t.publishers : i # id => u.subscribers[i] = t.subscribers[i]
  <2> HIDE DEF t, u
  <2> QED BY <1>1, <1>2, <1>3, AddSubscriberStep
<1>5. Shaped(u, r)
  <2>1. Shaped(t, r) /\ DOMAIN t = ControllerFields /\ id \in DOMAIN t.subscribers
    BY <1>1, <1>2 DEF AgreeInv, ShapeInv, Keeps
  <2> HIDE DEF t, u
  <2> QED BY <1>3, <2>1, SubscribersShaped
<1>6. /\ x \in Message /\ x.id = id /\ x.peer = c /\ x.method = "addSubscriber"
      /\ PeerOf(x) /\ ~OfRecording(x) /\ ~Adds(x) /\ ~Removes(x)
  <2>1. "addSubscriber" \in Methods /\ c \in Peers /\ c \in Clients
    BY DEF Methods, Peers, ClientsOf
  <2>2. x \in Message /\ x.id = id /\ x.peer = c /\ x.method = "addSubscriber"
    BY <1>2, <2>1, CallIsMessage
  <2> HIDE DEF x
  <2> QED BY <2>1, <2>2 DEF PeerOf, OfRecording, Adds, Removes
<1> HIDE DEF x
<1>7. Makes(t, u, x)
  <2> HIDE DEF t, u
  <2> QED BY <1>4, <1>6 DEF Makes
<1>8. \A y \in Rooms \ {r} : controller'[y] = controller[y] BY <1>3
<1> QED BY <1>0, <1>1, <1>5, <1>6, <1>7, <1>8, ServingSays

LEMMA UnsubscribeAgrees ==
    ASSUME AgreeInv, NEW r \in Rooms, NEW c \in ClientsOf(r), NEW id, unsubscribe(r, c, id)
    PROVE  AgreeInv'
<1> DEFINE t == controller[r]
           u == controller'[r]
           x == Call("removeSubscriber", id, c)
<1>0. CallsInv' BY UnsubscribeKeeps DEF AgreeInv
<1>1. /\ id \in DOMAIN t.publishers /\ erizo' = erizo /\ begun' = begun
      /\ externalOutputs' = externalOutputs
      /\ calls' = CallsWith(r, Serving(r, id), <<x>>)
  BY DEF unsubscribe
<1>2. id \in Streams /\ Keeps(t, r, begun) /\ DOMAIN controller = Rooms
  BY <1>1, ToServing DEF AgreeInv
<1>3. u = RemoveSubscriber(t, c, id) /\ \A y \in Rooms \ {r} : controller'[y] = controller[y]
  BY <1>2 DEF unsubscribe
<1>4. /\ u.publishers = t.publishers
      /\ u.subscribers[id] = t.subscribers[id] \ {c}
      /\ \A i \in DOMAIN t.publishers : i # id => u.subscribers[i] = t.subscribers[i]
  <2> HIDE DEF t, u
  <2> QED BY <1>1, <1>2, <1>3, RemoveSubscriberStep
<1>5. Shaped(u, r)
  <2>1. Shaped(t, r) /\ DOMAIN t = ControllerFields /\ id \in DOMAIN t.subscribers
    BY <1>1, <1>2 DEF AgreeInv, ShapeInv, Keeps
  <2> HIDE DEF t, u
  <2> QED BY <1>3, <2>1, SubscribersShaped
<1>6. /\ x \in Message /\ x.id = id /\ x.peer = c /\ x.method = "removeSubscriber"
      /\ PeerOf(x) /\ ~OfRecording(x) /\ ~Adds(x) /\ ~Removes(x)
  <2>1. "removeSubscriber" \in Methods /\ c \in Peers BY DEF Methods, Peers, ClientsOf
  <2>2. x \in Message /\ x.id = id /\ x.peer = c /\ x.method = "removeSubscriber"
    BY <1>2, <2>1, CallIsMessage
  <2> HIDE DEF x
  <2> QED BY <2>2 DEF PeerOf, OfRecording, Adds, Removes
<1> HIDE DEF x
<1>7. Makes(t, u, x)
  <2> HIDE DEF t, u
  <2> QED BY <1>4, <1>6 DEF Makes
<1>8. \A y \in Rooms \ {r} : controller'[y] = controller[y] BY <1>3
<1> QED BY <1>0, <1>1, <1>5, <1>6, <1>7, <1>8, ServingSays

LEMMA UnpublishAgrees ==
    ASSUME AgreeInv, NEW r \in Rooms, NEW id \in Streams, unpublish(r, id)
    PROVE  AgreeInv'
<1> DEFINE t == controller[r]
           u == controller'[r]
           x == Call("removePublisher", id, "publisher")
<1>0. CallsInv' BY UnpublishKeeps DEF AgreeInv
<1>1. /\ id \in DOMAIN t.publishers /\ erizo' = erizo /\ begun' = begun
      /\ externalOutputs' = externalOutputs
      /\ calls' = CallsWith(r, Serving(r, id), <<x>>)
  BY DEF unpublish
<1>2. Keeps(t, r, begun) /\ DOMAIN controller = Rooms BY <1>1, ToServing DEF AgreeInv
<1>3. u = RemovePublisher(t, id) /\ \A y \in Rooms \ {r} : controller'[y] = controller[y]
  BY <1>2 DEF unpublish
<1>4. /\ DOMAIN u.publishers = DOMAIN t.publishers \ {id}
      /\ \A i \in DOMAIN u.publishers : /\ u.publishers[i] = t.publishers[i]
                                        /\ u.subscribers[i] = t.subscribers[i]
  <2> HIDE DEF t, u
  <2> QED BY <1>1, <1>2, <1>3, RemovePublisherStep
<1>5. Shaped(u, r)
  <2>1. Shaped(t, r) BY DEF AgreeInv, ShapeInv
  <2> HIDE DEF t, u
  <2> QED BY <1>1, <1>2, <1>3, <2>1, RemovePublisherShaped
<1>6. /\ x \in Message /\ x.id = id /\ x.method = "removePublisher"
      /\ PeerOf(x) /\ ~OfRecording(x) /\ ~Adds(x) /\ Removes(x)
  <2>1. "removePublisher" \in Methods /\ "publisher" \in Peers BY DEF Methods, Peers
  <2>2. x \in Message /\ x.id = id /\ x.method = "removePublisher"
    BY <2>1, CallIsMessage
  <2> HIDE DEF x
  <2> QED BY <2>2 DEF PeerOf, OfRecording, Adds, Removes
<1> HIDE DEF x
<1>7. Makes(t, u, x)
  <2> HIDE DEF t, u
  <2> QED BY <1>4, <1>6 DEF Makes, Removes
<1>8. \A y \in Rooms \ {r} : controller'[y] = controller[y] BY <1>3
<1> QED BY <1>0, <1>1, <1>5, <1>6, <1>7, <1>8, ServingSays

LEMMA SignalAgrees ==
    ASSUME AgreeInv, NEW r \in Rooms, NEW c \in ClientsOf(r), NEW id, signal(r, c, id)
    PROVE  AgreeInv'
<1> DEFINE t == controller[r]
           x == Signaling(r, id, c)
<1>0. CallsInv' BY SignalKeeps DEF AgreeInv
<1>1. /\ id \in DOMAIN t.publishers /\ erizo' = erizo /\ begun' = begun
      /\ externalOutputs' = externalOutputs /\ controller' = controller
      /\ calls' = CallsWith(r, Serving(r, id), <<x>>)
  BY DEF signal
<1>2. id \in Streams BY <1>1, ToServing DEF AgreeInv
<1>3. c \in Peers /\ "processSignaling" \in Methods BY DEF Peers, Methods, ClientsOf
<1>4. x.id = id /\ x.method = "processSignaling" BY DEF Signaling
<1>5. x \in Message BY <1>2, <1>3 DEF Signaling, Message
<1>6. Shaped(t, r) BY DEF AgreeInv, ShapeInv
<1> HIDE DEF x
<1>7. PeerOf(x) /\ ~OfRecording(x) /\ ~Adds(x) /\ ~Removes(x)
  BY <1>4 DEF PeerOf, OfRecording, Adds, Removes
<1>8. controller'[r] = t BY <1>1
<1>9. \A y \in Rooms \ {r} : controller'[y] = controller[y] BY <1>1
<1>10. Makes(t, t, x) BY <1>4, <1>7 DEF Makes
<1> QED BY <1>0, <1>1, <1>4, <1>5, <1>6, <1>7, <1>8, <1>9, <1>10, ServingSays

\* What a controller changes of its recordings, from o to p, when it sends the
\* call x: that of its recording alone, which is of the publisher of x.
Records(o, p, x) ==
    /\ \A rec : rec # x.peer =>
          /\ rec \in DOMAIN p <=> rec \in DOMAIN o
          /\ rec \in DOMAIN o => p[rec] = o[rec]
    /\ x.peer \in DOMAIN o => o[x.peer] = x.id
    /\ IF x.method = "addExternalOutput" THEN x.peer \in DOMAIN p /\ p[x.peer] = x.id
       ELSE x.peer \notin DOMAIN p

LEMMA RecorderSays ==
    ASSUME AgreeInv, CallsInv', NEW r \in Rooms, NEW id \in DOMAIN controller[r].publishers,
           NEW x \in Message, x.id = id, x.peer \in Recordings, OfRecording(x),
           Mine(r, x.peer), x.method = "addExternalOutput" => x.peer \in begun',
           erizo' = erizo, controller' = controller,
           begun \subseteq begun', begun' \subseteq Streams \cup Recordings,
           DOMAIN externalOutputs' = Rooms,
           \A y \in Rooms \ {r} : externalOutputs'[y] = externalOutputs[y],
           externalOutputs'[r] \in Maps(Recordings, StreamsOf(r) \cap begun'),
           calls' = CallsWith(r, Serving(r, id), <<x>>),
           Records(externalOutputs[r], externalOutputs'[r], x)
    PROVE  AgreeInv'
<1> DEFINE t == controller[r]
           o == externalOutputs[r]
           p == externalOutputs'[r]
           e == Serving(r, id)
<1>1. e \in Erizos /\ id \in begun BY ToServing DEF AgreeInv
<1>2. e = t.publishers[id] /\ id \in DOMAIN t.publishers BY DEF Serving
<1>3. calls' = CallsWith(r, e, <<x>>) OBVIOUS
<1>4. Records(o, p, x) OBVIOUS
<1>5. Shaped(controller'[r], r) BY DEF AgreeInv, ShapeInv
<1>6. PeerOf(x)
  BY DEF PeerOf, OfRecording
<1>7. \A rec \in DOMAIN p : Mine(r, rec) BY <1>4 DEF Records, Mine, Uses
<1>8. ~Adds(x) /\ ~Removes(x) /\ x.method \notin {"addSubscriber", "removeSubscriber"}
  BY DEF OfRecording, Adds, Removes
<1> HIDE DEF t, o, p, e
<1>9. ASSUME NEW v, Meets(v, t, o, e, begun) PROVE Meets(Told(v, x), t, p, e, begun')
  <2> DEFINE w == Told(v, x)
  <2>1. Tells(v, x, w) BY ToldTells
  <2> HIDE DEF w
  <2>2. /\ w.pubs = v.pubs /\ \A i \in w.pubs : w.subs[i] = v.subs[i]
        /\ \A rec \in Recordings :
              w.recs[rec] = IF rec = x.peer /\ id \in v.pubs
                              THEN IF x.method = "addExternalOutput" THEN {id} ELSE {}
                            ELSE v.recs[rec]
    BY <1>8, <2>1 DEF Tells
  <2>3. id \in v.pubs BY <1>2, <1>9 DEF Meets
  <2>4. ASSUME NEW rec \in Recordings
        PROVE  /\ w.recs[rec] \subseteq begun'
               /\ \A i \in w.pubs : i \in w.recs[rec] <=> (rec \in DOMAIN p /\ p[rec] = i)
    <3>1. CASE rec = x.peer
      <4>1. w.recs[rec] = IF x.method = "addExternalOutput" THEN {id} ELSE {}
        BY <2>2, <2>3, <3>1
      <4> QED BY <1>1, <1>4, <3>1, <4>1 DEF Records
    <3>2. CASE rec # x.peer
      <4>1. w.recs[rec] = v.recs[rec] BY <2>2, <3>2
      <4> QED BY <1>4, <1>9, <2>2, <3>2, <4>1 DEF Records, Meets
    <3> QED BY <3>1, <3>2
  <2> QED BY <1>9, <2>2, <2>4 DEF Meets, w
<1>10. ASSUME NEW d \in Erizos \ {e}, NEW v, Meets(v, t, o, d, begun)
       PROVE  Meets(v, t, p, d, begun')
  <2>1. id \notin v.pubs BY <1>2, <1>10 DEF Meets
  <2>2. ASSUME NEW rec \in Recordings
        PROVE  /\ v.recs[rec] \subseteq begun'
               /\ \A i \in v.pubs : i \in v.recs[rec] <=> (rec \in DOMAIN p /\ p[rec] = i)
    <3>1. CASE rec = x.peer
      BY <1>4, <1>10, <2>1, <3>1 DEF Records, Meets
    <3>2. CASE rec # x.peer BY <1>4, <1>10, <3>2 DEF Records, Meets
    <3> QED BY <3>1, <3>2
  <2> QED BY <1>10, <2>2 DEF Meets
<1>11. controller'[r] = t BY DEF t
<1>12. \A y \in Rooms \ {r} : /\ controller'[y] = controller[y]
                              /\ externalOutputs'[y] = externalOutputs[y]
  OBVIOUS
<1>13. \A rec \in DOMAIN externalOutputs'[r] : Mine(r, rec) BY <1>7 DEF p
<1> QED BY <1>1, <1>3, <1>5, <1>6, <1>9, <1>10, <1>11, <1>12, <1>13, OneSays DEF t, o, p

LEMMA StartRecorderAgrees ==
    ASSUME AgreeInv, NEW r \in Rooms, NEW id, NEW rec \in Recordings,
           startRecorder(r, id, rec)
    PROVE  AgreeInv'
<1> DEFINE o == externalOutputs[r]
           x == Call("addExternalOutput", id, rec)
<1>0. CallsInv' BY RecorderKeeps DEF AgreeInv
<1>1. /\ id \in DOMAIN controller[r].publishers /\ rec \notin begun
      /\ erizo' = erizo /\ controller' = controller /\ begun' = begun \cup {rec}
      /\ calls' = CallsWith(r, Serving(r, id), <<x>>)
      /\ externalOutputs' = [externalOutputs EXCEPT ![r] = With(@, rec, id)]
  BY DEF startRecorder
<1>2. id \in Streams /\ id \in StreamsOf(r) /\ id \in begun BY <1>1, ToServing DEF AgreeInv
<1>3. /\ DOMAIN externalOutputs = Rooms /\ o \in Maps(Recordings, StreamsOf(r) \cap begun)
      /\ begun \subseteq Streams \cup Recordings
  BY DEF AgreeInv, ShapeInv
<1>4. /\ externalOutputs'[r] = With(o, rec, id) /\ DOMAIN externalOutputs' = Rooms
      /\ \A y \in Rooms \ {r} : externalOutputs'[y] = externalOutputs[y]
  BY <1>1, <1>3
<1>5. rec \notin DOMAIN o BY <1>1 DEF AgreeInv, RecordingsInv, Uses
<1>6. /\ x \in Message /\ x.id = id /\ x.peer = rec /\ x.method = "addExternalOutput"
      /\ OfRecording(x)
  <2>1. "addExternalOutput" \in Methods /\ rec \in Peers BY DEF Methods, Peers
  <2>2. x \in Message /\ x.id = id /\ x.peer = rec /\ x.method = "addExternalOutput"
    BY <1>2, <2>1, CallIsMessage
  <2> HIDE DEF x
  <2> QED BY <2>2 DEF OfRecording
<1>7. begun \subseteq begun' /\ begun' \subseteq Streams \cup Recordings /\ rec \in begun'
  BY <1>1, <1>3
<1> HIDE DEF o, x
<1>8. Records(o, externalOutputs'[r], x)
  <2>1. /\ DOMAIN With(o, rec, id) = DOMAIN o \cup {rec} /\ With(o, rec, id)[rec] = id
        /\ \A z \in DOMAIN o : z # rec => With(o, rec, id)[z] = o[z]
    BY DEF With
  <2> QED BY <1>4, <1>5, <1>6, <2>1 DEF Records
<1>9. externalOutputs'[r] \in Maps(Recordings, StreamsOf(r) \cap begun')
  <2>1. o \in Maps(Recordings, StreamsOf(r) \cap begun') BY <1>3, <1>7, MapsAre
  <2>2. id \in StreamsOf(r) \cap begun' BY <1>2, <1>7
  <2>3. With(o, rec, id) \in Maps(Recordings, StreamsOf(r) \cap begun')
    BY <2>1, <2>2, WithMap
  <2> QED BY <1>4, <2>3
<1>10. Mine(r, rec) BY <1>1, <1>7 DEF Mine
<1> QED BY <1>0, <1>1, <1>4, <1>6, <1>7, <1>8, <1>9, <1>10, RecorderSays DEF o

LEMMA StopRecorderAgrees ==
    ASSUME AgreeInv, NEW r \in Rooms, NEW rec \in Recordings, stopRecorder(r, rec)
    PROVE  AgreeInv'
<1> DEFINE o == externalOutputs[r]
           id == o[rec]
           x == Call("removeExternalOutput", id, rec)
<1>0. CallsInv' BY RecorderKeeps DEF AgreeInv
<1>1. /\ id \in DOMAIN controller[r].publishers /\ rec \in DOMAIN o
      /\ erizo' = erizo /\ controller' = controller /\ begun' = begun
      /\ calls' = CallsWith(r, Serving(r, id), <<x>>)
      /\ externalOutputs' = [externalOutputs EXCEPT ![r] = Without(@, rec)]
  BY DEF stopRecorder
<1>2. id \in Streams BY <1>1, ToServing DEF AgreeInv
<1>3. /\ DOMAIN externalOutputs = Rooms /\ o \in Maps(Recordings, StreamsOf(r) \cap begun)
      /\ begun \subseteq Streams \cup Recordings
  BY DEF AgreeInv, ShapeInv
<1>4. /\ externalOutputs'[r] = Without(o, rec) /\ DOMAIN externalOutputs' = Rooms
      /\ \A y \in Rooms \ {r} : externalOutputs'[y] = externalOutputs[y]
  BY <1>1, <1>3
<1>5. Mine(r, rec) BY <1>1 DEF Mine, Uses
<1>6. /\ x \in Message /\ x.id = id /\ x.peer = rec /\ x.method = "removeExternalOutput"
      /\ OfRecording(x)
  <2>1. "removeExternalOutput" \in Methods /\ rec \in Peers BY DEF Methods, Peers
  <2> HIDE DEF id
  <2>2. x \in Message /\ x.id = id /\ x.peer = rec /\ x.method = "removeExternalOutput"
    BY <1>2, <2>1, CallIsMessage
  <2> HIDE DEF x
  <2> QED BY <2>2 DEF OfRecording
<1>7. begun \subseteq begun' /\ begun' \subseteq Streams \cup Recordings BY <1>1, <1>3
<1>8. id = o[rec] OBVIOUS
<1> HIDE DEF o, x, id
<1>9. Records(o, externalOutputs'[r], x)
  <2>1. /\ DOMAIN Without(o, rec) = DOMAIN o \ {rec}
        /\ \A z \in DOMAIN o : z # rec => Without(o, rec)[z] = o[z]
    BY DEF Without
  <2> QED BY <1>4, <1>6, <1>8, <2>1 DEF Records
<1>10. externalOutputs'[r] \in Maps(Recordings, StreamsOf(r) \cap begun')
  BY <1>1, <1>3, <1>4, WithoutMap
<1> QED BY <1>0, <1>1, <1>4, <1>5, <1>6, <1>7, <1>9, <1>10, RecorderSays DEF o

LEMMA LeaveAgrees ==
    ASSUME AgreeInv, NEW r \in Rooms, NEW c \in ClientsOf(r), leave(r, c)
    PROVE  AgreeInv'
<1> DEFINE t == controller[r]
           u == controller'[r]
           o == externalOutputs[r]
<1>0. CallsInv' BY LeaveKeeps DEF AgreeInv
<1>1. begun' = begun /\ erizo' = erizo /\ externalOutputs' = externalOutputs BY DEF leave
<1>2. Keeps(t, r, begun) /\ DOMAIN controller = Rooms
  BY DEF AgreeInv, CallsInv, ControllerInv
<1>3. u = RemoveSubscriptions(t, c) BY <1>2 DEF leave
<1>4. /\ u.publishers = t.publishers
      /\ \A i \in DOMAIN t.publishers : u.subscribers[i] = t.subscribers[i] \ {c}
  <2> HIDE DEF t, u
  <2> QED BY <1>2, <1>3, RemoveSubscriptionsStep
<1>5. Shaped(u, r)
  <2>1. Shaped(t, r) /\ DOMAIN t = ControllerFields BY <1>2 DEF AgreeInv, ShapeInv, Keeps
  <2> HIDE DEF t, u
  <2> QED BY <1>3, <2>1, SubscribersShaped
<1>6. PICK n : /\ SendsOnly(r, n)
               /\ \A e \in Erizos :
                     /\ n[e] \in Seq(Message)
                     /\ \A k \in 1 .. Len(n[e]) :
                           n[e][k].method = "removeSubscriber" /\ n[e][k].peer = c
                     /\ \A id \in DOMAIN t.publishers :
                           t.publishers[id] = e /\ c \in t.subscribers[id]
                              => \E k \in 1 .. Len(n[e]) : n[e][k].id = id
  BY LeaveSends DEF AgreeInv
<1> HIDE DEF t, u, o
<1>7. ASSUME NEW e \in Erizos, NEW v, Meets(v, t, o, e, begun)
      PROVE  Leads(v, n[e], u, o, e, begun)
  <2> DEFINE m == n[e]
  <2>1. /\ Len(m) \in Nat
        /\ \A k \in 1 .. Len(m) : m[k].method = "removeSubscriber" /\ m[k].peer = c
        /\ \A id \in DOMAIN t.publishers : t.publishers[id] = e /\ c \in t.subscribers[id]
               => \E k \in 1 .. Len(m) : m[k].id = id
    BY <1>6
  <2> HIDE DEF m
  <2>2. Leads(v, m, u, o, e, begun) BY <1>4, <1>7, <2>1, LeadsLeave
  <2> QED BY <2>2 DEF m
<1>8. \A e \in Erizos : \A k \in 1 .. Len(n[e]) : PeerOf(n[e][k]) /\ ~OfRecording(n[e][k])
  BY <1>6 DEF PeerOf, OfRecording
<1>9. begun \subseteq begun' /\ begun' \subseteq Streams \cup Recordings
  BY <1>1 DEF AgreeInv, ShapeInv
<1>10. /\ externalOutputs'[r] \in Maps(Recordings, StreamsOf(r) \cap begun')
       /\ DOMAIN externalOutputs' = Rooms
       /\ \A rec \in DOMAIN externalOutputs'[r] : Mine(r, rec)
  BY <1>1, <1>9, SameOutputs
<1>11. Says(r, n) BY <1>1, <1>5, <1>6, <1>8, <1>9, <1>10 DEF Says, u
<1>12. \A e \in Erizos : \A v :
           Meets(v, controller[r], externalOutputs[r], e, begun) =>
           Leads(v, n[e], controller'[r], externalOutputs'[r], e, begun')
  BY <1>1, <1>7 DEF t, u, o
<1> QED BY <1>0, <1>11, <1>12, SayKeeps

-----------------------------------------------------------------------------
\* A process that goes from one state to k, and has no other calls than before.
LEMMA ProcessAgrees ==
    ASSUME AgreeInv, CallsInv', NEW e \in Erizos, NEW k, Typed(k), erizo'[e] = k,
           \A d \in Erizos \ {e} : erizo'[d] = erizo[d],
           \A y \in Rooms : \A d \in Erizos \ {e} : calls'[y][d] = calls[y][d],
           \A y \in Rooms : \A i \in 1 .. Len(calls'[y][e]) :
               \E m \in 1 .. Len(calls[y][e]) : calls'[y][e][i] = calls[y][e][m],
           controller' = controller, externalOutputs' = externalOutputs, begun' = begun,
           \A y \in Rooms : \A rec \in DOMAIN k.outputs :
               k.outputs[rec] \in StreamsOf(y) => Uses(y, rec),
           k.end = Running => \A y \in Rooms :
               \E v : /\ Shows(v, k, y)
                      /\ Leads(v, calls'[y][e], controller[y], externalOutputs[y], e, begun)
    PROVE  AgreeInv'
<1>1. ASSUME NEW y \in Rooms, NEW d \in Erizos, NEW i \in 1 .. Len(calls'[y][d])
      PROVE  \E m \in 1 .. Len(calls[y][d]) : calls'[y][d][i] = calls[y][d][m]
  <2>1. CASE d = e BY <2>1
  <2>2. CASE d # e BY <2>2
  <2> QED BY <2>1, <2>2
<1>2. ShapeInv'
  <2>1. ASSUME NEW y \in Rooms, NEW d \in Erizos, NEW i \in 1 .. Len(calls'[y][d])
        PROVE  PeerOf(calls'[y][d][i])
    <3>1. PICK m \in 1 .. Len(calls[y][d]) : calls'[y][d][i] = calls[y][d][m] BY <1>1
    <3>2. PeerOf(calls[y][d][m]) BY DEF AgreeInv, ShapeInv
    <3> QED BY <3>1, <3>2
  <2>2. \A d \in Erizos : Typed(erizo'[d]) BY DEF AgreeInv, ShapeInv
  <2>3. /\ DOMAIN externalOutputs' = Rooms
        /\ \A y \in Rooms : /\ Shaped(controller'[y], y)
                            /\ externalOutputs'[y] \in Maps(Recordings, StreamsOf(y) \cap begun')
        /\ begun' \subseteq Streams \cup Recordings
    BY DEF AgreeInv, ShapeInv
  <2> QED BY <2>1, <2>2, <2>3 DEF ShapeInv, StreamsOf, ClientsOf, Shaped, PeerOf,
                                  OfRecording, Typed, Ends, Connections
<1>3. RecordingsInv'
  <2>1. ASSUME NEW y \in Rooms, NEW rec, Uses(y, rec)' PROVE Uses(y, rec)
    <3>1. CASE rec \in DOMAIN externalOutputs'[y] BY <3>1 DEF Uses
    <3>2. CASE \E d \in Erizos : \E i \in 1 .. Len(calls'[y][d]) :
                  OfRecording(calls'[y][d][i]) /\ calls'[y][d][i].peer = rec
      <4>1. PICK d \in Erizos : \E i \in 1 .. Len(calls'[y][d]) :
                  OfRecording(calls'[y][d][i]) /\ calls'[y][d][i].peer = rec
        BY <3>2
      <4>2. PICK i \in 1 .. Len(calls'[y][d]) :
                  OfRecording(calls'[y][d][i]) /\ calls'[y][d][i].peer = rec
        BY <4>1
      <4>3. PICK m \in 1 .. Len(calls[y][d]) : calls'[y][d][i] = calls[y][d][m] BY <1>1
      <4> QED BY <4>2, <4>3 DEF Uses
    <3>3. CASE \E d \in Erizos : /\ rec \in DOMAIN erizo'[d].outputs
                                /\ erizo'[d].outputs[rec] \in StreamsOf(y)
      <4>1. PICK d \in Erizos : /\ rec \in DOMAIN erizo'[d].outputs
                               /\ erizo'[d].outputs[rec] \in StreamsOf(y)
        BY <3>3
      <4>2. CASE d = e BY <4>1, <4>2
      <4>3. CASE d # e BY <4>1, <4>3 DEF Uses
      <4> QED BY <4>2, <4>3
    <3> QED BY <2>1, <3>1, <3>2, <3>3 DEF Uses, OfRecording, StreamsOf
  <2>2. begun' = begun OBVIOUS
  <2> QED BY <2>1, <2>2 DEF AgreeInv, RecordingsInv
<1>4. LeadsInv'
  <2>1. ASSUME NEW y \in Rooms, NEW d \in Erizos, erizo'[d].end = Running
        PROVE  \E v : /\ Shows(v, erizo'[d], y)
                      /\ Leads(v, calls'[y][d], controller[y], externalOutputs[y], d, begun)
    <3>1. CASE d = e BY <2>1, <3>1
    <3>2. CASE d # e
      <4>1. Up(d) /\ erizo'[d] = erizo[d] /\ calls'[y][d] = calls[y][d]
        BY <2>1, <3>2 DEF Up
      <4> QED BY <4>1 DEF AgreeInv, LeadsInv
    <3> QED BY <3>1, <3>2
  <2>2. \A d \in Erizos : Up(d)' = (erizo'[d].end = Running) BY DEF Up
  <2> QED BY <2>1, <2>2 DEF LeadsInv
<1> QED BY <1>2, <1>3, <1>4 DEF AgreeInv

\* Recordings are only what was recorded before, or what the call names.
LEMMA HandleOutputs ==
    ASSUME NEW j, NEW x, DOMAIN j = Fields, NEW rec \in DOMAIN Handle(j, x).outputs
    PROVE  \/ /\ rec \in DOMAIN j.outputs
              /\ Handle(j, x).outputs[rec] = j.outputs[rec]
           \/ OfRecording(x) /\ rec = x.peer /\ Handle(j, x).outputs[rec] = x.id
<1> DEFINE k == Handle(j, x)
<1>1. /\ addPublisher(j, x.id).outputs = j.outputs
      /\ addExternalInput(j, x.id).outputs = j.outputs
      /\ addSubscriber(j, x.peer, x.id).outputs = j.outputs
      /\ removeSubscriber(j, x.peer, x.id).outputs = j.outputs
      /\ removePublisher(j, x.id).outputs = j.outputs
      /\ processSignaling(j, x.peer, x.id).outputs = j.outputs
  BY DEF addPublisher, addExternalInput, addSubscriber, removeSubscriber, removePublisher,
         processSignaling, Fields
<1>2. /\ \/ addExternalOutput(j, x.id, x.peer).outputs = j.outputs
         \/ addExternalOutput(j, x.id, x.peer).outputs = With(j.outputs, x.peer, x.id)
      /\ \/ removeExternalOutput(j, x.id, x.peer).outputs = j.outputs
         \/ removeExternalOutput(j, x.id, x.peer).outputs = Without(j.outputs, x.peer)
  BY DEF addExternalOutput, removeExternalOutput, Fields
<1>3. \/ k.outputs = j.outputs
      \/ k.outputs = Without(j.outputs, x.peer)
      \/ OfRecording(x) /\ k.outputs = With(j.outputs, x.peer, x.id)
  BY <1>1, <1>2 DEF Handle, OfRecording
<1>4. rec \in DOMAIN k.outputs OBVIOUS
<1> HIDE DEF k
<1> QED BY <1>3, <1>4 DEF With, Without, k

LEMMA HandleAgrees ==
    ASSUME AgreeInv, NEW r \in Rooms, NEW e \in Erizos, handle(r, e), CallsInv'
    PROVE  AgreeInv'
<1> DEFINE q == calls[r][e]
           j == erizo[e]
           x == Head(q)
           k == Handle(j, x)
<1>1. /\ q # <<>> /\ erizo' = [erizo EXCEPT ![e] = k]
      /\ calls' = CallsAfter(r, e, erizo'[e].end = Running)
      /\ controller' = controller /\ externalOutputs' = externalOutputs /\ begun' = begun
  BY DEF handle
<1>2. /\ erizo'[e] = k /\ \A d \in Erizos \ {e} : erizo'[d] = erizo[d]
      /\ DOMAIN j = Fields
  BY <1>1 DEF AgreeInv, CallsInv, ProcessInv
<1>3. /\ Up(e) /\ Shifted(Tail(q), q) /\ x = q[1] /\ 1 \in 1 .. Len(q)
      /\ CallOf(x, r, begun)
  BY <1>1, FirstCall DEF AgreeInv
<1>4. PeerOf(x) /\ Typed(j) BY <1>3 DEF AgreeInv, ShapeInv
<1>5. /\ x.id \in StreamsOf(r) /\ x.id \in Streams /\ x.method \in Methods
      /\ j.end = Running /\ Consistent(j)
  <2>1. x.id \in StreamsOf(r) /\ x.id \in Streams /\ x \in Message
    BY <1>3 DEF CallOf, StreamsOf
  <2>2. j.end = Running BY <1>3 DEF Up
  <2>3. Consistent(j) BY <2>2 DEF AgreeInv, CallsInv, ProcessInv, Up
  <2> HIDE DEF x
  <2>4. x.method \in Methods BY <2>1 DEF Message, Methods
  <2> QED BY <2>1, <2>2, <2>3, <2>4
<1>6. DOMAIN calls = Rooms /\ \A y \in Rooms : DOMAIN calls[y] = Erizos
  BY DEF AgreeInv, CallsInv, QueuesInv
<1>7. /\ \A y \in Rooms : \A d \in Erizos \ {e} : calls'[y][d] = calls[y][d]
      /\ k.end = Running =>
            calls'[r][e] = Tail(q) /\ \A y \in Rooms \ {r} : calls'[y][e] = calls[y][e]
      /\ k.end # Running => \A y \in Rooms : calls'[y][e] = <<>>
  BY <1>1, <1>2, <1>6 DEF CallsAfter
<1>8. Uses(r, x.peer) \/ ~OfRecording(x) BY <1>3 DEF Uses
<1>9. \A y \in Rooms : \A rec \in DOMAIN j.outputs :
          j.outputs[rec] \in StreamsOf(y) => Uses(y, rec)
  BY DEF Uses
<1>10. \A y \in Rooms : \E v : Shows(v, j, y)
                               /\ Leads(v, calls[y][e], controller[y], externalOutputs[y], e, begun)
  BY <1>3 DEF AgreeInv, LeadsInv
<1> HIDE DEF q, j, x
<1>11. Typed(k) BY <1>2, <1>4, <1>5, HandleTyped
<1>12. ASSUME NEW y \in Rooms, NEW i \in 1 .. Len(calls'[y][e])
       PROVE  \E m \in 1 .. Len(calls[y][e]) : calls'[y][e][i] = calls[y][e][m]
  <2>1. CASE k.end # Running
    <3>1. calls'[y][e] = <<>> /\ ~ \E m : m \in 1 .. Len(<<>>) BY <1>7, <2>1, None
    <3> QED BY <3>1
  <2>2. CASE k.end = Running /\ y = r
    <3>1. calls'[y][e] = Tail(q) BY <1>7, <2>2
    <3>2. i + 1 \in 1 .. Len(q) /\ Tail(q)[i] = q[i + 1] BY <1>3, <3>1 DEF Shifted
    <3> QED BY <2>2, <3>1, <3>2 DEF q
  <2>3. CASE k.end = Running /\ y # r BY <1>7, <2>3
  <2> QED BY <2>1, <2>2, <2>3
<1>13. ASSUME NEW y \in Rooms, NEW rec \in DOMAIN k.outputs, k.outputs[rec] \in StreamsOf(y)
       PROVE  Uses(y, rec)
  <2>1. CASE rec \in DOMAIN j.outputs /\ k.outputs[rec] = j.outputs[rec]
    BY <1>9, <1>13, <2>1
  <2>2. CASE OfRecording(x) /\ rec = x.peer /\ k.outputs[rec] = x.id
    <3>1. y = r BY <1>5, <1>13, <2>2, RoomsApart
    <3> QED BY <1>8, <2>2, <3>1
  <2> QED BY <1>2, <2>1, <2>2, HandleOutputs
<1>14. ASSUME k.end = Running, NEW y \in Rooms
       PROVE  \E v : /\ Shows(v, k, y)
                     /\ Leads(v, calls'[y][e], controller[y], externalOutputs[y], e, begun)
  <2>1. PICK v : /\ Shows(v, j, y)
                 /\ Leads(v, calls[y][e], controller[y], externalOutputs[y], e, begun)
    BY <1>10
  <2>2. CASE y = r
    <3>1. Leads(v, q, controller[r], externalOutputs[r], e, begun) BY <2>1, <2>2 DEF q
    <3> DEFINE p == Tail(q)
    <3>2. Shifted(p, q) BY <1>3
    <3> HIDE DEF p
    <3>3. PICK w : /\ Tells(v, q[1], w)
                   /\ Leads(w, p, controller[r], externalOutputs[r], e, begun)
      BY <1>3, <3>1, <3>2, LeadsTail
    <3>4. Shows(w, k, r) BY <1>2, <1>3, <1>5, <1>14, <2>1, <2>2, <3>3, HandleShows
    <3>5. calls'[y][e] = p BY <1>7, <1>14, <2>2 DEF p
    <3> QED BY <2>2, <3>3, <3>4, <3>5
  <2>3. CASE y # r
    <3>1. Does(j, x, k) BY <1>2, <1>5, <1>14, HandleDoes
    <3>2. x.id \notin StreamsOf(y) BY <1>5, <2>3, RoomsApart
    <3>3. OfRecording(x) /\ x.peer \in DOMAIN j.outputs => j.outputs[x.peer] \notin StreamsOf(y)
      BY <1>8, <1>9, <2>3 DEF AgreeInv, RecordingsInv
    <3> HIDE DEF k
    <3>4. Shows(v, k, y) BY <2>1, <3>1, <3>2, <3>3, ShowsElsewhere
    <3>5. calls'[y][e] = calls[y][e] BY <1>7, <1>14, <2>3
    <3> QED BY <2>1, <3>4, <3>5
  <2> QED BY <2>2, <2>3
<1> HIDE DEF k
<1> QED BY <1>1, <1>2, <1>7, <1>11, <1>12, <1>13, <1>14, ProcessAgrees

LEMMA KilledAgrees ==
    ASSUME AgreeInv, NEW e \in Erizos, killed(e), CallsInv'
    PROVE  AgreeInv'
<1> DEFINE j == erizo[e]
           k == [j EXCEPT !.end = Killed]
<1>1. /\ erizo' = [erizo EXCEPT ![e] = k]
      /\ calls' = [y \in Rooms |-> [calls[y] EXCEPT ![e] = <<>>]]
      /\ controller' = controller /\ externalOutputs' = externalOutputs /\ begun' = begun
  BY DEF killed
<1>2. /\ erizo'[e] = k /\ \A d \in Erizos \ {e} : erizo'[d] = erizo[d]
      /\ DOMAIN j = Fields
  BY <1>1 DEF AgreeInv, CallsInv, ProcessInv
<1>3. \A y \in Rooms : DOMAIN calls[y] = Erizos BY DEF AgreeInv, CallsInv, QueuesInv
<1>4. Typed(j) BY DEF AgreeInv, ShapeInv
<1>5. /\ k.publishers = j.publishers /\ k.subscribers = j.subscribers
      /\ k.outputs = j.outputs /\ k.open = j.open /\ k.end = Killed
  BY <1>2 DEF Fields
<1>6. \A y \in Rooms : \A rec \in DOMAIN j.outputs :
          j.outputs[rec] \in StreamsOf(y) => Uses(y, rec)
  BY DEF Uses
<1> HIDE DEF j, k
<1>7. Typed(k) BY <1>4, <1>5 DEF Typed, Ends
<1>8. Killed # Running BY DEF Killed, Running
<1>9. \A y \in Rooms : /\ \A d \in Erizos \ {e} : calls'[y][d] = calls[y][d]
                       /\ calls'[y][e] = <<>>
  BY <1>1, <1>3
<1>10. \A y \in Rooms : \A i \in 1 .. Len(calls'[y][e]) :
           \E m \in 1 .. Len(calls[y][e]) : calls'[y][e][i] = calls[y][e][m]
  BY <1>9, None
<1>11. \A y \in Rooms : \A rec \in DOMAIN k.outputs :
           k.outputs[rec] \in StreamsOf(y) => Uses(y, rec)
  BY <1>5, <1>6
<1> QED BY <1>1, <1>2, <1>5, <1>7, <1>8, <1>9, <1>10, <1>11, ProcessAgrees

LEMMA InitAgrees == Init => AgreeInv
<1> SUFFICES ASSUME Init PROVE AgreeInv OBVIOUS
<1>1. CallsInv BY InitCalls
<1>2. /\ \A r \in Rooms : controller[r] = NewController /\ externalOutputs[r] = <<>>
      /\ DOMAIN externalOutputs = Rooms
      /\ \A r \in Rooms, e \in Erizos : calls[r][e] = <<>>
      /\ \A e \in Erizos : erizo[e] = NewErizoJS
      /\ begun = {}
  BY DEF Init
<1>3. DOMAIN <<>> = {} /\ Len(<<>>) = 0 /\ \A i : i \notin 1 .. Len(<<>>) OBVIOUS
<1>4. /\ NewController.publishers = <<>> /\ NewController.subscribers = <<>>
      /\ NewController.thrown = FALSE
  BY DEF NewController
<1>5. /\ NewErizoJS.publishers = <<>> /\ NewErizoJS.subscribers = <<>>
      /\ NewErizoJS.outputs = <<>> /\ NewErizoJS.open = {} /\ NewErizoJS.end = Running
  BY DEF NewErizoJS
<1>6. ShapeInv
  <2>1. \A r : Shaped(NewController, r) BY <1>4, EmptyMap DEF Shaped
  <2>2. Typed(NewErizoJS)
    <3>1. /\ NewErizoJS.publishers \in Maps(Streams, {"wrtc", "input"})
          /\ NewErizoJS.subscribers \in Maps(Streams, SUBSET Clients)
          /\ NewErizoJS.outputs \in Maps(Recordings, Streams)
      BY <1>5, EmptyMap
    <3>2. NewErizoJS.open \in SUBSET Connections /\ NewErizoJS.end \in Ends BY <1>5 DEF Ends
    <3> QED BY <3>1, <3>2 DEF Typed
  <2>3. \A r \in Rooms : externalOutputs[r] \in Maps(Recordings, StreamsOf(r) \cap begun)
    BY <1>2, EmptyMap
  <2> QED BY <1>2, <1>3, <2>1, <2>2, <2>3 DEF ShapeInv
<1>7. RecordingsInv BY <1>2, <1>3, <1>5 DEF RecordingsInv, Uses
<1>8. LeadsInv
  <2> SUFFICES ASSUME NEW r \in Rooms, NEW e \in Erizos
               PROVE  \E v : /\ Shows(v, erizo[e], r)
                             /\ Leads(v, calls[r][e], controller[r], externalOutputs[r], e, begun)
    BY DEF LeadsInv
  <2> DEFINE v == [pubs |-> {}, subs |-> <<>>, recs |-> [rec \in Recordings |-> {}]]
  <2>1. v.pubs = {} /\ \A rec \in Recordings : v.recs[rec] = {} OBVIOUS
  <2> HIDE DEF v
  <2>2. Shows(v, NewErizoJS, r) BY <1>3, <1>5, <2>1 DEF Shows
  <2>3. Meets(v, NewController, <<>>, e, {}) BY <1>3, <1>4, <2>1 DEF Meets
  <2>4. Leads(v, <<>>, NewController, <<>>, e, {}) BY <2>3, LeadsNone
  <2> QED BY <1>2, <2>2, <2>4
<1> QED BY <1>1, <1>6, <1>7, <1>8 DEF AgreeInv

LEMMA NextAgrees == AgreeInv /\ [Next]_vars => AgreeInv'
<1> SUFFICES ASSUME AgreeInv, [Next]_vars PROVE AgreeInv' OBVIOUS
<1>0. CallsInv' BY NextCalls DEF AgreeInv
<1>1. CASE UNCHANGED vars
  <2>1. ShapeInv'
    <3>1. /\ controller' = controller /\ externalOutputs' = externalOutputs
          /\ calls' = calls /\ erizo' = erizo /\ begun' = begun
      BY <1>1 DEF vars
    <3>2. ShapeInv BY DEF AgreeInv
    <3> QED BY ONLY <3>1, <3>2 DEF ShapeInv, StreamsOf, ClientsOf, Shaped, PeerOf,
                                   OfRecording, Typed, Ends, Connections
  <2>2. RecordingsInv'
    BY <1>1 DEF vars, AgreeInv, RecordingsInv, Uses, OfRecording, StreamsOf
  <2>3. LeadsInv' BY <1>1 DEF vars, AgreeInv, LeadsInv, Up
  <2> QED BY <1>0, <2>1, <2>2, <2>3 DEF AgreeInv
<1>2. ASSUME NEW r \in Rooms, NEW id \in Streams, NEW e \in Erizos, publish(r, id, e)
      PROVE  AgreeInv'
  BY <1>2, PublishAgrees
<1>3. ASSUME NEW r \in Rooms, NEW id \in Streams, unpublish(r, id) PROVE AgreeInv'
  BY <1>3, UnpublishAgrees
<1>4. ASSUME NEW r \in Rooms, NEW c \in ClientsOf(r), leave(r, c) PROVE AgreeInv'
  BY <1>4, LeaveAgrees
<1>5. ASSUME NEW r \in Rooms, NEW c \in ClientsOf(r), NEW id \in Streams,
             subscribe(r, c, id) \/ unsubscribe(r, c, id) \/ signal(r, c, id)
      PROVE  AgreeInv'
  BY <1>5, SubscribeAgrees, UnsubscribeAgrees, SignalAgrees
<1>6. ASSUME NEW r \in Rooms, NEW id \in Streams, NEW rec \in Recordings,
             startRecorder(r, id, rec)
      PROVE  AgreeInv'
  BY <1>6, StartRecorderAgrees
<1>7. ASSUME NEW r \in Rooms, NEW rec \in Recordings, stopRecorder(r, rec)
      PROVE  AgreeInv'
  BY <1>7, StopRecorderAgrees
<1>8. ASSUME NEW r \in Rooms, NEW e \in Erizos, handle(r, e) PROVE AgreeInv'
  BY <1>0, <1>8, HandleAgrees
<1>9. ASSUME NEW e \in Erizos, killed(e) PROVE AgreeInv'
  BY <1>0, <1>9, KilledAgrees
<1> QED BY <1>1, <1>2, <1>3, <1>4, <1>5, <1>6, <1>7, <1>8, <1>9 DEF Next

\* AgreeInv is an invariant of any rooms and the processes they share.
THEOREM AgreeInvariant == Spec => []AgreeInv
BY InitAgrees, NextAgrees, PTL DEF Spec

-----------------------------------------------------------------------------
\* What follows from it.
LEMMA TypesAreKept == AgreeInv => TypeOK
<1> SUFFICES ASSUME AgreeInv PROVE TypeOK OBVIOUS
<1>1. ASSUME NEW r \in Rooms
      PROVE  /\ controller[r].publishers \in Maps(StreamsOf(r), Erizos)
             /\ controller[r].subscribers \in Maps(StreamsOf(r), SUBSET ClientsOf(r))
             /\ ~controller[r].thrown
             /\ externalOutputs[r] \in Maps(Recordings, StreamsOf(r))
  <2> DEFINE o == externalOutputs[r]
  <2>1. Shaped(controller[r], r) /\ o \in Maps(Recordings, StreamsOf(r) \cap begun)
    BY DEF AgreeInv, ShapeInv
  <2> HIDE DEF o
  <2>2. o \in Maps(Recordings, StreamsOf(r)) BY <2>1, MapsAre
  <2> QED BY <2>1, <2>2 DEF Shaped, o
<1>2. ASSUME NEW r \in Rooms, NEW e \in Erizos, NEW i \in DOMAIN calls[r][e]
      PROVE  /\ calls[r][e][i].method \in Methods
             /\ calls[r][e][i].id \in StreamsOf(r)
             /\ calls[r][e][i].peer \in Peers
  <2> DEFINE x == calls[r][e][i]
  <2>1. i \in 1 .. Len(calls[r][e]) BY DEF AgreeInv, CallsInv, QueuesInv
  <2>2. CallOf(x, r, begun) BY <2>1 DEF AgreeInv, CallsInv, QueuesInv
  <2> HIDE DEF x
  <2>3. x \in Message /\ x.id \in StreamsOf(r) BY <2>2 DEF CallOf
  <2>4. x.method \in Methods /\ x.peer \in Peers BY <2>3 DEF Message, Methods
  <2> QED BY <2>3, <2>4 DEF x
<1>3. \A e \in Erizos : Typed(erizo[e]) BY DEF AgreeInv, ShapeInv
<1>4. begun \subseteq Streams \cup Recordings BY DEF AgreeInv, ShapeInv
<1> QED BY <1>1, <1>2, <1>3, <1>4 DEF TypeOK, Typed, Ends, Connections

-----------------------------------------------------------------------------
\* A room's calls, handled in a row. ctx: the room r, its calls q, the process
\* base that handles them, and what they tell it of the room, call by call, in told.
Turn(ctx, j, x) == Handle(j, x)

Turned(ctx, k, j) ==
    /\ DOMAIN j = Fields /\ Typed(j) /\ (j.end = Running => Consistent(j))
    /\ ctx.base.end # Running => j = ctx.base
    /\ j.end = Running /\ ctx.base.end = Running => Shows(ctx.told[k], j, ctx.r)

Turns == INSTANCE FoldProofs WITH Op <- Turn, Inv <- Turned

HandleAll(j, q) == FoldLeft(Handle, j, q)

LEMMA CallsAreHandled ==
    ASSUME NEW r, NEW q \in Seq(Message), NEW j, NEW told,
           \A i \in 1 .. Len(q) : PeerOf(q[i]) /\ q[i].id \in StreamsOf(r),
           DOMAIN j = Fields, Typed(j), j.end = Running => Consistent(j),
           j.end = Running => Shows(told[0], j, r),
           \A i \in 1 .. Len(q) : Tells(told[i - 1], q[i], told[i])
    PROVE  Turned([base |-> j, r |-> r, told |-> told], Len(q), HandleAll(j, q))
<1> DEFINE ctx == [base |-> j, r |-> r, told |-> told]
           n == Len(q)
<1>1. ctx.base = j /\ ctx.r = r /\ ctx.told = told OBVIOUS
<1>2. n \in Nat /\ DOMAIN q = 1 .. n OBVIOUS
<1>3. HandleAll(j, q) = Turns!LeftFold(ctx, j, q)
  BY DEF HandleAll, FoldLeft, MapThenFoldSet, Max, Turn, Turns!LeftFold
<1> HIDE DEF ctx, n
<1>4. Turned(ctx, 0, j) BY <1>1 DEF Turned
<1>5. ASSUME NEW k \in 1 .. n, NEW i, Turned(ctx, k - 1, i)
      PROVE  Turned(ctx, k, Turn(ctx, i, q[k]))
  <2> DEFINE x == q[k]
             m == Handle(i, x)
  <2>1. DOMAIN i = Fields /\ Typed(i) /\ (i.end = Running => Consistent(i))
    BY <1>5 DEF Turned
  <2>2. x \in Message /\ PeerOf(x) /\ x.id \in StreamsOf(r) /\ x.id \in Streams
    BY <1>2 DEF StreamsOf, n
  <2>3. Tells(told[k - 1], x, told[k]) BY DEF n
  <2> HIDE DEF x
  <2>4. x.method \in Methods BY <2>2 DEF Message, Methods
  <2>5. DOMAIN m = Fields /\ (m.end = Running => Consistent(m)) BY <2>1, HandleKeeps
  <2>6. Typed(m) BY <2>1, <2>2, HandleTyped
  <2>7. i.end # Running => m = i BY DEF Handle
  <2>8. ASSUME m.end = Running, j.end = Running PROVE Shows(told[k], m, r)
    <3>1. i.end = Running BY <2>7, <2>8
    <3>2. Shows(told[k - 1], i, r) BY <1>1, <1>5, <2>8, <3>1 DEF Turned
    <3> QED BY <2>1, <2>2, <2>3, <2>4, <2>8, <3>1, <3>2, HandleShows
  <2> HIDE DEF m
  <2>9. Turned(ctx, k, m) BY <1>1, <1>5, <2>5, <2>6, <2>7, <2>8 DEF Turned
  <2> QED BY <2>9 DEF m, x, Turn
<1>6. Turned(ctx, n, Turns!LeftFold(ctx, j, q))
  BY <1>2, <1>4, <1>5, Turns!FoldLeftKeeps
<1> QED BY <1>3, <1>6 DEF ctx, n

LEMMA CallsAgree == AgreeInv => CallsBringAgreement
<1> SUFFICES ASSUME AgreeInv, NEW r \in Rooms, NEW e \in Erizos,
                    HandleAll(erizo[e], calls[r][e]).end = Running
             PROVE  LET j == HandleAll(erizo[e], calls[r][e])
                        carried == DOMAIN j.publishers \cap StreamsOf(r)
                    IN  /\ carried = {id \in DOMAIN controller[r].publishers : Serving(r, id) = e}
                        /\ \A id \in carried : j.subscribers[id] = controller[r].subscribers[id]
                        /\ Recorded(j.outputs, carried) = Recorded(externalOutputs[r], carried)
  BY DEF CallsBringAgreement, HandleAll
<1> DEFINE q == calls[r][e]
           b == erizo[e]
           j == HandleAll(b, q)
           t == controller[r]
           o == externalOutputs[r]
           carried == DOMAIN j.publishers \cap StreamsOf(r)
<1>1. /\ q \in Seq(Message) /\ (~Up(e) => q = <<>>)
      /\ \A i \in 1 .. Len(q) : PeerOf(q[i]) /\ q[i].id \in StreamsOf(r)
  BY DEF AgreeInv, CallsInv, QueuesInv, ShapeInv, CallOf
<1>2. DOMAIN b = Fields /\ Typed(b) /\ (b.end = Running => Consistent(b))
  BY DEF AgreeInv, CallsInv, ProcessInv, Up, ShapeInv
<1>3. Up(e) <=> b.end = Running BY DEF Up
<1>4. Up(e) => \E v : Shows(v, b, r) /\ Leads(v, q, t, o, e, begun) BY DEF AgreeInv, LeadsInv
<1>5. o \in Maps(Recordings, StreamsOf(r) \cap begun) BY DEF AgreeInv, ShapeInv
<1>6. {id \in DOMAIN t.publishers : Serving(r, id) = e} =
          {id \in DOMAIN t.publishers : t.publishers[id] = e}
  BY DEF Serving
<1>7. j.end = Running OBVIOUS
<1> HIDE DEF q, b, j, t, o
<1>8. Up(e)
  <2> SUFFICES ASSUME ~Up(e) PROVE FALSE OBVIOUS
  <2> DEFINE told == <<>>
  <2>1. Len(q) = 0 /\ \A i : i \notin 1 .. Len(q) BY <1>1, None
  <2>2. \A i \in 1 .. Len(q) : Tells(told[i - 1], q[i], told[i]) BY <2>1
  <2>3. b.end = Running => Shows(told[0], b, r) BY <1>3
  <2> HIDE DEF told
  <2>4. Turned([base |-> b, r |-> r, told |-> told], Len(q), j)
    BY <1>1, <1>2, <2>2, <2>3, CallsAreHandled DEF j
  <2>5. j = b BY <1>3, <2>4 DEF Turned
  <2> QED BY <1>3, <1>7, <2>5
<1>9. PICK v : Shows(v, b, r) /\ Leads(v, q, t, o, e, begun) BY <1>4, <1>8
<1>10. PICK g : /\ g[0] = v
                /\ \A i \in 1 .. Len(q) : Tells(g[i - 1], q[i], g[i])
                /\ Meets(g[Len(q)], t, o, e, begun)
  BY <1>9 DEF Leads
<1>11. Turned([base |-> b, r |-> r, told |-> g], Len(q), j)
  BY <1>1, <1>2, <1>9, <1>10, CallsAreHandled DEF j
<1> DEFINE w == g[Len(q)]
<1>12. Shows(w, j, r) /\ Typed(j) BY <1>3, <1>7, <1>8, <1>11 DEF Turned
<1>13. Meets(w, t, o, e, begun) BY <1>10
<1> HIDE DEF w
<1>14. carried = w.pubs BY <1>12 DEF Shows
<1>15. carried = {id \in DOMAIN t.publishers : t.publishers[id] = e} BY <1>13, <1>14 DEF Meets
<1>16. \A id \in carried : j.subscribers[id] = t.subscribers[id]
  BY <1>12, <1>13, <1>14 DEF Shows, Meets
<1>17. Recorded(j.outputs, carried) = Recorded(o, carried)
  <2>1. DOMAIN j.outputs \subseteq Recordings /\ DOMAIN o \subseteq Recordings
    <3>1. j.outputs \in Maps(Recordings, Streams) BY <1>12 DEF Typed
    <3> QED BY <1>5, <3>1, MapsAre
  <2>2. ASSUME NEW rec \in Recordings, NEW id \in carried
        PROVE  (rec \in DOMAIN j.outputs /\ j.outputs[rec] = id)
                 <=> (rec \in DOMAIN o /\ o[rec] = id)
    <3>1. id \in w.recs[rec] <=> (rec \in DOMAIN o /\ o[rec] = id)
      BY <1>13, <1>14, <2>2 DEF Meets
    <3>2. id \in w.recs[rec] <=> (rec \in DOMAIN j.outputs /\ j.outputs[rec] = id)
      BY <1>12, <2>2 DEF Shows
    <3> QED BY <3>1, <3>2
  <2> HIDE DEF carried
  <2>3. \A rec : /\ rec \in DOMAIN j.outputs /\ j.outputs[rec] \in carried =>
                        rec \in DOMAIN o /\ o[rec] = j.outputs[rec]
                 /\ rec \in DOMAIN o /\ o[rec] \in carried =>
                        rec \in DOMAIN j.outputs /\ o[rec] = j.outputs[rec]
    BY <2>1, <2>2
  <2> QED BY <2>3 DEF Recorded
<1> QED BY <1>6, <1>15, <1>16, <1>17 DEF j, b, q, t, o

\* Whatever the rooms ask of the processes they share, in any order, a process that
\* stays up carries what each controller has on it once it has handled the calls of
\* its room, with the same subscribers and recordings; and all keep their types.
THEOREM ControllersAndProcessesAgree == Spec => []ControlIsSound
<1>1. AgreeInv => ControlIsSound BY TypesAreKept, CallsAgree DEF ControlIsSound
<1> QED BY <1>1, AgreeInvariant, PTL

=============================================================================
