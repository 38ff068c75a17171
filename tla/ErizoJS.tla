------------------------------ MODULE ErizoJS ------------------------------
(***************************************************************************)
(* The process that carries media (erizo/node-erizo/rpcPublic.js): its     *)
(* publishers, their subscribers and recordings, and the native            *)
(* connections it has open.                                                *)
(*                                                                         *)
(* Its functions run to completion, one call at a time, so each is an      *)
(* operator from the state of the process to its next one. A state is      *)
(*   publishers   publisher -> "wrtc", or "input" for one read from a URL  *)
(*   subscribers  publisher -> set of clients                              *)
(*   outputs      externalOutputs: recording -> publisher                  *)
(*   open         WebRtcConnections not closed: <<publisher, client>>, or  *)
(*                <<publisher>> for its own                                *)
(*   end          how the process ended, or Running                        *)
(***************************************************************************)
EXTENDS Sequences, Maps

Running == <<"running">>
Exit == <<"exit">>                    \* process.exit(0)
Killed == <<"killed">>
TypeError(id) == <<"TypeError", id>>  \* an exception nobody catches

NewErizoJS ==
    [publishers |-> <<>>, subscribers |-> <<>>, outputs |-> <<>>, open |-> {},
     end |-> Running]

\* addPublisher and addExternalInput: only an unknown id changes anything.
addPublisher(j, id) ==
    IF id \in DOMAIN j.publishers THEN j
    ELSE [j EXCEPT !.publishers = With(@, id, "wrtc"),
                   !.subscribers = With(@, id, {}),
                   !.open = @ \cup {<<id>>}]

addExternalInput(j, id) ==
    IF id \in DOMAIN j.publishers THEN j
    ELSE [j EXCEPT !.publishers = With(@, id, "input"),
                   !.subscribers = With(@, id, {})]

\* Mutant: each subscriber starts the list anew.
addSubscriberAlone(j, c, id) ==
    IF id \notin DOMAIN j.publishers THEN j
    ELSE IF c \in j.subscribers[id] THEN j
    ELSE [j EXCEPT !.subscribers[id] = {c}, !.open = @ \cup {<<id, c>>}]

\* addSubscriber: a known publisher and a client that does not subscribe yet.
addSubscriber(j, c, id) ==
    IF id \notin DOMAIN j.publishers THEN j
    ELSE IF id \notin DOMAIN j.subscribers THEN [j EXCEPT !.end = TypeError(id)]
    ELSE IF c \in j.subscribers[id] THEN j
    ELSE [j EXCEPT !.subscribers[id] = @ \cup {c},
                   !.open = @ \cup {<<id, c>>}]

\* Mutant: the subscriber is only taken from the muxer.
removeSubscriberOpen(j, c, id) ==
    IF id \notin DOMAIN j.subscribers THEN [j EXCEPT !.end = TypeError(id)]
    ELSE [j EXCEPT !.subscribers[id] = @ \ {c}]

\* removeSubscriber reads subscribers[id][c].
removeSubscriber(j, c, id) ==
    IF id \notin DOMAIN j.subscribers THEN [j EXCEPT !.end = TypeError(id)]
    ELSE IF c \notin j.subscribers[id] THEN j
    ELSE [j EXCEPT !.subscribers[id] = @ \ {c},
                   !.open = @ \ {<<id, c>>}]

addExternalOutput(j, id, rec) ==
    IF id \notin DOMAIN j.publishers THEN j
    ELSE [j EXCEPT !.outputs = With(@, rec, id)]

\* Mutant: the recording stays in externalOutputs.
removeExternalOutputKept(j, id, rec) == j

removeExternalOutput(j, id, rec) ==
    IF rec \notin DOMAIN j.outputs \/ id \notin DOMAIN j.publishers THEN j
    ELSE [j EXCEPT !.outputs = Without(@, rec)]

\* An offer or a candidate of peer: for its own connection if it subscribes,
\* else for the publisher's, which an external input does not have.
processSignaling(j, peer, id) ==
    IF id \notin DOMAIN j.publishers THEN j
    ELSE IF id \notin DOMAIN j.subscribers THEN [j EXCEPT !.end = TypeError(id)]
    ELSE IF peer \notin j.subscribers[id] /\ j.publishers[id] = "input"
      THEN [j EXCEPT !.end = TypeError(id)]
    ELSE j

\* Mutant: it exits although one publisher is left.
UnusedButOne(left) == \A a, b \in DOMAIN left : a = b

\* No publisher is left.
Unused(left) == DOMAIN left = {}

\* Mutant: the publisher is deleted before its own connection is closed.
removePublisherFirst(j, id) ==
    IF id \notin DOMAIN j.publishers \cap DOMAIN j.subscribers THEN j
    ELSE [j EXCEPT !.publishers = Without(@, id),
                   !.open = @ \ {<<id, c>> : c \in j.subscribers[id]},
                   !.end = TypeError(id)]

\* removePublisher: closes the connections of its subscribers and its own, which
\* an external input does not have; the process exits with its last publisher.
removePublisher(j, id) ==
    LET left == Without(j.publishers, id)
        own == {<<id, c>> : c \in j.subscribers[id]}
    IN  IF id \notin DOMAIN j.publishers \cap DOMAIN j.subscribers THEN j
        ELSE IF j.publishers[id] = "input"
          THEN [j EXCEPT !.open = @ \ own, !.end = TypeError(id)]
        ELSE [j EXCEPT !.publishers = left,
                       !.subscribers = Without(@, id),
                       !.open = @ \ (own \cup {<<id>>}),
                       !.end = IF Unused(left) THEN Exit ELSE @]

\* One call: the function of rpcPublic that it names. A process that has ended
\* receives none.
Handle(j, call) ==
    IF j.end # Running THEN j
    ELSE CASE call.method = "addPublisher" -> addPublisher(j, call.id)
           [] call.method = "addExternalInput" -> addExternalInput(j, call.id)
           [] call.method = "addSubscriber" -> addSubscriber(j, call.peer, call.id)
           [] call.method = "removeSubscriber" -> removeSubscriber(j, call.peer, call.id)
           [] call.method = "removePublisher" -> removePublisher(j, call.id)
           [] call.method = "processSignaling" -> processSignaling(j, call.peer, call.id)
           [] call.method = "addExternalOutput" ->
                addExternalOutput(j, call.id, call.peer)
           [] call.method = "removeExternalOutput" ->
                removeExternalOutput(j, call.id, call.peer)
           [] OTHER -> j

=============================================================================
