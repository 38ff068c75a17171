--------------------------- MODULE RoomController ---------------------------
(***************************************************************************)
(* The RoomController of erizo/controller/roomController.js: which ErizoJS *)
(* serves each publisher of a room, who subscribes to it, and the keep     *)
(* alives that find out that an ErizoJS has died.                          *)
(*                                                                         *)
(* Its functions run to completion inside a handler of ErizoController, so *)
(* each is an operator from the state of the controller to its next one. A *)
(* state is a record                                                       *)
(*   publishers   publisher -> the ErizoJS that serves it                  *)
(*   subscribers  publisher -> set of sockets                              *)
(*   erizos       ErizoJS -> [publishers: sequence, ka_count: number]      *)
(*   thrown       the function ended in an uncaught TypeError              *)
(***************************************************************************)
EXTENDS Integers, Sequences, SequencesExt, Maps

CONSTANT TIMEOUT_LIMIT   \* keep alives an ErizoJS may miss

ASSUME TimeoutAssumption == TIMEOUT_LIMIT \in Nat

NewController ==
    [publishers |-> <<>>, subscribers |-> <<>>, erizos |-> <<>>, thrown |-> FALSE]

\* What getErizoJS records of the process the agent gave it.
TrackErizo(r, e) ==
    IF e \in DOMAIN r.erizos THEN r
    ELSE [r EXCEPT !.erizos = With(@, e, [publishers |-> <<>>, ka_count |-> 0])]

\* addPublisher and addExternalInput once the agent has answered e.
AddPublisher(r, id, e) ==
    [TrackErizo(r, e) EXCEPT
        !.publishers = With(@, id, e),
        !.subscribers = With(@, id, {}),
        !.erizos[e].publishers = Append(@, id)]

\* addSubscriber: nothing for an unknown publisher or a second subscription.
AddSubscriber(r, c, id) ==
    IF id \in DOMAIN r.publishers
      THEN [r EXCEPT !.subscribers[id] = @ \cup {c}]
      ELSE r

\* list.splice(list.indexOf(x), 1): without x the index is -1, which stands for
\* the last element.
SpliceOut(list, x) ==
    IF Contains(list, x) THEN RemoveFirst(list, x)
    ELSE IF list = <<>> THEN list ELSE Front(list)

\* Mutant: the publisher stays in the list of its ErizoJS.
RemovePublisherUnlisted(r, id) ==
    IF id \notin DOMAIN r.publishers THEN r
    ELSE IF r.publishers[id] \notin DOMAIN r.erizos
      THEN [r EXCEPT !.thrown = TRUE]
    ELSE [r EXCEPT !.publishers = Without(@, id), !.subscribers = Without(@, id)]

\* removePublisher: it reads erizos[publishers[id]].publishers.
RemovePublisher(r, id) ==
    IF id \notin DOMAIN r.publishers \cap DOMAIN r.subscribers THEN r
    ELSE IF r.publishers[id] \notin DOMAIN r.erizos
      THEN [r EXCEPT !.thrown = TRUE]
    ELSE [r EXCEPT !.publishers = Without(@, id),
                   !.subscribers = Without(@, id),
                   !.erizos[r.publishers[id]].publishers = SpliceOut(@, id)]

\* removeSubscriber: it reads subscribers[id].indexOf.
RemoveSubscriber(r, c, id) ==
    IF id \notin DOMAIN r.subscribers THEN [r EXCEPT !.thrown = TRUE]
    ELSE [r EXCEPT !.subscribers[id] = @ \ {c}]

\* removeSubscriptions
RemoveSubscriptions(r, c) ==
    [r EXCEPT !.subscribers = [id \in DOMAIN @ |-> @[id] \ {c}]]

\* The reply true to a keepAlive.
KeepAliveAnswered(r, e) == [r EXCEPT !.erizos[e].ka_count = 0]

\* Mutant: 'timeout' is no reply, and no miss.
KeepAliveIgnored(r, e) == r

\* Any other reply, and 'timeout': one more miss.
KeepAliveMissed(r, e) == [r EXCEPT !.erizos[e].ka_count = @ + 1]

\* Too many misses: the ErizoJS is given up for dead.
Dead(r, e) == r.erizos[e].ka_count > TIMEOUT_LIMIT

\* delete erizos[e], after the publishers of e were unpublished.
ForgetErizo(r, e) == [r EXCEPT !.erizos = Without(@, e)]

=============================================================================
