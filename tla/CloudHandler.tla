---------------------------- MODULE CloudHandler ----------------------------
(***************************************************************************)
(* How nuve assigns rooms to erizoControllers: the CloudHandler            *)
(* (nuve/cloudHandler.js), which keeps the registered controllers, their   *)
(* priority and the assignment, and the part of each erizoController       *)
(* (erizo/controller/index.js) that registers, keeps alive and reports its *)
(* load. A request for a token is the only client of the assignment.       *)
(***************************************************************************)
EXTENDS Integers, Sequences, FiniteSets, SequencesExt, Maps

CONSTANTS
    Controllers,      \* erizoController processes, one per host and port
    Rooms,
    MAX_KA_COUNT,     \* checks a controller may miss
    WARNING_N_ROOMS,  \* GLOBAL.config.erizoController.warning_n_rooms
    LIMIT_N_ROOMS,    \* GLOBAL.config.erizoController.limit_n_rooms
    Attempts,         \* addECToCloudHandler(5)
    Events,           \* what may happen around the two programs
    MaxIds,           \* bound: ids nuve gives in a behaviour
    MaxWaiting,       \* bound: token requests of a room that wait at a time
    MaxInfos          \* bound: setInfo messages of a controller in flight

ASSUME CloudAssumption ==
    /\ MAX_KA_COUNT \in Nat
    /\ WARNING_N_ROOMS \in Nat /\ LIMIT_N_ROOMS \in Nat
    /\ WARNING_N_ROOMS <= LIMIT_N_ROOMS
    /\ Attempts \in Nat \ {0} /\ MaxIds \in Nat
    /\ MaxWaiting \in Nat /\ MaxInfos \in Nat
    /\ Events \subseteq {"rpc timeout", "controller dies", "controller stalls",
                         "nuve restarts"}

VARIABLES
    \* nuve
    erizoControllers, \* id -> [host, state, keepAlive]
    rooms,            \* room -> id
    ecQueue,          \* ids in the order of their priority
    idIndex,          \* last id given
    waiting,          \* room -> getErizoControllerForRoom intervals running
    nuveUp,           \* nuve runs
    \* each erizoController, and its messages in flight
    phase,            \* "off", "registering" or "up" (it has the key and listens)
    attempt,          \* number of its last addNewErizoController call
    timer,            \* the timer of that call runs
    adds,             \* calls, by number, that nuve has not handled
    replies,          \* [id, attempt]: replies in flight
    asking,           \* ids of its getKey calls in flight
    myId, myState,
    beating,          \* the keepAlive interval runs
    infos,            \* setInfo messages in flight, in order
    serves,           \* keys of its rooms map
    \* between them
    tokens            \* <<room, controller>>: tokens given and not used

nuve == <<erizoControllers, rooms, ecQueue, idIndex, waiting, nuveUp>>
registration == <<phase, attempt, timer, adds, replies, asking, myId>>
vars == <<nuve, registration, myState, beating, infos, serves, tokens>>

NoId == 0
Known == DOMAIN erizoControllers
Alive(c) == phase[c] # "off"

\* Ids in ascending order, the order of a for-in loop over them: the k-th has k
\* ids up to itself.
Ascending(ids) ==
    [k \in 1 .. Cardinality(ids) |->
        CHOOSE id \in ids : Cardinality({x \in ids : x <= id}) = k]
InState(ecs, s) == {id \in DOMAIN ecs : ecs[id].state = s}

\* Mutant: a controller with a warning gets no room.
PriorityAvailable(ecs) == Ascending(InState(ecs, 2))

\* recalculatePriority: the available controllers, then those with a warning.
Priority(ecs) == Ascending(InState(ecs, 2)) \o Ascending(InState(ecs, 1))

\* The state an erizoController with n rooms reports.
Level(n) == IF n < WARNING_N_ROOMS THEN 2 ELSE IF n > LIMIT_N_ROOMS THEN 0 ELSE 1

-----------------------------------------------------------------------------
Init ==
    /\ erizoControllers = <<>>
    /\ rooms = <<>>
    /\ ecQueue = <<>>
    /\ idIndex = 0
    /\ waiting = [r \in Rooms |-> 0]
    /\ nuveUp = TRUE
    /\ phase = [c \in Controllers |-> "off"]
    /\ attempt = [c \in Controllers |-> 0]
    /\ timer = [c \in Controllers |-> FALSE]
    /\ adds = [c \in Controllers |-> {}]
    /\ asking = [c \in Controllers |-> {}]
    /\ replies = [c \in Controllers |-> {}]
    /\ myId = [c \in Controllers |-> NoId]
    /\ myState = [c \in Controllers |-> 2]
    /\ beating = [c \in Controllers |-> FALSE]
    /\ infos = [c \in Controllers |-> <<>>]
    /\ serves = [c \in Controllers |-> {}]
    /\ tokens = {}

-----------------------------------------------------------------------------
(***************************************************************************)
(* Registration                                                            *)
(***************************************************************************)

\* A controller starts and asks to be added, as often as Attempts.
start(c) ==
    /\ phase[c] = "off"
    /\ phase' = [phase EXCEPT ![c] = "registering"]
    /\ attempt' = [attempt EXCEPT ![c] = 1]
    /\ timer' = [timer EXCEPT ![c] = TRUE]
    /\ adds' = [adds EXCEPT ![c] = {1}]
    /\ UNCHANGED <<nuve, replies, asking, myId, myState, beating, infos, serves, tokens>>

\* The call times out; 3 s later it is made again, until no attempt is left.
registerTimeout(c) ==
    LET again == attempt[c] < Attempts
    IN  /\ "rpc timeout" \in Events
        /\ timer[c]
        /\ timer' = [timer EXCEPT ![c] = again]
        /\ attempt' = [attempt EXCEPT ![c] = IF again THEN @ + 1 ELSE @]
        /\ adds' = [adds EXCEPT ![c] = IF again THEN @ \cup {attempt[c] + 1} ELSE @]
        /\ UNCHANGED <<nuve, phase, replies, asking, myId, myState, beating,
                       infos, serves, tokens>>

\* addNewPrivateErizoController
addNewErizoController(c, n) ==
    LET id == idIndex + 1
        ec == [host |-> c, state |-> 2, keepAlive |-> 0]
    IN  /\ nuveUp
        /\ n \in adds[c]
        /\ id <= MaxIds
        /\ adds' = [adds EXCEPT ![c] = @ \ {n}]
        /\ idIndex' = id
        /\ erizoControllers' = With(erizoControllers, id, ec)
        /\ ecQueue' = Priority(erizoControllers')
        /\ replies' = [replies EXCEPT ![c] =
                          IF Alive(c) THEN @ \cup {[id |-> id, attempt |-> n]} ELSE @]
        /\ UNCHANGED <<rooms, waiting, nuveUp, phase, attempt, timer, asking, myId,
                       myState, beating, infos, serves, tokens>>

\* A reply, in time or late, makes the controller take the id, start a keepAlive
\* interval and ask for the key.
registered(c, reply) ==
    /\ reply \in replies[c]
    /\ replies' = [replies EXCEPT ![c] = @ \ {reply}]
    /\ timer' = [timer EXCEPT ![c] = @ /\ reply.attempt # attempt[c]]
    /\ myId' = [myId EXCEPT ![c] = reply.id]
    /\ myState' = [myState EXCEPT ![c] = 2]
    /\ beating' = [beating EXCEPT ![c] = TRUE]
    /\ asking' = [asking EXCEPT ![c] = @ \cup {reply.id}]
    /\ UNCHANGED <<nuve, phase, attempt, adds, infos, serves, tokens>>

\* What the end of its process does to a controller.
Ends(c) ==
    /\ phase' = [phase EXCEPT ![c] = "off"]
    /\ attempt' = [attempt EXCEPT ![c] = 0]
    /\ timer' = [timer EXCEPT ![c] = FALSE]
    /\ replies' = [replies EXCEPT ![c] = {}]
    /\ asking' = [asking EXCEPT ![c] = {}]
    /\ myId' = [myId EXCEPT ![c] = NoId]
    /\ myState' = [myState EXCEPT ![c] = 2]
    /\ beating' = [beating EXCEPT ![c] = FALSE]
    /\ serves' = [serves EXCEPT ![c] = {}]

\* getKey: nuve gives it to a controller it knows, which then listens; any other
\* exits.
getKey(c, id) ==
    /\ nuveUp
    /\ id \in asking[c]
    /\ IF id \in Known
         THEN /\ asking' = [asking EXCEPT ![c] = @ \ {id}]
              /\ phase' = [phase EXCEPT ![c] = "up"]
              /\ UNCHANGED <<attempt, timer, replies, myId, myState, beating, serves>>
         ELSE Ends(c)
    /\ UNCHANGED <<nuve, adds, infos, tokens>>

\* getKey times out: the controller exits.
getKeyTimeout(c) ==
    /\ "rpc timeout" \in Events
    /\ asking[c] # {}
    /\ Ends(c)
    /\ UNCHANGED <<nuve, adds, infos, tokens>>

-----------------------------------------------------------------------------
(***************************************************************************)
(* Keep alives                                                             *)
(***************************************************************************)

\* keepAlive: 'ok', or 'whoareyou', which stops the interval. killMe, which is
\* then asked for, only logs.
keepAlive(c) ==
    /\ nuveUp
    /\ beating[c]
    /\ IF myId[c] \in Known
         THEN /\ erizoControllers' = [erizoControllers EXCEPT ![myId[c]].keepAlive = 0]
              /\ UNCHANGED beating
         ELSE /\ beating' = [beating EXCEPT ![c] = FALSE]
              /\ UNCHANGED erizoControllers
    /\ UNCHANGED <<rooms, ecQueue, idIndex, waiting, nuveUp, registration,
                   myState, infos, serves, tokens>>

\* Ids in use: a running controller that beats has it, or a message names it.
InUse(id) ==
    \E c \in Controllers :
        \/ id \in asking[c] \cup {reply.id : reply \in replies[c]}
        \/ beating[c] /\ myId[c] = id
        \/ \E i \in DOMAIN infos[c] : infos[c][i].id = id

\* Mutant: only the controllers that may be given rooms are checked.
OneMoreMissInQueue(ecs) ==
    [id \in DOMAIN ecs |->
        [ecs[id] EXCEPT !.keepAlive = IF Contains(ecQueue, id) THEN @ + 1 ELSE @]]

\* Every check counts as missed until the next keepAlive.
OneMoreMiss(ecs) == [id \in DOMAIN ecs |-> [ecs[id] EXCEPT !.keepAlive = @ + 1]]

\* Those that missed too many checks.
Overdue(ecs) == {id \in DOMAIN ecs : ecs[id].keepAlive > MAX_KA_COUNT}

\* Mutant: the rooms of a removed controller stay assigned to it.
AssignedToAny(ids) == rooms

\* The rooms map without those of the controllers ids.
AssignedToOthers(ids) == Restrict(rooms, {r \in DOMAIN rooms : rooms[r] \notin ids})

\* checkKA, once a second: those that missed too many checks are deleted. Unless
\* controllers stall, one beats before it has missed them all.
checkKA ==
    LET missed == OneMoreMiss(erizoControllers)
        dead == Overdue(missed)
    IN  /\ nuveUp
        /\ Known # {}
        /\ "controller stalls" \in Events \/ \A id \in dead : ~InUse(id)
        /\ erizoControllers' = Restrict(missed, Known \ dead)
        /\ rooms' = AssignedToOthers(dead)
        /\ ecQueue' = IF dead = {} THEN ecQueue ELSE Priority(erizoControllers')
        /\ UNCHANGED <<idIndex, waiting, nuveUp, registration, myState,
                       beating, infos, serves, tokens>>

-----------------------------------------------------------------------------
(***************************************************************************)
(* Assignment                                                              *)
(***************************************************************************)

\* The callback of getErizoControllerForRoom: a token for the controller id.
Give(r, id) == tokens' = tokens \cup {<<r, erizoControllers[id].host>>}

\* getErizoControllerForRoom: the controller of the room, or an interval that
\* waits for one.
getErizoControllerForRoom(r) ==
    /\ nuveUp
    /\ IF r \in DOMAIN rooms
         THEN Give(r, rooms[r]) /\ UNCHANGED waiting
         ELSE /\ waiting[r] < MaxWaiting
              /\ waiting' = [waiting EXCEPT ![r] = @ + 1]
              /\ UNCHANGED tokens
    /\ UNCHANGED <<erizoControllers, rooms, ecQueue, idIndex, nuveUp,
                   registration, myState, beating, infos, serves>>

\* A tick of such an interval: it does not look at rooms again.
assign(r) ==
    /\ nuveUp
    /\ waiting[r] > 0
    /\ ecQueue # <<>>
    /\ rooms' = With(rooms, r, Head(ecQueue))
    /\ Give(r, Head(ecQueue))
    /\ ecQueue' = Priority(erizoControllers)
    /\ waiting' = [waiting EXCEPT ![r] = @ - 1]
    /\ UNCHANGED <<erizoControllers, idIndex, nuveUp, registration,
                   myState, beating, infos, serves>>

\* Mutant: only a change to or from "not available" is reported.
ReportAvailability(c, n) ==
    LET s == Level(n)
    IN  /\ myState' = [myState EXCEPT ![c] = s]
        /\ infos' = IF (s = 0) = (myState[c] = 0) THEN infos
                    ELSE [infos EXCEPT ![c] = Append(@, [id |-> myId[c], state |-> s])]

\* updateMyState when the controller has n rooms: a change is sent by setInfo.
UpdateMyState(c, n) ==
    LET s == Level(n)
    IN  /\ myState' = [myState EXCEPT ![c] = s]
        /\ infos' = IF s = myState[c] THEN infos
                    ELSE [infos EXCEPT ![c] = Append(@, [id |-> myId[c], state |-> s])]

\* A client uses its token: the controller has the room from now on.
join(r, c) ==
    /\ <<r, c>> \in tokens
    /\ phase[c] = "up"
    /\ Len(infos[c]) < MaxInfos
    /\ tokens' = tokens \ {<<r, c>>}
    /\ serves' = [serves EXCEPT ![c] = @ \cup {r}]
    /\ IF r \in serves[c] THEN UNCHANGED <<myState, infos>>
       ELSE UpdateMyState(c, Cardinality(serves[c]) + 1)
    /\ UNCHANGED <<nuve, registration, beating>>

\* The last client of a room leaves it.
leave(r, c) ==
    /\ r \in serves[c]
    /\ Len(infos[c]) < MaxInfos
    /\ serves' = [serves EXCEPT ![c] = @ \ {r}]
    /\ UpdateMyState(c, Cardinality(serves[c]) - 1)
    /\ UNCHANGED <<nuve, registration, beating, tokens>>

\* A token that is never used.
tokenExpires(r, c) ==
    /\ <<r, c>> \in tokens
    /\ tokens' = tokens \ {<<r, c>>}
    /\ UNCHANGED <<nuve, registration, myState, beating, infos, serves>>

\* What nuve loses with its process.
NuveForgets(up) ==
    /\ nuveUp' = up
    /\ erizoControllers' = <<>>
    /\ rooms' = <<>>
    /\ ecQueue' = <<>>
    /\ idIndex' = 0
    /\ waiting' = [r \in Rooms |-> 0]

\* setInfo: the state of an unknown id is set on undefined, which throws.
setInfo(c) ==
    LET info == Head(infos[c])
    IN  /\ nuveUp
        /\ infos[c] # <<>>
        /\ infos' = [infos EXCEPT ![c] = Tail(@)]
        /\ IF info.id \in Known
             THEN /\ erizoControllers' =
                       [erizoControllers EXCEPT ![info.id].state = info.state]
                  /\ ecQueue' = Priority(erizoControllers')
                  /\ UNCHANGED <<rooms, idIndex, waiting, nuveUp>>
             ELSE NuveForgets(FALSE)
        /\ UNCHANGED <<registration, myState, beating, serves, tokens>>

-----------------------------------------------------------------------------
(***************************************************************************)
(* Failures                                                                *)
(***************************************************************************)

\* A controller ends; the calls it made are lost or still handled by nuve.
controllerDies(c) ==
    /\ "controller dies" \in Events
    /\ Alive(c)
    /\ Ends(c)
    /\ UNCHANGED <<nuve, adds, infos, tokens>>

\* nuve is started again: all it knew is lost.
nuveRestarts ==
    /\ "nuve restarts" \in Events
    /\ NuveForgets(TRUE)
    /\ UNCHANGED <<registration, myState, beating, infos, serves, tokens>>

Next ==
    \/ \E c \in Controllers :
          \/ start(c) \/ registerTimeout(c) \/ getKeyTimeout(c)
          \/ \E n \in 1 .. Attempts : addNewErizoController(c, n)
          \/ \E reply \in replies[c] : registered(c, reply)
          \/ \E id \in 1 .. MaxIds : getKey(c, id)
          \/ keepAlive(c) \/ setInfo(c) \/ controllerDies(c)
          \/ \E r \in Rooms : join(r, c) \/ leave(r, c) \/ tokenExpires(r, c)
    \/ \E r \in Rooms : getErizoControllerForRoom(r) \/ assign(r)
    \/ checkKA
    \/ nuveRestarts

Spec == Init /\ [][Next]_vars

\* The intervals of nuve go on, and messages between the processes arrive.
Fairness ==
    /\ WF_vars(checkKA)
    /\ \A r \in Rooms : WF_vars(assign(r))
    /\ \A c \in Controllers :
          /\ WF_vars(keepAlive(c)) /\ WF_vars(setInfo(c))
          /\ WF_vars(\E id \in 1 .. MaxIds : getKey(c, id))
          /\ WF_vars(\E reply \in replies[c] : registered(c, reply))

FairSpec == Spec /\ Fairness

-----------------------------------------------------------------------------
(***************************************************************************)
(* Properties                                                              *)
(***************************************************************************)

\* Shape of the state.
TypeOK ==
    /\ idIndex \in 0 .. MaxIds
    /\ Known \subseteq 1 .. idIndex
    /\ \A id \in Known :
          erizoControllers[id] \in [host : Controllers, state : 0 .. 2,
                                   keepAlive : 0 .. MAX_KA_COUNT]
    /\ DOMAIN rooms \subseteq Rooms
    /\ ecQueue \in Seq(1 .. MaxIds)
    /\ waiting \in [Rooms -> 0 .. MaxWaiting]
    /\ nuveUp \in BOOLEAN
    /\ phase \in [Controllers -> {"off", "registering", "up"}]
    /\ attempt \in [Controllers -> 0 .. Attempts]
    /\ timer \in [Controllers -> BOOLEAN]
    /\ adds \in [Controllers -> SUBSET (1 .. Attempts)]
    /\ replies \in [Controllers -> SUBSET [id : 1 .. MaxIds, attempt : 1 .. Attempts]]
    /\ asking \in [Controllers -> SUBSET (1 .. MaxIds)]
    /\ myId \in [Controllers -> 0 .. MaxIds]
    /\ myState \in [Controllers -> 0 .. 2]
    /\ beating \in [Controllers -> BOOLEAN]
    /\ \A c \in Controllers : infos[c] \in Seq([id : 0 .. MaxIds, state : 0 .. 2])
    /\ serves \in [Controllers -> SUBSET Rooms]
    /\ tokens \subseteq Rooms \X Controllers

\* A room is assigned to a controller nuve knows, so that the callers that read
\* erizoControllers[rooms[roomId]] never read a field of undefined: checkKA
\* deletes the rooms with their controller, and restarts lose both.
AssignedIsKnown == \A r \in DOMAIN rooms : rooms[r] \in Known

\* ecQueue is never behind: after every handler it holds the controllers that
\* may be given rooms, each once, available ones first (recalculatePriority).
QueueIsCurrent ==
    /\ ToSet(ecQueue) = {id \in Known : erizoControllers[id].state # 0}
    /\ IsInjective(ecQueue)
    /\ \A i, j \in DOMAIN ecQueue :
          i < j => erizoControllers[ecQueue[i]].state >= erizoControllers[ecQueue[j]].state

\* What nuve knows of controllers is of one piece after every handler.
RegistryIsSound == TypeOK /\ AssignedIsKnown /\ QueueIsCurrent

\* Once its messages have arrived, nuve has the state that the number of rooms of
\* a controller calls for, whatever the order of joins, leaves and reports.
StateIsReported ==
    \A c \in Controllers :
        nuveUp /\ phase[c] = "up" /\ infos[c] = <<>> /\ myId[c] \in Known
          => erizoControllers[myId[c]].state = Level(Cardinality(serves[c]))

\* If from some time on a controller is up that may take rooms, every token
\* request that waits for a controller gets one.
RequestIsAnswered ==
    \A r \in Rooms :
        <>[](\E c \in Controllers : phase[c] = "up" /\ myState[c] # 0)
          => (waiting[r] > 0 ~> waiting[r] = 0)

\* A controller that has ended is eventually removed (checkKA).
EndedIsRemoved ==
    \A id \in 1 .. MaxIds : (id \in Known /\ ~InUse(id)) ~> (id \notin Known)

=============================================================================
