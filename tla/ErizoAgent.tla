---------------------------- MODULE ErizoAgent ----------------------------
(***************************************************************************)
(* The ErizoAgent of erizo/agent/index.js: it keeps a pool of ErizoJS      *)
(* operating-system processes, hands their ids out to erizoControllers     *)
(* (createErizoJS), kills them on request (deleteErizoJS) and replaces the *)
(* ones that end.                                                          *)
(*                                                                         *)
(* guid() yields an id never used before; ids are the numbers 1, 2, ... in *)
(* launching order.                                                        *)
(***************************************************************************)
EXTENDS Integers, Sequences, FiniteSets, SequencesExt

CONSTANTS
    maxProcesses,     \* GLOBAL.config.erizoAgent.maxProcesses
    prerunProcesses,  \* GLOBAL.config.erizoAgent.prerunProcesses
    MaxLaunches,      \* bound: ErizoJS processes launched in a behaviour
    MaxCrashes        \* bound: abrupt ends of the agent process

ASSUME AgentAssumption ==
    /\ maxProcesses \in Nat \ {0}
    /\ prerunProcesses \in Nat
    /\ MaxLaunches \in Nat
    /\ MaxCrashes \in Nat

VARIABLES
    idle_erizos,  \* ids launched and never handed out, oldest first
    erizos,       \* ids handed out, least recently handed out first
    children,     \* keys of the children map: processes the agent can kill
    nextId,       \* the id guid() gives next
    base,         \* first id of the running incarnation of the agent
    up,           \* the agent process is running
    running,      \* ErizoJS processes alive in the operating system
    exited,       \* ended, and their 'close' event not handled yet
    signalled,    \* SIGTERM was sent to them
    crashes,      \* abrupt ends of the agent so far
    turn          \* history: parity of the createErizoJS requests answered

vars == <<idle_erizos, erizos, children, nextId, base, up, running, exited,
          signalled, crashes, turn>>

Ids == 1 .. nextId - 1

\* The processes the agent counts against maxProcesses.
Pool == ToSet(idle_erizos) \cup ToSet(erizos)

\* Mutant: the idle processes wanted are taken for processes of the whole pool.
NumToLaunchCountsUsed(i, e) ==
    Max({0, Min({maxProcesses - (Len(e) + Len(i)),
                 prerunProcesses - (Len(e) + Len(i))})})

(***************************************************************************)
(* fillErizos on the lists i and e: it launches, and pushes on             *)
(* idle_erizos, one process per recursion until the pool is full or has    *)
(* enough idle processes.                                                  *)
(***************************************************************************)
NumToLaunch(i, e) ==
    Max({0, Min({maxProcesses - (Len(e) + Len(i)), prerunProcesses - Len(i)})})

\* The ids launchErizoJS gives to the next n processes, the first being f.
FreshIds(f, n) == [k \in 1 .. n |-> f + k - 1]

\* Ends every handler that calls fillErizos: the lists i and e become the
\* filled ones, and the ids from nextId to f - 1 were launched before the call.
\* c is the children map but for the processes launched here.
FillErizos(i, e, c, f) ==
    LET n == NumToLaunch(i, e)
        launched == nextId .. f + n - 1
    IN  /\ idle_erizos' = i \o FreshIds(f, n)
        /\ erizos' = e
        /\ children' = c \cup launched
        /\ nextId' = f + n
        /\ running' = running \cup launched

\* Bound: an event that may cause n launches happens only when MaxLaunches
\* leaves room for them and for one launch per process already ending.
Ending == Pool \cap (exited \cup signalled)
CanLaunch(n) == nextId - 1 + Cardinality(Ending) + n <= MaxLaunches

\* Mutants of getErizo: it never reuses; it reuses the last one (erizos.pop()).
GetIdleOr(other) ==
    IF idle_erizos # <<>>
      THEN [id |-> Head(idle_erizos), idle |-> Tail(idle_erizos),
            used |-> erizos, next |-> nextId]
      ELSE other
GetNew == [id |-> nextId, idle |-> <<>>, used |-> erizos, next |-> nextId + 1]
GetErizoNeverReuses == GetIdleOr(GetNew)
GetErizoPops ==
    GetIdleOr(IF Len(erizos) < maxProcesses THEN GetNew
              ELSE [id |-> Last(erizos), idle |-> <<>>, used |-> Front(erizos),
                    next |-> nextId])

(***************************************************************************)
(* getErizo: an idle process, else a new one, else the least recently used *)
(* of those in use.                                                        *)
(***************************************************************************)
GetErizo ==
    IF idle_erizos # <<>>
      THEN [id |-> Head(idle_erizos), idle |-> Tail(idle_erizos),
            used |-> erizos, next |-> nextId]
    ELSE IF Len(erizos) < maxProcesses
      THEN [id |-> nextId, idle |-> <<>>, used |-> erizos, next |-> nextId + 1]
    ELSE [id |-> Head(erizos), idle |-> <<>>, used |-> Tail(erizos),
          next |-> nextId]

-----------------------------------------------------------------------------
Init ==
    /\ idle_erizos = FreshIds(1, NumToLaunch(<<>>, <<>>))
    /\ erizos = <<>>
    /\ nextId = NumToLaunch(<<>>, <<>>) + 1
    /\ children = Ids
    /\ running = Ids
    /\ base = 1
    /\ up = TRUE
    /\ exited = {}
    /\ signalled = {}
    /\ crashes = 0
    /\ turn = 0

\* rpcPublic.createErizoJS
createErizoJS ==
    LET got == GetErizo
    IN  /\ up
        /\ CanLaunch(1)
        /\ FillErizos(got.idle, Append(got.used, got.id), children, got.next)
        /\ turn' = 1 - turn
        /\ UNCHANGED <<base, up, exited, signalled, crashes>>

\* rpcPublic.deleteErizoJS, dropErizoJS: an unknown id is answered 'none', so
\* only a known one changes anything. The id stays in its list until 'close'.
deleteErizoJS(id) ==
    /\ up
    /\ id \in children
    /\ id \in exited \/ CanLaunch(1)
    /\ children' = children \ {id}
    /\ signalled' = signalled \cup {id}
    /\ UNCHANGED <<idle_erizos, erizos, nextId, base, up, running, exited, crashes, turn>>

\* Mutants of the 'close' listener: it looks in idle_erizos only; it leaves
\* alone the ids that dropErizoJS already took from children.
RemoveClosedIdleOnly(id) ==
    [idle |-> RemoveFirst(idle_erizos, id), used |-> erizos]
RemoveClosedChildrenOnly(id) ==
    IF id \in children
      THEN [idle |-> RemoveFirst(idle_erizos, id), used |-> RemoveFirst(erizos, id)]
      ELSE [idle |-> idle_erizos, used |-> erizos]

\* The 'close' event of a child: the id leaves its list, and fillErizos.
RemoveClosed(id) ==
    IF Contains(idle_erizos, id)
      THEN [idle |-> RemoveFirst(idle_erizos, id), used |-> erizos]
      ELSE [idle |-> idle_erizos, used |-> RemoveFirst(erizos, id)]

onClose(id) ==
    LET left == RemoveClosed(id)
    IN  /\ up
        /\ id \in exited
        /\ id >= base
        /\ FillErizos(left.idle, left.used, children \ {id}, nextId)
        /\ exited' = exited \ {id}
        /\ UNCHANGED <<base, up, signalled, crashes, turn>>

\* A process ends: of itself (it exits with its last publisher, or dies of an
\* uncaught exception) or on SIGTERM.
ProcessEnds(id) ==
    /\ id \in running
    /\ id \in Pool \ signalled => CanLaunch(1)
    /\ running' = running \ {id}
    /\ exited' = exited \cup {id}
    /\ UNCHANGED <<idle_erizos, erizos, children, nextId, base, up, signalled, crashes, turn>>

\* The agent ends: its 'exit' listener kills the children it knows.
AgentExits ==
    /\ up
    /\ up' = FALSE
    /\ signalled' = signalled \cup children
    /\ idle_erizos' = <<>>
    /\ erizos' = <<>>
    /\ children' = {}
    /\ UNCHANGED <<nextId, base, running, exited, crashes, turn>>

\* The agent dies without running its listeners. Its children were spawned
\* detached, so they survive it.
AgentCrashes ==
    /\ up
    /\ crashes < MaxCrashes
    /\ crashes' = crashes + 1
    /\ up' = FALSE
    /\ idle_erizos' = <<>>
    /\ erizos' = <<>>
    /\ children' = {}
    /\ UNCHANGED <<nextId, base, running, exited, signalled, turn>>

\* A new agent process knows nothing of the processes of the old one.
AgentStarts ==
    /\ ~up
    /\ CanLaunch(maxProcesses)
    /\ FillErizos(<<>>, <<>>, {}, nextId)
    /\ up' = TRUE
    /\ base' = nextId
    /\ exited' = {}
    /\ UNCHANGED <<signalled, crashes, turn>>

Next ==
    \/ createErizoJS
    \/ \E id \in Ids : deleteErizoJS(id) \/ onClose(id) \/ ProcessEnds(id)
    \/ AgentExits
    \/ AgentCrashes
    \/ AgentStarts

\* A signalled process ends, and node delivers the 'close' of an ended child.
Fairness ==
    /\ \A id \in 1 .. MaxLaunches : WF_vars(id \in signalled /\ ProcessEnds(id))
    /\ \A id \in 1 .. MaxLaunches : WF_vars(onClose(id))

Spec == Init /\ [][Next]_vars

FairSpec == Spec /\ Fairness

-----------------------------------------------------------------------------
(***************************************************************************)
(* Properties                                                              *)
(***************************************************************************)

\* Shape of the state: lists of launched ids, and nothing else alive.
TypeOK ==
    /\ nextId \in Nat \ {0}
    /\ base \in 1 .. nextId
    /\ up \in BOOLEAN
    /\ idle_erizos \in Seq(Ids)
    /\ erizos \in Seq(Ids)
    /\ children \subseteq Ids
    /\ running \subseteq Ids
    /\ exited \subseteq Ids
    /\ signalled \subseteq Ids
    /\ crashes \in Nat
    /\ turn \in {0, 1}

\* The two lists together never hold more ids than maxProcesses, whatever the
\* order of requests, kills and 'close' events (getErizo, fillErizos).
PoolBound == Len(idle_erizos) + Len(erizos) <= maxProcesses

\* An id is in one list, once: createErizoJS takes it from a list before it
\* pushes it on erizos, and 'close' removes every trace of it.
PoolDistinct ==
    /\ IsInjective(idle_erizos)
    /\ IsInjective(erizos)
    /\ ToSet(idle_erizos) \cap ToSet(erizos) = {}

\* While the agent runs, the pool is exactly the processes it launched whose
\* 'close' it has not handled: none is forgotten and none outlives its end.
PoolIsLaunched ==
    up => Pool = {id \in running \cup exited : id >= base}

\* The agent can still kill exactly the processes of the pool it has not
\* killed yet, so that its 'exit' listener misses none.
ChildrenAreKillable == up => children = Pool \ signalled

\* Between two handlers the pool is full or has prerunProcesses idle
\* processes: every handler that takes from the pool refills it.
WarmPool ==
    up => \/ Len(idle_erizos) >= prerunProcesses
          \/ Len(idle_erizos) + Len(erizos) >= maxProcesses

\* The agent's lists and its children are the processes it has to answer for,
\* each once (launchErizoJS, dropErizoJS, the 'close' event).
PoolIsSound == TypeOK /\ PoolDistinct /\ PoolIsLaunched /\ ChildrenAreKillable

\* The limits hold that getErizo and fillErizos apply in two places.
PoolIsSized == PoolBound /\ WarmPool

\* Across restarts of the agent, the processes of the machine that nobody told to
\* end are at most maxProcesses, and as many again for each time that the agent
\* died without its 'exit' listener.
OrphanBound == Cardinality(running \ signalled) <= maxProcesses * (1 + crashes)

\* A process that serves a room is handed out again only when the pool is full
\* and has no idle process, and then it is the least recently used one; any
\* other request gets a process nobody uses.
ReuseInTurn ==
    [][turn' # turn =>
          IF idle_erizos = <<>> /\ Len(erizos) = maxProcesses
            THEN erizos' = Append(Tail(erizos), Head(erizos))
            ELSE \E id \in Ids' \ ToSet(erizos) : erizos' = Append(erizos, id)]_vars

\* A process the agent killed leaves the lists, so createErizoJS stops giving
\* it to erizoControllers (dropErizoJS leaves that to the 'close' event).
KilledLeavesPool ==
    \A id \in 1 .. MaxLaunches : (id \in signalled) ~> (id \notin Pool)

=============================================================================
