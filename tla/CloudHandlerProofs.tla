------------------------- MODULE CloudHandlerProofs -------------------------
(***************************************************************************)
(* That what nuve knows of the erizoControllers is of one piece after      *)
(* every handler, for any number of controllers, of rooms and of ids, and  *)
(* whatever is lost, late or restarted: a room is assigned to a controller *)
(* that nuve knows, and the queue has those that may be given rooms.       *)
(* And that the reports of the controllers' load converge, as long as no   *)
(* call times out and nuve runs on: ids are given once, so a report is of  *)
(* one controller, and the last one it sent has its state.                 *)
(***************************************************************************)
EXTENDS CloudHandler, FiniteSetTheorems, SequenceTheorems, TLAPS

Registered == [host : Controllers, state : 0 .. 2, keepAlive : 0 .. MAX_KA_COUNT]
Report == [id : 0 .. MaxIds, state : 0 .. 2]
Reply == [id : 1 .. MaxIds, attempt : 1 .. Attempts]

\* A queue q of the controllers ecs as recalculatePriority leaves it.
Current(q, ecs) ==
    /\ q \in Seq(DOMAIN ecs)
    /\ ToSet(q) = {id \in DOMAIN ecs : ecs[id].state # 0}
    /\ IsInjective(q)
    /\ \A i, j \in DOMAIN q : i < j => ecs[q[i]].state >= ecs[q[j]].state

\* What nuve keeps.
NuveInv ==
    /\ idIndex \in 0 .. MaxIds
    /\ Known \subseteq 1 .. idIndex
    /\ \A id \in Known : erizoControllers[id] \in Registered
    /\ Current(ecQueue, erizoControllers)
    /\ DOMAIN rooms \subseteq Rooms /\ AssignedIsKnown
    /\ waiting \in [Rooms -> 0 .. MaxWaiting]
    /\ nuveUp \in BOOLEAN

\* How far each controller is with its registration.
RegistrationInv ==
    /\ phase \in [Controllers -> {"off", "registering", "up"}]
    /\ attempt \in [Controllers -> 0 .. Attempts]
    /\ timer \in [Controllers -> BOOLEAN]
    /\ adds \in [Controllers -> SUBSET (1 .. Attempts)]
    /\ replies \in [Controllers -> SUBSET Reply]
    /\ asking \in [Controllers -> SUBSET (1 .. MaxIds)]
    /\ myId \in [Controllers -> 0 .. MaxIds]

\* What each controller does then.
ServiceInv ==
    /\ myState \in [Controllers -> 0 .. 2]
    /\ beating \in [Controllers -> BOOLEAN]
    /\ infos \in [Controllers -> Seq(Report)]
    /\ serves \in [Controllers -> SUBSET Rooms]
    /\ tokens \subseteq Rooms \X Controllers

RegistryInv == NuveInv /\ RegistrationInv /\ ServiceInv

-----------------------------------------------------------------------------
(***************************************************************************)
(* The order of the queue                                                  *)
(***************************************************************************)

\* How many of ids are up to id.
Rank(ids, id) == Cardinality({x \in ids : x <= id})

\* Of two ids the larger one has the higher rank, so no two share one, and
\* every rank is that of an id.
LEMMA RanksAreAll ==
    ASSUME NEW ids, ids \subseteq Nat, IsFiniteSet(ids)
    PROVE  /\ Cardinality(ids) \in Nat
           /\ \A a, b \in ids : Rank(ids, a) = Rank(ids, b) => a = b
           /\ \A id \in ids : Rank(ids, id) \in 1 .. Cardinality(ids)
           /\ \A k \in 1 .. Cardinality(ids) : \E id \in ids : Rank(ids, id) = k
<1> DEFINE n == Cardinality(ids)
           upTo(id) == {x \in ids : x <= id}
           rank == [id \in ids |-> Rank(ids, id)]
<1>1. n \in Nat BY FS_CardinalityType
<1>2. \A id \in ids : IsFiniteSet(upTo(id)) /\ Cardinality(upTo(id)) \in Nat
                      /\ Cardinality(upTo(id)) <= n
  BY FS_Subset, FS_CardinalityType
<1>3. ASSUME NEW a \in ids, NEW b \in ids, a < b PROVE Rank(ids, a) # Rank(ids, b)
  <2>1. upTo(a) \in SUBSET upTo(b) /\ b \in upTo(b) /\ b \notin upTo(a)
    <3>1. a \in Nat /\ b \in Nat /\ \A x \in ids : x \in Nat OBVIOUS
    <3>2. \A x \in ids : x <= a => x <= b BY <1>3, <3>1
    <3>3. b <= b /\ ~(b <= a) BY <1>3, <3>1
    <3> QED BY <3>2, <3>3
  <2>2. IsFiniteSet(upTo(b)) BY <1>2
  <2> HIDE DEF upTo
  <2>3. Cardinality(upTo(a)) # Cardinality(upTo(b)) BY <2>1, <2>2, FS_Subset
  <2> QED BY <2>3 DEF Rank, upTo
<1>4. \A a, b \in ids : Rank(ids, a) = Rank(ids, b) => a = b
  <2> TAKE a, b \in ids
  <2>1. a = b \/ a < b \/ b < a OBVIOUS
  <2> QED BY <1>3, <2>1
<1>5. ASSUME NEW id \in ids PROVE Rank(ids, id) \in 1 .. n
  <2>1. id \in upTo(id) OBVIOUS
  <2>2. Cardinality(upTo(id)) # 0 BY <1>2, <2>1, FS_EmptySet
  <2> QED BY <1>1, <1>2, <2>2 DEF Rank
<1>6. rank \in Injection(ids, 1 .. n) BY <1>4, <1>5 DEF Injection, IsInjective
<1>7. IsFiniteSet(1 .. n) /\ Cardinality(1 .. n) = n BY <1>1, FS_Interval
<1>8. rank \in Surjection(ids, 1 .. n)
  <2> HIDE DEF rank
  <2> QED BY <1>6, <1>7, FS_Injection
<1> QED BY <1>1, <1>4, <1>5, <1>8 DEF Surjection

\* A for-in loop goes through all ids, each once.
LEMMA AscendingHasAll ==
    ASSUME NEW ids, ids \subseteq Nat, IsFiniteSet(ids)
    PROVE  /\ Len(Ascending(ids)) \in Nat
           /\ Ascending(ids) \in Seq(ids)
           /\ IsInjective(Ascending(ids))
           /\ ToSet(Ascending(ids)) = ids
<1> DEFINE n == Cardinality(ids)
           s == Ascending(ids)
<1>1. /\ n \in Nat
      /\ \A a, b \in ids : Rank(ids, a) = Rank(ids, b) => a = b
      /\ \A id \in ids : Rank(ids, id) \in 1 .. n
      /\ \A k \in 1 .. n : \E id \in ids : Rank(ids, id) = k
  BY RanksAreAll
<1>2. s = [k \in 1 .. n |-> CHOOSE id \in ids : Rank(ids, id) = k] BY DEF Ascending, Rank
<1> HIDE DEF n, s
<1>3. DOMAIN s = 1 .. n /\ \A k \in 1 .. n : s[k] \in ids /\ Rank(ids, s[k]) = k
  BY <1>1, <1>2
<1>4. s \in Seq(ids) /\ Len(s) \in Nat BY <1>1, <1>2, <1>3
<1>5. IsInjective(s) BY <1>3 DEF IsInjective
<1>6. ToSet(s) = ids
  <2>1. ASSUME NEW id \in ids PROVE id \in ToSet(s)
    <3>1. Rank(ids, id) \in 1 .. n BY <1>1
    <3>2. s[Rank(ids, id)] = id BY <1>1, <1>3, <3>1
    <3> QED BY <1>3, <3>1, <3>2 DEF ToSet
  <2> QED BY <1>3, <2>1 DEF ToSet
<1> QED BY <1>4, <1>5, <1>6 DEF s

\* recalculatePriority brings the queue up to date.
LEMMA PriorityIsCurrent ==
    ASSUME NEW ecs, DOMAIN ecs \subseteq Nat, IsFiniteSet(DOMAIN ecs),
           \A id \in DOMAIN ecs : ecs[id].state \in 0 .. 2
    PROVE  Current(Priority(ecs), ecs)
<1> DEFINE free == InState(ecs, 2)
           warned == InState(ecs, 1)
           p == Ascending(free)
           q == Ascending(warned)
           m == Len(p)
           n == Len(q)
<1>1. /\ free \subseteq DOMAIN ecs /\ \A id \in free : ecs[id].state = 2
      /\ warned \subseteq DOMAIN ecs /\ \A id \in warned : ecs[id].state = 1
      /\ free \cup warned = {id \in DOMAIN ecs : ecs[id].state # 0}
  BY DEF InState
<1> HIDE DEF free, warned
<1>2. IsFiniteSet(free) /\ IsFiniteSet(warned) /\ free \subseteq Nat /\ warned \subseteq Nat
  BY <1>1, FS_Subset
<1>3. /\ m \in Nat /\ p \in Seq(free) /\ IsInjective(p) /\ ToSet(p) = free
      /\ n \in Nat /\ q \in Seq(warned) /\ IsInjective(q) /\ ToSet(q) = warned
  BY <1>2, AscendingHasAll
<1> HIDE DEF p, q
<1>4. /\ DOMAIN p = 1 .. m /\ DOMAIN q = 1 .. n
      /\ \A i \in 1 .. m : p[i] \in free
      /\ \A i \in 1 .. n : q[i] \in warned
  BY <1>3
<1> DEFINE s == p \o q
<1>5. /\ p \in Seq(DOMAIN ecs) /\ q \in Seq(DOMAIN ecs) /\ s \in Seq(DOMAIN ecs)
      /\ DOMAIN s = 1 .. m + n
      /\ \A i \in 1 .. m + n : s[i] = IF i <= m THEN p[i] ELSE q[i - m]
  <2>1. p \in Seq(DOMAIN ecs) /\ q \in Seq(DOMAIN ecs) BY <1>1, <1>3
  <2> QED BY <2>1
<1> HIDE DEF s, m, n
<1>6. \A i \in 1 .. m + n :
         \/ i \in 1 .. m /\ s[i] = p[i] /\ s[i] \in free
         \/ i > m /\ i - m \in 1 .. n /\ s[i] = q[i - m] /\ s[i] \in warned
  <2> TAKE i \in 1 .. m + n
  <2>1. CASE i <= m BY <2>1, <1>3, <1>4, <1>5
  <2>2. CASE ~(i <= m)
    <3>1. i > m /\ i - m \in 1 .. n BY <2>2, <1>3
    <3> QED BY <2>2, <3>1, <1>4, <1>5
  <2> QED BY <2>1, <2>2
<1>7. free \cap warned = {} BY <1>1
<1>8. IsInjective(s)
  <2> SUFFICES ASSUME NEW i \in 1 .. m + n, NEW j \in 1 .. m + n, s[i] = s[j] PROVE i = j
    BY <1>5 DEF IsInjective
  <2>1. CASE s[i] \in free
    <3>1. i \in 1 .. m /\ j \in 1 .. m /\ p[i] = p[j] BY <1>6, <1>7, <2>1
    <3> QED BY <3>1, <1>3, <1>4 DEF IsInjective
  <2>2. CASE s[i] \notin free
    <3>1. i - m \in 1 .. n /\ j - m \in 1 .. n /\ q[i - m] = q[j - m] BY <1>6, <1>7, <2>2
    <3>2. i - m = j - m BY <3>1, <1>3, <1>4 DEF IsInjective
    <3> QED BY <3>2, <1>3
  <2> QED BY <2>1, <2>2
<1>9. ToSet(s) = free \cup warned
  <2>1. ASSUME NEW id \in free PROVE id \in ToSet(s)
    <3>1. PICK i \in 1 .. m : p[i] = id BY <1>3, <1>4 DEF ToSet
    <3>2. i \in 1 .. m + n /\ s[i] = id BY <3>1, <1>3, <1>5
    <3> QED BY <3>2, <1>5 DEF ToSet
  <2>2. ASSUME NEW id \in warned PROVE id \in ToSet(s)
    <3>1. PICK i \in 1 .. n : q[i] = id BY <1>3, <1>4 DEF ToSet
    <3>2. m + i \in 1 .. m + n /\ ~(m + i <= m) /\ (m + i) - m = i BY <3>1, <1>3
    <3>3. s[m + i] = id BY <3>1, <3>2, <1>5
    <3> QED BY <3>2, <3>3, <1>5 DEF ToSet
  <2>3. ASSUME NEW i \in 1 .. m + n PROVE s[i] \in free \cup warned BY <1>6
  <2> QED BY <1>5, <2>1, <2>2, <2>3 DEF ToSet
<1>10. \A i, j \in DOMAIN s : i < j => ecs[s[i]].state >= ecs[s[j]].state
  <2> SUFFICES ASSUME NEW i \in 1 .. m + n, NEW j \in 1 .. m + n, i < j
               PROVE  ecs[s[i]].state >= ecs[s[j]].state
    BY <1>5
  <2>1. s[i] \in free \/ (s[i] \in warned /\ i > m) BY <1>6
  <2>2. (s[j] \in free /\ j \in 1 .. m) \/ s[j] \in warned BY <1>6
  <2>3. s[i] \in warned /\ i > m => ~(j \in 1 .. m) BY <1>3
  <2> QED BY <1>1, <2>1, <2>2, <2>3
<1>11. Priority(ecs) = s BY DEF Priority, s, p, q, free, warned
<1> QED BY <1>1, <1>5, <1>8, <1>9, <1>10, <1>11 DEF Current

-----------------------------------------------------------------------------
(***************************************************************************)
(* The handlers                                                            *)
(***************************************************************************)

\* What the proofs need of the constants.
LEMMA Bounds ==
    /\ MAX_KA_COUNT \in Nat /\ MaxIds \in Nat
    /\ MaxWaiting \in Nat /\ Attempts \in Nat \ {0}
BY CloudAssumption

\* RegistryInv is RegistryIsSound, said so that a handler keeps its parts.
LEMMA InvIsSound == RegistryInv => RegistryIsSound
<1> SUFFICES ASSUME RegistryInv PROVE RegistryIsSound OBVIOUS
<1> USE DEF RegistryInv
<1>1. ecQueue \in Seq(1 .. MaxIds)
  <2>1. Known \subseteq 1 .. MaxIds BY Bounds DEF NuveInv
  <2>2. ecQueue \in Seq(Known) BY DEF NuveInv, Current, Known
  <2> DEFINE ids == 1 .. MaxIds
  <2> HIDE DEF ids
  <2>3. Known \subseteq ids BY <2>1 DEF ids
  <2>4. ecQueue \in Seq(ids) BY <2>2, <2>3
  <2> QED BY <2>4 DEF ids
<1>2. TypeOK
  BY <1>1 DEF TypeOK, NuveInv, RegistrationInv, ServiceInv, Registered, Report, Reply
<1>3. QueueIsCurrent BY DEF QueueIsCurrent, NuveInv, Current, Known
<1> QED BY <1>2, <1>3 DEF RegistryIsSound, NuveInv

\* nuve starts empty, and so do the controllers.
LEMMA InitRegistry == Init => RegistryInv
<1> SUFFICES ASSUME Init PROVE RegistryInv OBVIOUS
<1>1. Current(ecQueue, erizoControllers) BY DEF Init, Current, ToSet, IsInjective
<1>2. NuveInv BY <1>1, Bounds DEF Init, NuveInv, Known, AssignedIsKnown
<1>3. RegistrationInv BY Bounds DEF Init, RegistrationInv, NoId
<1>4. ServiceInv BY DEF Init, ServiceInv
<1> QED BY <1>2, <1>3, <1>4 DEF RegistryInv

\* Of the controllers nuve knows there are finitely many, so a handler that
\* recalculates leaves the queue current.
LEMMA RecalculateKeeps ==
    ASSUME NEW ecs, NEW n \in Nat, DOMAIN ecs \subseteq 1 .. n,
           \A id \in DOMAIN ecs : ecs[id] \in Registered
    PROVE  Current(Priority(ecs), ecs)
<1>1. IsFiniteSet(1 .. n) BY FS_Interval
<1>2. IsFiniteSet(DOMAIN ecs) BY <1>1, FS_Subset
<1>3. DOMAIN ecs \subseteq Nat OBVIOUS
<1>4. \A id \in DOMAIN ecs : ecs[id].state \in 0 .. 2 BY DEF Registered
<1> QED BY <1>2, <1>3, <1>4, PriorityIsCurrent

\* What nuve forgets leaves nothing of a controller behind.
LEMMA NuveForgetsKeeps ==
    ASSUME NEW up \in BOOLEAN, NuveForgets(up)
    PROVE  NuveInv'
<1>1. Current(ecQueue, erizoControllers)'
  BY DEF NuveForgets, Current, ToSet, IsInjective
<1> QED BY <1>1, Bounds DEF NuveForgets, NuveInv, Known, AssignedIsKnown

\* addNewErizoController: the new id is above all others, and available.
LEMMA AddKeeps ==
    ASSUME RegistryInv, NEW c \in Controllers, NEW n \in 1 .. Attempts,
           addNewErizoController(c, n)
    PROVE  NuveInv'
<1> USE DEF RegistryInv
<1> DEFINE id == idIndex + 1
           ec == [host |-> c, state |-> 2, keepAlive |-> 0]
<1>1. idIndex \in Nat /\ idIndex' = id /\ id \in 0 .. MaxIds /\ 1 .. idIndex \subseteq 1 .. id
  BY Bounds DEF NuveInv, addNewErizoController
<1>2. ec \in Registered BY Bounds DEF Registered
<1>3. Known' = Known \cup {id}
      /\ \A x \in Known' : erizoControllers'[x] = IF x = id THEN ec ELSE erizoControllers[x]
  BY DEF addNewErizoController, With, Known
<1> HIDE DEF ec
<1>4. Known' \subseteq 1 .. idIndex'
  <2>1. Known \subseteq 1 .. idIndex BY DEF NuveInv
  <2>2. id \in 1 .. id BY <1>1
  <2> HIDE DEF id
  <2> QED BY <1>1, <1>3, <2>1, <2>2
<1>5. \A x \in Known' : erizoControllers'[x] \in Registered BY <1>2, <1>3 DEF NuveInv
<1>6. ecQueue' = Priority(erizoControllers') BY DEF addNewErizoController
<1>7. Current(ecQueue, erizoControllers)'
  BY <1>1, <1>4, <1>5, <1>6, RecalculateKeeps DEF Known, Current
<1>8. AssignedIsKnown' BY <1>3 DEF NuveInv, AssignedIsKnown, addNewErizoController
<1> QED BY <1>1, <1>4, <1>5, <1>7, <1>8 DEF NuveInv, addNewErizoController

\* keepAlive: only the missed checks change.
LEMMA KeepAliveKeeps ==
    ASSUME RegistryInv, NEW c \in Controllers, keepAlive(c)
    PROVE  NuveInv'
<1> USE DEF RegistryInv
<1>1. /\ Known' = Known
      /\ \A x \in Known : /\ erizoControllers'[x] \in Registered
                          /\ erizoControllers'[x].state = erizoControllers[x].state
  BY Bounds DEF keepAlive, NuveInv, Known, Registered
<1>2. Current(ecQueue, erizoControllers)'
  BY <1>1 DEF keepAlive, NuveInv, Current, Known, ToSet
<1>3. AssignedIsKnown' BY <1>1 DEF NuveInv, AssignedIsKnown, keepAlive
<1> QED BY <1>1, <1>2, <1>3 DEF NuveInv, keepAlive

\* checkKA: with a controller go its rooms; without one, no state changes.
LEMMA CheckKeeps ==
    ASSUME RegistryInv, checkKA
    PROVE  NuveInv'
<1> USE DEF RegistryInv
<1> DEFINE missed == OneMoreMiss(erizoControllers)
           dead == Overdue(missed)
<1>1. /\ DOMAIN missed = Known
      /\ \A x \in Known : /\ missed[x] = [erizoControllers[x] EXCEPT !.keepAlive = @ + 1]
                          /\ x \in dead <=> missed[x].keepAlive > MAX_KA_COUNT
      /\ dead \subseteq Known
  BY DEF OneMoreMiss, Overdue, Known
<1>2. /\ erizoControllers' = Restrict(missed, Known \ dead)
      /\ rooms' = AssignedToOthers(dead)
      /\ ecQueue' = IF dead = {} THEN ecQueue ELSE Priority(erizoControllers')
      /\ UNCHANGED <<idIndex, waiting, nuveUp>>
  BY DEF checkKA
<1> HIDE DEF missed, dead
<1>3. Known' = Known \ dead /\ \A x \in Known' : erizoControllers'[x] = missed[x]
  BY <1>1, <1>2 DEF Restrict, Known
<1>4. ASSUME NEW x \in Known'
      PROVE  /\ erizoControllers'[x] \in Registered
             /\ erizoControllers'[x].state = erizoControllers[x].state
  <2>1. erizoControllers[x] \in Registered BY <1>3 DEF NuveInv
  <2>2. erizoControllers'[x] = [erizoControllers[x] EXCEPT !.keepAlive = @ + 1]
        /\ ~(erizoControllers'[x].keepAlive > MAX_KA_COUNT)
    BY <1>1, <1>3
  <2> QED BY <2>1, <2>2, Bounds DEF Registered
<1>5. Known' \subseteq 1 .. idIndex' BY <1>2, <1>3 DEF NuveInv
<1>6. Current(ecQueue, erizoControllers)'
  <2>1. CASE dead = {}
    <3>1. Known' = Known /\ ecQueue' = ecQueue BY <1>2, <1>3, <2>1
    <3> QED BY <1>4, <3>1 DEF NuveInv, Current, Known, ToSet
  <2>2. CASE dead # {}
    <3>1. ecQueue' = Priority(erizoControllers') /\ idIndex' \in Nat
      BY <1>2, <2>2 DEF NuveInv
    <3>2. Current(Priority(erizoControllers'), erizoControllers')
      BY <1>4, <1>5, <3>1, RecalculateKeeps DEF Known
    <3> QED BY <3>1, <3>2 DEF Current
  <2> QED BY <2>1, <2>2
<1>7. DOMAIN rooms' \subseteq DOMAIN rooms
      /\ \A r \in DOMAIN rooms' : rooms'[r] = rooms[r] /\ rooms[r] \notin dead
  BY <1>2 DEF AssignedToOthers, Restrict
<1>8. AssignedIsKnown' /\ DOMAIN rooms' \subseteq Rooms
  BY <1>3, <1>7 DEF NuveInv, AssignedIsKnown
<1> QED BY <1>2, <1>4, <1>5, <1>6, <1>8 DEF NuveInv

\* assign: the head of the queue is a controller that nuve knows.
LEMMA HeadIsKnown ==
    ASSUME NuveInv, ecQueue # <<>>
    PROVE  Head(ecQueue) \in Known
<1>1. ecQueue \in Seq(Known) BY DEF NuveInv, Current, Known
<1> QED BY <1>1

\* assign takes it, and leaves the queue current.
LEMMA AssignKeeps ==
    ASSUME RegistryInv, NEW r \in Rooms, assign(r)
    PROVE  NuveInv'
<1> USE DEF RegistryInv
<1>1. Head(ecQueue) \in Known BY HeadIsKnown DEF assign
<1>2. Known' = Known /\ erizoControllers' = erizoControllers /\ idIndex' = idIndex
      /\ idIndex \in Nat
  BY DEF assign, Known, NuveInv
<1>3. Current(Priority(erizoControllers), erizoControllers)
  BY <1>2, RecalculateKeeps DEF NuveInv, Known
<1>4. Current(ecQueue, erizoControllers)' BY <1>2, <1>3 DEF assign, Current
<1>5. /\ DOMAIN rooms' = DOMAIN rooms \cup {r}
      /\ \A s \in DOMAIN rooms' : rooms'[s] = IF s = r THEN Head(ecQueue) ELSE rooms[s]
  BY DEF assign, With
<1>6. AssignedIsKnown' BY <1>1, <1>2, <1>5 DEF NuveInv, AssignedIsKnown
<1>7. waiting' \in [Rooms -> 0 .. MaxWaiting]
  BY Bounds DEF assign, NuveInv
<1> QED BY <1>2, <1>4, <1>5, <1>6, <1>7 DEF NuveInv, assign

\* setInfo: the state that is reported, or the end of nuve.
LEMMA SetInfoKeeps ==
    ASSUME RegistryInv, NEW c \in Controllers, setInfo(c)
    PROVE  NuveInv'
<1> USE DEF RegistryInv
<1> DEFINE info == Head(infos[c])
<1>1. info \in Report BY DEF setInfo, ServiceInv
<1>2. CASE info.id \in Known
  <2>0. /\ erizoControllers' = [erizoControllers EXCEPT ![info.id].state = info.state]
        /\ ecQueue' = Priority(erizoControllers')
        /\ UNCHANGED <<rooms, idIndex, waiting, nuveUp>>
        /\ info.state \in 0 .. 2
    BY <1>1, <1>2 DEF setInfo, Report
  <2> HIDE DEF info
  <2>1. /\ Known' = Known
        /\ \A x \in Known : erizoControllers'[x] \in Registered
        /\ ecQueue' = Priority(erizoControllers')
        /\ UNCHANGED <<rooms, idIndex, waiting, nuveUp>>
    BY <1>2, <2>0 DEF NuveInv, Known, Registered
  <2>2. idIndex' \in Nat /\ Known' \subseteq 1 .. idIndex' BY <2>1 DEF NuveInv
  <2>3. Current(Priority(erizoControllers'), erizoControllers')
    BY <2>1, <2>2, RecalculateKeeps DEF Known
  <2>4. Current(ecQueue, erizoControllers)' BY <2>1, <2>3 DEF Current
  <2>5. AssignedIsKnown' BY <2>1 DEF NuveInv, AssignedIsKnown
  <2> QED BY <2>1, <2>2, <2>4, <2>5 DEF NuveInv
<1>3. CASE info.id \notin Known BY <1>3, NuveForgetsKeeps DEF setInfo
<1> QED BY <1>2, <1>3

\* Every handler of nuve leaves what it keeps of one piece.
LEMMA NuveStep == RegistryInv /\ [Next]_vars => NuveInv'
<1> SUFFICES ASSUME RegistryInv, [Next]_vars PROVE NuveInv' OBVIOUS
<1>1. CASE \E c \in Controllers, n \in 1 .. Attempts : addNewErizoController(c, n)
  BY <1>1, AddKeeps
<1>2. CASE \E c \in Controllers : keepAlive(c) BY <1>2, KeepAliveKeeps
<1>3. CASE \E c \in Controllers : setInfo(c) BY <1>3, SetInfoKeeps
<1>4. CASE \E r \in Rooms : assign(r) BY <1>4, AssignKeeps
<1>5. CASE checkKA BY <1>5, CheckKeeps
<1>6. CASE nuveRestarts BY <1>6, NuveForgetsKeeps DEF nuveRestarts
<1>7. CASE \E r \in Rooms : getErizoControllerForRoom(r)
  <2>1. PICK r \in Rooms : getErizoControllerForRoom(r) BY <1>7
  <2>2. waiting' \in [Rooms -> 0 .. MaxWaiting]
    BY <2>1, Bounds DEF getErizoControllerForRoom, RegistryInv, NuveInv
  <2> QED BY <2>1, <2>2
      DEF getErizoControllerForRoom, RegistryInv, NuveInv, Current, Known, AssignedIsKnown, ToSet
<1>8. CASE UNCHANGED nuve
  BY <1>8 DEF nuve, RegistryInv, NuveInv, Current, Known, AssignedIsKnown, ToSet
<1>9. \/ \E c \in Controllers, n \in 1 .. Attempts : addNewErizoController(c, n)
      \/ \E c \in Controllers : keepAlive(c) \/ setInfo(c)
      \/ \E r \in Rooms : assign(r) \/ getErizoControllerForRoom(r)
      \/ checkKA \/ nuveRestarts \/ UNCHANGED nuve
  BY DEF Next, vars, start, registerTimeout, getKeyTimeout, registered, getKey,
         controllerDies, join, leave, tokenExpires
<1> QED BY <1>1, <1>2, <1>3, <1>4, <1>5, <1>6, <1>7, <1>8, <1>9

\* A controller that ends has registered nothing.
LEMMA EndsKeeps ==
    ASSUME RegistryInv, NEW c \in Controllers, Ends(c), UNCHANGED <<adds, infos, tokens>>
    PROVE  RegistrationInv' /\ ServiceInv'
<1>1. RegistrationInv' BY Bounds DEF RegistryInv, RegistrationInv, Ends, NoId
<1>2. ServiceInv' BY DEF RegistryInv, ServiceInv, Ends
<1> QED BY <1>1, <1>2

\* The registration of a controller goes by the calls it made and the ids that
\* nuve gave.
LEMMA RegistrationStep == RegistryInv /\ [Next]_vars => RegistrationInv'
<1> SUFFICES ASSUME RegistryInv, [Next]_vars PROVE RegistrationInv' OBVIOUS
<1> USE DEF RegistryInv
<1>1. CASE \E c \in Controllers : start(c)
  BY <1>1, Bounds DEF start, RegistrationInv
<1>2. CASE \E c \in Controllers : registerTimeout(c)
  <2>1. PICK c \in Controllers : registerTimeout(c) BY <1>2
  <2>2. CASE attempt[c] < Attempts
    <3>1. attempt[c] + 1 \in 1 .. Attempts /\ attempt[c] + 1 \in 0 .. Attempts
      BY <2>1, <2>2, Bounds DEF RegistrationInv
    <3>2. /\ timer' = [timer EXCEPT ![c] = TRUE]
          /\ attempt' = [attempt EXCEPT ![c] = attempt[c] + 1]
          /\ adds' = [adds EXCEPT ![c] = @ \cup {attempt[c] + 1}]
          /\ UNCHANGED <<phase, replies, asking, myId>>
      BY <2>1, <2>2 DEF registerTimeout, RegistrationInv
    <3> QED BY <3>1, <3>2 DEF RegistrationInv
  <2>3. CASE ~(attempt[c] < Attempts)
    <3>0. (attempt[c] < Attempts) = FALSE BY <2>3
    <3>1. /\ attempt' = [attempt EXCEPT ![c] = @]
          /\ adds' = [adds EXCEPT ![c] = @]
          /\ UNCHANGED <<phase, replies, asking, myId>>
      BY <2>1, <2>3 DEF registerTimeout
    <3>2. timer' = [timer EXCEPT ![c] = FALSE] BY <2>1, <3>0 DEF registerTimeout
    <3> QED BY <3>1, <3>2 DEF RegistrationInv
  <2> QED BY <2>2, <2>3
<1>3. CASE \E c \in Controllers, n \in 1 .. Attempts : addNewErizoController(c, n)
  <2>1. PICK c \in Controllers, n \in 1 .. Attempts : addNewErizoController(c, n) BY <1>3
  <2>2. idIndex + 1 \in 1 .. MaxIds BY <2>1, Bounds DEF addNewErizoController, NuveInv
  <2>3. [id |-> idIndex + 1, attempt |-> n] \in Reply BY <2>2 DEF Reply
  <2> QED BY <2>1, <2>3 DEF addNewErizoController, RegistrationInv
<1>4. CASE \E c \in Controllers : \E reply \in replies[c] : registered(c, reply)
  <2>0. PICK c \in Controllers : \E reply \in replies[c] : registered(c, reply) BY <1>4
  <2>1. PICK reply \in replies[c] : registered(c, reply) BY <2>0
  <2>2. reply.id \in 1 .. MaxIds BY <2>1 DEF RegistrationInv, Reply
  <2>3. reply.id \in 0 .. MaxIds BY <2>2, Bounds
  <2> QED BY <2>1, <2>2, <2>3 DEF registered, RegistrationInv
<1>5. CASE \E c \in Controllers, id \in 1 .. MaxIds : getKey(c, id)
  <2>1. PICK c \in Controllers, id \in 1 .. MaxIds : getKey(c, id) BY <1>5
  <2>2. CASE Ends(c) BY <2>1, <2>2, EndsKeeps DEF getKey
  <2>3. CASE ~Ends(c) BY <2>1, <2>3 DEF getKey, RegistrationInv
  <2> QED BY <2>2, <2>3
<1>6. CASE \E c \in Controllers : getKeyTimeout(c) \/ controllerDies(c)
  BY <1>6, EndsKeeps DEF getKeyTimeout, controllerDies
<1>7. CASE UNCHANGED registration BY <1>7 DEF registration, RegistrationInv
<1>8. \/ \E c \in Controllers : \/ start(c) \/ registerTimeout(c) \/ getKeyTimeout(c)
                               \/ controllerDies(c)
      \/ \E c \in Controllers, n \in 1 .. Attempts : addNewErizoController(c, n)
      \/ \E c \in Controllers : \E reply \in replies[c] : registered(c, reply)
      \/ \E c \in Controllers, id \in 1 .. MaxIds : getKey(c, id)
      \/ UNCHANGED registration
  BY DEF Next, vars, keepAlive, setInfo, join, leave, tokenExpires,
         getErizoControllerForRoom, assign, checkKA, nuveRestarts
<1> QED BY <1>1, <1>2, <1>3, <1>4, <1>5, <1>6, <1>7, <1>8

\* The report of a controller has its own id.
LEMMA ReportKeeps ==
    ASSUME RegistryInv, NEW c \in Controllers, NEW n, UpdateMyState(c, n)
    PROVE  myState' \in [Controllers -> 0 .. 2] /\ infos' \in [Controllers -> Seq(Report)]
<1> USE DEF RegistryInv
<1> DEFINE s == Level(n)
<1>1. s \in 0 .. 2 BY DEF Level
<1> HIDE DEF s
<1>2. [id |-> myId[c], state |-> s] \in Report BY <1>1 DEF RegistrationInv, Report
<1>3. /\ myState' = [myState EXCEPT ![c] = s]
      /\ \/ infos' = infos
         \/ infos' = [infos EXCEPT ![c] = Append(@, [id |-> myId[c], state |-> s])]
  BY DEF UpdateMyState, s
<1>4. myState' \in [Controllers -> 0 .. 2] BY <1>1, <1>3 DEF ServiceInv
<1>5. Append(infos[c], [id |-> myId[c], state |-> s]) \in Seq(Report)
  <2>1. infos[c] \in Seq(Report) BY DEF ServiceInv
  <2> QED BY <1>2, <2>1
<1>6. infos' \in [Controllers -> Seq(Report)] BY <1>3, <1>5 DEF ServiceInv
<1> QED BY <1>4, <1>6

\* The messages, the rooms and the tokens of controllers are of the sets they
\* are taken from.
LEMMA ServiceStep == RegistryInv /\ [Next]_vars => ServiceInv'
<1> SUFFICES ASSUME RegistryInv, [Next]_vars PROVE ServiceInv' OBVIOUS
<1> USE DEF RegistryInv
<1>1. CASE \E c \in Controllers : \E reply \in replies[c] : registered(c, reply)
  BY <1>1 DEF registered, ServiceInv
<1>2. CASE \E c \in Controllers, id \in 1 .. MaxIds : getKey(c, id)
  <2>1. PICK c \in Controllers, id \in 1 .. MaxIds : getKey(c, id) BY <1>2
  <2>2. CASE Ends(c) BY <2>1, <2>2, EndsKeeps DEF getKey
  <2>3. CASE ~Ends(c) BY <2>1, <2>3 DEF getKey, ServiceInv
  <2> QED BY <2>2, <2>3
<1>3. CASE \E c \in Controllers : getKeyTimeout(c) \/ controllerDies(c)
  BY <1>3, EndsKeeps DEF getKeyTimeout, controllerDies
<1>4. CASE \E c \in Controllers : keepAlive(c) BY <1>4 DEF keepAlive, ServiceInv
<1>5. CASE \E c \in Controllers : setInfo(c) BY <1>5 DEF setInfo, ServiceInv
<1>6. CASE \E c \in Controllers, r \in Rooms : join(r, c)
  <2>1. PICK c \in Controllers, r \in Rooms : join(r, c) BY <1>6
  <2>2. myState' \in [Controllers -> 0 .. 2] /\ infos' \in [Controllers -> Seq(Report)]
    BY <2>1, ReportKeeps DEF join, ServiceInv
  <2> QED BY <2>1, <2>2 DEF join, ServiceInv
<1>7. CASE \E c \in Controllers, r \in Rooms : leave(r, c)
  <2>1. PICK c \in Controllers, r \in Rooms : leave(r, c) BY <1>7
  <2>2. myState' \in [Controllers -> 0 .. 2] /\ infos' \in [Controllers -> Seq(Report)]
    BY <2>1, ReportKeeps DEF leave
  <2> QED BY <2>1, <2>2 DEF leave, ServiceInv
<1>8. CASE \E c \in Controllers, r \in Rooms : tokenExpires(r, c)
  BY <1>8 DEF tokenExpires, ServiceInv
<1>9. CASE \E r \in Rooms : getErizoControllerForRoom(r)
  <2>1. PICK r \in Rooms : getErizoControllerForRoom(r) BY <1>9
  <2>2. r \in DOMAIN rooms => erizoControllers[rooms[r]].host \in Controllers
    BY DEF NuveInv, AssignedIsKnown, Registered
  <2>3. \/ tokens' = tokens
        \/ r \in DOMAIN rooms /\ tokens' = tokens \cup {<<r, erizoControllers[rooms[r]].host>>}
    <3>1. CASE r \in DOMAIN rooms BY <2>1, <3>1 DEF getErizoControllerForRoom, Give
    <3>2. CASE r \notin DOMAIN rooms BY <2>1, <3>2 DEF getErizoControllerForRoom
    <3> QED BY <3>1, <3>2
  <2>4. UNCHANGED <<myState, beating, infos, serves>> BY <2>1 DEF getErizoControllerForRoom
  <2> QED BY <2>2, <2>3, <2>4 DEF ServiceInv
<1>10. CASE \E r \in Rooms : assign(r)
  <2>1. PICK r \in Rooms : assign(r) BY <1>10
  <2>2. Head(ecQueue) \in Known BY <2>1, HeadIsKnown DEF assign
  <2>3. erizoControllers[Head(ecQueue)].host \in Controllers BY <2>2 DEF NuveInv, Registered
  <2>4. tokens' = tokens \cup {<<r, erizoControllers[Head(ecQueue)].host>>}
        /\ UNCHANGED <<myState, beating, infos, serves>>
    BY <2>1 DEF assign, Give
  <2> QED BY <2>3, <2>4 DEF ServiceInv
<1>11. CASE UNCHANGED <<myState, beating, infos, serves, tokens>> BY <1>11 DEF ServiceInv
<1>12. \/ \E c \in Controllers : \E reply \in replies[c] : registered(c, reply)
       \/ \E c \in Controllers, id \in 1 .. MaxIds : getKey(c, id)
       \/ \E c \in Controllers : \/ getKeyTimeout(c) \/ controllerDies(c)
                                \/ keepAlive(c) \/ setInfo(c)
       \/ \E c \in Controllers, r \in Rooms : join(r, c) \/ leave(r, c) \/ tokenExpires(r, c)
       \/ \E r \in Rooms : getErizoControllerForRoom(r) \/ assign(r)
       \/ UNCHANGED <<myState, beating, infos, serves, tokens>>
  BY DEF Next, vars, start, registerTimeout, addNewErizoController, checkKA, nuveRestarts
<1> QED BY <1>1, <1>2, <1>3, <1>4, <1>5, <1>6, <1>7, <1>8, <1>9, <1>10, <1>11, <1>12

-----------------------------------------------------------------------------
(***************************************************************************)
(* The theorems                                                            *)
(***************************************************************************)

\* Whatever the processes do, what nuve and the controllers keep is of one piece.
THEOREM RegistryInvariant == Spec => []RegistryInv
<1>1. RegistryInv /\ [Next]_vars => RegistryInv'
  BY NuveStep, RegistrationStep, ServiceStep DEF RegistryInv
<1> QED BY <1>1, InitRegistry, PTL DEF Spec

\* A room is always assigned to a controller that nuve knows, and the queue that
\* the next room is taken from has the controllers that may be given one, each
\* once and the available ones first: no handler of cloudHandler.js leaves one of
\* its three maps behind the others.
THEOREM RegistryStaysSound == Spec => []RegistryIsSound
<1>1. RegistryInv => RegistryIsSound BY InvIsSound
<1> QED BY <1>1, RegistryInvariant, PTL

-----------------------------------------------------------------------------
(***************************************************************************)
(* Reports                                                                 *)
(***************************************************************************)

\* No call times out, nuve is not started again, and a controller without rooms
\* is available.
Calm == "rpc timeout" \notin Events /\ "nuve restarts" \notin Events /\ WARNING_N_ROOMS > 0

\* A controller registers once in its life.
Life(c) ==
    /\ adds[c] \subseteq {1}
    /\ phase[c] = "off" => replies[c] = {} /\ asking[c] = {} /\ myId[c] = NoId
    /\ phase[c] = "up" => adds[c] = {} /\ replies[c] = {} /\ asking[c] = {} /\ myId[c] # NoId
    /\ adds[c] # {} => replies[c] = {} /\ asking[c] = {} /\ myId[c] = NoId
    /\ replies[c] # {} => asking[c] = {} /\ myId[c] = NoId
    /\ asking[c] \subseteq {myId[c]}
    /\ \A x, y \in replies[c] : x = y

\* Its state is that of its rooms.
Load(c) ==
    /\ phase[c] # "up" => serves[c] = {}
    /\ IsFiniteSet(serves[c])
    /\ myState[c] = Level(Cardinality(serves[c]))

LivesInv == \A c \in Controllers : Life(c) /\ Load(c)

\* The state of a controller without rooms.
LEMMA NoRoomsLevel ==
    ASSUME Calm
    PROVE  IsFiniteSet({}) /\ Level(Cardinality({})) = 2
<1>1. IsFiniteSet({}) /\ Cardinality({}) = 0 BY FS_EmptySet
<1>2. 0 < WARNING_N_ROOMS BY DEF Calm
<1> QED BY <1>1, <1>2 DEF Level

\* A controller takes an id once in its life: without a timeout it asks once.
LEMMA LifeStep ==
    ASSUME Calm, RegistryInv, LivesInv, [Next]_vars, NEW d \in Controllers
    PROVE  Life(d)'
<1> USE DEF RegistryInv
<1>0. Life(d) BY DEF LivesInv
<1>1. CASE \E c \in Controllers : start(c)
  BY <1>0, <1>1 DEF start, Life, RegistrationInv
<1>2. CASE \E c \in Controllers, n \in 1 .. Attempts : addNewErizoController(c, n)
  <2>1. PICK c \in Controllers, n \in 1 .. Attempts : addNewErizoController(c, n) BY <1>2
  <2>2. CASE d = c
    <3>1. adds[d] = {1} /\ n = 1 /\ adds'[d] = {} /\ phase[d] # "up"
          /\ replies[d] = {} /\ asking[d] = {} /\ myId[d] = NoId
      BY <1>0, <2>1, <2>2 DEF addNewErizoController, Life, RegistrationInv
    <3>2. /\ replies'[d] = {} \/ (phase[d] # "off" /\ \E x : replies'[d] = {x})
          /\ asking'[d] = {} /\ myId'[d] = NoId /\ phase'[d] = phase[d]
      BY <2>1, <2>2, <3>1 DEF addNewErizoController, RegistrationInv, Alive
    <3> QED BY <1>0, <3>1, <3>2 DEF Life
  <2>3. CASE d # c BY <1>0, <2>1, <2>3 DEF addNewErizoController, Life, RegistrationInv
  <2> QED BY <2>2, <2>3
<1>3. CASE \E c \in Controllers : \E reply \in replies[c] : registered(c, reply)
  <2>1. PICK c \in Controllers : \E reply \in replies[c] : registered(c, reply) BY <1>3
  <2>2. PICK reply \in replies[c] : registered(c, reply) BY <2>1
  <2>3. CASE d = c
    <3>1. /\ replies[d] = {reply} /\ asking[d] = {} /\ adds[d] = {} /\ phase[d] \notin {"off", "up"}
      BY <1>0, <2>2, <2>3 DEF Life
    <3>2. /\ replies'[d] = {} /\ asking'[d] = {reply.id} /\ myId'[d] = reply.id
          /\ adds'[d] = {} /\ phase'[d] = phase[d]
      BY <2>2, <2>3, <3>1 DEF registered, RegistrationInv
    <3> QED BY <3>1, <3>2 DEF Life
  <2>4. CASE d # c BY <1>0, <2>2, <2>4 DEF registered, Life, RegistrationInv
  <2> QED BY <2>3, <2>4
<1>4. ASSUME NEW c \in Controllers, Ends(c), adds' = adds PROVE Life(d)'
  BY <1>0, <1>4 DEF Ends, Life, RegistrationInv
<1>5. CASE \E c \in Controllers, id \in 1 .. MaxIds : getKey(c, id)
  <2>1. PICK c \in Controllers, id \in 1 .. MaxIds : getKey(c, id) BY <1>5
  <2>2. CASE Ends(c) BY <1>4, <2>1, <2>2 DEF getKey
  <2>3. CASE ~Ends(c)
    <3>1. /\ id \in asking[c] /\ asking' = [asking EXCEPT ![c] = @ \ {id}]
          /\ phase' = [phase EXCEPT ![c] = "up"]
          /\ UNCHANGED <<replies, myId, adds>>
      BY <2>1, <2>3 DEF getKey
    <3>2. id # NoId BY DEF NoId
    <3>3. CASE d = c
      <4>1. myId[d] = id /\ asking[d] = {id} /\ adds[d] = {} /\ replies[d] = {}
        BY <1>0, <3>1, <3>3 DEF Life
      <4>2. phase'[d] = "up" /\ asking'[d] = {} BY <3>1, <3>3, <4>1 DEF RegistrationInv
      <4> QED BY <3>1, <3>2, <4>1, <4>2 DEF Life
    <3>4. CASE d # c BY <1>0, <3>1, <3>4 DEF Life, RegistrationInv
    <3> QED BY <3>3, <3>4
  <2> QED BY <2>2, <2>3
<1>6. CASE \E c \in Controllers : controllerDies(c) BY <1>4, <1>6 DEF controllerDies
<1>7. CASE UNCHANGED registration BY <1>0, <1>7 DEF registration, Life
<1>8. \/ \E c \in Controllers : start(c) \/ controllerDies(c)
      \/ \E c \in Controllers, n \in 1 .. Attempts : addNewErizoController(c, n)
      \/ \E c \in Controllers : \E reply \in replies[c] : registered(c, reply)
      \/ \E c \in Controllers, id \in 1 .. MaxIds : getKey(c, id)
      \/ UNCHANGED registration
  BY DEF Calm, Next, vars, keepAlive, setInfo, join, leave, tokenExpires, registerTimeout,
         getKeyTimeout, getErizoControllerForRoom, assign, checkKA, nuveRestarts
<1> QED BY <1>1, <1>2, <1>3, <1>5, <1>6, <1>7, <1>8

\* join, leave and the start of a life keep the state with the rooms.
LEMMA LoadStep ==
    ASSUME Calm, RegistryInv, LivesInv, [Next]_vars, NEW d \in Controllers
    PROVE  Load(d)'
<1> USE DEF RegistryInv
<1>0. Life(d) /\ Load(d) BY DEF LivesInv
<1>a. ASSUME phase'[d] = phase[d], serves'[d] = serves[d], myState'[d] = myState[d]
      PROVE  Load(d)'
  BY <1>0, <1>a DEF Load
<1>b. ASSUME serves'[d] = {}, myState'[d] = 2 PROVE Load(d)'
  BY <1>b, NoRoomsLevel DEF Load
<1>1. CASE \E c \in Controllers : start(c)
  <2>1. PICK c \in Controllers : start(c) BY <1>1
  <2>2. CASE d = c
    <3>1. phase[d] = "off" /\ serves[d] = {} /\ UNCHANGED <<serves, myState>>
      BY <1>0, <2>1, <2>2 DEF start, Load
    <3> QED BY <1>0, <3>1 DEF Load
  <2>3. CASE d # c BY <1>a, <2>1, <2>3 DEF start, RegistrationInv
  <2> QED BY <2>2, <2>3
<1>2. CASE \E c \in Controllers : \E reply \in replies[c] : registered(c, reply)
  <2>1. PICK c \in Controllers : \E reply \in replies[c] : registered(c, reply) BY <1>2
  <2>2. PICK reply \in replies[c] : registered(c, reply) BY <2>1
  <2>3. CASE d = c
    <3>1. phase[d] # "up" /\ serves[d] = {} BY <1>0, <2>2, <2>3 DEF Life, Load
    <3> QED BY <1>b, <2>2, <2>3, <3>1 DEF registered, ServiceInv
  <2>4. CASE d # c BY <1>a, <2>2, <2>4 DEF registered, ServiceInv
  <2> QED BY <2>3, <2>4
<1>3. ASSUME NEW c \in Controllers, Ends(c) PROVE Load(d)'
  <2>1. CASE d = c BY <1>b, <1>3, <2>1 DEF Ends, ServiceInv
  <2>2. CASE d # c BY <1>a, <1>3, <2>2 DEF Ends, ServiceInv, RegistrationInv
  <2> QED BY <2>1, <2>2
<1>4. CASE \E c \in Controllers, id \in 1 .. MaxIds : getKey(c, id)
  <2>1. PICK c \in Controllers, id \in 1 .. MaxIds : getKey(c, id) BY <1>4
  <2>2. CASE Ends(c) BY <1>3, <2>2
  <2>3. CASE ~Ends(c)
    <3>1. phase' = [phase EXCEPT ![c] = "up"] /\ UNCHANGED <<serves, myState>>
      BY <2>1, <2>3 DEF getKey
    <3>2. phase'[d] = phase[d] \/ phase'[d] = "up" BY <3>1 DEF RegistrationInv
    <3> QED BY <1>0, <3>1, <3>2 DEF Load
  <2> QED BY <2>2, <2>3
<1>5. CASE \E c \in Controllers : controllerDies(c) BY <1>3, <1>5 DEF controllerDies
<1>6. CASE \E c \in Controllers, r \in Rooms : join(r, c)
  <2>1. PICK c \in Controllers, r \in Rooms : join(r, c) BY <1>6
  <2>2. CASE d = c /\ r \notin serves[d]
    <3>1. /\ serves'[d] = serves[d] \cup {r} /\ phase'[d] = "up"
          /\ myState'[d] = Level(Cardinality(serves[d]) + 1)
      BY <2>1, <2>2 DEF join, UpdateMyState, registration, ServiceInv
    <3>2. IsFiniteSet(serves[d] \cup {r})
          /\ Cardinality(serves[d] \cup {r}) = Cardinality(serves[d]) + 1
      BY <1>0, <2>2, FS_AddElement DEF Load
    <3> QED BY <3>1, <3>2 DEF Load
  <2>3. CASE d = c /\ r \in serves[d]
    <3>1. serves'[d] = serves[d] /\ phase' = phase /\ myState' = myState
      BY <2>1, <2>3 DEF join, registration, ServiceInv
    <3> QED BY <1>a, <3>1
  <2>4. CASE d # c
    <3>1. serves'[d] = serves[d] /\ phase' = phase /\ myState'[d] = myState[d]
      BY <2>1, <2>4 DEF join, UpdateMyState, registration, ServiceInv
    <3> QED BY <1>a, <3>1
  <2> QED BY <2>2, <2>3, <2>4
<1>7. CASE \E c \in Controllers, r \in Rooms : leave(r, c)
  <2>1. PICK c \in Controllers, r \in Rooms : leave(r, c) BY <1>7
  <2>2. CASE d = c
    <3>1. /\ serves'[d] = serves[d] \ {r} /\ phase'[d] = phase[d] /\ r \in serves[d]
          /\ myState'[d] = Level(Cardinality(serves[d]) - 1)
      BY <2>1, <2>2 DEF leave, UpdateMyState, registration, ServiceInv
    <3>2. IsFiniteSet(serves[d] \ {r})
          /\ Cardinality(serves[d] \ {r}) = Cardinality(serves[d]) - 1
      BY <1>0, <3>1, FS_RemoveElement DEF Load
    <3>3. phase'[d] = "up" BY <1>0, <3>1 DEF Load
    <3> QED BY <3>1, <3>2, <3>3 DEF Load
  <2>3. CASE d # c
    <3>1. serves'[d] = serves[d] /\ phase' = phase /\ myState'[d] = myState[d]
      BY <2>1, <2>3 DEF leave, UpdateMyState, registration, ServiceInv
    <3> QED BY <1>a, <3>1
  <2> QED BY <2>2, <2>3
<1>8. CASE UNCHANGED <<phase, serves, myState>> BY <1>a, <1>8
<1>9. \/ \E c \in Controllers : start(c) \/ controllerDies(c)
      \/ \E c \in Controllers : \E reply \in replies[c] : registered(c, reply)
      \/ \E c \in Controllers, id \in 1 .. MaxIds : getKey(c, id)
      \/ \E c \in Controllers, r \in Rooms : join(r, c) \/ leave(r, c)
      \/ UNCHANGED <<phase, serves, myState>>
  BY DEF Calm, Next, vars, registration, keepAlive, setInfo, tokenExpires, registerTimeout,
         addNewErizoController, getKeyTimeout, getErizoControllerForRoom, assign, checkKA,
         nuveRestarts
<1> QED BY <1>1, <1>2, <1>4, <1>5, <1>6, <1>7, <1>8, <1>9

\* The ids that reports carry.
Names(q) == {q[i].id : i \in DOMAIN q}

\* The id is one that the controller c has, is given or reports with.
Own(c, id) ==
    \/ \E reply \in replies[c] : reply.id = id
    \/ myId[c] = id
    \/ id \in Names(infos[c])

\* Ids are given once: no two controllers have the same.
Given ==
    /\ \A c \in Controllers : NoId \notin Names(infos[c])
    /\ \A c \in Controllers, id \in 1 .. MaxIds : Own(c, id) => id <= idIndex
    /\ \A c, d \in Controllers, id \in 1 .. MaxIds : Own(c, id) /\ Own(d, id) => c = d

\* Of a controller that has yet to hear of its id nuve has the state it gave it.
Fresh(c) ==
    \A reply \in replies[c] :
          /\ reply.id \notin Names(infos[c])
          /\ reply.id \in Known => erizoControllers[reply.id].state = 2

\* nuve has the state of the controller, or the last report has it.
Informed(c) ==
    myId[c] \in Known =>
      \/ /\ infos[c] # <<>>
         /\ infos[c][Len(infos[c])] = [id |-> myId[c], state |-> myState[c]]
      \/ /\ myId[c] \notin Names(infos[c])
         /\ erizoControllers[myId[c]].state = myState[c]

Sent == Given /\ \A c \in Controllers : Fresh(c) /\ Informed(c)
ReportInv == LivesInv /\ (nuveUp => Sent)

\* What remains of the reports q when the first is taken.
LEMMA TailOfReports ==
    ASSUME NEW q \in Seq(Report), q # <<>>
    PROVE  /\ Names(Tail(q)) \subseteq Names(q)
           /\ Head(q).id \in Names(q)
           /\ Tail(q) # <<>> => Tail(q)[Len(Tail(q))] = q[Len(q)]
           /\ Tail(q) = <<>> => Names(Tail(q)) = {} /\ Head(q) = q[Len(q)]
<1> DEFINE n == Len(q)
<1>1. n \in Nat /\ n # 0 /\ DOMAIN q = 1 .. n /\ Head(q) = q[1] /\ 1 \in 1 .. n OBVIOUS
<1>2. /\ Len(Tail(q)) = n - 1 /\ DOMAIN Tail(q) = 1 .. n - 1
      /\ \A i \in 1 .. n - 1 : Tail(q)[i] = q[i + 1]
  OBVIOUS
<1>2a. Tail(q) = <<>> <=> n = 1
  <2>1. Tail(q) \in Seq(Report) BY <1>1
  <2>2. Tail(q) = <<>> <=> Len(Tail(q)) = 0 BY <2>1, EmptySeq
  <2> QED BY <1>1, <1>2, <2>2
<1> HIDE DEF n
<1>3. \A i \in 1 .. n - 1 : i + 1 \in 1 .. n BY <1>1
<1>4. Names(Tail(q)) \subseteq Names(q) BY <1>1, <1>2, <1>3 DEF Names
<1>5. Head(q).id \in Names(q) BY <1>1 DEF Names
<1>6. Tail(q) # <<>> => Tail(q)[Len(Tail(q))] = q[n]
  <2> SUFFICES ASSUME Tail(q) # <<>> PROVE Tail(q)[n - 1] = q[n] BY <1>2
  <2>1. n - 1 \in 1 .. n - 1 /\ (n - 1) + 1 = n BY <1>1, <1>2a
  <2> QED BY <1>2, <2>1
<1>7. Tail(q) = <<>> => Names(Tail(q)) = {} /\ Head(q) = q[n]
  BY <1>1, <1>2, <1>2a DEF Names
<1> QED BY <1>4, <1>5, <1>6, <1>7 DEF n

\* What one more report adds.
LEMMA AppendedReport ==
    ASSUME NEW q \in Seq(Report), NEW x \in Report
    PROVE  /\ Names(Append(q, x)) = Names(q) \cup {x.id}
           /\ Append(q, x) # <<>> /\ Append(q, x)[Len(Append(q, x))] = x
<1> DEFINE n == Len(q)
           p == Append(q, x)
<1>1. n \in Nat /\ DOMAIN q = 1 .. n OBVIOUS
<1>2. /\ Len(p) = n + 1 /\ DOMAIN p = 1 .. n + 1 /\ p # <<>>
      /\ p[n + 1] = x /\ \A i \in 1 .. n : p[i] = q[i]
  OBVIOUS
<1> HIDE DEF n, p
<1>3. 1 .. n + 1 = 1 .. n \cup {n + 1} BY <1>1
<1>4. Names(p) = Names(q) \cup {x.id} BY <1>1, <1>2, <1>3 DEF Names
<1> QED BY <1>2, <1>4 DEF p

\* A handler that sends and receives nothing, and may forget controllers.
LEMMA QuietKeeps ==
    ASSUME Sent, UNCHANGED <<idIndex, replies, myId, myState, infos>>,
           Known' \subseteq Known,
           \A id \in Known' : erizoControllers'[id].state = erizoControllers[id].state
    PROVE  Sent'
<1>1. Given' BY DEF Sent, Given, Own
<1>2. ASSUME NEW c \in Controllers PROVE Fresh(c)' BY DEF Sent, Fresh
<1>3. ASSUME NEW c \in Controllers PROVE Informed(c)' BY DEF Sent, Informed
<1> QED BY <1>1, <1>2, <1>3 DEF Sent

\* The end of a controller takes its id and what is on the way to it.
LEMMA EndsSent ==
    ASSUME RegistryInv, Sent, NEW c \in Controllers, Ends(c), UNCHANGED <<nuve, infos>>
    PROVE  Sent'
<1> USE DEF RegistryInv
<1>1. UNCHANGED <<erizoControllers, idIndex, infos>> /\ Known' = Known BY DEF nuve, Known
<1>2. \A d \in Controllers :
         \/ d # c /\ replies'[d] = replies[d] /\ myId'[d] = myId[d] /\ myState'[d] = myState[d]
         \/ d = c /\ replies'[d] = {} /\ myId'[d] = NoId
  BY DEF Ends, RegistrationInv, ServiceInv
<1>3. NoId \notin Known BY DEF NuveInv, NoId
<1>4. \A d \in Controllers, id \in 1 .. MaxIds : Own(d, id)' => Own(d, id)
  BY <1>1, <1>2 DEF Own, NoId
<1>5. Given' BY <1>1, <1>4 DEF Sent, Given
<1>6. ASSUME NEW d \in Controllers PROVE Fresh(d)' BY <1>1, <1>2 DEF Sent, Fresh
<1>7. ASSUME NEW d \in Controllers PROVE Informed(d)' BY <1>1, <1>2, <1>3 DEF Sent, Informed
<1> QED BY <1>5, <1>6, <1>7 DEF Sent

\* A new id is above all that were given.
LEMMA AddSent ==
    ASSUME RegistryInv, LivesInv, Sent, NEW c \in Controllers, NEW n \in 1 .. Attempts,
           addNewErizoController(c, n)
    PROVE  Sent'
<1> USE DEF RegistryInv
<1> DEFINE new == idIndex + 1
<1>1. /\ idIndex \in Nat /\ idIndex' = new /\ new \in 1 .. MaxIds /\ new # NoId
      /\ ~(new <= idIndex)
  BY Bounds DEF addNewErizoController, NuveInv, NoId
<1>2. /\ Known' = Known \cup {new}
      /\ \A x \in Known : x # new /\ erizoControllers'[x] = erizoControllers[x]
      /\ erizoControllers'[new].state = 2
  <2>1. \A x \in Known : x # new BY <1>1 DEF NuveInv
  <2> QED BY <2>1 DEF addNewErizoController, With, Known
<1>3. UNCHANGED <<myId, myState, infos>> BY DEF addNewErizoController
<1>4. replies[c] = {}
  BY DEF addNewErizoController, LivesInv, Life
<1>5. \A d \in Controllers :
         \/ replies'[d] = replies[d]
         \/ d = c /\ \E k : replies'[d] = {[id |-> new, attempt |-> k]}
  BY <1>4 DEF addNewErizoController, RegistrationInv
<1> HIDE DEF new
<1>6. \A d \in Controllers : ~Own(d, new)
  BY <1>1 DEF Sent, Given
<1>7. \A d \in Controllers, id \in 1 .. MaxIds :
         Own(d, id)' => Own(d, id) \/ (d = c /\ id = new)
  BY <1>3, <1>5 DEF Own
<1>8. Given'
  <2>1. \A d \in Controllers : (NoId \notin Names(infos[d]))' BY <1>3 DEF Sent, Given
  <2>2. ASSUME NEW d \in Controllers, NEW id \in 1 .. MaxIds, Own(d, id)' PROVE id <= idIndex'
    <3>1. id <= idIndex \/ id = new BY <1>7, <2>2 DEF Sent, Given
    <3>2. idIndex' = idIndex + 1 BY <1>1 DEF new
    <3> QED BY <1>1, <3>1, <3>2
  <2>3. ASSUME NEW d \in Controllers, NEW e \in Controllers, NEW id \in 1 .. MaxIds,
               Own(d, id)', Own(e, id)'
        PROVE  d = e
    BY <1>6, <1>7, <2>3 DEF Sent, Given
  <2> QED BY <2>1, <2>2, <2>3 DEF Given
<1>9. ASSUME NEW d \in Controllers PROVE Fresh(d)'
  <2>1. CASE replies'[d] = replies[d]
    <3>1. \A reply \in replies[d] : reply.id # new
      BY <1>6 DEF Own
    <3> QED BY <1>2, <1>3, <2>1, <3>1 DEF Sent, Fresh
  <2>2. CASE \E k : replies'[d] = {[id |-> new, attempt |-> k]}
    <3>1. new \notin Names(infos[d]) BY <1>6 DEF Own
    <3>2. \A reply \in replies'[d] : reply.id = new BY <2>2
    <3> SUFFICES ASSUME NEW reply \in replies'[d]
                 PROVE  /\ reply.id \notin Names(infos'[d])
                        /\ reply.id \in Known' => erizoControllers'[reply.id].state = 2
      BY DEF Fresh
    <3>4. reply.id = new BY <3>2
    <3>5. new \notin Names(infos'[d]) BY <1>3, <3>1
    <3> QED BY <1>2, <3>4, <3>5
  <2> QED BY <1>5, <2>1, <2>2
<1>10. ASSUME NEW d \in Controllers PROVE Informed(d)'
  <2>1. myId[d] # new BY <1>6 DEF Own
  <2> QED BY <1>2, <1>3, <2>1 DEF Sent, Informed
<1> QED BY <1>8, <1>9, <1>10 DEF Sent

\* A controller takes an id of which nothing was reported.
LEMMA RegisteredSent ==
    ASSUME RegistryInv, LivesInv, Sent, NEW c \in Controllers, NEW reply \in replies[c],
           registered(c, reply)
    PROVE  Sent'
<1> USE DEF RegistryInv
<1>1. UNCHANGED <<erizoControllers, idIndex, infos>> /\ Known' = Known
  BY DEF registered, nuve, Known
<1>2. replies[c] = {reply} BY DEF LivesInv, Life
<1>3. \A d \in Controllers :
         \/ d # c /\ replies'[d] = replies[d] /\ myId'[d] = myId[d] /\ myState'[d] = myState[d]
         \/ d = c /\ replies'[d] = {} /\ myId'[d] = reply.id /\ myState'[d] = 2
  BY <1>2 DEF registered, RegistrationInv, ServiceInv
<1>4. \A d \in Controllers, id \in 1 .. MaxIds : Own(d, id)' => Own(d, id)
  BY <1>1, <1>2, <1>3 DEF Own
<1>5. Given' BY <1>1, <1>4 DEF Sent, Given
<1>6. ASSUME NEW d \in Controllers PROVE Fresh(d)' BY <1>1, <1>3 DEF Sent, Fresh
<1>7. ASSUME NEW d \in Controllers PROVE Informed(d)'
  <2>1. Fresh(d) /\ Informed(d) BY DEF Sent
  <2>2. CASE d = c BY <1>1, <1>2, <1>3, <2>1, <2>2 DEF Fresh, Informed
  <2>3. CASE d # c BY <1>1, <1>3, <2>1, <2>3 DEF Informed
  <2> QED BY <2>2, <2>3
<1> QED BY <1>5, <1>6, <1>7 DEF Sent

\* A report has the id and the state of its controller.
LEMMA ReportSent ==
    ASSUME RegistryInv, LivesInv, Sent, NEW c \in Controllers, NEW n, phase[c] = "up",
           UpdateMyState(c, n), UNCHANGED <<nuve, registration>>
    PROVE  Sent'
<1> USE DEF RegistryInv
<1>1. UNCHANGED <<erizoControllers, idIndex, replies, myId>> /\ Known' = Known
  BY DEF nuve, registration, Known
<1>2. replies[c] = {} /\ myId[c] # NoId BY DEF LivesInv, Life
<1> DEFINE report == [id |-> myId[c], state |-> Level(n)]
<1>3. report \in Report BY DEF Level, Report, RegistrationInv
<1>4. CASE Level(n) = myState[c]
  <2>1. infos' = infos /\ myState' = myState BY <1>4 DEF UpdateMyState, ServiceInv
  <2> QED BY <1>1, <2>1, QuietKeeps
<1>5. CASE Level(n) # myState[c]
  <2>1. infos[c] \in Seq(Report) BY DEF ServiceInv
  <2>2. \A d \in Controllers :
           \/ d # c /\ infos'[d] = infos[d] /\ myState'[d] = myState[d]
           \/ d = c /\ infos'[d] = Append(infos[d], report) /\ myState'[d] = report.state
    BY <1>5 DEF UpdateMyState, ServiceInv
  <2>3. report.id = myId[c] /\ report = [id |-> myId[c], state |-> report.state] OBVIOUS
  <2> HIDE DEF report
  <2>4. /\ Names(infos'[c]) = Names(infos[c]) \cup {myId[c]}
        /\ infos'[c] # <<>> /\ infos'[c][Len(infos'[c])] = report
    <3>1. /\ Names(Append(infos[c], report)) = Names(infos[c]) \cup {report.id}
          /\ Append(infos[c], report) # <<>>
          /\ Append(infos[c], report)[Len(Append(infos[c], report))] = report
      BY <1>3, <2>1, AppendedReport
    <3> QED BY <2>2, <2>3, <3>1
  <2>5. \A d \in Controllers, id \in 1 .. MaxIds : Own(d, id)' => Own(d, id)
    BY <1>1, <2>2, <2>4 DEF Own
  <2>6. \A d \in Controllers : NoId \notin Names(infos'[d])
    BY <1>2, <2>2, <2>4 DEF Sent, Given
  <2>7. Given' BY <1>1, <2>5, <2>6 DEF Sent, Given
  <2>8. ASSUME NEW d \in Controllers PROVE Fresh(d)'
    BY <1>1, <1>2, <2>2 DEF Sent, Fresh
  <2>9. ASSUME NEW d \in Controllers PROVE Informed(d)'
    <3>1. CASE d = c BY <1>1, <2>2, <2>3, <2>4, <3>1 DEF Informed
    <3>2. CASE d # c BY <1>1, <2>2, <3>2 DEF Sent, Informed
    <3> QED BY <3>1, <3>2
  <2> QED BY <2>7, <2>8, <2>9 DEF Sent
<1> QED BY <1>4, <1>5

\* A report that nuve takes is the oldest of its controller and of no other.
LEMMA SetInfoSent ==
    ASSUME RegistryInv, LivesInv, Sent, NEW c \in Controllers, setInfo(c), nuveUp'
    PROVE  Sent'
<1> USE DEF RegistryInv
<1> DEFINE q == infos[c]
           info == Head(infos[c])
<1>1. q \in Seq(Report) /\ q # <<>> /\ info \in Report BY DEF setInfo, ServiceInv
<1>2. info.id \in Known BY DEF setInfo, NuveForgets
<1>3. /\ erizoControllers' = [erizoControllers EXCEPT ![info.id].state = info.state]
      /\ UNCHANGED <<idIndex, replies, myId, myState>>
      /\ infos' = [infos EXCEPT ![c] = Tail(q)]
  BY <1>2 DEF setInfo, registration
<1>4. /\ Names(Tail(q)) \subseteq Names(q) /\ info.id \in Names(q)
      /\ Tail(q) # <<>> => Tail(q)[Len(Tail(q))] = q[Len(q)]
      /\ Tail(q) = <<>> => Names(Tail(q)) = {} /\ info = q[Len(q)]
  BY <1>1, TailOfReports
<1>5. \A d \in Controllers : \/ d # c /\ infos'[d] = infos[d]
                             \/ d = c /\ infos'[d] = Tail(q)
  BY <1>3 DEF ServiceInv
<1> HIDE DEF info
<1>6. /\ Known' = Known
      /\ \A x \in Known : x # info.id => erizoControllers'[x] = erizoControllers[x]
      /\ erizoControllers'[info.id].state = info.state
  <2>1. DOMAIN erizoControllers' = DOMAIN erizoControllers BY <1>3
  <2>2. \A x \in Known : erizoControllers'[x] =
           IF x = info.id THEN [erizoControllers[x] EXCEPT !.state = info.state]
           ELSE erizoControllers[x]
    BY <1>3 DEF Known
  <2>3. erizoControllers[info.id] \in Registered BY <1>2 DEF NuveInv
  <2>4. erizoControllers'[info.id].state = info.state BY <1>2, <2>2, <2>3 DEF Registered
  <2>5. \A x \in Known : x # info.id => erizoControllers'[x] = erizoControllers[x] BY <2>2
  <2>6. Known' = Known BY <2>1 DEF Known
  <2> QED BY <2>4, <2>5, <2>6
<1>7. info.id \in 1 .. MaxIds
  <2>1. \A id \in Known : id \in 1 .. MaxIds BY Bounds DEF NuveInv
  <2> QED BY <1>2, <2>1
<1>8. Own(c, info.id) BY <1>4 DEF Own
<1>9. \A d \in Controllers, id \in 1 .. MaxIds : Own(d, id)' => Own(d, id)
  BY <1>3, <1>4, <1>5 DEF Own
<1>10. \A d \in Controllers : NoId \notin Names(infos'[d])
  BY <1>4, <1>5 DEF Sent, Given
<1>11. Given' BY <1>3, <1>9, <1>10 DEF Sent, Given
<1>12. ASSUME NEW d \in Controllers PROVE Fresh(d)'
  <2> SUFFICES ASSUME NEW reply \in replies[d]
               PROVE  /\ reply.id \notin Names(infos'[d])
                      /\ reply.id \in Known' => erizoControllers'[reply.id].state = 2
    BY <1>3 DEF Fresh
  <2>1. /\ reply.id \notin Names(infos[d])
        /\ reply.id \in Known => erizoControllers[reply.id].state = 2
    BY DEF Sent, Fresh
  <2>2. Own(d, reply.id) BY DEF Own
  <2>3. reply.id # info.id
    <3>1. CASE d = c BY <1>4, <2>1, <3>1
    <3>2. CASE d # c BY <1>7, <1>8, <2>2, <3>2 DEF Sent, Given
    <3> QED BY <3>1, <3>2
  <2> QED BY <1>4, <1>5, <1>6, <2>1, <2>3
<1>13. ASSUME NEW d \in Controllers PROVE Informed(d)'
  <2>0. Informed(d) BY DEF Sent
  <2>1. CASE d # c
    <3>1. myId[d] # info.id
      <4>1. Own(d, myId[d]) BY DEF Own
      <4> QED BY <1>7, <1>8, <2>1, <4>1 DEF Sent, Given
    <3> QED BY <1>3, <1>5, <1>6, <2>0, <2>1, <3>1 DEF Informed
  <2>2. CASE d = c
    <3>1. CASE myId[c] \notin Known BY <1>3, <1>6, <2>2, <3>1 DEF Informed
    <3>2. CASE myId[c] \in Known /\ q[Len(q)] = [id |-> myId[c], state |-> myState[c]]
      <4>1. CASE Tail(q) # <<>> BY <1>3, <1>4, <1>5, <2>2, <3>2, <4>1 DEF Informed
      <4>2. CASE Tail(q) = <<>>
        <5>1. Names(infos'[c]) = {} /\ info = [id |-> myId[c], state |-> myState[c]]
          BY <1>4, <1>5, <3>2, <4>2
        <5> QED BY <1>3, <1>6, <2>2, <5>1 DEF Informed
      <4> QED BY <4>1, <4>2
    <3>3. CASE /\ myId[c] \in Known /\ myId[c] \notin Names(q)
               /\ erizoControllers[myId[c]].state = myState[c]
      <4>1. myId[c] # info.id /\ myId[c] \notin Names(infos'[c]) BY <1>4, <1>5, <3>3
      <4> QED BY <1>3, <1>6, <2>2, <3>3, <4>1 DEF Informed
    <3> QED BY <2>0, <2>2, <3>1, <3>2, <3>3 DEF Informed
  <2> QED BY <2>1, <2>2
<1> QED BY <1>11, <1>12, <1>13 DEF Sent

\* At the start nothing is reported.
LEMMA InitReport == Calm /\ Init => ReportInv
<1> SUFFICES ASSUME Calm, Init PROVE ReportInv OBVIOUS
<1>1. LivesInv BY NoRoomsLevel DEF Init, LivesInv, Life, Load
<1>2. Given
  BY DEF Init, Given, Names, Own, NoId
<1>3. ASSUME NEW c \in Controllers PROVE Fresh(c) /\ Informed(c)
  BY DEF Init, Fresh, Informed, Known
<1> QED BY <1>1, <1>2, <1>3 DEF ReportInv, Sent

\* Every handler sends and takes reports in their order.
LEMMA ReportStep == Calm /\ RegistryInv /\ ReportInv /\ [Next]_vars => ReportInv'
<1> SUFFICES ASSUME Calm, RegistryInv, ReportInv, [Next]_vars PROVE ReportInv' OBVIOUS
<1>1. LivesInv' BY LifeStep, LoadStep DEF LivesInv, ReportInv
<1> SUFFICES ASSUME nuveUp' PROVE Sent' BY <1>1 DEF ReportInv
<1>2. nuveUp
  BY DEF Calm, Next, vars, nuve, start, registerTimeout, getKeyTimeout, addNewErizoController,
         registered, getKey, keepAlive, setInfo, NuveForgets, controllerDies, join, leave,
         tokenExpires, getErizoControllerForRoom, assign, checkKA, nuveRestarts
<1>3. LivesInv /\ Sent BY <1>2 DEF ReportInv
<1>4. CASE \E c \in Controllers, n \in 1 .. Attempts : addNewErizoController(c, n)
  BY <1>3, <1>4, AddSent
<1>5. CASE \E c \in Controllers : \E reply \in replies[c] : registered(c, reply)
  BY <1>3, <1>5, RegisteredSent
<1>6. CASE \E c \in Controllers, id \in 1 .. MaxIds : getKey(c, id)
  <2>1. PICK c \in Controllers, id \in 1 .. MaxIds : getKey(c, id) BY <1>6
  <2>2. CASE Ends(c) BY <1>3, <2>1, <2>2, EndsSent DEF getKey
  <2>3. CASE ~Ends(c)
    <3>1. UNCHANGED <<idIndex, replies, myId, myState, infos, erizoControllers>>
      BY <2>1, <2>3 DEF getKey, nuve
    <3> QED BY <1>3, <3>1, QuietKeeps DEF Known
  <2> QED BY <2>2, <2>3
<1>7. CASE \E c \in Controllers : controllerDies(c) BY <1>3, <1>7, EndsSent DEF controllerDies
<1>8. CASE \E c \in Controllers, r \in Rooms : join(r, c)
  <2>1. PICK c \in Controllers, r \in Rooms : join(r, c) BY <1>8
  <2>2. CASE UpdateMyState(c, Cardinality(serves[c]) + 1)
    BY <1>3, <2>1, <2>2, ReportSent DEF join
  <2>3. CASE UNCHANGED <<myState, infos>>
    <3>1. UNCHANGED <<idIndex, replies, myId, erizoControllers>>
      BY <2>1 DEF join, nuve, registration
    <3> QED BY <1>3, <2>3, <3>1, QuietKeeps DEF Known
  <2> QED BY <2>1, <2>2, <2>3 DEF join
<1>9. CASE \E c \in Controllers, r \in Rooms : leave(r, c)
  <2>1. PICK c \in Controllers, r \in Rooms : leave(r, c) BY <1>9
  <2>2. phase[c] = "up" BY <1>3, <2>1 DEF leave, LivesInv, Load
  <2> QED BY <1>3, <2>1, <2>2, ReportSent DEF leave
<1>10. CASE \E c \in Controllers : setInfo(c) BY <1>3, <1>10, SetInfoSent
<1>11. CASE \E c \in Controllers : keepAlive(c)
  <2>1. PICK c \in Controllers : keepAlive(c) BY <1>11
  <2>2. UNCHANGED <<idIndex, replies, myId, myState, infos>>
    BY <2>1 DEF keepAlive, registration
  <2>3. Known' = Known
        /\ \A id \in Known : erizoControllers'[id].state = erizoControllers[id].state
    BY <2>1 DEF keepAlive, Known, RegistryInv, NuveInv, Registered
  <2> QED BY <1>3, <2>2, <2>3, QuietKeeps
<1>12. CASE checkKA
  <2> DEFINE missed == OneMoreMiss(erizoControllers)
             dead == Overdue(missed)
  <2>1. UNCHANGED <<idIndex, replies, myId, myState, infos>>
        /\ erizoControllers' = Restrict(missed, Known \ dead)
    BY <1>12 DEF checkKA, registration
  <2>2. DOMAIN missed = Known
        /\ \A id \in Known : missed[id] = [erizoControllers[id] EXCEPT !.keepAlive = @ + 1]
    BY DEF OneMoreMiss, Known
  <2> HIDE DEF missed, dead
  <2>3. Known' = Known \ dead /\ \A id \in Known' : erizoControllers'[id] = missed[id]
    BY <2>1, <2>2 DEF Restrict, Known
  <2>4. \A id \in Known' : erizoControllers'[id].state = erizoControllers[id].state
    BY <2>2, <2>3 DEF RegistryInv, NuveInv, Registered
  <2> QED BY <1>3, <2>1, <2>3, <2>4, QuietKeeps
<1>13. CASE UNCHANGED <<idIndex, replies, myId, myState, infos, erizoControllers>>
  BY <1>3, <1>13, QuietKeeps DEF Known
<1>14. \/ \E c \in Controllers, n \in 1 .. Attempts : addNewErizoController(c, n)
       \/ \E c \in Controllers : \E reply \in replies[c] : registered(c, reply)
       \/ \E c \in Controllers, id \in 1 .. MaxIds : getKey(c, id)
       \/ \E c \in Controllers : controllerDies(c) \/ setInfo(c) \/ keepAlive(c)
       \/ \E c \in Controllers, r \in Rooms : join(r, c) \/ leave(r, c)
       \/ checkKA
       \/ UNCHANGED <<idIndex, replies, myId, myState, infos, erizoControllers>>
  BY DEF Calm, Next, vars, nuve, registration, start, registerTimeout, getKeyTimeout,
         tokenExpires, getErizoControllerForRoom, assign, nuveRestarts
<1> QED BY <1>4, <1>5, <1>6, <1>7, <1>8, <1>9, <1>10, <1>11, <1>12, <1>13, <1>14

\* When calls are answered in time and nuve runs on, controllers may start, stall
\* and die: once the reports of a controller have arrived, nuve has the state that
\* the number of its rooms calls for (updateMyState, which only reports changes).
THEOREM ReportsConverge ==
    ASSUME Calm
    PROVE  Spec => []StateIsReported
<1>1. Init => ReportInv BY InitReport
<1>2. RegistryInv /\ ReportInv /\ [Next]_vars => ReportInv' BY ReportStep
<1>3. ReportInv => StateIsReported
  <2> SUFFICES ASSUME ReportInv, NEW c \in Controllers,
                      nuveUp, infos[c] = <<>>, myId[c] \in Known
               PROVE  erizoControllers[myId[c]].state = Level(Cardinality(serves[c]))
    BY DEF StateIsReported
  <2>1. Informed(c) /\ Load(c) BY DEF ReportInv, LivesInv, Sent
  <2> QED BY <2>1 DEF Informed, Load
<1> QED BY <1>1, <1>2, <1>3, RegistryInvariant, PTL DEF Spec
=============================================================================
