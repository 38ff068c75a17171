-------------------------- MODULE MediaPathProofs --------------------------
(***************************************************************************)
(* Proofs about the media of a connection: the path of packets to the      *)
(* subscribers (MediaPath), for every set of subscribers, every bound of   *)
(* the queues and every number of packets, and the descriptions that set   *)
(* it up (SdpInfo), for every offer.                                       *)
(*                                                                         *)
(* That no packet is given to a connection that Node destroys rests on the *)
(* monitor: who holds it is known from where the two threads are, and what *)
(* the reading thread has yet to copy a packet to is a part of the map     *)
(* that Node cannot shrink meanwhile.                                      *)
(*                                                                         *)
(* That a description is understood rests on what each of its fields holds *)
(* when only some of the lines were read, in any order: Reads.             *)
(***************************************************************************)
EXTENDS MediaPath, SdpInfo, SequenceTheorems, TLAPS

Steps == {"stop", "notify", "joinSender", "joinReader", "destroyed"}

\* The shapes of the records, and the maps of connections and of subscribers.
Connected ==
    /\ DOMAIN otm = {"monitor", "subscribers", "publisher", "feedbackSink_"}
    /\ DOMAIN node = {"op", "step", "target"}
    /\ DOMAIN reader = Exists
    /\ \A c \in Exists : DOMAIN reader[c] = {"pc", "todo", "closing"}
    /\ Exists \subseteq Connections
    /\ otm.subscribers \subseteq Subscribers \cap Exists
    /\ "publisher" \in Exists => otm.publisher # "unset"

\* Node destroys a subscriber only with the monitor in its hands, and has taken
\* it out of the map before.
NodeHoldsMonitor ==
    /\ node.op \in {"none", "removeSubscriber", "closeAll"}
    /\ node.op = "none" => node.target = "" /\ otm.monitor # "node"
    /\ node.op # "none" => node.step \in Steps
    /\ node.op = "removeSubscriber" => node.target \in Subscribers
    /\ node.op = "closeAll" => node.target \in Connections
    /\ node.target \in Subscribers =>
          otm.monitor = "node" /\ node.target \notin otm.subscribers

\* The reading thread of the publisher copies a packet exactly while it holds the
\* monitor, to subscribers that are in the map.
ReaderHoldsMonitor ==
    /\ otm.monitor \in {"free", "node", "reader"}
    /\ PublisherIs("delivering") <=> otm.monitor = "reader"
    /\ PublisherIs("delivering") => reader["publisher"].todo \subseteq otm.subscribers

PathInv == Connected /\ NodeHoldsMonitor /\ ReaderHoldsMonitor

-----------------------------------------------------------------------------
LEMMA InitPath == Init => PathInv
<1> SUFFICES ASSUME Init PROVE PathInv
  OBVIOUS
<1>1. Exists = {} /\ DOMAIN reader = {}
  BY DEF Init, Exists
<1>2. Connected
  BY <1>1 DEF Init, Idle, Connected
<1>3. NodeHoldsMonitor
  BY MediaAssumption DEF Init, Idle, NodeHoldsMonitor
<1>4. ReaderHoldsMonitor
  BY <1>1 DEF Init, ReaderHoldsMonitor, PublisherIs
<1>5. QED
  BY <1>2, <1>3, <1>4 DEF PathInv

\* Nothing of it depends on what the sending threads do.
LEMMA LoopsKeep ==
    ASSUME PathInv, UNCHANGED <<otm, node, reader>>, DOMAIN loop' = DOMAIN loop
    PROVE  PathInv'
BY DEF PathInv, Connected, NodeHoldsMonitor, ReaderHoldsMonitor, PublisherIs, Exists

LEMMA SetPublisherKeeps ==
    ASSUME PathInv, SetPublisher
    PROVE  PathInv'
BY MediaAssumption DEF SetPublisher, Returned, Create, With, PathInv, Connected,
   NodeHoldsMonitor, ReaderHoldsMonitor, PublisherIs, Exists, Connections

LEMMA CloseAllKeeps ==
    ASSUME PathInv, CloseAll
    PROVE  PathInv'
BY MediaAssumption DEF CloseAll, Returned, PathInv, Connected, Steps,
   NodeHoldsMonitor, ReaderHoldsMonitor, PublisherIs, Exists, Connections

LEMMA AddSubscriberKeeps ==
    ASSUME PathInv, NEW s \in Subscribers, AddSubscriber(s)
    PROVE  PathInv'
BY MediaAssumption DEF AddSubscriber, Returned, Create, With, PathInv, Connected,
   NodeHoldsMonitor, ReaderHoldsMonitor, PublisherIs, Exists, Connections

LEMMA RemoveSubscriberKeeps ==
    ASSUME PathInv, NEW s \in Subscribers, RemoveSubscriber(s)
    PROVE  PathInv'
BY MediaAssumption DEF RemoveSubscriber, MonitorTaken, Returned, PathInv, Connected, Steps,
   NodeHoldsMonitor, ReaderHoldsMonitor, PublisherIs, Exists, Connections

\* The destructor: its steps up to the first join, the joins, and the next target.
LEMMA DestructorKeeps ==
    ASSUME PathInv, StopSending \/ NotifySender
    PROVE  PathInv'
BY MediaAssumption DEF StopSending, NotifySender, At, Then, Target, PathInv, Connected, Steps,
   NodeHoldsMonitor, ReaderHoldsMonitor, PublisherIs, Exists

LEMMA JoinSenderKeeps ==
    ASSUME PathInv, JoinSender
    PROVE  PathInv'
<1>1. /\ otm' = otm /\ loop' = loop
      /\ node' = [node EXCEPT !.step = "joinReader"]
      /\ reader' = [reader EXCEPT ![node.target].closing = TRUE]
  BY DEF JoinSender, Then, Target
<1>2. Connected'
  BY <1>1 DEF PathInv, Connected, Exists
<1>3. NodeHoldsMonitor'
  BY <1>1 DEF JoinSender, At, PathInv, Connected, NodeHoldsMonitor, Steps
<1>4. \A c \in Exists : reader'[c].pc = reader[c].pc /\ reader'[c].todo = reader[c].todo
  BY <1>1 DEF PathInv, Connected, Exists
<1>5. ReaderHoldsMonitor'
  BY <1>1, <1>4 DEF PathInv, ReaderHoldsMonitor, PublisherIs, Exists
<1>6. QED
  BY <1>2, <1>3, <1>5 DEF PathInv

LEMMA JoinReaderKeeps ==
    ASSUME PathInv, JoinReader
    PROVE  PathInv'
BY MediaAssumption DEF JoinReader, At, Then, Target, Without, PathInv, Connected, Steps,
   NodeHoldsMonitor, ReaderHoldsMonitor, PublisherIs, Exists, Connections

LEMMA DestroyedKeeps ==
    ASSUME PathInv, Destroyed
    PROVE  PathInv'
<1> Exists' = Exists /\ reader' = reader
  BY DEF Destroyed, Exists
<1>1. CASE /\ node' = Idle
           /\ node.op = "closeAll" => otm.monitor = "node" \/ otm.monitor = "free"
           /\ otm' = [otm EXCEPT !.monitor = "free", !.publisher =
                          IF node.op = "closeAll" THEN "null" ELSE @]
  <2>1. Connected'
    BY <1>1 DEF PathInv, Connected, Idle
  <2>2. NodeHoldsMonitor'
    BY <1>1, MediaAssumption DEF PathInv, Connected, NodeHoldsMonitor, Idle
  <2>3. ReaderHoldsMonitor'
    BY <1>1 DEF Destroyed, At, PathInv, Connected, NodeHoldsMonitor, ReaderHoldsMonitor,
       PublisherIs
  <2>4. QED
    BY <2>1, <2>2, <2>3 DEF PathInv
<1>2. ASSUME NEW s \in otm.subscribers, node.op = "closeAll",
             otm.monitor = "node" \/ otm.monitor = "free",
             node' = [node EXCEPT !.step = "stop", !.target = s],
             otm' = [otm EXCEPT !.monitor = "node", !.subscribers = @ \ {s}]
      PROVE  PathInv'
  <2>1. Connected'
    BY <1>2 DEF PathInv, Connected
  <2>2. NodeHoldsMonitor'
    BY <1>2 DEF PathInv, Connected, NodeHoldsMonitor, Steps, Connections
  <2>3. ReaderHoldsMonitor'
    BY <1>2 DEF PathInv, Connected, NodeHoldsMonitor, ReaderHoldsMonitor, PublisherIs
  <2>4. QED
    BY <2>1, <2>2, <2>3 DEF PathInv
<1>3. QED
  BY <1>1, <1>2 DEF Destroyed, MonitorTaken

\* The reading thread of the publisher.
LEMMA PacketKeeps ==
    ASSUME PathInv, Packet
    PROVE  PathInv'
BY DEF Packet, PathInv, Connected, NodeHoldsMonitor, ReaderHoldsMonitor, PublisherIs, Exists

LEMMA LockToDeliverKeeps ==
    ASSUME PathInv, LockToDeliver
    PROVE  PathInv'
BY DEF LockToDeliver, PathInv, Connected, NodeHoldsMonitor, ReaderHoldsMonitor,
   PublisherIs, Exists

LEMMA DeliverKeeps ==
    ASSUME PathInv, NEW s \in Subscribers \cap Exists, Deliver(s)
    PROVE  PathInv'
BY DEF Deliver, PathInv, Connected, NodeHoldsMonitor, ReaderHoldsMonitor, PublisherIs, Exists

LEMMA DeliveredKeeps ==
    ASSUME PathInv, Delivered
    PROVE  PathInv'
BY DEF Delivered, PathInv, Connected, NodeHoldsMonitor, ReaderHoldsMonitor, PublisherIs, Exists

\* The reading threads of subscribers, and the end of any of them.
LEMMA FeedbackKeeps ==
    ASSUME PathInv, NEW s \in Subscribers \cap Exists, FeedbackBegins(s) \/ FeedbackEnds(s)
    PROVE  PathInv'
BY MediaAssumption DEF FeedbackBegins, FeedbackEnds, PathInv, Connected,
   NodeHoldsMonitor, ReaderHoldsMonitor, PublisherIs, Exists

LEMMA ReaderEndsKeeps ==
    ASSUME PathInv, NEW c \in Exists, ReaderEnds(c)
    PROVE  PathInv'
BY DEF ReaderEnds, PathInv, Connected, NodeHoldsMonitor, ReaderHoldsMonitor,
   PublisherIs, Exists

LEMMA NextPath == PathInv /\ [Next]_vars => PathInv'
<1> SUFFICES ASSUME PathInv, [Next]_vars PROVE PathInv' OBVIOUS
<1>1. CASE SetPublisher \/ CloseAll BY <1>1, SetPublisherKeeps, CloseAllKeeps
<1>2. CASE \E s \in Subscribers : AddSubscriber(s) \/ RemoveSubscriber(s)
  BY <1>2, AddSubscriberKeeps, RemoveSubscriberKeeps
<1>3. CASE NodeThread
  BY <1>3, DestructorKeeps, JoinSenderKeeps, JoinReaderKeeps, DestroyedKeeps DEF NodeThread
<1>4. CASE Packet \/ ReadingThread
  BY <1>4, PacketKeeps, LockToDeliverKeeps, DeliverKeeps, DeliveredKeeps DEF ReadingThread
<1>5. CASE \E s \in Subscribers \cap Exists : FeedbackBegins(s) \/ FeedbackEnds(s)
  BY <1>5, FeedbackKeeps
<1>6. CASE \E c \in Exists : SendThread(c) \/ ConnectionFails(c)
  <2>1. UNCHANGED <<otm, node, reader>> /\ DOMAIN loop' = DOMAIN loop
    BY <1>6 DEF SendThread, ConnectionFails
  <2> QED BY <2>1, LoopsKeep
<1>7. CASE \E c \in Exists : ReaderEnds(c) BY <1>7, ReaderEndsKeeps
<1>8. CASE UNCHANGED vars
  <2>1. UNCHANGED <<otm, node, reader>> /\ DOMAIN loop' = DOMAIN loop BY <1>8 DEF vars
  <2> QED BY <2>1, LoopsKeep
<1> QED BY <1>1, <1>2, <1>3, <1>4, <1>5, <1>6, <1>7, <1>8 DEF Next

\* Who holds the monitor is known from where Node and the reading thread are.
THEOREM PathInvariant == Spec => []PathInv
BY InitPath, NextPath, PTL DEF Spec

\* However deliveries, removals and the end of the room interleave, the reading
\* thread never has a packet left for a connection that Node destroys or has
\* destroyed: removeSubscriber and closeAll hold the monitor for as long.
THEOREM CopiesGoToTheLiving == Spec => []NoDeliveryToDestroyed
<1>1. PathInv => NoDeliveryToDestroyed
  BY DEF PathInv, Connected, NodeHoldsMonitor, ReaderHoldsMonitor, NoDeliveryToDestroyed
<1> QED BY <1>1, PathInvariant, PTL

-----------------------------------------------------------------------------
(***************************************************************************)
(* That every subscriber gets the packets of the publisher in their order  *)
(* and without a gap.                                                      *)
(*                                                                         *)
(* It needs to be known which packet a subscriber had last: that of the    *)
(* publisher, or the one before while the reading thread has yet to copy   *)
(* that.  And a subscriber is in the map for as long as packets are        *)
(* copied, so that none passes it by.                                      *)
(***************************************************************************)
Numbers == 1 .. MaxPackets
Loops == [sending : BOOLEAN, queue : Seq(Numbers), pc : SendPCs, hand : 0 .. MaxPackets]

TypedLoop(l) ==
    l \in Loops /\ Len(l.queue) <= SendQueueBound /\ (l.pc = "writing" <=> l.hand # 0)

LoopInv(c) ==
    /\ TypedLoop(loop[c]) /\ written[c] \in Seq(Numbers)
    /\ reader[c].pc \in {"idle", "locking", "delivering", "feedback", "ended"}

Typed ==
    /\ sent \in 0 .. MaxPackets
    /\ DOMAIN written = Exists /\ DOMAIN missed = {"drops", "wakeups"}
    /\ \A c \in Exists : LoopInv(c)

\* A subscriber that exists is in the map, or Node is about to destroy it.
ListedOrLeaving ==
    /\ \A s \in Subscribers \cap Exists : s \in otm.subscribers \/ node.target = s
    /\ At("destroyed") => node.target \notin Exists

\* The reading thread has yet to copy the last packet to s.
Due(s) ==
    \/ PublisherIs("locking")
    \/ PublisherIs("delivering") /\ s \in reader["publisher"].todo

Continuous(st, dropped) ==
    \A i \in 1 .. Len(st) - 1 : IF dropped THEN st[i] < st[i + 1] ELSE st[i] + 1 = st[i + 1]

\* The next packet for s continues its stream.
Reached(st, dropped, last) ==
    st # <<>> => IF dropped THEN st[Len(st)] <= last ELSE st[Len(st)] = last

StreamInv(s) ==
    /\ Continuous(Stream(s), s \in missed.drops)
    /\ loop[s].sending =>
           Reached(Stream(s), s \in missed.drops, IF Due(s) THEN sent - 1 ELSE sent)

Streams == \A s \in Subscribers \cap Exists : StreamInv(s)

DeliveryInv == PathInv /\ Typed /\ ListedOrLeaving /\ Streams
-----------------------------------------------------------------------------
LEMMA BoundIsNat == MaxPackets \in Nat
BY MediaAssumption

LEMMA NumbersArePositive == \A p \in Numbers : p \in Nat /\ p > 0 /\ p # 0 /\ p \in 0 .. MaxPackets
BY BoundIsNat DEF Numbers

LEMMA HandIsNumber == \A h \in 0 .. MaxPackets : h = 0 \/ h \in Numbers
BY BoundIsNat DEF Numbers

(* Sequences. *)

\* A stream goes on with the next packet.
LEMMA AppendContinues ==
    ASSUME NEW st \in Seq(Numbers), NEW dropped \in BOOLEAN, NEW p \in Numbers,
           Continuous(st, dropped), Reached(st, dropped, p - 1)
    PROVE  Continuous(Append(st, p), dropped) /\ Reached(Append(st, p), dropped, p)
<1>1. /\ Append(st, p) \in Seq(Numbers) /\ Len(Append(st, p)) = Len(st) + 1
      /\ \A i \in 1 .. Len(st) : Append(st, p)[i] = st[i]
      /\ Append(st, p)[Len(st) + 1] = p
  BY AppendProperties
<1>2. Len(st) \in Nat /\ (st # <<>> => Len(st) > 0) /\ \A i \in 1 .. Len(st) : st[i] \in Nat
  BY EmptySeq, ElementOfSeq, LenProperties, NumbersArePositive
<1>3. p \in Nat
  BY NumbersArePositive
<1>4. Reached(Append(st, p), dropped, p)
  BY <1>1, <1>3 DEF Reached
<1>5. ASSUME NEW i \in 1 .. Len(Append(st, p)) - 1
      PROVE  IF dropped THEN Append(st, p)[i] < Append(st, p)[i + 1]
             ELSE Append(st, p)[i] + 1 = Append(st, p)[i + 1]
  <2>1. CASE i < Len(st)
    <3>1. /\ i \in 1 .. Len(st) - 1 /\ i \in 1 .. Len(st) /\ i + 1 \in 1 .. Len(st)
      BY <1>1, <1>2, <2>1
    <3>2. Append(st, p)[i] = st[i] /\ Append(st, p)[i + 1] = st[i + 1]
      BY <1>1, <3>1
    <3>3. QED
      BY <3>1, <3>2 DEF Continuous
  <2>2. CASE i = Len(st)
    <3>1. st # <<>> /\ Append(st, p)[i] = st[Len(st)] /\ Append(st, p)[i + 1] = p
          /\ st[Len(st)] \in Nat
      BY <1>1, <1>2, <2>2, EmptySeq
    <3>2. QED
      BY <1>3, <3>1 DEF Reached
  <2>3. QED
    BY <1>1, <1>2, <2>1, <2>2
<1>6. QED
  BY <1>4, <1>5 DEF Continuous

\* A packet that is dropped leaves a gap and nothing worse.
LEMMA DropLoosens ==
    ASSUME NEW st \in Seq(Numbers), NEW dropped \in BOOLEAN, NEW p \in Numbers,
           Continuous(st, dropped), Reached(st, dropped, p - 1)
    PROVE  Continuous(st, TRUE) /\ Reached(st, TRUE, p)
<1>1. \A i \in 1 .. Len(st) : st[i] \in Nat
  BY ElementOfSeq, NumbersArePositive
<1>2. Len(st) \in Nat /\ (st # <<>> => Len(st) > 0) /\ p \in Nat
  BY EmptySeq, LenProperties, NumbersArePositive
<1>3. QED
  BY <1>1, <1>2 DEF Continuous, Reached

StreamOf(w, h, q) == w \o (IF h = 0 THEN <<>> ELSE <<h>>) \o q

LEMMA StreamOfSeq ==
    ASSUME NEW w \in Seq(Numbers), NEW q \in Seq(Numbers), NEW h \in 0 .. MaxPackets
    PROVE  StreamOf(w, h, q) \in Seq(Numbers)
<1>1. (IF h = 0 THEN <<>> ELSE <<h>>) \in Seq(Numbers)
  BY EmptySeq, HandIsNumber
<1>2. QED
  BY <1>1, ConcatProperties DEF StreamOf

\* The packet in front of the queue is taken,
LEMMA TakeKeepsStream ==
    ASSUME NEW w \in Seq(Numbers), NEW q \in Seq(Numbers), q # <<>>
    PROVE  Head(q) \in Numbers /\ Tail(q) \in Seq(Numbers)
           /\ StreamOf(w, Head(q), Tail(q)) = StreamOf(w, 0, q)
<1>1. Head(q) \in Numbers /\ Tail(q) \in Seq(Numbers) /\ Head(q) # 0
  BY HeadTailProperties, NumbersArePositive
<1>2. <<Head(q)>> \in Seq(Numbers)
  BY <1>1
<1>3. <<Head(q)>> \o Tail(q) = q
  <2>1. Len(q) \in Nat \ {0} /\ Head(q) = q[1]
    BY EmptySeq
  <2>2. SubSeq(q, 1, Len(q)) = <<q[1]>> \o SubSeq(q, 1 + 1, Len(q))
    BY <2>1, SubSeqRecursiveFirst
  <2>3. QED
    BY <2>1, <2>2, SubSeqFull, TailIsSubSeq
<1>4. (w \o <<Head(q)>>) \o Tail(q) = w \o (<<Head(q)>> \o Tail(q))
  BY <1>1, <1>2, ConcatAssociative
<1>5. w \o <<>> = w
  BY ConcatEmptySeq
<1>6. QED
  BY <1>1, <1>3, <1>4, <1>5 DEF StreamOf

\* written,
LEMMA WriteKeepsStream ==
    ASSUME NEW w \in Seq(Numbers), NEW q \in Seq(Numbers), NEW h \in Numbers
    PROVE  Append(w, h) \in Seq(Numbers) /\ StreamOf(Append(w, h), 0, q) = StreamOf(w, h, q)
<1>1. Append(w, h) = w \o <<h>> /\ Append(w, h) \in Seq(Numbers)
  BY AppendIsConcat, AppendProperties
<1>2. Append(w, h) \o <<>> = Append(w, h)
  BY <1>1, ConcatEmptySeq
<1>3. QED
  BY <1>1, <1>2, NumbersArePositive DEF StreamOf

\* and a new one comes behind.
LEMMA QueueExtendsStream ==
    ASSUME NEW w \in Seq(Numbers), NEW q \in Seq(Numbers), NEW h \in 0 .. MaxPackets,
           NEW p \in Numbers
    PROVE  StreamOf(w, h, Append(q, p)) = Append(StreamOf(w, h, q), p)
<1> DEFINE x == w \o (IF h = 0 THEN <<>> ELSE <<h>>)
<1>1. (IF h = 0 THEN <<>> ELSE <<h>>) \in Seq(Numbers)
  BY EmptySeq, HandIsNumber
<1>2. x \in Seq(Numbers) /\ x \o q \in Seq(Numbers)
  BY <1>1, ConcatProperties
<1>3. Append(q, p) = q \o <<p>> /\ Append(x \o q, p) = (x \o q) \o <<p>> /\ <<p>> \in Seq(Numbers)
  BY <1>2, AppendIsConcat
<1> HIDE DEF x
<1>4. (x \o q) \o <<p>> = x \o (q \o <<p>>)
  BY <1>2, <1>3, ConcatAssociative
<1>5. StreamOf(w, h, Append(q, p)) = x \o Append(q, p) /\ StreamOf(w, h, q) = x \o q
  BY DEF StreamOf, x
<1>6. QED
  BY <1>3, <1>4, <1>5

-----------------------------------------------------------------------------
(* The sending thread. *)

\* A step of the thread keeps its stream; what it had in hand is written.
LEMMA LoopStepKeeps ==
    ASSUME NEW l, NEW w \in Seq(Numbers), TypedLoop(l), LoopRuns(l), NEW v,
           v = IF l.pc = "writing" THEN Append(w, l.hand) ELSE w
    PROVE  /\ TypedLoop(LoopStep(l)) /\ v \in Seq(Numbers)
           /\ LoopStep(l).sending = l.sending
           /\ StreamOf(v, LoopStep(l).hand, LoopStep(l).queue) = StreamOf(w, l.hand, l.queue)
<1> /\ l.sending \in BOOLEAN /\ l.queue \in Seq(Numbers) /\ l.pc \in SendPCs
    /\ l.hand \in 0 .. MaxPackets /\ l \in Loops
  BY DEF TypedLoop, Loops
<1> 0 \in 0 .. MaxPackets /\ SendQueueBound \in Nat
  BY BoundIsNat, SendQueueAssumption
<1>1. ASSUME l.queue # <<>>, l.hand = 0
      PROVE  /\ TypedLoop(Took(l)) /\ Took(l).sending = l.sending
             /\ StreamOf(w, Took(l).hand, Took(l).queue) = StreamOf(w, l.hand, l.queue)
  <2>1. Head(l.queue) \in Numbers /\ Tail(l.queue) \in Seq(Numbers)
        /\ StreamOf(w, Head(l.queue), Tail(l.queue)) = StreamOf(w, 0, l.queue)
    BY <1>1, TakeKeepsStream
  <2>2. Len(Tail(l.queue)) <= SendQueueBound
    BY <1>1, HeadTailProperties, LenProperties DEF TypedLoop
  <2>3. /\ Took(l).pc = "writing" /\ Took(l).hand = Head(l.queue)
        /\ Took(l).queue = Tail(l.queue) /\ Took(l).sending = l.sending
        /\ Took(l) = [sending |-> l.sending, queue |-> Tail(l.queue), pc |-> "writing",
                      hand |-> Head(l.queue)]
    <3> DEFINE head == Head(l.queue)
               tail == Tail(l.queue)
    <3>1. Took(l) = [l EXCEPT !.pc = "writing", !.hand = head, !.queue = tail]
      BY DEF Took, RemoveFront
    <3> HIDE DEF head, tail
    <3>2. Took(l) = [sending |-> l.sending, queue |-> tail, pc |-> "writing", hand |-> head]
      BY <3>1 DEF Loops
    <3>3. QED
      BY <3>2 DEF head, tail
  <2>4. Head(l.queue) # 0 /\ Head(l.queue) \in 0 .. MaxPackets
    BY <2>1, NumbersArePositive
  <2>5. TypedLoop(Took(l))
    BY <2>1, <2>2, <2>3, <2>4 DEF TypedLoop, Loops, SendPCs
  <2>6. QED
    BY <1>1, <2>1, <2>3, <2>5
<1>2. ASSUME l.hand = 0
      PROVE  /\ TypedLoop(Looked(l)) /\ Looked(l).sending = l.sending
             /\ StreamOf(w, Looked(l).hand, Looked(l).queue) = StreamOf(w, l.hand, l.queue)
  <2>1. CASE l.queue # <<>>
    BY <1>1, <1>2, <2>1 DEF Looked
  <2>2. CASE l.queue = <<>>
    BY <1>2, <2>2 DEF Looked, TypedLoop, Loops, SendPCs
  <2>3. QED
    BY <2>1, <2>2
<1>3. CASE l.pc \in {"start", "empty"}
  BY <1>3 DEF LoopStep, TypedLoop, Loops, SendPCs
<1>4. CASE l.pc = "test"
  BY <1>2, <1>4 DEF LoopStep, TypedLoop
<1>5. CASE l.pc = "woken" /\ l.sending
  BY <1>2, <1>5 DEF LoopStep, TypedLoop
<1>6. CASE l.pc = "woken" /\ ~l.sending
  BY <1>6 DEF LoopStep, TypedLoop, Loops, SendPCs
<1>7. CASE l.pc = "writing"
  <2>1. l.hand \in Numbers
    BY <1>7, HandIsNumber DEF TypedLoop
  <2>2. v \in Seq(Numbers) /\ StreamOf(v, 0, l.queue) = StreamOf(w, l.hand, l.queue)
    BY <1>7, <2>1, WriteKeepsStream
  <2>3. LoopStep(l) = [sending |-> l.sending, queue |-> l.queue, hand |-> 0,
                       pc |-> IF l.sending THEN "test" ELSE "ended"]
    BY <1>7 DEF LoopStep, Loops
  <2>4. QED
    BY <2>2, <2>3 DEF TypedLoop, Loops, SendPCs
<1>8. QED
  BY <1>3, <1>4, <1>5, <1>6, <1>7 DEF LoopRuns, SendPCs

\* A packet comes behind, is dropped by a full queue, or finds the thread's end.
LEMMA QueuePacketKeeps ==
    ASSUME NEW l, NEW w \in Seq(Numbers), TypedLoop(l), NEW p \in Numbers
    PROVE  /\ TypedLoop(QueuePacket(l, p)) /\ QueuePacket(l, p).sending = l.sending
           /\ QueuePacket(l, p).hand = l.hand
           /\ QueuePacket(l, p).queue =
                  IF l.sending /\ ~Full(l) THEN Append(l.queue, p) ELSE l.queue
<1> /\ l.sending \in BOOLEAN /\ l.queue \in Seq(Numbers) /\ l.pc \in SendPCs
    /\ l.hand \in 0 .. MaxPackets /\ l \in Loops
  BY DEF TypedLoop, Loops
<1> SendQueueBound \in Nat /\ Len(l.queue) \in Nat
  BY SendQueueAssumption, LenProperties
<1>1. Append(l.queue, p) \in Seq(Numbers) /\ Len(Append(l.queue, p)) = Len(l.queue) + 1
  BY AppendProperties
<1>2. CASE ~l.sending
  BY <1>2 DEF QueuePacket
<1>3. CASE l.sending
  <2> DEFINE q == IF Len(l.queue) < SendQueueBound THEN Append(l.queue, p) ELSE l.queue
  <2>1. q \in Seq(Numbers) /\ Len(q) <= SendQueueBound
    BY <1>1 DEF TypedLoop
  <2>2. QueuePacket(l, p) = [sending |-> TRUE, queue |-> q, hand |-> l.hand,
                             pc |-> IF l.pc = "waiting" THEN "woken" ELSE l.pc]
    BY <1>3 DEF QueuePacket, Notified, Loops
  <2>3. q = IF l.sending /\ ~Full(l) THEN Append(l.queue, p) ELSE l.queue
    BY <1>3 DEF Full
  <2> HIDE DEF q
  <2>4. TypedLoop(QueuePacket(l, p))
    BY <2>1, <2>2 DEF TypedLoop, Loops, SendPCs
  <2>5. QED
    BY <1>3, <2>2, <2>3, <2>4
<1>4. QED
  BY <1>2, <1>3

-----------------------------------------------------------------------------
(* The state. *)

\* Only Node changes who is in the map and who is leaving.
LEMMA NodeKeepsList ==
    ASSUME ListedOrLeaving, otm'.subscribers = otm.subscribers, node' = node, Exists' = Exists
    PROVE  ListedOrLeaving'
BY DEF ListedOrLeaving, At

LEMMA StreamsAreTyped ==
    ASSUME Typed, NEW s \in Exists
    PROVE  /\ Stream(s) = StreamOf(written[s], loop[s].hand, loop[s].queue)
           /\ Stream(s) \in Seq(Numbers)
<1>1. Stream(s) = StreamOf(written[s], loop[s].hand, loop[s].queue)
  BY DEF Stream, StreamOf
<1>2. written[s] \in Seq(Numbers) /\ loop[s].queue \in Seq(Numbers)
      /\ loop[s].hand \in 0 .. MaxPackets
  BY DEF Typed, LoopInv, TypedLoop, Loops
<1>3. QED
  BY <1>1, <1>2, StreamOfSeq

\* Steps that leave the loops, the packets and the copying thread alone.
LEMMA IdleKeeps ==
    ASSUME Typed, Streams, UNCHANGED <<loop, written, sent, missed>>,
           \A c \in Exists : reader'[c].pc \in {reader[c].pc, "idle", "feedback", "ended"},
           \A pc \in {"locking", "delivering"} : PublisherIs(pc)' <=> PublisherIs(pc),
           PublisherIs("delivering") => reader'["publisher"].todo = reader["publisher"].todo
    PROVE  Typed' /\ Streams'
<1>1. Exists' = Exists
  BY DEF Exists
<1>2. Typed'
  BY <1>1 DEF Typed, LoopInv
<1>3. \A s : Stream(s)' = Stream(s) /\ (Due(s)' <=> Due(s))
  BY DEF Stream, Due
<1>4. Streams'
  BY <1>1, <1>3 DEF Streams, StreamInv
<1>5. QED
  BY <1>2, <1>4

LEMMA CloseAllDelivers ==
    ASSUME DeliveryInv, CloseAll
    PROVE  Typed' /\ ListedOrLeaving' /\ Streams'
<1>1. Typed' /\ Streams'
  BY IdleKeeps DEF CloseAll, DeliveryInv, PublisherIs, Exists, Typed, LoopInv
<1>2. ListedOrLeaving'
  BY MediaAssumption DEF CloseAll, Returned, DeliveryInv, ListedOrLeaving, At, PathInv, Connected,
     NodeHoldsMonitor, Exists
<1>3. QED
  BY <1>1, <1>2

LEMMA RemoveSubscriberDelivers ==
    ASSUME DeliveryInv, NEW s \in Subscribers, RemoveSubscriber(s)
    PROVE  Typed' /\ ListedOrLeaving' /\ Streams'
<1>1. Typed' /\ Streams'
  BY IdleKeeps DEF RemoveSubscriber, DeliveryInv, PublisherIs, Exists, Typed, LoopInv
<1>2. ListedOrLeaving'
  BY MediaAssumption DEF RemoveSubscriber, Returned, DeliveryInv, ListedOrLeaving, At, PathInv,
     Connected, NodeHoldsMonitor, Exists
<1>3. QED
  BY <1>1, <1>2

LEMMA DestroyedDelivers ==
    ASSUME DeliveryInv, Destroyed
    PROVE  Typed' /\ ListedOrLeaving' /\ Streams'
<1>1. Typed' /\ Streams'
  BY IdleKeeps DEF Destroyed, DeliveryInv, PublisherIs, Exists, Typed, LoopInv
<1>2. ListedOrLeaving'
  <2>1. Exists' = Exists /\ \A s \in Subscribers \cap Exists : s \in otm.subscribers
    BY DEF Destroyed, DeliveryInv, ListedOrLeaving, Exists
  <2>2. DOMAIN node = {"op", "step", "target"}
        /\ DOMAIN otm = {"monitor", "subscribers", "publisher", "feedbackSink_"}
    BY DEF DeliveryInv, PathInv, Connected
  <2>3. CASE node' = Idle /\ otm'.subscribers = otm.subscribers
    BY <2>1, <2>3 DEF ListedOrLeaving, At, Idle
  <2>4. ASSUME NEW s \in otm.subscribers, node'.step = "stop", node'.target = s,
               otm'.subscribers = otm.subscribers \ {s}
        PROVE  ListedOrLeaving'
    BY <2>1, <2>4 DEF ListedOrLeaving, At
  <2>5. (node' = Idle /\ otm'.subscribers = otm.subscribers)
        \/ \E s \in otm.subscribers : /\ node'.step = "stop" /\ node'.target = s
                                      /\ otm'.subscribers = otm.subscribers \ {s}
    BY <2>2 DEF Destroyed
  <2>6. QED
    BY <2>3, <2>4, <2>5
<1>3. QED
  BY <1>1, <1>2

LEMMA ReadersDeliver ==
    ASSUME DeliveryInv,
           \/ \E s \in Subscribers \cap Exists : FeedbackBegins(s) \/ FeedbackEnds(s)
           \/ \E c \in Exists : ReaderEnds(c)
           \/ JoinSender
    PROVE  Typed' /\ ListedOrLeaving' /\ Streams'
<1>1. UNCHANGED <<otm, loop, written, sent, missed>>
  BY DEF FeedbackBegins, FeedbackEnds, ReaderEnds, JoinSender
<1>2. /\ \A c \in Exists : reader'[c].pc \in {reader[c].pc, "idle", "feedback", "ended"}
      /\ \A pc \in {"locking", "delivering"} : PublisherIs(pc)' <=> PublisherIs(pc)
      /\ PublisherIs("delivering") => reader'["publisher"].todo = reader["publisher"].todo
  <2>1. CASE JoinSender
    BY <2>1 DEF JoinSender, DeliveryInv, PathInv, Connected, PublisherIs, Exists, Target
  <2>2. ASSUME NEW s \in Subscribers \cap Exists, FeedbackBegins(s) \/ FeedbackEnds(s)
        PROVE  <1>2!1 /\ <1>2!2 /\ <1>2!3
    BY ZenonT(60), <2>2, MediaAssumption DEF FeedbackBegins, FeedbackEnds, DeliveryInv, PathInv, Connected,
       PublisherIs, Exists
  <2>3. ASSUME NEW c \in Exists, ReaderEnds(c)
        PROVE  <1>2!1 /\ <1>2!2 /\ <1>2!3
    BY <2>3 DEF ReaderEnds, DeliveryInv, PathInv, Connected, PublisherIs, Exists
  <2>4. QED
    BY <2>1, <2>2, <2>3
<1>3. Typed' /\ Streams'
  BY <1>1, <1>2, IdleKeeps DEF DeliveryInv
<1>4. ListedOrLeaving'
  <2>1. CASE node' = node
    BY <1>1, <2>1, NodeKeepsList DEF DeliveryInv, Exists
  <2>2. CASE JoinSender
    BY <1>1, <2>2 DEF JoinSender, Then, DeliveryInv, ListedOrLeaving, At, PathInv, Connected, Exists
  <2>3. QED
    BY <2>1, <2>2 DEF FeedbackBegins, FeedbackEnds, ReaderEnds
<1>5. QED
  BY <1>3, <1>4

(* Connections that come, stop sending and go. *)

\* A connection that is new has no stream yet.
LEMMA CreateDelivers ==
    ASSUME DeliveryInv, NEW c \in Connections, NEW l, Create(c, l), TypedLoop(l), l.hand = 0,
           l.queue = <<>>, sent' = sent, missed' = missed, node' = node, node.op = "none",
           c = "publisher" => ~PublisherIs("locking") /\ ~PublisherIs("delivering"),
           otm.subscribers \subseteq otm'.subscribers,
           c \in Subscribers => c \in otm'.subscribers
    PROVE  Typed' /\ ListedOrLeaving' /\ Streams'
<1>1. /\ Exists' = Exists \cup {c} /\ loop'[c] = l /\ written'[c] = <<>>
      /\ reader'[c] = [pc |-> "idle", todo |-> {}, closing |-> FALSE]
      /\ \A d \in Exists \ {c} : /\ loop'[d] = loop[d] /\ written'[d] = written[d]
                                  /\ reader'[d] = reader[d]
      /\ DOMAIN written' = Exists'
  BY DEF Create, With, Exists, DeliveryInv, PathInv, Connected, Typed
<1>2. Typed'
  <2>1. <<>> \in Seq(Numbers)
    BY EmptySeq
  <2>2. ASSUME NEW d \in Exists' PROVE LoopInv(d)'
    <3>1. CASE d = c
      BY <1>1, <2>1, <3>1 DEF LoopInv, TypedLoop
    <3>2. CASE d # c
      BY <1>1, <2>2, <3>2 DEF DeliveryInv, Typed, LoopInv, TypedLoop
    <3>3. QED
      BY <3>1, <3>2
  <2>3. QED
    BY <1>1, <2>2 DEF DeliveryInv, Typed
<1>3. ListedOrLeaving'
  BY <1>1 DEF DeliveryInv, ListedOrLeaving, At
<1>4. PublisherIs("locking")' = PublisherIs("locking")
      /\ PublisherIs("delivering")' = PublisherIs("delivering")
      /\ (PublisherIs("delivering") => reader'["publisher"] = reader["publisher"])
  BY <1>1 DEF PublisherIs
<1>5. ASSUME NEW s \in (Subscribers \cap Exists)' PROVE StreamInv(s)'
  <2>1. CASE s = c
    <3>1. Stream(s)' = <<>> \o <<>> \o <<>>
      BY <1>1, <2>1 DEF Stream
    <3>2. Stream(s)' = <<>> /\ Len(<<>>) = 0
      BY <3>1, ConcatEmptySeq, EmptySeq
    <3>3. QED
      BY <3>2 DEF StreamInv, Continuous, Reached
  <2>2. CASE s # c
    <3>1. s \in Exists /\ Stream(s)' = Stream(s) /\ (Due(s)' <=> Due(s)) /\ StreamInv(s)
      BY <1>1, <1>4, <2>2 DEF Stream, Due, DeliveryInv, Streams
    <3>2. QED
      BY <1>1, <2>2, <3>1 DEF StreamInv
  <2>3. QED
    BY <2>1, <2>2
<1>6. QED
  BY <1>2, <1>3, <1>5 DEF Streams

LEMMA AddSubscriberDelivers ==
    ASSUME DeliveryInv, NEW s \in Subscribers, AddSubscriber(s)
    PROVE  Typed' /\ ListedOrLeaving' /\ Streams'
<1>1. TypedLoop(NewLoop) /\ NewLoop.hand = 0 /\ NewLoop.queue = <<>>
  <2>1. <<>> \in Seq(Numbers) /\ Len(<<>>) = 0 /\ 0 \in 0 .. MaxPackets
    BY EmptySeq, BoundIsNat
  <2>2. QED
    BY <2>1, SendQueueAssumption DEF NewLoop, TypedLoop, Loops, SendPCs
<1>2. otm'.subscribers = otm.subscribers \cup {s}
  BY DEF AddSubscriber, DeliveryInv, PathInv, Connected
<1>3. s # "publisher" /\ s \in Connections
  BY MediaAssumption DEF Connections
<1>4. QED
  BY <1>1, <1>2, <1>3, CreateDelivers DEF AddSubscriber, Returned

LEMMA SetPublisherDelivers ==
    ASSUME DeliveryInv, SetPublisher
    PROVE  Typed' /\ ListedOrLeaving' /\ Streams'
<1> DEFINE l == [sending |-> FALSE, queue |-> <<>>, pc |-> "ended", hand |-> 0]
<1>1. TypedLoop(l) /\ l.hand = 0 /\ l.queue = <<>>
  <2>1. <<>> \in Seq(Numbers) /\ Len(<<>>) = 0 /\ 0 \in 0 .. MaxPackets
    BY EmptySeq, BoundIsNat
  <2>2. QED
    BY <2>1, SendQueueAssumption DEF TypedLoop, Loops, SendPCs
<1>2. otm'.subscribers = otm.subscribers /\ "publisher" \notin Exists
  BY DEF SetPublisher, DeliveryInv, PathInv, Connected
<1>3. Create("publisher", l) /\ sent' = sent /\ missed' = missed /\ node' = node
      /\ node.op = "none"
  BY DEF SetPublisher, Returned
<1> HIDE DEF l
<1>4. QED
  BY <1>1, <1>2, <1>3, MediaAssumption, CreateDelivers DEF Connections, PublisherIs

\* A flag, a notification: the stream is as it was.
LEMMA SoftKeeps ==
    ASSUME DeliveryInv, NEW c, NEW l, loop' = [loop EXCEPT ![c] = l], c \in Exists => TypedLoop(l),
           c \in Exists => l.hand = loop[c].hand /\ l.queue = loop[c].queue
                              /\ (l.sending => loop[c].sending),
           UNCHANGED <<written, reader, sent>>, missed'.drops = missed.drops,
           DOMAIN missed' = DOMAIN missed
    PROVE  Typed' /\ Streams'
<1>1. Exists' = Exists /\ \A d \in Exists : loop'[d] = IF d = c THEN l ELSE loop[d]
  BY DEF Exists
<1>2. Typed'
  BY <1>1 DEF DeliveryInv, Typed, LoopInv
<1>3. ASSUME NEW s \in Subscribers \cap Exists PROVE StreamInv(s)'
  <2>1. /\ loop'[s].hand = loop[s].hand /\ loop'[s].queue = loop[s].queue
        /\ loop'[s].sending => loop[s].sending
    BY <1>1
  <2>2. Stream(s)' = Stream(s)
    <3>1. written'[s] = written[s]
      OBVIOUS
    <3>2. QED
      BY ONLY <2>1, <3>1 DEF Stream
  <2>3. Due(s)' <=> Due(s)
    BY <1>1 DEF Due, PublisherIs
  <2>4. StreamInv(s)
    BY DEF DeliveryInv, Streams
  <2>5. QED
    BY <2>1, <2>2, <2>3, <2>4 DEF StreamInv
<1>4. QED
  BY <1>1, <1>2, <1>3 DEF Streams

\* The list is kept by a step of the destructor before its last.
LEMMA StepKeepsList ==
    ASSUME ListedOrLeaving, otm' = otm, Exists' = Exists, node'.target = node.target,
           node'.step # "destroyed"
    PROVE  ListedOrLeaving'
BY DEF ListedOrLeaving, At

LEMMA StopSendingDelivers ==
    ASSUME DeliveryInv, StopSending
    PROVE  Typed' /\ ListedOrLeaving' /\ Streams'
<1> DEFINE c == node.target
           l == [loop[c] EXCEPT !.sending = FALSE]
<1>1. loop' = [loop EXCEPT ![c] = l]
  BY DEF StopSending, Target
<1>2. ASSUME c \in Exists
      PROVE  TypedLoop(l) /\ l.hand = loop[c].hand /\ l.queue = loop[c].queue /\ ~l.sending
  <2>1. TypedLoop(loop[c])
    BY <1>2 DEF DeliveryInv, Typed, LoopInv
  <2>2. QED
    BY <2>1 DEF TypedLoop, Loops
<1>3. UNCHANGED <<written, reader, sent, missed, otm>>
  BY DEF StopSending
<1>4. Exists' = Exists
  BY <1>1 DEF Exists
<1>5. node'.target = node.target /\ node'.step = "notify"
  BY DEF StopSending, Then, DeliveryInv, PathInv, Connected
<1>6. ListedOrLeaving'
  BY <1>3, <1>4, <1>5, StepKeepsList DEF DeliveryInv
<1> HIDE DEF l, c
<1>7. Typed' /\ Streams'
  BY <1>1, <1>2, <1>3, SoftKeeps
<1>8. QED
  BY <1>6, <1>7

LEMMA NotifiedIsSoft ==
    ASSUME NEW l, TypedLoop(l)
    PROVE  TypedLoop(Notified(l)) /\ Notified(l).hand = l.hand /\ Notified(l).queue = l.queue
           /\ Notified(l).sending = l.sending
BY DEF Notified, TypedLoop, Loops, SendPCs

LEMMA NotifySenderDelivers ==
    ASSUME DeliveryInv, NotifySender
    PROVE  Typed' /\ ListedOrLeaving' /\ Streams'
<1> DEFINE c == node.target
           l == Notified(loop[c])
<1>1. loop' = [loop EXCEPT ![c] = l]
  BY DEF NotifySender, Target
<1>2. ASSUME c \in Exists
      PROVE  TypedLoop(l) /\ l.hand = loop[c].hand /\ l.queue = loop[c].queue
             /\ l.sending = loop[c].sending
  BY <1>2, NotifiedIsSoft DEF DeliveryInv, Typed, LoopInv
<1>3. UNCHANGED <<written, reader, sent, otm>>
      /\ missed'.drops = missed.drops /\ DOMAIN missed' = DOMAIN missed
  BY DEF NotifySender, DeliveryInv, Typed
<1>4. Exists' = Exists
  BY <1>1 DEF Exists
<1>5. node'.target = node.target /\ node'.step = "joinSender"
  BY DEF NotifySender, Then, DeliveryInv, PathInv, Connected
<1>6. ListedOrLeaving'
  BY <1>3, <1>4, <1>5, StepKeepsList DEF DeliveryInv
<1> HIDE DEF l, c
<1>7. Typed' /\ Streams'
  BY <1>1, <1>2, <1>3, SoftKeeps
<1>8. QED
  BY <1>6, <1>7

LEMMA ConnectionFailsDelivers ==
    ASSUME DeliveryInv, NEW c \in Exists, ConnectionFails(c)
    PROVE  Typed' /\ ListedOrLeaving' /\ Streams'
<1> DEFINE k == [loop[c] EXCEPT !.sending = FALSE]
           l == Notified(k)
<1>1. loop' = [loop EXCEPT ![c] = l]
  BY DEF ConnectionFails
<1>2. TypedLoop(k) /\ k.hand = loop[c].hand /\ k.queue = loop[c].queue /\ ~k.sending
  <2>1. TypedLoop(loop[c])
    BY DEF DeliveryInv, Typed, LoopInv
  <2>2. QED
    BY <2>1 DEF TypedLoop, Loops
<1> HIDE DEF k
<1>3. TypedLoop(l) /\ l.hand = loop[c].hand /\ l.queue = loop[c].queue /\ ~l.sending
  BY <1>2, NotifiedIsSoft
<1>4. UNCHANGED <<written, reader, sent, missed, otm, node>>
  BY DEF ConnectionFails
<1>5. Exists' = Exists
  BY <1>1 DEF Exists
<1>6. ListedOrLeaving'
  BY <1>4, <1>5, NodeKeepsList DEF DeliveryInv
<1> HIDE DEF l
<1>7. Typed' /\ Streams'
  BY <1>1, <1>3, <1>4, SoftKeeps
<1>8. QED
  BY <1>6, <1>7

\* The connection that is gone takes its stream with it.
LEMMA JoinReaderDelivers ==
    ASSUME DeliveryInv, JoinReader
    PROVE  Typed' /\ ListedOrLeaving' /\ Streams'
<1> DEFINE t == node.target
<1>1. /\ Exists' = Exists \ {t} /\ DOMAIN written' = Exists'
      /\ \A d \in Exists \ {t} : /\ loop'[d] = loop[d] /\ written'[d] = written[d]
                                  /\ reader'[d] = reader[d]
      /\ t \in Exists => reader[t].pc = "ended"
      /\ otm' = otm /\ sent' = sent
  BY DEF JoinReader, Without, Target, Exists, DeliveryInv, PathInv, Connected, Typed
<1>2. /\ DOMAIN missed' = DOMAIN missed /\ missed'.drops = missed.drops \ {t}
  BY DEF JoinReader, Target, DeliveryInv, Typed
<1>3. node'.target = t
  BY DEF JoinReader, Then, DeliveryInv, PathInv, Connected
<1>4. Typed'
  <2>1. ASSUME NEW d \in Exists' PROVE LoopInv(d)'
    BY <1>1 DEF DeliveryInv, Typed, LoopInv, TypedLoop
  <2>2. QED
    BY <1>1, <1>2, <2>1 DEF DeliveryInv, Typed
<1>5. ListedOrLeaving'
  BY <1>1, <1>3 DEF DeliveryInv, ListedOrLeaving, At
<1>6. \A pc \in {"locking", "delivering"} : PublisherIs(pc)' <=> PublisherIs(pc)
  BY <1>1 DEF PublisherIs
<1>7. PublisherIs("delivering") => reader'["publisher"] = reader["publisher"]
  BY <1>1 DEF PublisherIs
<1> HIDE DEF t
<1>8. ASSUME NEW s \in (Subscribers \cap Exists)' PROVE StreamInv(s)'
  <2>1. s \in Exists \ {t} /\ s \in Subscribers
    BY <1>1
  <2>2. Stream(s)' = Stream(s)
    BY <1>1, <2>1 DEF Stream
  <2>3. Due(s)' <=> Due(s)
    BY <1>6, <1>7 DEF Due
  <2>4. StreamInv(s)
    BY <2>1 DEF DeliveryInv, Streams
  <2>5. (s \in missed.drops)' <=> s \in missed.drops
    BY <1>2, <2>1
  <2>6. QED
    BY <1>1, <2>1, <2>2, <2>3, <2>4, <2>5 DEF StreamInv
<1>9. QED
  BY <1>4, <1>5, <1>8 DEF Streams

-----------------------------------------------------------------------------
(* Packets. *)

LEMMA SendThreadDelivers ==
    ASSUME DeliveryInv, NEW c \in Exists, SendThread(c)
    PROVE  Typed' /\ ListedOrLeaving' /\ Streams'
<1> DEFINE v == IF loop[c].pc = "writing" THEN Append(written[c], loop[c].hand) ELSE written[c]
           l == LoopStep(loop[c])
<1>1. UNCHANGED <<otm, node, reader, sent, missed>> /\ LoopRuns(loop[c])
  BY DEF SendThread
<1>2. loop' = [loop EXCEPT ![c] = l]
  BY DEF SendThread
<1>3. DOMAIN written' = DOMAIN written /\ written'[c] = v
      /\ \A d \in Exists \ {c} : written'[d] = written[d]
  BY DEF SendThread, DeliveryInv, Typed
<1>4. Exists' = Exists /\ loop'[c] = l /\ \A d \in Exists \ {c} : loop'[d] = loop[d]
  BY <1>2 DEF Exists
<1>5. TypedLoop(loop[c]) /\ written[c] \in Seq(Numbers)
  BY DEF DeliveryInv, Typed, LoopInv
<1>6. /\ TypedLoop(l) /\ v \in Seq(Numbers) /\ l.sending = loop[c].sending
      /\ StreamOf(v, l.hand, l.queue) = StreamOf(written[c], loop[c].hand, loop[c].queue)
  BY <1>1, <1>5, LoopStepKeeps
<1> HIDE DEF v, l
<1>7. Typed'
  <2>1. ASSUME NEW d \in Exists PROVE LoopInv(d)'
    <3>1. LoopInv(d)
      BY DEF DeliveryInv, Typed
    <3>2. CASE d = c
      BY <1>1, <1>3, <1>4, <1>6, <3>1, <3>2 DEF LoopInv, TypedLoop
    <3>3. CASE d # c
      BY <1>1, <1>3, <1>4, <3>1, <3>3 DEF LoopInv, TypedLoop
    <3>4. QED
      BY <3>2, <3>3
  <2>2. QED
    BY <1>1, <1>3, <1>4, <2>1 DEF DeliveryInv, Typed
<1>8. ListedOrLeaving'
  BY <1>1, <1>4, NodeKeepsList DEF DeliveryInv
<1>9. ASSUME NEW s \in Subscribers \cap Exists PROVE StreamInv(s)'
  <2>1. Stream(s)' = Stream(s) /\ loop'[s].sending = loop[s].sending
    <3>1. Stream(s)' = StreamOf(written'[s], loop'[s].hand, loop'[s].queue)
          /\ Stream(s) = StreamOf(written[s], loop[s].hand, loop[s].queue)
      BY DEF Stream, StreamOf
    <3>2. QED
      BY <1>3, <1>4, <1>6, <3>1
  <2>2. Due(s)' <=> Due(s)
    BY <1>1, <1>4 DEF Due, PublisherIs
  <2>3. StreamInv(s)
    BY DEF DeliveryInv, Streams
  <2>4. QED
    BY <1>1, <2>1, <2>2, <2>3 DEF StreamInv
<1>10. QED
  BY <1>4, <1>7, <1>8, <1>9 DEF Streams

\* Steps of the reading thread that change neither loop nor stream, given what
\* is due and sent after them.
LEMMA ReadingKeeps ==
    ASSUME DeliveryInv, UNCHANGED <<otm.subscribers, node, loop, written, missed>>,
           sent' \in 0 .. MaxPackets,
           \A c \in Exists : reader'[c].pc \in {reader[c].pc, "idle", "locking", "delivering"},
           \A s \in Subscribers \cap Exists :
               (IF Due(s) THEN sent - 1 ELSE sent)' = IF Due(s) THEN sent - 1 ELSE sent
    PROVE  Typed' /\ ListedOrLeaving' /\ Streams'
<1>1. Exists' = Exists
  BY DEF Exists
<1>2. Typed'
  BY <1>1 DEF DeliveryInv, Typed, LoopInv, TypedLoop
<1>3. ListedOrLeaving'
  BY <1>1, NodeKeepsList DEF DeliveryInv
<1>4. ASSUME NEW s \in Subscribers \cap Exists PROVE StreamInv(s)'
  <2>1. Stream(s)' = Stream(s) /\ StreamInv(s)
    BY DEF Stream, DeliveryInv, Streams
  <2>2. QED
    BY <2>1 DEF StreamInv
<1>5. QED
  BY <1>1, <1>2, <1>3, <1>4 DEF Streams

LEMMA PacketDelivers ==
    ASSUME DeliveryInv, Packet
    PROVE  Typed' /\ ListedOrLeaving' /\ Streams'
<1>1. UNCHANGED <<otm, node, loop, written, missed>> /\ sent' = sent + 1 /\ sent < MaxPackets
  BY DEF Packet
<1>2. sent \in Nat /\ sent' \in 0 .. MaxPackets
  BY <1>1, BoundIsNat DEF DeliveryInv, Typed
<1>3. \A c \in Exists : reader'[c].pc \in {reader[c].pc, "locking"}
  BY DEF Packet, DeliveryInv, PathInv, Connected
<1>4. \A s : Due(s)' /\ ~Due(s)
  BY DEF Packet, Due, PublisherIs, Exists, DeliveryInv, PathInv, Connected
<1>5. QED
  BY <1>1, <1>2, <1>3, <1>4, ReadingKeeps

\* Every subscriber is in the map: else Node would hold the monitor.
LEMMA LockDelivers ==
    ASSUME DeliveryInv, LockToDeliver
    PROVE  Typed' /\ ListedOrLeaving' /\ Streams'
<1>1. UNCHANGED <<node, loop, written, missed, sent>> /\ otm'.subscribers = otm.subscribers
  BY DEF LockToDeliver, DeliveryInv, PathInv, Connected
<1>2. sent' \in 0 .. MaxPackets
  BY <1>1 DEF DeliveryInv, Typed
<1>3. \A c \in Exists : reader'[c].pc \in {reader[c].pc, "delivering"}
  BY DEF LockToDeliver, DeliveryInv, PathInv, Connected
<1>4. ASSUME NEW s \in Subscribers \cap Exists PROVE Due(s) /\ Due(s)'
  <2>1. s \in otm.subscribers
    BY DEF LockToDeliver, DeliveryInv, ListedOrLeaving, PathInv, NodeHoldsMonitor
  <2>2. Due(s)
    BY DEF LockToDeliver, Due
  <2>3. "publisher" \in Exists' /\ reader'["publisher"].pc = "delivering"
        /\ reader'["publisher"].todo = otm.subscribers
    BY <1>1 DEF LockToDeliver, DeliveryInv, PathInv, Connected, PublisherIs, Exists
  <2>4. QED
    BY <2>1, <2>2, <2>3 DEF Due, PublisherIs
<1>5. \A s \in Subscribers \cap Exists :
          (IF Due(s) THEN sent - 1 ELSE sent)' = IF Due(s) THEN sent - 1 ELSE sent
  BY <1>1, <1>4
<1>6. QED
  BY <1>1, <1>2, <1>3, <1>5, ReadingKeeps

LEMMA DeliveredDelivers ==
    ASSUME DeliveryInv, Delivered
    PROVE  Typed' /\ ListedOrLeaving' /\ Streams'
<1>1. UNCHANGED <<node, loop, written, missed, sent>> /\ otm'.subscribers = otm.subscribers
  BY DEF Delivered, DeliveryInv, PathInv, Connected
<1>2. sent' \in 0 .. MaxPackets
  BY <1>1 DEF DeliveryInv, Typed
<1>3. \A c \in Exists : reader'[c].pc \in {reader[c].pc, "idle"}
  BY DEF Delivered, DeliveryInv, PathInv, Connected
<1>4. \A s : ~Due(s) /\ ~Due(s)'
  BY DEF Delivered, Due, PublisherIs, Exists, DeliveryInv, PathInv, Connected
<1>5. QED
  BY <1>1, <1>2, <1>3, <1>4, ReadingKeeps

\* A packet is being copied only after one was sent.
Copying == PublisherIs("locking") \/ PublisherIs("delivering")
Copies == sent \in Nat /\ (Copying => sent > 0)

LEMMA NextCopies == PathInv /\ Copies /\ [Next]_vars => Copies'
<1> SUFFICES ASSUME PathInv, Copies, [Next]_vars PROVE Copies' OBVIOUS
<1>1. ASSUME sent' = sent, Copying' => Copying PROVE Copies'
  BY <1>1 DEF Copies
<1>2. CASE SetPublisher
  BY <1>1, <1>2 DEF SetPublisher, Create, With, PathInv, Connected, Copying, PublisherIs, Exists
<1>3. ASSUME NEW s \in Subscribers, AddSubscriber(s) PROVE Copies'
  BY <1>1, <1>3, MediaAssumption DEF AddSubscriber, Create, With, PathInv, Connected, Copying,
     PublisherIs, Exists
<1>4. CASE CloseAll \/ Destroyed \/ (\E s \in Subscribers : RemoveSubscriber(s)) \/ StopSending
           \/ NotifySender \/ (\E c \in Exists : SendThread(c) \/ ConnectionFails(c))
  <2>1. sent' = sent /\ reader' = reader /\ Exists' = Exists
    BY <1>4 DEF CloseAll, Destroyed, RemoveSubscriber, StopSending, NotifySender, SendThread,
       ConnectionFails, Exists
  <2>2. QED
    BY <1>1, <2>1 DEF Copying, PublisherIs
<1>5. CASE JoinSender
  BY <1>1, <1>5 DEF JoinSender, PathInv, Connected, Copying, PublisherIs, Exists, Target
<1>6. CASE JoinReader
  BY <1>1, <1>6 DEF JoinReader, Without, PathInv, Connected, Copying, PublisherIs, Exists, Target
<1>7. CASE Packet
  BY <1>7 DEF Packet, Copies
<1>8. CASE LockToDeliver
  BY <1>1, <1>8 DEF LockToDeliver, PathInv, Connected, Copying, PublisherIs, Exists
<1>9. CASE Delivered
  BY <1>1, <1>9 DEF Delivered, PathInv, Connected, Copying, PublisherIs, Exists
<1>10. ASSUME NEW s \in Subscribers \cap Exists, Deliver(s) PROVE Copies'
  BY <1>1, <1>10 DEF Deliver, PathInv, Connected, Copying, PublisherIs, Exists
<1>11. ASSUME NEW s \in Subscribers \cap Exists, FeedbackBegins(s) \/ FeedbackEnds(s)
       PROVE  Copies'
  BY <1>1, <1>11 DEF FeedbackBegins, FeedbackEnds, PathInv, Connected, Copying, PublisherIs, Exists
<1>12. ASSUME NEW c \in Exists, ReaderEnds(c) PROVE Copies'
  BY <1>1, <1>12 DEF ReaderEnds, PathInv, Connected, Copying, PublisherIs, Exists
<1>13. CASE UNCHANGED vars
  BY <1>1, <1>13 DEF vars, Copying, PublisherIs, Exists
<1>14. QED
  BY <1>2, <1>3, <1>4, <1>5, <1>6, <1>7, <1>8, <1>9, <1>10, <1>11, <1>12, <1>13
     DEF Next, NodeThread, ReadingThread

LEMMA CopiesInvariant == Spec => []Copies
<1>1. Init => Copies
  BY DEF Init, Copies, Copying, PublisherIs, Exists
<1>2. QED
  BY <1>1, NextCopies, PathInvariant, PTL DEF Spec

\* The packet comes behind the stream, or a full queue drops it.
LEMMA DeliverDelivers ==
    ASSUME DeliveryInv, Copies, NEW s \in Subscribers \cap Exists, Deliver(s)
    PROVE  Typed' /\ ListedOrLeaving' /\ Streams'
<1> DEFINE l == QueuePacket(loop[s], sent)
           dropped == s \in missed.drops
<1>1. /\ UNCHANGED <<otm, node, sent, written>>
      /\ PublisherIs("delivering") /\ s \in reader["publisher"].todo
      /\ loop' = [loop EXCEPT ![s] = l]
      /\ DOMAIN missed' = DOMAIN missed
      /\ missed'.drops = IF Full(loop[s]) THEN missed.drops \cup {s} ELSE missed.drops
  BY DEF Deliver, DeliveryInv, Typed
<1>2. Exists' = Exists /\ loop'[s] = l /\ \A d \in Exists \ {s} : loop'[d] = loop[d]
  BY <1>1 DEF Exists
<1>3. /\ \A c \in Exists : reader'[c].pc = reader[c].pc
      /\ reader'["publisher"].todo = reader["publisher"].todo \ {s}
  BY DEF Deliver, PublisherIs, DeliveryInv, PathInv, Connected
<1>4. sent \in Numbers /\ sent > 0
  <2>1. sent > 0 /\ sent \in 0 .. MaxPackets
    BY <1>1 DEF Copies, Copying, DeliveryInv, Typed
  <2>2. QED
    BY <2>1, HandIsNumber
<1>5. TypedLoop(loop[s]) /\ written[s] \in Seq(Numbers) /\ loop[s].queue \in Seq(Numbers)
      /\ loop[s].hand \in 0 .. MaxPackets /\ loop[s].sending \in BOOLEAN
  BY DEF DeliveryInv, Typed, LoopInv, TypedLoop, Loops
<1>6. /\ TypedLoop(l) /\ l.sending = loop[s].sending /\ l.hand = loop[s].hand
      /\ l.queue = IF loop[s].sending /\ ~Full(loop[s]) THEN Append(loop[s].queue, sent)
                   ELSE loop[s].queue
  BY <1>4, <1>5, QueuePacketKeeps
<1> HIDE DEF l
<1>7. Typed'
  <2>1. ASSUME NEW d \in Exists PROVE LoopInv(d)'
    <3>1. LoopInv(d)
      BY DEF DeliveryInv, Typed
    <3>2. QED
      BY <1>1, <1>2, <1>3, <1>6, <3>1 DEF LoopInv, TypedLoop
  <2>2. QED
    BY <1>1, <1>2, <2>1 DEF DeliveryInv, Typed
<1>8. ListedOrLeaving'
  BY <1>1, <1>2, NodeKeepsList DEF DeliveryInv
<1>9. \A d \in Subscribers : Due(d)' <=> Due(d) /\ d # s
  BY <1>1, <1>2, <1>3 DEF Due, PublisherIs, DeliveryInv, PathInv, Connected
<1>10. StreamInv(s)'
  <2>1. /\ Stream(s) = StreamOf(written[s], loop[s].hand, loop[s].queue)
        /\ Stream(s) \in Seq(Numbers) /\ StreamInv(s)
    BY StreamsAreTyped DEF DeliveryInv, Streams
  <2>2. Stream(s)' = StreamOf(written[s], l.hand, l.queue)
    <3>1. written'[s] = written[s] /\ loop'[s] = l
      BY <1>1, <1>2
    <3>2. QED
      BY ONLY <3>1 DEF Stream, StreamOf
  <2>3. Due(s) /\ ~Due(s)'
    BY <1>1, <1>9 DEF Due
  <2>4. /\ dropped \in BOOLEAN /\ Continuous(Stream(s), dropped)
        /\ loop[s].sending => Reached(Stream(s), dropped, sent - 1)
    BY <2>1, <2>3 DEF StreamInv
  <2> HIDE DEF dropped
  <2>5. CASE ~loop[s].sending
    <3>1. Stream(s)' = Stream(s) /\ ~Full(loop[s]) /\ ~loop'[s].sending
      BY <1>2, <1>6, <2>1, <2>2, <2>5 DEF Full
    <3>2. QED
      BY <1>1, <2>4, <3>1 DEF StreamInv, dropped
  <2>6. CASE loop[s].sending /\ Full(loop[s])
    <3>1. Stream(s)' = Stream(s) /\ s \in missed'.drops
      BY <1>1, <1>6, <2>1, <2>2, <2>6
    <3>2. Continuous(Stream(s), TRUE) /\ Reached(Stream(s), TRUE, sent)
      BY ONLY <1>4, <2>1, <2>4, <2>6, DropLoosens
    <3>3. QED
      BY <1>1, <2>3, <3>1, <3>2 DEF StreamInv
  <2>7. CASE loop[s].sending /\ ~Full(loop[s])
    <3>1. Stream(s)' = Append(Stream(s), sent)
      <4> DEFINE q == loop[s].queue
                 h == loop[s].hand
                 w == written[s]
      <4>1. Stream(s)' = StreamOf(w, h, Append(q, sent)) /\ Stream(s) = StreamOf(w, h, q)
        BY <1>6, <2>1, <2>2, <2>7
      <4>2. w \in Seq(Numbers) /\ q \in Seq(Numbers) /\ h \in 0 .. MaxPackets
        BY <1>5
      <4> HIDE DEF q, h, w
      <4>3. StreamOf(w, h, Append(q, sent)) = Append(StreamOf(w, h, q), sent)
        BY <1>4, <4>2, QueueExtendsStream
      <4>4. QED
        BY <4>1, <4>3
    <3>2. /\ Continuous(Append(Stream(s), sent), dropped)
          /\ Reached(Append(Stream(s), sent), dropped, sent)
      BY ONLY <1>4, <2>1, <2>4, <2>7, AppendContinues
    <3>3. missed'.drops = missed.drops
      BY <1>1, <2>7
    <3>4. QED
      BY <1>1, <2>3, <3>1, <3>2, <3>3 DEF StreamInv, dropped
  <2>8. QED
    BY <2>5, <2>6, <2>7
<1>11. ASSUME NEW d \in Subscribers \cap Exists, d # s PROVE StreamInv(d)'
  <2>1. Stream(d)' = Stream(d) /\ loop'[d] = loop[d]
    <3>1. written'[d] = written[d] /\ loop'[d] = loop[d]
      BY <1>1, <1>2, <1>11
    <3>2. QED
      BY ONLY <3>1 DEF Stream
  <2>2. d \in missed'.drops <=> d \in missed.drops
    BY <1>1, <1>11
  <2>3. StreamInv(d)
    BY DEF DeliveryInv, Streams
  <2>4. QED
    BY <1>1, <1>9, <1>11, <2>1, <2>2, <2>3 DEF StreamInv
<1>12. QED
  BY <1>2, <1>7, <1>8, <1>10, <1>11 DEF Streams

-----------------------------------------------------------------------------
LEMMA InitDelivery == Init => DeliveryInv
<1> SUFFICES ASSUME Init PROVE DeliveryInv
  OBVIOUS
<1>1. Exists = {} /\ DOMAIN written = {} /\ sent = 0
  BY DEF Init, Exists
<1>2. Typed /\ ListedOrLeaving /\ Streams
  <2>1. sent \in 0 .. MaxPackets
    BY <1>1, BoundIsNat
  <2>2. DOMAIN missed = {"drops", "wakeups"} /\ node.op = "none"
    BY DEF Init, Idle
  <2>3. QED
    BY <1>1, <2>1, <2>2 DEF Typed, ListedOrLeaving, At, Streams
<1>3. QED
  BY <1>2, InitPath DEF DeliveryInv

LEMMA NextDelivery == DeliveryInv /\ Copies /\ [Next]_vars => DeliveryInv'
<1> SUFFICES ASSUME DeliveryInv, Copies, [Next]_vars PROVE DeliveryInv' OBVIOUS
<1>1. SUFFICES Typed' /\ ListedOrLeaving' /\ Streams'
  BY NextPath DEF DeliveryInv
<1>2. CASE SetPublisher \/ CloseAll
  BY <1>2, SetPublisherDelivers, CloseAllDelivers
<1>3. CASE \E s \in Subscribers : AddSubscriber(s) \/ RemoveSubscriber(s)
  BY <1>3, AddSubscriberDelivers, RemoveSubscriberDelivers
<1>4. CASE StopSending \/ NotifySender \/ JoinReader \/ Destroyed
  BY <1>4, StopSendingDelivers, NotifySenderDelivers, JoinReaderDelivers, DestroyedDelivers
<1>5. CASE Packet \/ LockToDeliver \/ Delivered
  BY <1>5, PacketDelivers, LockDelivers, DeliveredDelivers
<1>6. CASE \E s \in Subscribers \cap Exists : Deliver(s)
  BY <1>6, DeliverDelivers
<1>7. CASE JoinSender \/ (\E s \in Subscribers \cap Exists : FeedbackBegins(s) \/ FeedbackEnds(s))
           \/ \E c \in Exists : ReaderEnds(c)
  BY <1>7, ReadersDeliver
<1>8. CASE \E c \in Exists : SendThread(c) \/ ConnectionFails(c)
  BY <1>8, SendThreadDelivers, ConnectionFailsDelivers
<1>9. CASE UNCHANGED vars
  <2>1. Typed' /\ Streams'
    BY <1>9, IdleKeeps DEF vars, DeliveryInv, PublisherIs, Exists
  <2>2. ListedOrLeaving'
    BY <1>9, NodeKeepsList DEF vars, DeliveryInv, Exists
  <2>3. QED
    BY <2>1, <2>2
<1>10. QED
  BY <1>2, <1>3, <1>4, <1>5, <1>6, <1>7, <1>8, <1>9 DEF Next, NodeThread, ReadingThread

\* However packets, notifications, failures and the calls of Node interleave, what
\* a subscriber was given ends at the last packet of the publisher, or at the one
\* before while that is being copied, as long as it sends and its queue dropped none.
THEOREM DeliveryInvariant == Spec => []DeliveryInv
BY InitDelivery, NextDelivery, CopiesInvariant, PTL DEF Spec

\* Every subscriber gets the packets of the publisher in their order, each at
\* most once, and all of them from its first on as long as its queue was never
\* full (deliverVideoData_, queueData, sendLoop); queues keep to their bound.
THEOREM StreamsAreWhole == Spec => []DeliveryIsSound
<1>1. DeliveryInv => TypeOK
  <2> SUFFICES ASSUME DeliveryInv PROVE TypeOK
    OBVIOUS
  <2>1. /\ otm.monitor \in {"free", "node", "reader"}
        /\ otm.subscribers \subseteq Subscribers
        /\ otm.subscribers \subseteq Exists /\ Exists \subseteq Connections
        /\ sent \in 0 .. MaxPackets
    BY DEF DeliveryInv, PathInv, Connected, ReaderHoldsMonitor, Typed
  <2>2. node.target \in Connections \cup {""}
    BY DEF DeliveryInv, PathInv, NodeHoldsMonitor, Connections
  <2>3. ASSUME NEW c \in Exists
        PROVE  /\ loop[c].pc \in SendPCs /\ loop[c].hand \in 0 .. MaxPackets
               /\ Len(loop[c].queue) <= SendQueueBound
               /\ reader[c].pc \in {"idle", "locking", "delivering", "feedback", "ended"}
    BY DEF DeliveryInv, Typed, LoopInv, TypedLoop, Loops
  <2>4. QED
    BY <2>1, <2>2, <2>3 DEF TypeOK
<1>2. DeliveryInv => StreamsAreContinuous
  BY DEF DeliveryInv, Streams, StreamInv, Continuous, StreamsAreContinuous
<1>3. QED
  BY <1>1, <1>2, DeliveryInvariant, PTL DEF DeliveryIsSound
-----------------------------------------------------------------------------
(* Descriptions.                                                           *)

\* The fields of an SdpInfo.
Fields == {"mtype", "bundle", "has", "user", "candidates", "feedback", "ssrc", "direction",
           "payloads", "inOut", "outIn"}
Payloads == [pt : PayloadTypes, codec : DOMAIN Internal, medium : Media, feedback : {{}}]
Map == [PayloadTypes -> PayloadTypes \cup {Absent}]

\* What a description s holds after the lines D of the offer o were read.
Of(D, m, type) == {l \in D[m] : l.type = type}
Credentials(D, m) ==
    IF m = "video" /\ Of(D, "video", "ufrag") = {} THEN Of(D, "session", "ufrag")
    ELSE Of(D, m, "ufrag")
OfCodec(D, c) == {l \in Of(D, MediumOfCodec(c), "rtpmap") : l.codec = c}
Shared(o) ==
    \E a \in Lines(o, "audio", "rtpmap"), v \in Lines(o, "video", "rtpmap") : a.pt = v.pt

Shape(s) == DOMAIN s = Fields /\ s.has \subseteq Media
BundleRead(s, D) ==
    /\ s.bundle \in BOOLEAN
    /\ s.bundle <=> Of(D, "session", "bundle") # {}
UserRead(s, D) ==
    /\ DOMAIN s.user = Media
    /\ \A m \in Media :
          /\ Credentials(D, m) = {} => s.user[m] = None
          /\ Credentials(D, m) # {} => \E l \in Credentials(D, m) : s.user[m] = l.value
CandidatesRead(s, D) ==
    /\ \A c \in s.candidates :
          DOMAIN c = {"id", "component", "medium", "user"} /\ c.medium \in Media
    /\ \A m \in Media : \A l \in Of(D, m, "candidate") :
          l.protocol = "udp" =>
              \E c \in s.candidates : c.id = l.id /\ c.component = l.component /\ c.medium = m
DirectionRead(s, D) ==
    /\ DOMAIN s.direction = Media
    /\ \A m \in Media : \A l \in Of(D, m, "direction") : s.direction[m] = l.value
SsrcRead(s, D) ==
    /\ DOMAIN s.ssrc = Media
    /\ \A m \in Media :
          /\ Of(D, m, "ssrc") = {} => s.ssrc[m] = 0
          /\ Of(D, m, "ssrc") # {} => \E l \in Of(D, m, "ssrc") : s.ssrc[m] = l.value
PayloadsRead(s, D) ==
    /\ s.payloads \in Seq(Payloads)
    /\ \A i \in DOMAIN s.payloads : \E l \in Of(D, s.payloads[i].medium, "rtpmap") :
          l.pt = s.payloads[i].pt /\ l.codec = s.payloads[i].codec
    /\ \A m \in Media : \A l \in Of(D, m, "rtpmap") : Known(l.codec) =>
          \E i \in DOMAIN s.payloads :
             s.payloads[i].pt = l.pt /\ s.payloads[i].codec = l.codec /\ s.payloads[i].medium = m
FeedbackRead(s, D) ==
    /\ \A f \in s.feedback : \E m \in Media : \E l \in Of(D, m, "rtcp-fb") :
          f.pt = l.pt /\ f.value = l.value
    /\ \A m \in Media : \A l \in Of(D, m, "rtcp-fb") :
          [pt |-> l.pt, value |-> l.value] \in s.feedback
InwardRead(o, s, D) ==
    /\ s.outIn \in Map
    /\ ~Shared(o) => \A m \in Media : \A l \in Of(D, m, "rtpmap") :
          Known(l.codec) => s.outIn[l.pt] = Internal[l.codec]
OutwardRead(s, D) ==
    /\ s.inOut \in Map
    /\ \A c \in DOMAIN Internal :
          /\ OfCodec(D, c) = {} => s.inOut[Internal[c]] = Absent
          /\ OfCodec(D, c) # {} => \E l \in OfCodec(D, c) : s.inOut[Internal[c]] = l.pt
Reads(o, s, D) ==
    /\ Shape(s) /\ BundleRead(s, D) /\ UserRead(s, D) /\ CandidatesRead(s, D)
    /\ DirectionRead(s, D) /\ SsrcRead(s, D) /\ PayloadsRead(s, D) /\ FeedbackRead(s, D)
    /\ InwardRead(o, s, D) /\ OutwardRead(s, D)

\* An offer, one by one.
LEMMA OfferOrder ==
    ASSUME NEW o \in Offers
    PROVE  /\ o.order \in Seq(Sections) /\ o.order # <<>> /\ Head(o.order) = "session"
           /\ \A i, j \in DOMAIN o.order : o.order[i] = o.order[j] => i = j
           /\ o.lines = [m \in Sections |-> o.lines[m]]
           /\ \A m \in Sections :
                 (\A i \in DOMAIN o.order : o.order[i] # m) => o.lines[m] = {}
           /\ \E m \in Sections : Lines(o, m, "ufrag") # {}
           /\ \A a \in Lines(o, "audio", "ssrc"), v \in Lines(o, "video", "ssrc") :
                 a.value # v.value
  BY OfferAssumption

LEMMA OfferIsWell ==
    ASSUME NEW o \in Offers, NEW m \in Sections
    PROVE  WellFormed(o, m)
  BY OfferAssumption

LEMMA LinesAreWell ==
    ASSUME NEW o \in Offers, NEW m \in Sections, NEW l \in o.lines[m]
    PROVE  /\ m = "session" => l.type \in {"bundle", "ufrag", "direction"}
           /\ m # "session" => l.type \in
                  {"ufrag", "direction", "candidate", "rtpmap", "rtcp-fb", "ssrc"}
           /\ l.type = "ufrag" => l.value # None
           /\ l.type = "direction" =>
                 l.value \in Directions /\ \A k \in o.lines[m] : k.type = "direction" => k = l
           /\ l.type = "ssrc" =>
                 /\ l.value \notin {0, HiddenSsrc.audio, HiddenSsrc.video}
                 /\ \A k \in o.lines[m] : k.type = "ssrc" => k = l
           /\ l.type = "rtpmap" =>
                 /\ l.pt \in PayloadTypes
                 /\ l.codec \in DOMAIN Internal => MediumOfCodec(l.codec) = m
                 /\ \A k \in o.lines[m] : k.type = "rtpmap" /\ k.pt = l.pt => k.codec = l.codec
           /\ l.type = "rtcp-fb" =>
                 \E k \in o.lines[m] : k.type = "rtpmap" /\ k.pt = l.pt
  <1>1. WellFormed(o, m) BY OfferIsWell
  <1>2. (m = "session" => l.type \in {"bundle", "ufrag", "direction"})
        /\ (m # "session" => l.type \in
                  {"ufrag", "direction", "candidate", "rtpmap", "rtcp-fb", "ssrc"})
    BY <1>1 DEF WellFormed
  <1>3. l.type = "ufrag" => l.value # None BY <1>1 DEF WellFormed, Lines
  <1>4. l.type = "direction" =>
                 l.value \in Directions /\ \A k \in o.lines[m] : k.type = "direction" => k = l
    BY <1>1 DEF WellFormed, Lines
  <1>5. l.type = "ssrc" =>
                 /\ l.value \notin {0, HiddenSsrc.audio, HiddenSsrc.video}
                 /\ \A k \in o.lines[m] : k.type = "ssrc" => k = l
    BY <1>1 DEF WellFormed, Lines
  <1>6. l.type = "rtpmap" =>
                 /\ l.pt \in PayloadTypes
                 /\ l.codec \in DOMAIN Internal => MediumOfCodec(l.codec) = m
                 /\ \A k \in o.lines[m] : k.type = "rtpmap" /\ k.pt = l.pt => k.codec = l.codec
    BY <1>1 DEF WellFormed, Lines
  <1>7. l.type = "rtcp-fb" =>
                 \E k \in o.lines[m] : k.type = "rtpmap" /\ k.pt = l.pt
    BY <1>1 DEF WellFormed, Lines
  <1> QED BY <1>2, <1>3, <1>4, <1>5, <1>6, <1>7

LEMMA InternalNumbers ==
    /\ \A c \in DOMAIN Internal : Internal[c] \in PayloadTypes
    /\ \A c, d \in DOMAIN Internal : Internal[c] = Internal[d] => c = d
    /\ Internal.red = Internal["red"] /\ "red" \in DOMAIN Internal
    /\ Internal.VP8 = Internal["VP8"] /\ "VP8" \in DOMAIN Internal
  BY DEF Internal, PayloadTypes

LEMMA MediaAreSections ==
    /\ Media \subseteq Sections /\ "session" \in Sections /\ "session" \notin Media
    /\ "audio" \in Media /\ "video" \in Media
    /\ \A m \in Sections : m \in Media \/ m = "session"
    /\ \A m \in Media : m = "audio" \/ m = "video"
    /\ \A c \in DOMAIN Internal : MediumOfCodec(c) \in Media
  BY DEF Media, Sections, MediumOfCodec

\* The line l of the section m is read next.
Adds(o, s, D, E, m, l) ==
    /\ m \in Sections /\ l \in o.lines[m]
    /\ \A k \in Sections : D[k] \subseteq o.lines[k]
    /\ E[m] = D[m] \cup {l}
    /\ \A k \in Sections : k # m => E[k] = D[k]
    /\ s.mtype = IF m = "session" THEN "other" ELSE m
    /\ m = "session" => D["video"] = {} /\ D["audio"] = {}

LEMMA OfGrows ==
    ASSUME NEW o, NEW s, NEW D, NEW E, NEW m, NEW l, Adds(o, s, D, E, m, l),
           NEW k \in Sections, NEW type
    PROVE  /\ k = m /\ l.type = type => Of(E, k, type) = Of(D, k, type) \cup {l}
           /\ k # m \/ l.type # type => Of(E, k, type) = Of(D, k, type)
  BY DEF Adds, Of

\* A line changes the field of its type alone.
OthersKept(s, l, r) ==
    /\ Shape(r) /\ r.has = s.has /\ r.mtype = s.mtype
    /\ l.type # "bundle" => r.bundle = s.bundle
    /\ l.type # "ufrag" => r.user = s.user
    /\ l.type # "candidate" => r.candidates = s.candidates
    /\ l.type # "direction" => r.direction = s.direction
    /\ l.type # "rtpmap" => r.payloads = s.payloads /\ r.inOut = s.inOut /\ r.outIn = s.outIn
    /\ l.type # "rtcp-fb" => r.feedback = s.feedback
    /\ l.type # "ssrc" => r.ssrc = s.ssrc

LEMMA ShapeIsKept ==
    ASSUME NEW s, NEW l, Shape(s), l.type \in {"bundle", "ufrag", "direction", "candidate",
                                               "rtpmap", "rtcp-fb", "ssrc"}
    PROVE  OthersKept(s, l, ReadLine(s, l))
  <1> DEFINE r == ReadLine(s, l)
  <1>1. CASE l.type = "bundle"
    <2>1. r = [s EXCEPT !.bundle = TRUE] BY <1>1 DEF ReadLine
    <2> HIDE DEF r
    <2>2. OthersKept(s, l, r) BY <2>1, <1>1 DEF OthersKept, Shape, Fields
    <2> QED BY <2>2 DEF r
  <1>2. CASE l.type = "ufrag"
    <2>1. r = [s EXCEPT !.user[MediumOf(s)] = l.value] BY <1>2 DEF ReadLine
    <2> HIDE DEF r
    <2>2. OthersKept(s, l, r) BY <2>1, <1>2 DEF OthersKept, Shape, Fields
    <2> QED BY <2>2 DEF r
  <1>3. CASE l.type = "direction"
    <2>1. r = [s EXCEPT !.direction[MediumOf(s)] = l.value] BY <1>3 DEF ReadLine
    <2> HIDE DEF r
    <2>2. OthersKept(s, l, r) BY <2>1, <1>3 DEF OthersKept, Shape, Fields
    <2> QED BY <2>2 DEF r
  <1>4. CASE l.type = "candidate"
    <2>1. r = Candidate(s, l) BY <1>4 DEF ReadLine
    <2> HIDE DEF r
    <2>2. OthersKept(s, l, r) BY <2>1, <1>4 DEF OthersKept, Shape, Fields, Candidate
    <2> QED BY <2>2 DEF r
  <1>5. CASE l.type = "rtpmap"
    <2>1. r = Rtpmap(s, l) BY <1>5 DEF ReadLine
    <2> HIDE DEF r
    <2>2. OthersKept(s, l, r) BY <2>1, <1>5 DEF OthersKept, Shape, Fields, Rtpmap, MapPayload
    <2> QED BY <2>2 DEF r
  <1>6. CASE l.type = "rtcp-fb"
    <2>1. r = Feedback(s, l) BY <1>6 DEF ReadLine
    <2> HIDE DEF r
    <2>2. OthersKept(s, l, r) BY <2>1, <1>6 DEF OthersKept, Shape, Fields, Feedback
    <2> QED BY <2>2 DEF r
  <1>7. CASE l.type = "ssrc"
    <2>1. r = Ssrc(s, l) BY <1>7 DEF ReadLine
    <2> HIDE DEF r
    <2>2. OthersKept(s, l, r) BY <2>1, <1>7 DEF OthersKept, Shape, Fields, Ssrc
    <2> QED BY <2>2 DEF r
  <1> QED BY <1>1, <1>2, <1>3, <1>4, <1>5, <1>6, <1>7

LEMMA BundleIsKept ==
    ASSUME NEW o \in Offers, NEW s, NEW D, NEW E, NEW m, NEW l,
           Reads(o, s, D), Adds(o, s, D, E, m, l)
    PROVE  BundleRead(ReadLine(s, l), E)
  <1> DEFINE r == ReadLine(s, l)
  <1>0. m \in Sections /\ l \in o.lines[m] BY DEF Adds
  <1>1. l.type \in {"bundle", "ufrag", "direction", "candidate", "rtpmap", "rtcp-fb", "ssrc"}
        /\ (l.type = "bundle" => m = "session")
    BY <1>0, LinesAreWell
  <1>2. BundleRead(s, D) /\ Shape(s) BY DEF Reads
  <1>3. CASE l.type = "bundle"
    <2>1. r = [s EXCEPT !.bundle = TRUE] BY <1>3 DEF ReadLine
    <2>2. r.bundle = TRUE
      <3> HIDE DEF r
      <3> QED BY <2>1, <1>2 DEF Shape, Fields
    <2>3. Of(E, "session", "bundle") = Of(D, "session", "bundle") \cup {l}
      BY <1>1, <1>3, <1>0, OfGrows
    <2>4. Of(E, "session", "bundle") # {} BY <2>3
    <2> HIDE DEF r
    <2>5. r.bundle BY <2>2
    <2>6. BundleRead(r, E) BY <2>5, <2>2, <2>4 DEF BundleRead
    <2> QED BY <2>6 DEF r
  <1>4. CASE l.type # "bundle"
    <2>1. r.bundle = s.bundle BY <1>1, <1>2, <1>4, ShapeIsKept DEF OthersKept
    <2>2. Of(E, "session", "bundle") = Of(D, "session", "bundle")
      BY <1>4, MediaAreSections, OfGrows
    <2> HIDE DEF r
    <2>6. BundleRead(r, E) BY <2>1, <2>2, <1>2 DEF BundleRead
    <2> QED BY <2>6 DEF r
  <1> QED BY <1>3, <1>4

LEMMA UserIsKept ==
    ASSUME NEW o \in Offers, NEW s, NEW D, NEW E, NEW m, NEW l,
           Reads(o, s, D), Adds(o, s, D, E, m, l)
    PROVE  UserRead(ReadLine(s, l), E)
  <1> DEFINE r == ReadLine(s, l)
  <1>0. m \in Sections /\ l \in o.lines[m] BY DEF Adds
  <1>1. l.type \in {"bundle", "ufrag", "direction", "candidate", "rtpmap", "rtcp-fb", "ssrc"}
    BY <1>0, LinesAreWell
  <1>2. UserRead(s, D) /\ Shape(s) BY DEF Reads
  <1>s. s.mtype = IF m = "session" THEN "other" ELSE m BY DEF Adds
  <1>e. m = "session" => Of(D, "video", "ufrag") = {} /\ Of(D, "audio", "ufrag") = {}
    BY DEF Adds, Of
  <1>3. CASE l.type = "ufrag"
    <2>1. r = [s EXCEPT !.user[MediumOf(s)] = l.value] BY <1>3 DEF ReadLine
    <2> DEFINE w == MediumOf(s)
    <2>2. w \in Media /\ (m = "audio" => w = "audio") /\ (m # "audio" => w = "video")
      BY <1>s, <1>0 DEF MediumOf, Media, Sections
    <2>3. r.user = [s.user EXCEPT ![w] = l.value]
      <3> HIDE DEF r, w
      <3>1. r = [s EXCEPT !.user[w] = l.value] BY <2>1 DEF w
      <3> QED BY <3>1, <1>2 DEF Shape, Fields
    <2>4. l \in Credentials(E, w) /\ \A k \in Media : k # w => Credentials(E, k) = Credentials(D, k)
      <3>1. CASE m = "audio"
        <4>1. Of(E, "audio", "ufrag") = Of(D, "audio", "ufrag") \cup {l}
              /\ Of(E, "video", "ufrag") = Of(D, "video", "ufrag")
              /\ Of(E, "session", "ufrag") = Of(D, "session", "ufrag")
          BY <3>1, <1>3, MediaAreSections, OfGrows
        <4> HIDE DEF w
        <4> QED BY <4>1, <2>2, <3>1 DEF Credentials, Media
      <3>2. CASE m = "video"
        <4>1. Of(E, "video", "ufrag") = Of(D, "video", "ufrag") \cup {l}
              /\ Of(E, "audio", "ufrag") = Of(D, "audio", "ufrag")
          BY <3>2, <1>3, MediaAreSections, OfGrows
        <4> HIDE DEF w
        <4> QED BY <4>1, <2>2, <3>2 DEF Credentials, Media
      <3>3. CASE m = "session"
        <4>1. Of(E, "session", "ufrag") = Of(D, "session", "ufrag") \cup {l}
              /\ Of(E, "audio", "ufrag") = Of(D, "audio", "ufrag")
              /\ Of(E, "video", "ufrag") = Of(D, "video", "ufrag")
          BY <3>3, <1>3, MediaAreSections, OfGrows
        <4> HIDE DEF w
        <4> QED BY <4>1, <1>e, <2>2, <3>3 DEF Credentials, Media
      <3> QED BY <3>1, <3>2, <3>3, <1>0 DEF Sections, Media
    <2> HIDE DEF r, w
    <2>5. r.user[w] = l.value /\ DOMAIN r.user = Media
          /\ \A k \in Media : k # w => r.user[k] = s.user[k]
      BY <2>3, <2>2, <1>2 DEF UserRead
    <2>6. \A k \in Media :
             /\ Credentials(E, k) = {} => r.user[k] = None
             /\ Credentials(E, k) # {} => \E x \in Credentials(E, k) : r.user[k] = x.value
      <3> TAKE k \in Media
      <3>1. CASE k = w BY <3>1, <2>4, <2>5
      <3>2. CASE k # w
        <4>1. Credentials(E, k) = Credentials(D, k) /\ r.user[k] = s.user[k] BY <3>2, <2>4, <2>5
        <4> QED BY <4>1, <1>2 DEF UserRead
      <3> QED BY <3>1, <3>2
    <2>7. UserRead(r, E) BY <2>5, <2>6 DEF UserRead
    <2> QED BY <2>7 DEF r
  <1>4. CASE l.type # "ufrag"
    <2>1. r.user = s.user BY <1>1, <1>2, <1>4, ShapeIsKept DEF OthersKept
    <2>2. Of(E, "session", "ufrag") = Of(D, "session", "ufrag")
          /\ Of(E, "audio", "ufrag") = Of(D, "audio", "ufrag")
          /\ Of(E, "video", "ufrag") = Of(D, "video", "ufrag")
      BY <1>4, MediaAreSections, OfGrows
    <2>3. \A k \in Media : Credentials(E, k) = Credentials(D, k)
      BY <2>2 DEF Credentials, Media
    <2> HIDE DEF r
    <2>6. UserRead(r, E) BY <2>1, <2>3, <1>2 DEF UserRead
    <2> QED BY <2>6 DEF r
  <1> QED BY <1>3, <1>4

LEMMA CandidatesAreKept ==
    ASSUME NEW o \in Offers, NEW s, NEW D, NEW E, NEW m, NEW l,
           Reads(o, s, D), Adds(o, s, D, E, m, l)
    PROVE  CandidatesRead(ReadLine(s, l), E)
  <1> DEFINE r == ReadLine(s, l)
  <1>0. m \in Sections /\ l \in o.lines[m] BY DEF Adds
  <1>1. l.type \in {"bundle", "ufrag", "direction", "candidate", "rtpmap", "rtcp-fb", "ssrc"}
        /\ (l.type = "candidate" => m \in Media)
    BY <1>0, LinesAreWell, MediaAreSections
  <1>2. CandidatesRead(s, D) /\ Shape(s) BY DEF Reads
  <1>s. m \in Media => s.mtype = m BY MediaAreSections DEF Adds
  <1>3. CASE l.type = "candidate"
    <2> DEFINE c == [id |-> l.id, component |-> l.component, medium |-> s.mtype,
                     user |-> s.user[MediumOf(s)]]
    <2>1. r = Candidate(s, l) BY <1>3 DEF ReadLine
    <2>2. DOMAIN c = {"id", "component", "medium", "user"} /\ c.medium = m /\ c.id = l.id
          /\ c.component = l.component /\ m \in Media
      BY <1>1, <1>3, <1>s
    <2>3. (l.protocol = "udp" => r.candidates = s.candidates \cup {c})
          /\ (l.protocol # "udp" => r.candidates = s.candidates)
      <3>1. l.protocol = "udp" => r = [s EXCEPT !.candidates = @ \cup {c}]
        BY <2>1 DEF Candidate
      <3>2. l.protocol # "udp" => r = s BY <2>1 DEF Candidate
      <3> HIDE DEF r, c
      <3> QED BY <3>1, <3>2, <1>2 DEF Shape, Fields
    <2> HIDE DEF r, c
    <2>4. \A x \in r.candidates :
             DOMAIN x = {"id", "component", "medium", "user"} /\ x.medium \in Media
      BY <2>2, <2>3, <1>2 DEF CandidatesRead
    <2>5. ASSUME NEW k \in Media, NEW x \in Of(E, k, "candidate"), x.protocol = "udp"
          PROVE  \E d \in r.candidates :
                    d.id = x.id /\ d.component = x.component /\ d.medium = k
      <3>1. CASE x \in Of(D, k, "candidate")
        <4>1. PICK d \in s.candidates : d.id = x.id /\ d.component = x.component /\ d.medium = k
          BY <3>1, <2>5, <1>2 DEF CandidatesRead
        <4> QED BY <4>1, <2>3
      <3>2. CASE x \notin Of(D, k, "candidate")
        <4>1. x = l /\ k = m BY <3>2, <1>3, <2>5, MediaAreSections, OfGrows
        <4> QED BY <4>1, <2>5, <2>2, <2>3
      <3> QED BY <3>1, <3>2
    <2>7. CandidatesRead(r, E) BY <2>4, <2>5 DEF CandidatesRead
    <2> QED BY <2>7 DEF r
  <1>4. CASE l.type # "candidate"
    <2>1. r.candidates = s.candidates BY <1>1, <1>2, <1>4, ShapeIsKept DEF OthersKept
    <2>2. \A k \in Media : Of(E, k, "candidate") = Of(D, k, "candidate")
      BY <1>4, MediaAreSections, OfGrows
    <2> HIDE DEF r
    <2>6. CandidatesRead(r, E) BY <2>1, <2>2, <1>2 DEF CandidatesRead
    <2> QED BY <2>6 DEF r
  <1> QED BY <1>3, <1>4

LEMMA DirectionIsKept ==
    ASSUME NEW o \in Offers, NEW s, NEW D, NEW E, NEW m, NEW l,
           Reads(o, s, D), Adds(o, s, D, E, m, l)
    PROVE  DirectionRead(ReadLine(s, l), E)
  <1> DEFINE r == ReadLine(s, l)
  <1>0. m \in Sections /\ l \in o.lines[m] /\ D[m] \subseteq o.lines[m] BY DEF Adds
  <1>1. l.type \in {"bundle", "ufrag", "direction", "candidate", "rtpmap", "rtcp-fb", "ssrc"}
        /\ (l.type = "direction" => \A k \in o.lines[m] : k.type = "direction" => k = l)
    BY <1>0, LinesAreWell, MediaAreSections
  <1>2. DirectionRead(s, D) /\ Shape(s) BY DEF Reads
  <1>s. s.mtype = IF m = "session" THEN "other" ELSE m BY DEF Adds
  <1>e. m = "session" => Of(D, "video", "direction") = {} BY DEF Adds, Of
  <1>3. CASE l.type = "direction"
    <2>1. r = [s EXCEPT !.direction[MediumOf(s)] = l.value] BY <1>3 DEF ReadLine
    <2> DEFINE w == MediumOf(s)
    <2>2. w \in Media /\ (m = "audio" => w = "audio") /\ (m # "audio" => w = "video")
      BY <1>s, <1>0 DEF MediumOf, Media, Sections
    <2>3. r.direction = [s.direction EXCEPT ![w] = l.value]
      <3> HIDE DEF r, w
      <3>1. r = [s EXCEPT !.direction[w] = l.value] BY <2>1 DEF w
      <3> QED BY <3>1, <1>2 DEF Shape, Fields
    <2> HIDE DEF r, w
    <2>5. r.direction[w] = l.value /\ DOMAIN r.direction = Media
          /\ \A k \in Media : k # w => r.direction[k] = s.direction[k]
      BY <2>3, <2>2, <1>2 DEF DirectionRead
    <2>6. ASSUME NEW k \in Media, NEW x \in Of(E, k, "direction")
          PROVE  r.direction[k] = x.value
      <3>1. CASE k = m
        <4>1. x \in o.lines[m] /\ x.type = "direction" BY <3>1, <1>0, <2>6 DEF Of, Adds
        <4>2. x = l BY <4>1, <1>1, <1>3
        <4>3. w = k BY <2>2, <3>1 DEF Media
        <4> QED BY <4>2, <4>3, <2>5
      <3>2. CASE k # m
        <4>1. x \in Of(D, k, "direction") BY <3>2, <2>6, MediaAreSections, OfGrows
        <4>2. k # w BY <4>1, <3>2, <2>2, <1>e, <1>0 DEF Sections, Media
        <4> QED BY <4>1, <4>2, <2>5, <1>2 DEF DirectionRead
      <3> QED BY <3>1, <3>2
    <2>7. DirectionRead(r, E) BY <2>5, <2>6 DEF DirectionRead
    <2> QED BY <2>7 DEF r
  <1>4. CASE l.type # "direction"
    <2>1. r.direction = s.direction BY <1>1, <1>2, <1>4, ShapeIsKept DEF OthersKept
    <2>2. \A k \in Media : Of(E, k, "direction") = Of(D, k, "direction")
      BY <1>4, MediaAreSections, OfGrows
    <2> HIDE DEF r
    <2>6. DirectionRead(r, E) BY <2>1, <2>2, <1>2 DEF DirectionRead
    <2> QED BY <2>6 DEF r
  <1> QED BY <1>3, <1>4

LEMMA SsrcIsKept ==
    ASSUME NEW o \in Offers, NEW s, NEW D, NEW E, NEW m, NEW l,
           Reads(o, s, D), Adds(o, s, D, E, m, l)
    PROVE  SsrcRead(ReadLine(s, l), E)
  <1> DEFINE r == ReadLine(s, l)
  <1>0. m \in Sections /\ l \in o.lines[m] /\ D[m] \subseteq o.lines[m] BY DEF Adds
  <1>1. l.type \in {"bundle", "ufrag", "direction", "candidate", "rtpmap", "rtcp-fb", "ssrc"}
        /\ (l.type = "ssrc" => m \in Media)
    BY <1>0, LinesAreWell, MediaAreSections
  <1>2. SsrcRead(s, D) /\ Shape(s) BY DEF Reads
  <1>s. m \in Media => s.mtype = m BY MediaAreSections DEF Adds
  <1>3. CASE l.type = "ssrc"
    <2>1. r = Ssrc(s, l) BY <1>3 DEF ReadLine
    <2>2. s.mtype = m /\ m \in Media BY <1>1, <1>3, <1>s
    <2>3. Of(E, m, "ssrc") = Of(D, m, "ssrc") \cup {l}
          /\ \A k \in Media : k # m => Of(E, k, "ssrc") = Of(D, k, "ssrc")
      BY <1>0, <1>3, MediaAreSections, OfGrows
    <2>4. CASE s.ssrc[m] = 0
      <3>1. r = [s EXCEPT !.ssrc[m] = l.value] BY <2>1, <2>2, <2>4 DEF Ssrc
      <3> HIDE DEF r
      <3>2. r.ssrc = [s.ssrc EXCEPT ![m] = l.value] BY <3>1, <1>2 DEF Shape, Fields
      <3>3. r.ssrc[m] = l.value /\ DOMAIN r.ssrc = Media
            /\ \A k \in Media : k # m => r.ssrc[k] = s.ssrc[k]
        BY <3>2, <2>2, <1>2 DEF SsrcRead
      <3>4. l \in Of(E, m, "ssrc") BY <2>3
      <3>5. ASSUME NEW k \in Media
            PROVE  /\ Of(E, k, "ssrc") = {} => r.ssrc[k] = 0
                   /\ Of(E, k, "ssrc") # {} => \E x \in Of(E, k, "ssrc") : r.ssrc[k] = x.value
        <4>1. CASE k = m BY <4>1, <3>3, <3>4
        <4>2. CASE k # m
          <5>1. Of(E, k, "ssrc") = Of(D, k, "ssrc") /\ r.ssrc[k] = s.ssrc[k] BY <4>2, <2>3, <3>3
          <5> QED BY <5>1, <1>2 DEF SsrcRead
        <4> QED BY <4>1, <4>2
      <3>7. SsrcRead(r, E) BY <3>3, <3>5 DEF SsrcRead
      <3> QED BY <3>7 DEF r
    <2>5. CASE s.ssrc[m] # 0
      <3>1. r = s BY <2>1, <2>2, <2>5 DEF Ssrc
      <3> HIDE DEF r
      <3>2. Of(D, m, "ssrc") # {} BY <2>5, <2>2, <1>2 DEF SsrcRead
      <3>3. PICK y \in Of(D, m, "ssrc") : s.ssrc[m] = y.value BY <3>2, <2>2, <1>2 DEF SsrcRead
      <3>4. y \in Of(E, m, "ssrc") BY <3>3, <2>3
      <3>5. ASSUME NEW k \in Media
            PROVE  /\ Of(E, k, "ssrc") = {} => r.ssrc[k] = 0
                   /\ Of(E, k, "ssrc") # {} => \E x \in Of(E, k, "ssrc") : r.ssrc[k] = x.value
        <4>1. CASE k = m BY <4>1, <3>1, <3>3, <3>4
        <4>2. CASE k # m
          <5>1. Of(E, k, "ssrc") = Of(D, k, "ssrc") BY <4>2, <2>3
          <5> QED BY <5>1, <3>1, <1>2 DEF SsrcRead
        <4> QED BY <4>1, <4>2
      <3>6. DOMAIN r.ssrc = Media BY <3>1, <1>2 DEF SsrcRead
      <3>7. SsrcRead(r, E) BY <3>6, <3>5 DEF SsrcRead
      <3> QED BY <3>7 DEF r
    <2> QED BY <2>4, <2>5
  <1>4. CASE l.type # "ssrc"
    <2>1. r.ssrc = s.ssrc BY <1>1, <1>2, <1>4, ShapeIsKept DEF OthersKept
    <2>2. \A k \in Media : Of(E, k, "ssrc") = Of(D, k, "ssrc")
      BY <1>4, MediaAreSections, OfGrows
    <2> HIDE DEF r
    <2>6. SsrcRead(r, E) BY <2>1, <2>2, <1>2 DEF SsrcRead
    <2> QED BY <2>6 DEF r
  <1> QED BY <1>3, <1>4

LEMMA FeedbackIsKept ==
    ASSUME NEW o \in Offers, NEW s, NEW D, NEW E, NEW m, NEW l,
           Reads(o, s, D), Adds(o, s, D, E, m, l)
    PROVE  FeedbackRead(ReadLine(s, l), E)
  <1> DEFINE r == ReadLine(s, l)
  <1>0. m \in Sections /\ l \in o.lines[m] /\ D[m] \subseteq o.lines[m] BY DEF Adds
  <1>1. l.type \in {"bundle", "ufrag", "direction", "candidate", "rtpmap", "rtcp-fb", "ssrc"}
        /\ (l.type = "rtcp-fb" => m \in Media)
    BY <1>0, LinesAreWell, MediaAreSections
  <1>2. FeedbackRead(s, D) /\ Shape(s) BY DEF Reads
  <1>3. CASE l.type = "rtcp-fb"
    <2> DEFINE f == [pt |-> l.pt, value |-> l.value]
    <2>1. r = [s EXCEPT !.feedback = @ \cup {f}] BY <1>3 DEF ReadLine, Feedback
    <2>2. f.pt = l.pt /\ f.value = l.value /\ m \in Media BY <1>1, <1>3
    <2>3. Of(E, m, "rtcp-fb") = Of(D, m, "rtcp-fb") \cup {l}
          /\ \A k \in Media : k # m => Of(E, k, "rtcp-fb") = Of(D, k, "rtcp-fb")
      BY <1>0, <1>3, MediaAreSections, OfGrows
    <2>l. f = [pt |-> l.pt, value |-> l.value] OBVIOUS
    <2> HIDE DEF r, f
    <2>4. r.feedback = s.feedback \cup {f} BY <2>1, <1>2 DEF Shape, Fields
    <2>5. ASSUME NEW g \in r.feedback
          PROVE  \E k \in Media : \E x \in Of(E, k, "rtcp-fb") : g.pt = x.pt /\ g.value = x.value
      <3>1. CASE g = f BY <3>1, <2>2, <2>3
      <3>2. CASE g # f
        <4>1. PICK k \in Media : \E x \in Of(D, k, "rtcp-fb") : g.pt = x.pt /\ g.value = x.value
          BY <3>2, <2>4, <2>5, <1>2 DEF FeedbackRead
        <4>2. PICK x \in Of(D, k, "rtcp-fb") : g.pt = x.pt /\ g.value = x.value BY <4>1
        <4>3. x \in Of(E, k, "rtcp-fb") BY <4>2, <2>3
        <4> QED BY <4>2, <4>3
      <3> QED BY <3>1, <3>2
    <2>6. ASSUME NEW k \in Media, NEW x \in Of(E, k, "rtcp-fb")
          PROVE  [pt |-> x.pt, value |-> x.value] \in r.feedback
      <3>1. CASE x = l BY <3>1, <2>4, <2>l
      <3>2. CASE x # l
        <4>1. x \in Of(D, k, "rtcp-fb") BY <3>2, <2>6, <2>3
        <4> QED BY <4>1, <2>4, <1>2 DEF FeedbackRead
      <3> QED BY <3>1, <3>2
    <2>7. FeedbackRead(r, E) BY <2>5, <2>6 DEF FeedbackRead
    <2> QED BY <2>7 DEF r
  <1>4. CASE l.type # "rtcp-fb"
    <2>1. r.feedback = s.feedback BY <1>1, <1>2, <1>4, ShapeIsKept DEF OthersKept
    <2>2. \A k \in Media : Of(E, k, "rtcp-fb") = Of(D, k, "rtcp-fb")
      BY <1>4, MediaAreSections, OfGrows
    <2> HIDE DEF r
    <2>6. FeedbackRead(r, E) BY <2>1, <2>2, <1>2 DEF FeedbackRead
    <2> QED BY <2>6 DEF r
  <1> QED BY <1>3, <1>4

PayloadOf(s, l) == [pt |-> l.pt, codec |-> l.codec, medium |-> s.mtype, feedback |-> {}]
WithPayload(s, l) == Append(s.payloads, PayloadOf(s, l))

\* An rtpmap line of a codec that the server knows.
LEMMA RtpmapReads ==
    ASSUME NEW s, NEW l, Shape(s), l.type = "rtpmap",
           s.inOut \in Map, s.outIn \in Map, s.payloads \in Seq(Payloads), l.pt \in PayloadTypes
    PROVE  /\ ~Known(l.codec) => ReadLine(s, l) = s
           /\ Known(l.codec) =>
                 /\ ReadLine(s, l).outIn = [s.outIn EXCEPT ![l.pt] = Internal[l.codec]]
                 /\ ReadLine(s, l).inOut = [s.inOut EXCEPT ![Internal[l.codec]] = l.pt]
                 /\ ReadLine(s, l).payloads = WithPayload(s, l)
  <1> DEFINE r == ReadLine(s, l)
             p == [pt |-> l.pt, codec |-> l.codec, medium |-> s.mtype, feedback |-> {}]
             n == Internal[l.codec]
             t == [s EXCEPT !.outIn[l.pt] = n, !.inOut[n] = l.pt]
  <1>1. r = Rtpmap(s, l) BY DEF ReadLine
  <1>2. ~Known(l.codec) => r = s BY <1>1 DEF Rtpmap
  <1>3. ASSUME Known(l.codec)
        PROVE  r.outIn = [s.outIn EXCEPT ![l.pt] = n] /\ r.inOut = [s.inOut EXCEPT ![n] = l.pt]
               /\ r.payloads = Append(s.payloads, p)
    <2>1. InternalOf(l.codec) = n BY <1>3 DEF InternalOf, Known
    <2>2. MapPayload(s, l.pt, l.codec) = t BY <2>1 DEF MapPayload
    <2>3. r = [t EXCEPT !.payloads = Append(@, p)] BY <1>1, <1>3, <2>2 DEF Rtpmap
    <2>4. t = [s EXCEPT !.outIn[l.pt] = n, !.inOut[n] = l.pt] OBVIOUS
    <2> HIDE DEF r, p, n, t
    <2>5. DOMAIN t = Fields /\ t.payloads = s.payloads
          /\ t.outIn = [s.outIn EXCEPT ![l.pt] = n] /\ t.inOut = [s.inOut EXCEPT ![n] = l.pt]
      BY <2>4 DEF Shape, Fields
    <2> QED BY <2>3, <2>5 DEF Fields
  <1> QED BY <1>2, <1>3 DEF PayloadOf, WithPayload

\* What such a line finds.
LEMMA RtpmapIsWell ==
    ASSUME NEW o \in Offers, NEW s, NEW D, NEW E, NEW m, NEW l,
           Reads(o, s, D), Adds(o, s, D, E, m, l), l.type = "rtpmap"
    PROVE  /\ m \in Media /\ s.mtype = m /\ l.pt \in PayloadTypes
           /\ Known(l.codec) => MediumOfCodec(l.codec) = m
           /\ Of(E, m, "rtpmap") = Of(D, m, "rtpmap") \cup {l}
           /\ \A k \in Media : k # m => Of(E, k, "rtpmap") = Of(D, k, "rtpmap")
           /\ \A x \in Of(D, m, "rtpmap") : x.pt = l.pt => x.codec = l.codec
           /\ ~Shared(o) =>
                 \A k \in Media : k # m => \A x \in Of(D, k, "rtpmap") : x.pt # l.pt
           /\ Shape(s) /\ s.inOut \in Map /\ s.outIn \in Map /\ s.payloads \in Seq(Payloads)
  <1>0. m \in Sections /\ l \in o.lines[m] /\ \A k \in Sections : D[k] \subseteq o.lines[k]
    BY DEF Adds
  <1>1. m \in Media /\ l.pt \in PayloadTypes
        /\ (l.codec \in DOMAIN Internal => MediumOfCodec(l.codec) = m)
        /\ \A k \in o.lines[m] : k.type = "rtpmap" /\ k.pt = l.pt => k.codec = l.codec
    BY <1>0, LinesAreWell, MediaAreSections
  <1>2. s.mtype = m BY <1>1, MediaAreSections DEF Adds
  <1>3. Of(E, m, "rtpmap") = Of(D, m, "rtpmap") \cup {l}
        /\ \A k \in Media : k # m => Of(E, k, "rtpmap") = Of(D, k, "rtpmap")
    BY <1>0, MediaAreSections, OfGrows
  <1>4. \A x \in Of(D, m, "rtpmap") : x.pt = l.pt => x.codec = l.codec BY <1>0, <1>1 DEF Of
  <1>5. ASSUME ~Shared(o), NEW k \in Media, k # m, NEW x \in Of(D, k, "rtpmap"), x.pt = l.pt
        PROVE  FALSE
    <2>1. x \in Lines(o, k, "rtpmap") /\ l \in Lines(o, m, "rtpmap")
      BY <1>0, <1>5, MediaAreSections DEF Of, Lines
    <2> QED BY <2>1, <1>1, <1>5 DEF Shared, Media
  <1>6. Shape(s) /\ s.inOut \in Map /\ s.outIn \in Map /\ s.payloads \in Seq(Payloads)
    BY DEF Reads, InwardRead, OutwardRead, PayloadsRead
  <1> QED BY <1>1, <1>2, <1>3, <1>4, <1>5, <1>6 DEF Known

LEMMA InwardIsKept ==
    ASSUME NEW o \in Offers, NEW s, NEW D, NEW E, NEW m, NEW l,
           Reads(o, s, D), Adds(o, s, D, E, m, l)
    PROVE  InwardRead(o, ReadLine(s, l), E)
  <1> DEFINE r == ReadLine(s, l)
  <1>0. m \in Sections /\ l \in o.lines[m] /\ D[m] \subseteq o.lines[m] BY DEF Adds
  <1>1. l.type \in {"bundle", "ufrag", "direction", "candidate", "rtpmap", "rtcp-fb", "ssrc"}
    BY <1>0, LinesAreWell, MediaAreSections
  <1>2. InwardRead(o, s, D) /\ Shape(s) BY DEF Reads
  <1>3. CASE l.type = "rtpmap"
    <2>1. /\ m \in Media /\ s.mtype = m /\ l.pt \in PayloadTypes
          /\ Of(E, m, "rtpmap") = Of(D, m, "rtpmap") \cup {l}
          /\ \A k \in Media : k # m => Of(E, k, "rtpmap") = Of(D, k, "rtpmap")
          /\ \A x \in Of(D, m, "rtpmap") : x.pt = l.pt => x.codec = l.codec
          /\ ~Shared(o) =>
                \A k \in Media : k # m => \A x \in Of(D, k, "rtpmap") : x.pt # l.pt
          /\ s.inOut \in Map /\ s.outIn \in Map /\ s.payloads \in Seq(Payloads)
      BY <1>3, RtpmapIsWell
    <2>2. ~Known(l.codec) => r = s BY <2>1, <1>2, <1>3, RtpmapReads
    <2>3. Known(l.codec) => r.outIn = [s.outIn EXCEPT ![l.pt] = Internal[l.codec]]
      BY <2>1, <1>2, <1>3, RtpmapReads
    <2>4. Known(l.codec) => Internal[l.codec] \in PayloadTypes BY InternalNumbers DEF Known
    <2> HIDE DEF r
    <2>5. r.outIn \in Map BY <2>1, <2>2, <2>3, <2>4 DEF Map
    <2>6. ASSUME ~Shared(o), NEW k \in Media, NEW x \in Of(E, k, "rtpmap"), Known(x.codec)
          PROVE  r.outIn[x.pt] = Internal[x.codec]
      <3>1. CASE Known(l.codec) /\ x.pt = l.pt
        <4>1. x.codec = l.codec BY <2>1, <2>6, <3>1
        <4> QED BY <4>1, <3>1, <2>1, <2>3 DEF Map
      <3>2. CASE ~(Known(l.codec) /\ x.pt = l.pt)
        <4>1. x \in Of(D, k, "rtpmap") BY <2>1, <2>6, <3>2
        <4>2. s.outIn[x.pt] = Internal[x.codec] BY <4>1, <2>6, <1>2 DEF InwardRead
        <4>3. r.outIn[x.pt] = s.outIn[x.pt]
          <5>1. CASE ~Known(l.codec) BY <5>1, <2>2
          <5>2. CASE Known(l.codec)
            <6>1. x.pt # l.pt BY <5>2, <3>2
            <6>2. k \in Sections /\ x \in o.lines[k] /\ x.type = "rtpmap"
              BY <4>1, MediaAreSections DEF Of, Adds
            <6>3. x.pt \in PayloadTypes BY <6>2, LinesAreWell
            <6> QED BY <6>1, <6>3, <5>2, <2>3, <2>1 DEF Map
          <5> QED BY <5>1, <5>2
        <4> QED BY <4>2, <4>3
      <3> QED BY <3>1, <3>2
    <2>7. InwardRead(o, r, E) BY <2>5, <2>6 DEF InwardRead
    <2> QED BY <2>7 DEF r
  <1>4. CASE l.type # "rtpmap"
    <2>1. r.outIn = s.outIn BY <1>1, <1>2, <1>4, ShapeIsKept DEF OthersKept
    <2>2. \A k \in Media : Of(E, k, "rtpmap") = Of(D, k, "rtpmap")
      BY <1>4, MediaAreSections, OfGrows
    <2> HIDE DEF r
    <2>6. InwardRead(o, r, E) BY <2>1, <2>2, <1>2 DEF InwardRead
    <2> QED BY <2>6 DEF r
  <1> QED BY <1>3, <1>4

LEMMA OutwardIsKept ==
    ASSUME NEW o \in Offers, NEW s, NEW D, NEW E, NEW m, NEW l,
           Reads(o, s, D), Adds(o, s, D, E, m, l)
    PROVE  OutwardRead(ReadLine(s, l), E)
  <1> DEFINE r == ReadLine(s, l)
  <1>0. m \in Sections /\ l \in o.lines[m] /\ D[m] \subseteq o.lines[m] BY DEF Adds
  <1>1. l.type \in {"bundle", "ufrag", "direction", "candidate", "rtpmap", "rtcp-fb", "ssrc"}
    BY <1>0, LinesAreWell, MediaAreSections
  <1>2. OutwardRead(s, D) /\ Shape(s) BY DEF Reads
  <1>3. CASE l.type = "rtpmap"
    <2>1. /\ m \in Media /\ s.mtype = m /\ l.pt \in PayloadTypes
          /\ Known(l.codec) => MediumOfCodec(l.codec) = m
          /\ Of(E, m, "rtpmap") = Of(D, m, "rtpmap") \cup {l}
          /\ \A k \in Media : k # m => Of(E, k, "rtpmap") = Of(D, k, "rtpmap")
          /\ s.inOut \in Map /\ s.outIn \in Map /\ s.payloads \in Seq(Payloads)
      BY <1>3, RtpmapIsWell
    <2>2. ~Known(l.codec) => r = s BY <2>1, <1>2, <1>3, RtpmapReads
    <2>3. Known(l.codec) => r.inOut = [s.inOut EXCEPT ![Internal[l.codec]] = l.pt]
      BY <2>1, <1>2, <1>3, RtpmapReads
    <2>4. Known(l.codec) => l.codec \in DOMAIN Internal /\ Internal[l.codec] \in PayloadTypes
      BY InternalNumbers DEF Known
    <2> HIDE DEF r
    <2>5. r.inOut \in Map BY <2>1, <2>2, <2>3, <2>4 DEF Map
    <2>6. ASSUME NEW c \in DOMAIN Internal
          PROVE  /\ OfCodec(E, c) = {} => r.inOut[Internal[c]] = Absent
                 /\ OfCodec(E, c) # {} => \E x \in OfCodec(E, c) : r.inOut[Internal[c]] = x.pt
      <3>1. CASE c = l.codec
        <4>1. Known(l.codec) /\ l \in OfCodec(E, c) BY <3>1, <2>1, <2>6 DEF OfCodec, Known
        <4>2. r.inOut[Internal[c]] = l.pt BY <4>1, <3>1, <2>1, <2>3, <2>4 DEF Map
        <4> QED BY <4>1, <4>2
      <3>2. CASE c # l.codec
        <4>1. OfCodec(E, c) = OfCodec(D, c)
          <5>1. MediumOfCodec(c) \in Media BY MediaAreSections
          <5> QED BY <5>1, <3>2, <2>1 DEF OfCodec
        <4>2. r.inOut[Internal[c]] = s.inOut[Internal[c]]
          <5>1. CASE ~Known(l.codec) BY <5>1, <2>2
          <5>2. CASE Known(l.codec)
            <6>1. Internal[c] # Internal[l.codec] BY <3>2, <2>4, <5>2, InternalNumbers
            <6>2. Internal[c] \in PayloadTypes BY InternalNumbers
            <6> QED BY <6>1, <6>2, <5>2, <2>3, <2>1 DEF Map
          <5> QED BY <5>1, <5>2
        <4> QED BY <4>1, <4>2, <1>2 DEF OutwardRead
      <3> QED BY <3>1, <3>2
    <2>7. OutwardRead(r, E) BY <2>5, <2>6 DEF OutwardRead
    <2> QED BY <2>7 DEF r
  <1>4. CASE l.type # "rtpmap"
    <2>1. r.inOut = s.inOut BY <1>1, <1>2, <1>4, ShapeIsKept DEF OthersKept
    <2>2. \A k \in Media : Of(E, k, "rtpmap") = Of(D, k, "rtpmap")
      BY <1>4, MediaAreSections, OfGrows
    <2>3. \A c \in DOMAIN Internal : OfCodec(E, c) = OfCodec(D, c)
      BY <2>2, MediaAreSections DEF OfCodec
    <2> HIDE DEF r
    <2>6. OutwardRead(r, E) BY <2>1, <2>3, <1>2 DEF OutwardRead
    <2> QED BY <2>6 DEF r
  <1> QED BY <1>3, <1>4

LEMMA PayloadsAreKept ==
    ASSUME NEW o \in Offers, NEW s, NEW D, NEW E, NEW m, NEW l,
           Reads(o, s, D), Adds(o, s, D, E, m, l)
    PROVE  PayloadsRead(ReadLine(s, l), E)
  <1> DEFINE r == ReadLine(s, l)
  <1>0. m \in Sections /\ l \in o.lines[m] /\ D[m] \subseteq o.lines[m] BY DEF Adds
  <1>1. l.type \in {"bundle", "ufrag", "direction", "candidate", "rtpmap", "rtcp-fb", "ssrc"}
    BY <1>0, LinesAreWell, MediaAreSections
  <1>2. PayloadsRead(s, D) /\ Shape(s) BY DEF Reads
  <1>3. CASE l.type = "rtpmap"
    <2>1. /\ m \in Media /\ s.mtype = m /\ l.pt \in PayloadTypes
          /\ Of(E, m, "rtpmap") = Of(D, m, "rtpmap") \cup {l}
          /\ \A k \in Media : k # m => Of(E, k, "rtpmap") = Of(D, k, "rtpmap")
          /\ s.inOut \in Map /\ s.outIn \in Map /\ s.payloads \in Seq(Payloads)
      BY <1>3, RtpmapIsWell
    <2>2. ASSUME Known(l.codec) PROVE PayloadsRead(r, E)
      <3> DEFINE p == PayloadOf(s, l)
      <3>0. /\ m \in Media /\ s.mtype = m /\ l.pt \in PayloadTypes /\ Shape(s)
            /\ s.inOut \in Map /\ s.outIn \in Map /\ s.payloads \in Seq(Payloads)
            /\ Known(l.codec) /\ l.type = "rtpmap"
        BY <2>2, <2>1, <1>2, <1>3
      <3>1. r.payloads = Append(s.payloads, p)
        <4>1. ReadLine(s, l).payloads = WithPayload(s, l) BY ONLY <3>0, RtpmapReads
        <4> QED BY <4>1 DEF WithPayload
      <3>2. p \in Payloads /\ p.pt = l.pt /\ p.codec = l.codec /\ p.medium = m
        BY <2>1, <2>2 DEF Payloads, Known, PayloadOf
      <3> HIDE DEF r, p
      <3>3. r.payloads \in Seq(Payloads) BY <3>1, <3>2, <2>1, AppendProperties
      <3>n. Len(s.payloads) \in Nat /\ DOMAIN s.payloads = 1 .. Len(s.payloads)
        BY <2>1, LenProperties
      <3>4. DOMAIN r.payloads = 1 .. (Len(s.payloads) + 1)
            /\ r.payloads[Len(s.payloads) + 1] = p
            /\ \A i \in DOMAIN s.payloads : r.payloads[i] = s.payloads[i]
        BY <3>1, <3>2, <3>n, <2>1, AppendProperties
      <3>5. ASSUME NEW i \in DOMAIN r.payloads
            PROVE  \E x \in Of(E, r.payloads[i].medium, "rtpmap") :
                      x.pt = r.payloads[i].pt /\ x.codec = r.payloads[i].codec
        <4>1. CASE i = Len(s.payloads) + 1 BY <4>1, <3>4, <3>2, <2>1
        <4>2. CASE i # Len(s.payloads) + 1
          <5>1. i \in DOMAIN s.payloads BY <4>2, <3>4, <3>n
          <5>2. r.payloads[i] = s.payloads[i] BY <5>1, <3>4
          <5>3. s.payloads[i].medium \in Media
            <6>1. s.payloads[i] \in Payloads BY <5>1, <2>1, ElementOfSeq, <3>n
            <6> QED BY <6>1 DEF Payloads
          <5>4. PICK x \in Of(D, s.payloads[i].medium, "rtpmap") :
                    x.pt = s.payloads[i].pt /\ x.codec = s.payloads[i].codec
            BY <5>1, <1>2 DEF PayloadsRead
          <5>5. x \in Of(E, s.payloads[i].medium, "rtpmap") BY <5>4, <5>3, <2>1
          <5> QED BY <5>2, <5>4, <5>5
        <4> QED BY <4>1, <4>2
      <3>6. ASSUME NEW k \in Media, NEW x \in Of(E, k, "rtpmap"), Known(x.codec)
            PROVE  \E i \in DOMAIN r.payloads :
                      r.payloads[i].pt = x.pt /\ r.payloads[i].codec = x.codec
                      /\ r.payloads[i].medium = k
        <4>1. CASE x \in Of(D, k, "rtpmap")
          <5>1. PICK i \in DOMAIN s.payloads :
                   s.payloads[i].pt = x.pt /\ s.payloads[i].codec = x.codec
                   /\ s.payloads[i].medium = k
            BY <4>1, <3>6, <1>2 DEF PayloadsRead
          <5>2. i \in DOMAIN r.payloads /\ r.payloads[i] = s.payloads[i] BY <5>1, <3>4, <3>n
          <5> QED BY <5>1, <5>2
        <4>2. CASE x \notin Of(D, k, "rtpmap")
          <5>1. x = l /\ k = m BY <4>2, <3>6, <2>1
          <5>2. Len(s.payloads) + 1 \in DOMAIN r.payloads BY <3>4, <3>n
          <5> QED BY <5>1, <5>2, <3>2, <3>4
        <4> QED BY <4>1, <4>2
      <3> QED BY <3>3, <3>5, <3>6 DEF PayloadsRead
    <2>3. ASSUME ~Known(l.codec) PROVE PayloadsRead(r, E)
      <3>1. r = s BY <2>3, <2>1, <1>2, <1>3, RtpmapReads
      <3> HIDE DEF r
      <3>5. ASSUME NEW i \in DOMAIN s.payloads
            PROVE  \E x \in Of(E, s.payloads[i].medium, "rtpmap") :
                      x.pt = s.payloads[i].pt /\ x.codec = s.payloads[i].codec
          <5>n. DOMAIN s.payloads = 1 .. Len(s.payloads) BY <2>1, LenProperties
          <5>3. s.payloads[i].medium \in Media
            <6>1. s.payloads[i] \in Payloads BY <3>5, <2>1, ElementOfSeq, <5>n
            <6> QED BY <6>1 DEF Payloads
          <5>4. PICK x \in Of(D, s.payloads[i].medium, "rtpmap") :
                    x.pt = s.payloads[i].pt /\ x.codec = s.payloads[i].codec
            BY <3>5, <1>2 DEF PayloadsRead
          <5>5. x \in Of(E, s.payloads[i].medium, "rtpmap") BY <5>4, <5>3, <2>1
          <5> QED BY <5>4, <5>5
      <3>6. ASSUME NEW k \in Media, NEW x \in Of(E, k, "rtpmap"), Known(x.codec)
            PROVE  \E i \in DOMAIN s.payloads :
                      s.payloads[i].pt = x.pt /\ s.payloads[i].codec = x.codec
                      /\ s.payloads[i].medium = k
        <4>1. x \in Of(D, k, "rtpmap") BY <2>3, <3>6, <2>1
        <4> QED BY <4>1, <3>6, <1>2 DEF PayloadsRead
      <3>7. PayloadsRead(s, E) BY <2>1, <3>5, <3>6 DEF PayloadsRead
      <3> QED BY <3>1, <3>7
    <2> QED BY <2>2, <2>3
  <1>4. CASE l.type # "rtpmap"
    <2>1. r.payloads = s.payloads BY <1>1, <1>2, <1>4, ShapeIsKept DEF OthersKept
    <2>2. \A k \in Media : Of(E, k, "rtpmap") = Of(D, k, "rtpmap")
      BY <1>4, MediaAreSections, OfGrows
    <2> HIDE DEF r
    <2>5. ASSUME NEW i \in DOMAIN s.payloads
          PROVE  Of(E, s.payloads[i].medium, "rtpmap") = Of(D, s.payloads[i].medium, "rtpmap")
      <3>1. s.payloads \in Seq(Payloads) BY <1>2 DEF PayloadsRead
      <3>2. DOMAIN s.payloads = 1 .. Len(s.payloads) BY <3>1, LenProperties
      <3>3. s.payloads[i] \in Payloads BY <2>5, <3>1, <3>2, ElementOfSeq
      <3>4. s.payloads[i].medium \in Media BY <3>3 DEF Payloads
      <3> QED BY <3>4, <2>2
    <2>6. PayloadsRead(r, E) BY <2>1, <2>2, <2>5, <1>2 DEF PayloadsRead
    <2> QED BY <2>6 DEF r
  <1> QED BY <1>3, <1>4

LEMMA ReadLineReads ==
    ASSUME NEW o \in Offers, NEW s, NEW D, NEW E, NEW m, NEW l,
           Reads(o, s, D), Adds(o, s, D, E, m, l)
    PROVE  Reads(o, ReadLine(s, l), E) /\ ReadLine(s, l).has = s.has
           /\ ReadLine(s, l).mtype = s.mtype
  <1>1. m \in Sections /\ l \in o.lines[m] BY DEF Adds
  <1>2. l.type \in {"bundle", "ufrag", "direction", "candidate", "rtpmap", "rtcp-fb", "ssrc"}
    BY <1>1, LinesAreWell
  <1>3. Shape(s) BY DEF Reads
  <1>4. Shape(ReadLine(s, l)) /\ ReadLine(s, l).has = s.has /\ ReadLine(s, l).mtype = s.mtype
    BY <1>2, <1>3, ShapeIsKept DEF OthersKept
  <1> QED BY <1>4, BundleIsKept, UserIsKept, CandidatesAreKept, DirectionIsKept, SsrcIsKept,
             PayloadsAreKept, FeedbackIsKept, InwardIsKept, OutwardIsKept DEF Reads

(* The end of processSdp. *)

LEMMA OfLines ==
    ASSUME NEW o, NEW m, NEW type
    PROVE  Of(o.lines, m, type) = Lines(o, m, type)
  BY DEF Of, Lines

LEMMA FinishFields ==
    ASSUME NEW s, Shape(s), s.user # [m \in Media |-> None]
    PROVE  /\ Shape(Finish(s)) /\ Finish(s).has = s.has /\ Finish(s).bundle = s.bundle
           /\ Finish(s).user = Users(s) /\ Finish(s).direction = s.direction
           /\ Finish(s).ssrc = s.ssrc /\ Finish(s).inOut = s.inOut /\ Finish(s).outIn = s.outIn
           /\ Finish(s).candidates = {WithUser(c, Users(s)) : c \in s.candidates}
           /\ Finish(s).payloads =
                 [i \in DOMAIN s.payloads |-> WithFeedback(s, s.payloads[i])]
  <1> DEFINE users == Users(s)
             cs == {WithUser(c, users) : c \in s.candidates}
             ps == [i \in DOMAIN s.payloads |-> WithFeedback(s, s.payloads[i])]
             q == [s EXCEPT !.user = users, !.candidates = {WithUser(c, users) : c \in @},
                     !.payloads = [i \in DOMAIN @ |-> WithFeedback(s, @[i])]]
             r == Finish(s)
  <1>0. r = q BY DEF Finish
  <1>d. Shape(s) /\ DOMAIN s = Fields BY DEF Shape
  <1>a. DOMAIN q = Fields BY <1>d
  <1>b. q.has = s.has /\ q.bundle = s.bundle /\ q.direction = s.direction /\ q.ssrc = s.ssrc
        /\ q.inOut = s.inOut /\ q.outIn = s.outIn
    BY <1>d DEF Fields
  <1>c. q.user = users
    <2> HIDE DEF users
    <2> QED BY <1>d DEF Fields
  <1>e. q.candidates = cs
    <2> HIDE DEF users
    <2> QED BY <1>d DEF Fields
  <1>f. q.payloads = ps
    <2> HIDE DEF users
    <2> QED BY <1>d DEF Fields
  <1> HIDE DEF users, cs, ps, r, q
  <1>2. /\ Shape(r) /\ r.has = s.has /\ r.bundle = s.bundle
        /\ r.user = users /\ r.direction = s.direction
        /\ r.ssrc = s.ssrc /\ r.inOut = s.inOut /\ r.outIn = s.outIn
        /\ r.candidates = cs /\ r.payloads = ps
    BY <1>0, <1>a, <1>b, <1>c, <1>d, <1>e, <1>f DEF Shape
  <1> QED BY <1>2 DEF users, cs, ps, r

\* Every medium has credentials after it, of the right lines.
OneVoice == Said("session", "ufrag") = {} \/ Said("video", "ufrag") = {}
HasUsers(s) ==
    /\ DOMAIN s.user = Media
    /\ \A m \in Media :
          /\ s.user[m] # None
          /\ OneVoice => \E l \in UserLines(m) : s.user[m] = l.value

LEMMA UfragsAreSome ==
    ASSUME offer \in Offers, NEW m \in Sections, NEW l \in Said(m, "ufrag")
    PROVE  l.value # None
  BY LinesAreWell DEF Said, Lines

LEMMA UsersAreFound ==
    ASSUME offer \in Offers, NEW s, UserRead(s, offer.lines)
    PROVE  /\ s.user # [m \in Media |-> None]
           /\ DOMAIN Users(s) = Media
           /\ \A m \in Media :
                 /\ Users(s)[m] # None
                 /\ OneVoice => \E l \in UserLines(m) : Users(s)[m] = l.value
  <1> DEFINE A == Said("audio", "ufrag")
             V == Said("video", "ufrag")
             S == Said("session", "ufrag")
             a == s.user["audio"]
             v == s.user["video"]
  <1>1. Credentials(offer.lines, "audio") = A
    BY OfLines DEF Credentials, Said
  <1>2. Credentials(offer.lines, "video") = IF V = {} THEN S ELSE V
    BY OfLines DEF Credentials, Said
  <1>3. \E m \in Sections : Said(m, "ufrag") # {} BY OfferOrder DEF Said
  <1>4. A # {} \/ V # {} \/ S # {} BY <1>3 DEF Sections, Media
  <1>5. "audio" \in Sections /\ "video" \in Sections /\ "session" \in Sections
    BY DEF Sections, Media
  <1>n. /\ \A l \in A : l.value # None
        /\ \A l \in V : l.value # None
        /\ \A l \in S : l.value # None
    BY <1>5, UfragsAreSome
  <1>6. /\ A = {} => a = None
        /\ A # {} => \E l \in A : a = l.value
    BY <1>1 DEF UserRead, Media
  <1>7. /\ V = {} /\ S = {} => v = None
        /\ V = {} /\ S # {} => \E l \in S : v = l.value
        /\ V # {} => \E l \in V : v = l.value
    BY <1>2 DEF UserRead, Media
  <1>8. DOMAIN s.user = Media BY DEF UserRead
  <1>u. /\ UserLines("audio") = IF A # {} THEN A ELSE IF S # {} THEN S ELSE V
        /\ UserLines("video") = IF V # {} THEN V ELSE IF S # {} THEN S ELSE A
    BY DEF UserLines, Other
  <1>v. OneVoice <=> (S = {} \/ V = {}) BY DEF OneVoice
  <1>w. DOMAIN Users(s) = Media
        /\ Users(s)["audio"] = (IF a # None THEN a ELSE v)
        /\ Users(s)["video"] = (IF v # None THEN v ELSE a)
    BY DEF Users, Media
  <1> HIDE DEF A, V, S
  <1>9. a # None \/ v # None BY <1>4, <1>6, <1>7, <1>n
  <1>10. s.user # [m \in Media |-> None] BY <1>9 DEF Media
  <1>11. Users(s)["audio"] # None
         /\ (OneVoice => \E l \in UserLines("audio") : Users(s)["audio"] = l.value)
    <2>1. CASE A # {} BY <2>1, <1>6, <1>n, <1>u, <1>w
    <2>2. CASE A = {}
      <3>1. a = None /\ v # None /\ Users(s)["audio"] = v BY <2>2, <1>6, <1>9, <1>w
      <3> HIDE DEF a, v
      <3>2. CASE V # {} BY <3>1, <3>2, <2>2, <1>7, <1>u, <1>v
      <3>3. CASE V = {} BY <3>1, <3>3, <2>2, <1>7, <1>u, <1>v
      <3> QED BY <3>2, <3>3
    <2> QED BY <2>1, <2>2
  <1>12. Users(s)["video"] # None
         /\ (OneVoice => \E l \in UserLines("video") : Users(s)["video"] = l.value)
    <2>1. CASE V # {} \/ S # {}
      <3> HIDE DEF a, v
      <3>1. CASE V # {} BY <3>1, <1>7, <1>n, <1>u, <1>w
      <3>2. CASE V = {} /\ S # {} BY <3>2, <1>7, <1>n, <1>u, <1>w
      <3> QED BY <3>1, <3>2, <2>1
    <2>2. CASE V = {} /\ S = {}
      <3>1. A # {} /\ v = None BY <2>2, <1>4, <1>7
      <3> HIDE DEF a, v
      <3> QED BY <3>1, <2>2, <1>6, <1>n, <1>u, <1>w
    <2> QED BY <2>1, <2>2
  <1> QED BY <1>10, <1>11, <1>12, <1>w, MediaAreSections

\* Its candidates, one of each line.
LEMMA CandidatesAreFinished ==
    ASSUME NEW s, NEW D, Shape(s), s.user # [m \in Media |-> None], CandidatesRead(s, D)
    PROVE  /\ \A c \in Finish(s).candidates :
                 /\ DOMAIN c = {"id", "component", "medium", "user"} /\ c.medium \in Media
                 /\ c.user = Users(s)[c.medium]
           /\ \A m \in Media : \A l \in Of(D, m, "candidate") : l.protocol = "udp" =>
                 \E c \in Finish(s).candidates :
                    c.id = l.id /\ c.component = l.component /\ c.medium = m
  <1>1. Finish(s).candidates = {WithUser(c, Users(s)) : c \in s.candidates} BY FinishFields
  <1>2. ASSUME NEW c \in s.candidates
        PROVE  LET w == WithUser(c, Users(s)) IN
               /\ DOMAIN w = {"id", "component", "medium", "user"} /\ w.medium = c.medium
               /\ w.id = c.id /\ w.component = c.component
               /\ w.medium \in Media /\ w.user = Users(s)[w.medium]
    <2>1. DOMAIN c = {"id", "component", "medium", "user"} /\ c.medium \in Media
      BY DEF CandidatesRead
    <2> DEFINE u == Users(s)[IF c.medium = "video" THEN "video" ELSE "audio"]
               w == WithUser(c, Users(s))
    <2>2. w = [c EXCEPT !.user = u] BY DEF WithUser
    <2>3. u = Users(s)[c.medium] BY <2>1 DEF Media
    <2> HIDE DEF u, w
    <2>4. /\ DOMAIN w = {"id", "component", "medium", "user"} /\ w.medium = c.medium
          /\ w.id = c.id /\ w.component = c.component /\ w.user = u
      BY <2>1, <2>2
    <2>5. /\ DOMAIN w = {"id", "component", "medium", "user"} /\ w.medium = c.medium
          /\ w.id = c.id /\ w.component = c.component
          /\ w.medium \in Media /\ w.user = Users(s)[w.medium]
      BY <2>1, <2>3, <2>4
    <2> QED BY <2>5 DEF w
  <1>3. ASSUME NEW c \in Finish(s).candidates
        PROVE  /\ DOMAIN c = {"id", "component", "medium", "user"} /\ c.medium \in Media
               /\ c.user = Users(s)[c.medium]
    <2>1. PICK d \in s.candidates : c = WithUser(d, Users(s)) BY <1>1, <1>3
    <2> QED BY <2>1, <1>2
  <1>4. ASSUME NEW m \in Media, NEW l \in Of(D, m, "candidate"), l.protocol = "udp"
        PROVE  \E c \in Finish(s).candidates :
                  c.id = l.id /\ c.component = l.component /\ c.medium = m
    <2>1. PICK d \in s.candidates : d.id = l.id /\ d.component = l.component /\ d.medium = m
      BY <1>4 DEF CandidatesRead
    <2>2. WithUser(d, Users(s)) \in Finish(s).candidates BY <2>1, <1>1
    <2> QED BY <2>1, <2>2, <1>2
  <1> QED BY <1>3, <1>4

LEMMA ClashIsShared == Clash <=> Shared(offer)
  BY DEF Clash, Shared, Said

\* The feedback that was read for a number is that of its medium, unless the
\* media share it.
LEMMA FeedbackIsSaid ==
    ASSUME offer \in Offers, NEW s, FeedbackRead(s, offer.lines), ~Clash, NEW m \in Media,
           NEW l \in Said(m, "rtpmap")
    PROVE  {f.value : f \in {g \in s.feedback : g.pt = l.pt}} = Feedbacks(m, l.pt)
  <1> DEFINE F == {f.value : f \in {g \in s.feedback : g.pt = l.pt}}
  <1>1. ASSUME NEW f \in s.feedback, f.pt = l.pt PROVE f.value \in Feedbacks(m, l.pt)
    <2>1. PICK k \in Media : \E x \in Of(offer.lines, k, "rtcp-fb") :
             f.pt = x.pt /\ f.value = x.value
      BY <1>1 DEF FeedbackRead
    <2>2. PICK x \in Of(offer.lines, k, "rtcp-fb") : f.pt = x.pt /\ f.value = x.value BY <2>1
    <2>3. x \in offer.lines[k] /\ x.type = "rtcp-fb" /\ k \in Sections
      BY <2>2, MediaAreSections DEF Of
    <2>4. PICK y \in offer.lines[k] : y.type = "rtpmap" /\ y.pt = x.pt BY <2>3, LinesAreWell
    <2>5. y \in Said(k, "rtpmap") BY <2>4 DEF Said, Lines
    <2>6. k = m BY <2>5, <2>4, <2>2, <1>1 DEF Clash, Media
    <2>7. x \in Said(m, "rtcp-fb") BY <2>3, <2>6 DEF Said, Lines
    <2> QED BY <2>7, <2>2, <1>1 DEF Feedbacks
  <1>2. ASSUME NEW x \in Said(m, "rtcp-fb"), x.pt = l.pt PROVE x.value \in F
    <2> DEFINE g == [pt |-> x.pt, value |-> x.value]
    <2>1. x \in Of(offer.lines, m, "rtcp-fb") BY <1>2 DEF Said, Lines, Of
    <2>2. g \in s.feedback BY <2>1 DEF FeedbackRead
    <2>3. g.pt = l.pt /\ g.value = x.value BY <1>2
    <2> QED BY <2>2, <2>3
  <1>3. F \subseteq Feedbacks(m, l.pt) BY <1>1
  <1>4. Feedbacks(m, l.pt) \subseteq F BY <1>2 DEF Feedbacks
  <1> QED BY <1>3, <1>4

\* The payloads of the answer and the lines they come from.
Offered(ps) ==
    \A i \in DOMAIN ps :
        /\ ps[i].pt \in PayloadTypes /\ ps[i].codec \in DOMAIN Internal /\ ps[i].medium \in Media
        /\ \E l \in Said(ps[i].medium, "rtpmap") : l.pt = ps[i].pt /\ l.codec = ps[i].codec

Mirrored(ps, m) ==
    {ps[i] : i \in {j \in DOMAIN ps : ps[j].medium = m}} =
    {[pt |-> l.pt, codec |-> l.codec, medium |-> m, feedback |-> Feedbacks(m, l.pt)] :
        l \in {k \in Said(m, "rtpmap") : k.codec \in DOMAIN Internal}}

LEMMA PayloadsAreFinished ==
    ASSUME offer \in Offers, NEW s, Shape(s), s.user # [m \in Media |-> None],
           PayloadsRead(s, offer.lines), FeedbackRead(s, offer.lines)
    PROVE  /\ Offered(Finish(s).payloads)
           /\ ~Clash => \A m \in Media : Mirrored(Finish(s).payloads, m)
  <1> DEFINE ps == Finish(s).payloads
             F(p) == {f.value : f \in {g \in s.feedback : g.pt = p.pt}}
  <1>1. ps = [i \in DOMAIN s.payloads |-> WithFeedback(s, s.payloads[i])] BY FinishFields
  <1>2. s.payloads \in Seq(Payloads) BY DEF PayloadsRead
  <1>3. DOMAIN s.payloads = 1 .. Len(s.payloads) BY <1>2, LenProperties
  <1>4. ASSUME NEW i \in DOMAIN s.payloads
        PROVE  /\ s.payloads[i] \in Payloads
               /\ s.payloads[i].medium \in Media
               /\ \E l \in Said(s.payloads[i].medium, "rtpmap") :
                     l.pt = s.payloads[i].pt /\ l.codec = s.payloads[i].codec
    <2>1. s.payloads[i] \in Payloads BY <1>2, <1>3, <1>4, ElementOfSeq
    <2>2. s.payloads[i].medium \in Media BY <2>1 DEF Payloads
    <2>3. PICK l \in Of(offer.lines, s.payloads[i].medium, "rtpmap") :
             l.pt = s.payloads[i].pt /\ l.codec = s.payloads[i].codec
      BY <1>4 DEF PayloadsRead
    <2>4. l \in Said(s.payloads[i].medium, "rtpmap") BY <2>3 DEF Of, Said, Lines
    <2> QED BY <2>1, <2>2, <2>3, <2>4
  <1>5. ASSUME NEW p \in Payloads
        PROVE  /\ WithFeedback(s, p) = [pt |-> p.pt, codec |-> p.codec, medium |-> p.medium,
                                        feedback |-> F(p)]
               /\ p.pt \in PayloadTypes /\ p.codec \in DOMAIN Internal /\ p.medium \in Media
    <2> DEFINE G == F(p)
    <2>1. WithFeedback(s, p) = [p EXCEPT !.feedback = @ \cup G] BY DEF WithFeedback
    <2> HIDE DEF F, G
    <2>2. p.feedback = {} /\ DOMAIN p = {"pt", "codec", "medium", "feedback"}
          /\ p.pt \in PayloadTypes /\ p.codec \in DOMAIN Internal /\ p.medium \in Media
          /\ p = [pt |-> p.pt, codec |-> p.codec, medium |-> p.medium, feedback |-> {}]
      BY DEF Payloads
    <2>3. WithFeedback(s, p) = [pt |-> p.pt, codec |-> p.codec, medium |-> p.medium,
                                feedback |-> G]
      BY <2>1, <2>2
    <2> QED BY <2>2, <2>3 DEF G
  <1>6. ASSUME NEW i \in DOMAIN s.payloads
        PROVE  /\ i \in DOMAIN ps
               /\ ps[i] = [pt |-> s.payloads[i].pt, codec |-> s.payloads[i].codec,
                           medium |-> s.payloads[i].medium, feedback |-> F(s.payloads[i])]
               /\ s.payloads[i].pt \in PayloadTypes /\ s.payloads[i].codec \in DOMAIN Internal
    BY <1>1, <1>4, <1>5
  <1>7. DOMAIN ps = DOMAIN s.payloads BY <1>1
  <1> HIDE DEF ps, F
  <1>f. ASSUME NEW i \in DOMAIN ps
        PROVE  /\ ps[i].pt = s.payloads[i].pt /\ ps[i].codec = s.payloads[i].codec
               /\ ps[i].medium = s.payloads[i].medium
    <2>1. i \in DOMAIN s.payloads BY <1>f, <1>7
    <2>2. ps[i] = [pt |-> s.payloads[i].pt, codec |-> s.payloads[i].codec,
                   medium |-> s.payloads[i].medium, feedback |-> F(s.payloads[i])]
      BY <2>1, <1>6
    <2> QED BY <2>2
  <1>8. ASSUME NEW i \in DOMAIN ps
        PROVE  /\ ps[i].pt \in PayloadTypes /\ ps[i].codec \in DOMAIN Internal
               /\ ps[i].medium \in Media
               /\ \E l \in Said(ps[i].medium, "rtpmap") :
                     l.pt = ps[i].pt /\ l.codec = ps[i].codec
    <2>1. /\ ps[i].pt = s.payloads[i].pt /\ ps[i].codec = s.payloads[i].codec
          /\ ps[i].medium = s.payloads[i].medium
      BY <1>f, <1>8
    <2> QED BY <2>1, <1>4, <1>6, <1>7, <1>8
  <1>9. ASSUME ~Clash, NEW m \in Media PROVE Mirrored(ps, m)
    <2> DEFINE Mine == {ps[i] : i \in {j \in DOMAIN ps : ps[j].medium = m}}
               R(l) == [pt |-> l.pt, codec |-> l.codec, medium |-> m,
                        feedback |-> Feedbacks(m, l.pt)]
               Theirs == {R(l) : l \in {k \in Said(m, "rtpmap") : k.codec \in DOMAIN Internal}}
    <2>1. ASSUME NEW i \in DOMAIN ps, NEW l \in Said(m, "rtpmap"), ps[i].medium = m,
                 l.pt = ps[i].pt, l.codec = ps[i].codec
          PROVE  ps[i] = R(l)
      <3>1. F(s.payloads[i]) = Feedbacks(m, l.pt)
        <4>1. s.payloads[i].pt = l.pt BY <2>1, <1>f
        <4>2. F(s.payloads[i]) = {f.value : f \in {g \in s.feedback : g.pt = l.pt}}
          BY <4>1 DEF F
        <4>3. {f.value : f \in {g \in s.feedback : g.pt = l.pt}} = Feedbacks(m, l.pt)
          BY <1>9, FeedbackIsSaid
        <4> QED BY <4>2, <4>3
      <3>2. ps[i] = [pt |-> s.payloads[i].pt, codec |-> s.payloads[i].codec,
                     medium |-> s.payloads[i].medium, feedback |-> F(s.payloads[i])]
        BY <1>6, <1>7
      <3>3. s.payloads[i].pt = l.pt /\ s.payloads[i].codec = l.codec /\ s.payloads[i].medium = m
        BY <2>1, <3>2
      <3> QED BY <3>1, <3>2, <3>3
    <2>2. ASSUME NEW x \in Mine PROVE x \in Theirs
      <3>1. PICK i \in DOMAIN ps : ps[i].medium = m /\ x = ps[i] BY <2>2
      <3>2. PICK l \in Said(m, "rtpmap") : l.pt = ps[i].pt /\ l.codec = ps[i].codec
        BY <3>1, <1>8
      <3>3. l.codec \in DOMAIN Internal BY <3>2, <1>8
      <3>4. x = R(l) BY <3>1, <3>2, <2>1
      <3> QED BY <3>2, <3>3, <3>4
    <2>3. ASSUME NEW l \in Said(m, "rtpmap"), l.codec \in DOMAIN Internal
          PROVE  R(l) \in Mine
      <3>1. l \in Of(offer.lines, m, "rtpmap") /\ Known(l.codec)
        BY <2>3 DEF Said, Lines, Of, Known
      <3>2. PICK i \in DOMAIN s.payloads :
               s.payloads[i].pt = l.pt /\ s.payloads[i].codec = l.codec
               /\ s.payloads[i].medium = m
        BY <3>1 DEF PayloadsRead
      <3>3. i \in DOMAIN ps /\ ps[i].medium = m /\ l.pt = ps[i].pt /\ l.codec = ps[i].codec
        BY <3>2, <1>f, <1>7
      <3>4. ps[i] = R(l) BY <3>3, <2>1
      <3>5. ps[i] \in Mine BY <3>3
      <3> QED BY <3>4, <3>5
    <2>4. Theirs \subseteq Mine
      <3> HIDE DEF Mine, R
      <3> QED BY <2>3
    <2>5. Mine = Theirs BY <2>2, <2>4
    <2> QED BY <2>5 DEF Mirrored
  <1>10. Offered(ps) BY <1>8 DEF Offered
  <1> QED BY <1>9, <1>10 DEF ps

(* The connection. *)

\* The lines that were read.
Begun(m) == m = "session" \/ m \in remote.has
Done == [m \in Sections |-> IF ~Begun(m) THEN {}
                            ELSE IF m = offer.order[at] THEN offer.lines[m] \ left
                            ELSE offer.lines[m]]

Placed ==
    /\ offer \in Offers /\ at \in 1 .. Len(offer.order)
    /\ left \subseteq offer.lines[offer.order[at]]
    /\ phase \in {"reading", "answered"}

ReadingInv ==
    /\ Reads(offer, remote, Done)
    /\ remote.has = {offer.order[i] : i \in 2 .. at}
    /\ remote.mtype = IF offer.order[at] = "session" THEN "other" ELSE offer.order[at]
    /\ given = {} /\ answer.payloads = <<>> /\ packet = NoPacket

GivenInv ==
    \A g \in given : g.to \in Media /\ g.medium \in Media /\ g.user = remote.user[g.medium]
SourceInv ==
    /\ DOMAIN source = Media
    /\ \A m \in Media :
          /\ Said(m, "ssrc") = {} => source[m] = 0
          /\ Said(m, "ssrc") # {} => \E l \in Said(m, "ssrc") : source[m] = l.value
OutwardInv ==
    /\ remote.inOut \in Map
    /\ \A c \in DOMAIN Internal : OfCodec(offer.lines, c) # {} =>
          \E l \in OfCodec(offer.lines, c) : remote.inOut[Internal[c]] = l.pt
    /\ OfCodec(offer.lines, "red") = {} => remote.inOut[Internal["red"]] = Absent

AnsweredInv ==
    /\ Shape(remote) /\ BundleRead(remote, offer.lines) /\ HasUsers(remote)
    /\ GivenInv /\ CandidatesReachTransport
    /\ AnswerMirrorsOffer /\ Offered(answer.payloads)
    /\ InwardRead(offer, remote, offer.lines) /\ OutwardInv
    /\ remote.bundle => SourceInv
    /\ PayloadTypesAgree

SdpInv ==
    /\ Placed
    /\ phase = "reading" => ReadingInv
    /\ phase = "answered" => AnsweredInv

LEMMA SaidIsOf ==
    ASSUME NEW m, NEW type
    PROVE  Of(offer.lines, m, type) = Said(m, type)
  BY DEF Of, Said, Lines

\* The session is the first section, and no section comes twice.
LEMMA OrderIsOnce ==
    ASSUME NEW o \in Offers
    PROVE  /\ Len(o.order) \in Nat /\ Len(o.order) >= 1 /\ DOMAIN o.order = 1 .. Len(o.order)
           /\ o.order[1] = "session"
           /\ \A i \in 1 .. Len(o.order) : o.order[i] \in Sections
           /\ \A i, j \in 1 .. Len(o.order) : o.order[i] = o.order[j] => i = j
  <1>1. o.order \in Seq(Sections) /\ o.order # <<>> /\ Head(o.order) = "session"
        /\ \A i, j \in DOMAIN o.order : o.order[i] = o.order[j] => i = j
    BY OfferOrder
  <1> DEFINE q == o.order
  <1>2. Len(q) \in Nat /\ DOMAIN q = 1 .. Len(q) BY <1>1, LenProperties
  <1>3. Len(q) # 0 BY <1>1, EmptySeq
  <1>4. q[1] = "session" BY <1>1, <1>3, HeadTailProperties
  <1>5. \A i \in 1 .. Len(q) : q[i] \in Sections BY <1>1, <1>2, ElementOfSeq
  <1>6. Len(q) >= 1 BY <1>2, <1>3
  <1> QED BY <1>1, <1>2, <1>4, <1>5, <1>6

LEMMA InitSdp == SdpInit => SdpInv
  <1> SUFFICES ASSUME SdpInit PROVE SdpInv OBVIOUS
  <1>1. offer \in Offers /\ at = 1 /\ left = offer.lines["session"] /\ phase = "reading"
        /\ given = {} /\ packet = NoPacket
    BY DEF SdpInit
  <1>2. offer.order[1] = "session" /\ Len(offer.order) \in Nat /\ Len(offer.order) >= 1
    BY <1>1, OrderIsOnce
  <1>3. Placed BY <1>1, <1>2 DEF Placed
  <1>4. /\ DOMAIN remote = Fields /\ remote.mtype = "other" /\ remote.bundle = FALSE
        /\ remote.has = {} /\ remote.user = [m \in Media |-> None]
        /\ remote.candidates = {} /\ remote.feedback = {}
        /\ remote.ssrc = [m \in Media |-> 0] /\ remote.direction = [m \in Media |-> None]
        /\ remote.payloads = <<>> /\ remote.inOut = [p \in PayloadTypes |-> Absent]
        /\ remote.outIn = [p \in PayloadTypes |-> Absent]
    BY DEF SdpInit, Fields
  <1>5. answer.payloads = <<>> BY DEF SdpInit
  <1>6. Done = [m \in Sections |-> {}] BY <1>1, <1>2, <1>4 DEF Done, Begun
  <1> DEFINE D == Done
  <1> HIDE DEF D
  <1>7. \A m \in Sections : \A type : Of(D, m, type) = {} BY <1>6 DEF Of, D
  <1>8. \A m \in Media : m \in Sections BY MediaAreSections
  <1>a. Shape(remote) BY <1>4 DEF Shape
  <1>b. BundleRead(remote, D) BY <1>4, <1>7, MediaAreSections DEF BundleRead
  <1>c. UserRead(remote, D)
    <2>1. \A m \in Media : Credentials(D, m) = {}
      BY <1>7, <1>8, MediaAreSections DEF Credentials
    <2> QED BY <2>1, <1>4 DEF UserRead
  <1>d. CandidatesRead(remote, D) BY <1>4, <1>7, <1>8 DEF CandidatesRead
  <1>e. DirectionRead(remote, D) BY <1>4, <1>7, <1>8 DEF DirectionRead
  <1>f. SsrcRead(remote, D) BY <1>4, <1>7, <1>8 DEF SsrcRead
  <1>g. PayloadsRead(remote, D)
    <2>1. <<>> \in Seq(Payloads) /\ DOMAIN <<>> = {} OBVIOUS
    <2> QED BY <2>1, <1>4, <1>7, <1>8 DEF PayloadsRead
  <1>h. FeedbackRead(remote, D) BY <1>4, <1>7, <1>8 DEF FeedbackRead
  <1>i. InwardRead(offer, remote, D)
    <2>1. remote.outIn \in Map BY <1>4 DEF Map
    <2> QED BY <2>1, <1>7, <1>8 DEF InwardRead
  <1>j. OutwardRead(remote, D)
    <2>1. remote.inOut \in Map BY <1>4 DEF Map
    <2>2. \A c \in DOMAIN Internal : OfCodec(D, c) = {} /\ Internal[c] \in PayloadTypes
      BY <1>7, <1>8, MediaAreSections, InternalNumbers DEF OfCodec
    <2> QED BY <2>1, <2>2, <1>4 DEF OutwardRead
  <1>k. Reads(offer, remote, D)
    BY <1>a, <1>b, <1>c, <1>d, <1>e, <1>f, <1>g, <1>h, <1>i, <1>j DEF Reads
  <1>l. remote.has = {offer.order[i] : i \in 2 .. at} BY <1>1, <1>4
  <1>9. ReadingInv BY <1>k, <1>l, <1>1, <1>2, <1>4, <1>5 DEF ReadingInv, D
  <1> QED BY <1>1, <1>3, <1>9 DEF SdpInv

LEMMA LineKeeps ==
    ASSUME SdpInv, NEW l \in left, Line(l)
    PROVE  SdpInv'
  <1>1. phase = "reading" /\ l \in left /\ left' = left \ {l} /\ remote' = ReadLine(remote, l)
        /\ offer' = offer /\ at' = at /\ phase' = phase /\ answer' = answer /\ given' = given
        /\ source' = source /\ packet' = packet
    BY DEF Line
  <1>2. Placed /\ ReadingInv BY <1>1 DEF SdpInv
  <1>3. offer \in Offers /\ at \in 1 .. Len(offer.order)
        /\ left \subseteq offer.lines[offer.order[at]]
    BY <1>2 DEF Placed
  <1>4. Reads(offer, remote, Done) /\ remote.has = {offer.order[i] : i \in 2 .. at}
        /\ remote.mtype = (IF offer.order[at] = "session" THEN "other" ELSE offer.order[at])
        /\ given = {} /\ answer.payloads = <<>> /\ packet = NoPacket
    BY <1>2 DEF ReadingInv
  <1>5. PICK m \in Sections : m = offer.order[at] BY <1>3, OrderIsOnce
  <1>6. m # "session" => m \in remote.has
    BY <1>3, <1>4, <1>5, OrderIsOnce
  <1>7. m = "session" => remote.has = {}
    <2>a. Len(offer.order) \in Nat /\ Len(offer.order) >= 1 /\ offer.order[1] = "session"
          /\ \A i, j \in 1 .. Len(offer.order) : offer.order[i] = offer.order[j] => i = j
      BY <1>3, OrderIsOnce
    <2>b. 1 \in 1 .. Len(offer.order) BY <2>a
    <2>1. m = "session" => at = 1 BY <1>3, <1>5, <2>a, <2>b
    <2>2. 2 .. 1 = {} OBVIOUS
    <2> QED BY <2>1, <2>2, <1>4
  <1> DEFINE D == Done
             E == [k \in Sections |-> IF k = m THEN D[m] \cup {l} ELSE D[k]]
  <1>8. D[m] = offer.lines[m] \ left BY <1>5, <1>6 DEF Done, Begun
  <1>9. \A k \in Sections : D[k] \subseteq offer.lines[k] BY DEF Done
  <1>10. m = "session" => D["video"] = {} /\ D["audio"] = {}
    BY <1>7, MediaAreSections DEF Done, Begun
  <1>r. ReadLine(remote, l).has = remote.has /\ Shape(remote)
    <2>1. l \in offer.lines[m] BY <1>1, <1>3, <1>5
    <2>2. l.type \in {"bundle", "ufrag", "direction", "candidate", "rtpmap", "rtcp-fb", "ssrc"}
      BY <2>1, <1>3, LinesAreWell
    <2>3. Shape(remote) BY <1>4 DEF Reads
    <2> QED BY <2>2, <2>3, ShapeIsKept DEF OthersKept
  <1>11. Done' = E
    <2>1. remote'.has = remote.has BY <1>1, <1>r
    <2>2. \A k \in Sections : Begun(k)' <=> Begun(k) BY <2>1 DEF Begun
    <2>3. \A k \in Sections : Done'[k] = E[k]
      <3> TAKE k \in Sections
      <3>1. CASE k = m
        <4>1. Begun(k)' BY <3>1, <2>2, <1>6 DEF Begun
        <4>2. Done'[k] = offer.lines[m] \ (left \ {l})
          BY <4>1, <3>1, <1>1, <1>5 DEF Done
        <4>3. offer.lines[m] \ (left \ {l}) = D[m] \cup {l}
          <5> HIDE DEF D
          <5> QED BY <1>8, <1>1, <1>3, <1>5
        <4> QED BY <4>2, <4>3, <3>1
      <3>2. CASE k # m BY <3>2, <2>2, <1>1, <1>5 DEF Done
      <3> QED BY <3>1, <3>2
    <2>4. Done' = [k \in Sections |-> Done'[k]] BY DEF Done
    <2> QED BY <2>3, <2>4
  <1>12. Adds(offer, remote, D, E, m, l)
    <2>1. E[m] = D[m] \cup {l} /\ \A k \in Sections : k # m => E[k] = D[k] OBVIOUS
    <2>2. remote.mtype = IF m = "session" THEN "other" ELSE m BY <1>4, <1>5
    <2>3. m \in Sections /\ l \in offer.lines[m] BY <1>1, <1>3, <1>5
    <2> HIDE DEF D, E
    <2> QED BY <2>1, <2>2, <2>3, <1>9, <1>10 DEF Adds
  <1> HIDE DEF D, E
  <1>13. Reads(offer, remote, D) BY <1>4 DEF D
  <1>14. Reads(offer, ReadLine(remote, l), E) /\ ReadLine(remote, l).mtype = remote.mtype
    BY <1>3, <1>12, <1>13, ReadLineReads
  <1>e. Reads(offer', remote', Done') BY <1>1, <1>11, <1>14
  <1>h. remote'.has = remote.has /\ remote'.mtype = remote.mtype BY <1>1, <1>14, <1>r
  <1>15. ReadingInv' BY <1>1, <1>4, <1>e, <1>h DEF ReadingInv
  <1>16. Placed' BY <1>1, <1>2 DEF Placed
  <1> QED BY <1>1, <1>15, <1>16 DEF SdpInv

LEMMA NextSectionKeeps ==
    ASSUME SdpInv, NextSection
    PROVE  SdpInv'
  <1> DEFINE m == offer.order[at + 1]
  <1>1. phase = "reading" /\ left = {} /\ at < Len(offer.order) /\ at' = at + 1
        /\ left' = offer.lines[m]
        /\ remote' = [remote EXCEPT !.mtype = m, !.has = @ \cup {m}]
        /\ offer' = offer /\ phase' = phase /\ answer' = answer /\ given' = given
        /\ source' = source /\ packet' = packet
    BY DEF NextSection
  <1>2. Placed /\ ReadingInv BY <1>1 DEF SdpInv
  <1>3. offer \in Offers /\ at \in 1 .. Len(offer.order)
    BY <1>2 DEF Placed
  <1>4. Reads(offer, remote, Done) /\ remote.has = {offer.order[i] : i \in 2 .. at}
        /\ given = {} /\ answer.payloads = <<>> /\ packet = NoPacket
    BY <1>2 DEF ReadingInv
  <1>5. at \in Nat /\ at + 1 \in 1 .. Len(offer.order) /\ Len(offer.order) \in Nat
    BY <1>1, <1>3, OrderIsOnce
  <1>6. m \in Sections /\ m # "session" /\ m \notin remote.has
        /\ m # offer.order[at]
    BY <1>3, <1>4, <1>5, OrderIsOnce
  <1>7. m \in Media BY <1>6, MediaAreSections
  <1>8. offer'.order[at'] = m BY <1>1
  <1> HIDE DEF m
  <1>9. Shape(remote) BY <1>4 DEF Reads
  <1>10. /\ Shape(remote') /\ remote'.has = remote.has \cup {m} /\ remote'.mtype = m
         /\ remote'.bundle = remote.bundle /\ remote'.user = remote.user
         /\ remote'.candidates = remote.candidates /\ remote'.feedback = remote.feedback
         /\ remote'.ssrc = remote.ssrc /\ remote'.direction = remote.direction
         /\ remote'.payloads = remote.payloads /\ remote'.inOut = remote.inOut
         /\ remote'.outIn = remote.outIn
    BY <1>1, <1>7, <1>9 DEF Shape, Fields
  <1>11. Done' = Done
    <2>1. \A k \in Sections : Done'[k] = Done[k]
      <3> TAKE k \in Sections
      <3>1. CASE k = m
        <4>1. Done[k] = {} BY <3>1, <1>6 DEF Done, Begun
        <4>2. Done'[k] = {} BY <3>1, <1>1, <1>8, <1>10 DEF Done, Begun
        <4> QED BY <4>1, <4>2
      <3>2. CASE k # m
        <4>1. Begun(k)' <=> Begun(k) BY <3>2, <1>10 DEF Begun
        <4>2. Done'[k] = IF ~Begun(k) THEN {} ELSE offer.lines[k]
          BY <4>1, <3>2, <1>1, <1>8 DEF Done
        <4>3. Done[k] = IF ~Begun(k) THEN {} ELSE offer.lines[k]
          BY <1>1 DEF Done
        <4> QED BY <4>2, <4>3
      <3> QED BY <3>1, <3>2
    <2>2. Done' = [k \in Sections |-> Done'[k]] /\ Done = [k \in Sections |-> Done[k]]
      BY DEF Done
    <2> QED BY <2>1, <2>2
  <1> DEFINE D == Done
  <1>d. Reads(offer, remote, D) BY <1>4
  <1> HIDE DEF D
  <1>12. Reads(offer, remote', D)
    <2>1. BundleRead(remote', D) BY <1>d, <1>10 DEF Reads, BundleRead
    <2>2. UserRead(remote', D) BY <1>d, <1>10 DEF Reads, UserRead
    <2>3. CandidatesRead(remote', D) BY <1>d, <1>10 DEF Reads, CandidatesRead
    <2>4. DirectionRead(remote', D) BY <1>d, <1>10 DEF Reads, DirectionRead
    <2>5. SsrcRead(remote', D) BY <1>d, <1>10 DEF Reads, SsrcRead
    <2>6. PayloadsRead(remote', D) BY <1>d, <1>10 DEF Reads, PayloadsRead
    <2>7. FeedbackRead(remote', D) BY <1>d, <1>10 DEF Reads, FeedbackRead
    <2>8. InwardRead(offer, remote', D) BY <1>d, <1>10 DEF Reads, InwardRead
    <2>9. OutwardRead(remote', D) BY <1>d, <1>10 DEF Reads, OutwardRead
    <2> QED BY <1>10, <2>1, <2>2, <2>3, <2>4, <2>5, <2>6, <2>7, <2>8, <2>9 DEF Reads
  <1>13. remote'.has = {offer.order[i] : i \in 2 .. at'}
    <2>1. 2 .. at' = (2 .. at) \cup {at + 1} BY <1>1, <1>3, <1>5
    <2>2. offer.order[at + 1] = m BY DEF m
    <2> QED BY <2>1, <2>2, <1>4, <1>10
  <1>e. Reads(offer', remote', Done') BY <1>1, <1>11, <1>12 DEF D
  <1>h. remote'.mtype = IF offer'.order[at'] = "session" THEN "other" ELSE offer'.order[at']
    BY <1>6, <1>8, <1>10
  <1>14. ReadingInv' BY <1>1, <1>4, <1>e, <1>h, <1>13 DEF ReadingInv
  <1>15. Placed' BY <1>1, <1>2, <1>5, <1>8 DEF Placed
  <1> QED BY <1>1, <1>14, <1>15 DEF SdpInv

LEMMA AllIsDone ==
    ASSUME Placed, ReadingInv, left = {}, at = Len(offer.order)
    PROVE  Done = offer.lines
  <1>1. offer \in Offers BY DEF Placed
  <1>2. remote.has = {offer.order[i] : i \in 2 .. at} BY DEF ReadingInv
  <1>3. Len(offer.order) \in Nat /\ DOMAIN offer.order = 1 .. Len(offer.order)
        /\ offer.order[1] = "session"
    BY <1>1, OrderIsOnce
  <1>4. /\ offer.lines = [m \in Sections |-> offer.lines[m]]
        /\ \A m \in Sections :
              (\A i \in DOMAIN offer.order : offer.order[i] # m) => offer.lines[m] = {}
    BY <1>1, OfferOrder
  <1>5. ASSUME NEW m \in Sections PROVE Done[m] = offer.lines[m]
    <2>1. CASE Begun(m) BY <2>1 DEF Done
    <2>2. CASE ~Begun(m)
      <3>1. \A i \in DOMAIN offer.order : offer.order[i] # m
        <4> TAKE i \in DOMAIN offer.order
        <4>1. i = 1 \/ i \in 2 .. at BY <1>3
        <4> QED BY <4>1, <2>2, <1>2, <1>3 DEF Begun
      <3>2. offer.lines[m] = {} BY <3>1, <1>4
      <3> QED BY <2>2, <3>2 DEF Done
    <2> QED BY <2>1, <2>2
  <1>6. Done = [m \in Sections |-> Done[m]] BY DEF Done
  <1> QED BY <1>4, <1>5, <1>6

\* What is read of a whole offer.
Whole(s) == Reads(offer, s, offer.lines)

LEMMA BundleIsBundled ==
    ASSUME NEW s, BundleRead(s, offer.lines)
    PROVE  /\ s.bundle => Bundled
           /\ Bundled => s.bundle
  BY SaidIsOf DEF BundleRead, Bundled

LEMMA GivenIsTaken ==
    ASSUME NEW s, NEW t, NEW cs, NEW g \in Taken(s, t, cs)
    PROVE  \E c \in cs : g.to = t /\ g.medium = c.medium /\ g.user = c.user
  BY DEF Taken

LEMMA TakenIsGiven ==
    ASSUME NEW s, NEW t, NEW cs, NEW c \in cs, c.component = 1, s.bundle \/ c.medium = t
    PROVE  \E g \in Taken(s, t, cs) : g.id = c.id /\ g.to = t
  <1> DEFINE g == [to |-> t, id |-> c.id, medium |-> c.medium, user |-> c.user]
  <1>1. g \in Taken(s, t, cs) BY DEF Taken
  <1>2. g.id = c.id /\ g.to = t OBVIOUS
  <1> QED BY <1>1, <1>2

\* The candidates of the lines and those that came after.
LEMMA NamedIsCandidate ==
    ASSUME NEW m, NEW id \in Named(m)
    PROVE  \/ \E l \in Said(m, "candidate") : l.protocol = "udp" /\ l.component = 1 /\ l.id = id
           \/ \E c \in remote.candidates : c.medium = m /\ c.component = 1 /\ c.id = id
  BY DEF Named

LEMMA SetRemoteSdpKeeps ==
    ASSUME SdpInv, SetRemoteSdp
    PROVE  SdpInv'
  <1> DEFINE s == Finish(remote)
  <1>1. phase = "reading" /\ left = {} /\ at = Len(offer.order)
        /\ remote' = s /\ source' = s.ssrc /\ answer'.payloads = s.payloads
        /\ answer'.direction["audio"] \in Facing(s.direction["audio"])
        /\ answer'.direction["video"] \in Facing(s.direction["video"])
        /\ given' = UNION {Taken(s, t, s.candidates) : t \in Transports(s) \cap s.has}
        /\ phase' = "answered" /\ offer' = offer /\ at' = at /\ left' = left /\ packet' = packet
    BY DEF SetRemoteSdp, Media
  <1>2. Placed /\ ReadingInv BY <1>1 DEF SdpInv
  <1>3. offer \in Offers BY <1>2 DEF Placed
  <1>4. Reads(offer, remote, offer.lines) /\ packet = NoPacket
    BY <1>1, <1>2, AllIsDone DEF ReadingInv
  <1>5. /\ Shape(remote) /\ BundleRead(remote, offer.lines) /\ UserRead(remote, offer.lines)
        /\ CandidatesRead(remote, offer.lines) /\ DirectionRead(remote, offer.lines)
        /\ SsrcRead(remote, offer.lines) /\ PayloadsRead(remote, offer.lines)
        /\ FeedbackRead(remote, offer.lines) /\ InwardRead(offer, remote, offer.lines)
        /\ OutwardRead(remote, offer.lines)
    BY <1>4 DEF Reads
  <1>6. /\ remote.user # [m \in Media |-> None]
        /\ DOMAIN Users(remote) = Media
        /\ \A m \in Media :
              /\ Users(remote)[m] # None
              /\ OneVoice => \E l \in UserLines(m) : Users(remote)[m] = l.value
    BY <1>3, <1>5, UsersAreFound
  <1>7. /\ Shape(s) /\ s.has = remote.has /\ s.bundle = remote.bundle
        /\ s.user = Users(remote) /\ s.direction = remote.direction
        /\ s.ssrc = remote.ssrc /\ s.inOut = remote.inOut /\ s.outIn = remote.outIn
    BY <1>5, <1>6, FinishFields
  <1>8. /\ \A c \in s.candidates : c.medium \in Media /\ c.user = Users(remote)[c.medium]
        /\ \A m \in Media : \A l \in Of(offer.lines, m, "candidate") : l.protocol = "udp" =>
              \E c \in s.candidates : c.id = l.id /\ c.component = l.component /\ c.medium = m
    BY <1>5, <1>6, CandidatesAreFinished
  <1>9. Offered(s.payloads) /\ (~Clash => \A m \in Media : Mirrored(s.payloads, m))
    BY <1>3, <1>5, <1>6, PayloadsAreFinished
  <1> HIDE DEF s
  <1>10. ASSUME NEW m, NEW type PROVE Said(m, type)' = Said(m, type) BY <1>1 DEF Said, Lines
  <1>11. /\ Shape(remote') /\ BundleRead(remote', offer.lines)
         /\ InwardRead(offer, remote', offer.lines)
    BY <1>1, <1>5, <1>7 DEF BundleRead, InwardRead
  <1>12. HasUsers(remote)'
    <2>1. (OneVoice)' <=> OneVoice BY <1>10 DEF OneVoice
    <2>2. \A m : UserLines(m)' = UserLines(m) BY <1>10 DEF UserLines
    <2>3. remote'.user = Users(remote) BY <1>1, <1>7
    <2> QED BY <2>1, <2>2, <2>3, <1>6 DEF HasUsers
  <1>13. GivenInv'
    <2>1. ASSUME NEW g \in given'
          PROVE  g.to \in Media /\ g.medium \in Media /\ g.user = remote'.user[g.medium]
      <3>1. PICK t \in Transports(s) \cap s.has : g \in Taken(s, t, s.candidates) BY <1>1, <2>1
      <3>2. PICK c \in s.candidates : g.to = t /\ g.medium = c.medium /\ g.user = c.user
        BY <3>1, GivenIsTaken
      <3>3. t \in Media BY <3>1, <1>7 DEF Shape
      <3> QED BY <3>2, <3>3, <1>1, <1>7, <1>8
    <2> QED BY <2>1 DEF GivenInv
  <1>b. (s.bundle => Bundled) /\ (Bundled => s.bundle) BY <1>5, <1>7, BundleIsBundled
  <1>c. Bundled' <=> Bundled BY <1>10 DEF Bundled
  <1>14. CandidatesReachTransport'
    <2>1. ASSUME ~(Bundled' /\ "video" \notin remote'.has), NEW m \in remote'.has,
                 NEW id \in Named(m)'
          PROVE  \E g \in given' : g.id = id /\ g.to = (IF Bundled' THEN "video" ELSE m)
      <3>1. m \in Media /\ m \in s.has BY <2>1, <1>1, <1>7 DEF Shape
      <3>2. PICK c \in s.candidates : c.id = id /\ c.component = 1 /\ c.medium = m
        <4>1. \/ \E l \in Said(m, "candidate") :
                    l.protocol = "udp" /\ l.component = 1 /\ l.id = id
              \/ \E c \in s.candidates : c.medium = m /\ c.component = 1 /\ c.id = id
          BY <2>1, <1>1, <1>10 DEF Named
        <4>2. CASE \E l \in Said(m, "candidate") :
                    l.protocol = "udp" /\ l.component = 1 /\ l.id = id
          <5>1. PICK l \in Said(m, "candidate") :
                    l.protocol = "udp" /\ l.component = 1 /\ l.id = id
            BY <4>2
          <5>2. l \in Of(offer.lines, m, "candidate") BY <5>1, SaidIsOf
          <5> QED BY <5>1, <5>2, <3>1, <1>8
        <4> QED BY <4>1, <4>2
      <3> DEFINE t == IF Bundled THEN "video" ELSE m
      <3>3. t \in Transports(s) \cap s.has
        BY <3>1, <2>1, <1>1, <1>b, <1>c DEF Transports
      <3>4. s.bundle \/ c.medium = t BY <3>2, <1>b
      <3> HIDE DEF t
      <3>5. PICK g \in Taken(s, t, s.candidates) : g.id = c.id /\ g.to = t
        BY <3>2, <3>4, TakenIsGiven
      <3>6. g \in given' BY <3>3, <3>5, <1>1
      <3> QED BY <3>2, <3>5, <3>6, <1>c DEF t
    <2> QED BY <2>1 DEF CandidatesReachTransport
  <1>15. AnswerMirrorsOffer'
    <2>1. (Clash)' <=> Clash BY <1>10 DEF Clash
    <2>2. \A m, pt : Feedbacks(m, pt)' = Feedbacks(m, pt) BY <1>10 DEF Feedbacks
    <2>3. ASSUME NEW m \in remote'.has, ~Clash' PROVE Mirrored(answer.payloads, m)'
      <3>1. m \in Media BY <2>3, <1>1, <1>7 DEF Shape
      <3>2. Mirrored(s.payloads, m) BY <3>1, <2>1, <2>3, <1>9
      <3> QED BY <3>2, <2>2, <1>1, <1>10 DEF Mirrored
    <2>4. ASSUME NEW m \in remote'.has, NEW l \in Said(m, "direction")'
          PROVE  answer'.direction[m] \in Facing(l.value)
      <3>1. m \in Media BY <2>4, <1>1, <1>7 DEF Shape
      <3>2. l \in Of(offer.lines, m, "direction") BY <2>4, <1>10, SaidIsOf
      <3>3. s.direction[m] = l.value BY <3>1, <3>2, <1>5, <1>7 DEF DirectionRead
      <3> QED BY <3>1, <3>3, <1>1 DEF Media
    <2> QED BY <2>3, <2>4 DEF AnswerMirrorsOffer, Mirrored
  <1>16. Offered(answer.payloads)'
    <2>1. answer'.payloads = s.payloads BY <1>1
    <2> QED BY <2>1, <1>9, <1>10 DEF Offered
  <1>17. OutwardInv'
    <2>1. remote'.inOut = remote.inOut BY <1>1, <1>7
    <2>2. "red" \in DOMAIN Internal BY InternalNumbers
    <2> QED BY <2>1, <2>2, <1>1, <1>5 DEF OutwardInv, OutwardRead
  <1>18. SourceInv'
    <2>1. source' = remote.ssrc BY <1>1, <1>7
    <2>2. \A m \in Media : Of(offer.lines, m, "ssrc") = Said(m, "ssrc") BY SaidIsOf
    <2>3. \A m \in Media : Said(m, "ssrc")' = Said(m, "ssrc") BY <1>10
    <2> QED BY <2>1, <2>2, <2>3, <1>5 DEF SourceInv, SsrcRead
  <1>19. PayloadTypesAgree'
    BY <1>1, <1>4 DEF PayloadTypesAgree, IncomingIsKnown, OutgoingIsOffered, NoPacket, None
  <1>20. AnsweredInv'
    BY <1>1, <1>11, <1>12, <1>13, <1>14, <1>15, <1>16, <1>17, <1>18, <1>19 DEF AnsweredInv
  <1>21. Placed' BY <1>1, <1>2 DEF Placed
  <1> QED BY <1>1, <1>20, <1>21 DEF SdpInv

\* What the steps of an answered connection leave.
LEMMA HistoryKeeps ==
    ASSUME packet' = packet, offer' = offer, PayloadTypesAgree
    PROVE  PayloadTypesAgree'
  BY DEF PayloadTypesAgree, IncomingIsKnown, OutgoingIsOffered, Clash, Bundled, Codecs,
         NumbersOf, Said, Lines

LEMMA AnswerKeeps ==
    ASSUME offer' = offer, answer' = answer, phase' = phase, remote'.has = remote.has,
           AnswerMirrorsOffer, Offered(answer.payloads)
    PROVE  AnswerMirrorsOffer' /\ Offered(answer.payloads)'
  <1>1. AnswerMirrorsOffer'
    BY DEF AnswerMirrorsOffer, Answered, Clash, Feedbacks, Said, Lines
  <1>2. Offered(answer.payloads)' BY DEF Offered, Said, Lines
  <1> QED BY <1>1, <1>2

LEMMA UsersKeep ==
    ASSUME offer' = offer, remote'.user = remote.user, HasUsers(remote)
    PROVE  HasUsers(remote)'
  BY DEF HasUsers, OneVoice, UserLines, Said, Lines

LEMMA MapsKeep ==
    ASSUME offer' = offer, remote'.inOut = remote.inOut, remote'.outIn = remote.outIn,
           OutwardInv, InwardRead(offer, remote, offer.lines)
    PROVE  OutwardInv' /\ InwardRead(offer, remote, offer.lines)'
  BY DEF OutwardInv, InwardRead

LEMMA GivenKeeps ==
    ASSUME offer' = offer, phase' = phase, given' = given, remote'.user = remote.user,
           remote'.has = remote.has, remote'.candidates = remote.candidates,
           GivenInv, CandidatesReachTransport
    PROVE  GivenInv' /\ CandidatesReachTransport'
  <1>1. GivenInv' BY DEF GivenInv
  <1>2. CandidatesReachTransport'
    BY DEF CandidatesReachTransport, Answered, Bundled, Named, Said, Lines
  <1> QED BY <1>1, <1>2

LEMMA SourceKeeps ==
    ASSUME offer' = offer, source' = source, SourceInv
    PROVE  SourceInv'
  BY DEF SourceInv, Said, Lines

LEMMA AddRemoteCandidateKeeps ==
    ASSUME SdpInv, NEW m \in Media, NEW id, AddRemoteCandidate(m, id)
    PROVE  SdpInv'
  <1> DEFINE c == [id |-> id, component |-> 1, medium |-> m, user |-> remote.user[m]]
             t == TransportOf(m)
  <1>1. phase = "answered" /\ m \in remote.has
        /\ given' = given \cup Taken(remote, t, {c})
        /\ remote' = [remote EXCEPT !.candidates = @ \cup {c}]
        /\ UNCHANGED <<offer, at, left, phase, answer, source, packet>>
    BY DEF AddRemoteCandidate
  <1>2. Placed /\ AnsweredInv BY <1>1 DEF SdpInv
  <1>3. Shape(remote) /\ BundleRead(remote, offer.lines) BY <1>2 DEF AnsweredInv
  <1>4. c.id = id /\ c.component = 1 /\ c.medium = m /\ c.user = remote.user[m] OBVIOUS
  <1>5. t \in Media /\ (remote.bundle => t = "video") /\ (~remote.bundle => t = m)
    BY DEF TransportOf, Media
  <1> HIDE DEF c, t
  <1>6. /\ Shape(remote') /\ remote'.candidates = remote.candidates \cup {c}
        /\ remote'.has = remote.has /\ remote'.bundle = remote.bundle
        /\ remote'.user = remote.user /\ remote'.inOut = remote.inOut
        /\ remote'.outIn = remote.outIn
    BY <1>1, <1>3 DEF Shape, Fields
  <1>7. GivenInv'
    <2>1. ASSUME NEW g \in given'
          PROVE  g.to \in Media /\ g.medium \in Media /\ g.user = remote'.user[g.medium]
      <3>1. CASE g \in given BY <3>1, <1>2, <1>6 DEF AnsweredInv, GivenInv
      <3>2. CASE g \in Taken(remote, t, {c})
        <4>1. PICK d \in {c} : g.to = t /\ g.medium = d.medium /\ g.user = d.user
          BY <3>2, GivenIsTaken
        <4> QED BY <4>1, <1>4, <1>5, <1>6
      <3> QED BY <3>1, <3>2, <2>1, <1>1
    <2> QED BY <2>1 DEF GivenInv
  <1>8. (remote.bundle => Bundled) /\ (Bundled => remote.bundle) BY <1>3, BundleIsBundled
  <1>9. Bundled' <=> Bundled BY <1>1 DEF Bundled, Said, Lines
  <1>10. CandidatesReachTransport'
    <2>1. ASSUME ~(Bundled' /\ "video" \notin remote'.has), NEW k \in remote'.has,
                 NEW x \in Named(k)'
          PROVE  \E g \in given' : g.id = x /\ g.to = (IF Bundled' THEN "video" ELSE k)
      <3>1. CASE x \in Named(k)
        <4>1. \E g \in given : g.id = x /\ g.to = (IF Bundled THEN "video" ELSE k)
          BY <3>1, <2>1, <1>1, <1>2, <1>6, <1>9
             DEF AnsweredInv, CandidatesReachTransport, Answered
        <4> QED BY <4>1, <1>1, <1>9
      <3>2. CASE x \notin Named(k)
        <4>1. x = id /\ k = m
          <5>1. c.id = x /\ c.medium = k BY <3>2, <2>1, <1>1, <1>6 DEF Named, Said, Lines
          <5> QED BY <5>1, <1>4
        <4>2. remote.bundle \/ c.medium = t BY <1>4, <1>5
        <4>3. PICK g \in Taken(remote, t, {c}) : g.id = c.id /\ g.to = t
          BY <4>2, <1>4, TakenIsGiven
        <4> QED BY <4>1, <4>3, <1>1, <1>4, <1>5, <1>8, <1>9
      <3> QED BY <3>1, <3>2
    <2> QED BY <2>1 DEF CandidatesReachTransport
  <1>11. AnswerMirrorsOffer' /\ Offered(answer.payloads)'
    BY <1>1, <1>2, <1>6, AnswerKeeps DEF AnsweredInv
  <1>12. HasUsers(remote)' BY <1>1, <1>2, <1>6, UsersKeep DEF AnsweredInv
  <1>13. OutwardInv' /\ InwardRead(offer, remote, offer.lines)'
    BY <1>1, <1>2, <1>6, MapsKeep DEF AnsweredInv
  <1>14. BundleRead(remote, offer.lines)' BY <1>1, <1>3, <1>6 DEF BundleRead
  <1>15. remote'.bundle => SourceInv' BY <1>1, <1>2, <1>6, SourceKeeps DEF AnsweredInv
  <1>16. PayloadTypesAgree' BY <1>1, <1>2, HistoryKeeps DEF AnsweredInv
  <1>17. AnsweredInv'
    BY <1>6, <1>7, <1>10, <1>11, <1>12, <1>13, <1>14, <1>15, <1>16 DEF AnsweredInv
  <1>18. Placed' BY <1>1, <1>2 DEF Placed
  <1> QED BY <1>1, <1>17, <1>18 DEF SdpInv

\* The source of a medium is the one that its lines name.
LEMMA SsrcIsSaid ==
    ASSUME offer \in Offers, NEW m \in Media
    PROVE  /\ Said(m, "ssrc") = {} => SsrcOf(m) = HiddenSsrc[m]
           /\ \A l \in Said(m, "ssrc") : SsrcOf(m) = l.value
  <1>1. ASSUME NEW l \in Said(m, "ssrc") PROVE SsrcOf(m) = l.value
    <2>1. m \in Sections BY MediaAreSections
    <2>2. l \in offer.lines[m] /\ l.type = "ssrc" BY <1>1 DEF Said, Lines
    <2>3. \A k \in offer.lines[m] : k.type = "ssrc" => k = l BY <2>1, <2>2, LinesAreWell
    <2>4. \A k \in Said(m, "ssrc") : k = l BY <2>3 DEF Said, Lines
    <2> DEFINE S == Said(m, "ssrc")
    <2>5. SsrcOf(m) = (CHOOSE x \in S : TRUE).value BY <1>1 DEF SsrcOf
    <2> HIDE DEF S
    <2>6. S # {} /\ \A k \in S : k = l BY <2>4, <1>1 DEF S
    <2>7. (CHOOSE x \in S : TRUE) \in S BY <2>6
    <2> QED BY <2>5, <2>6, <2>7
  <1>2. Said(m, "ssrc") = {} => SsrcOf(m) = HiddenSsrc[m] BY DEF SsrcOf
  <1> QED BY <1>1, <1>2

\* The sink of a packet is that of its medium, if the offer names its source.
LEMMA SinkIsItsMedium ==
    ASSUME offer \in Offers, NEW m \in Media, remote.bundle, SourceInv, remote.bundle => Bundled
    PROVE  \/ SinkOf("video", SsrcOf(m)) = m
           \/ SinkOf("video", SsrcOf(m)) = None /\ Bundled /\ Said(m, "ssrc") = {}
  <1> DEFINE v == source["video"]
             a == source["audio"]
             x == SsrcOf(m)
  <1>1. SinkOf("video", x) =
           IF x = v THEN "video" ELSE IF x = a THEN "audio" ELSE None
    BY DEF SinkOf
  <1>2. /\ Said("video", "ssrc") = {} => v = 0
        /\ Said("video", "ssrc") # {} => \E l \in Said("video", "ssrc") : v = l.value
        /\ Said("audio", "ssrc") = {} => a = 0
        /\ Said("audio", "ssrc") # {} => \E l \in Said("audio", "ssrc") : a = l.value
    BY DEF SourceInv, Media
  <1>3. ASSUME NEW k \in Media, NEW l \in Said(k, "ssrc")
        PROVE  l.value # 0 /\ l.value # 91 /\ l.value # 92
    <2>1. k \in Sections BY MediaAreSections
    <2>2. l \in offer.lines[k] /\ l.type = "ssrc" BY <1>3 DEF Said, Lines
    <2>3. l.value \notin {0, HiddenSsrc.audio, HiddenSsrc.video} BY <2>1, <2>2, LinesAreWell
    <2> QED BY <2>3 DEF HiddenSsrc
  <1>4. "audio" \in Media /\ "video" \in Media BY DEF Media
  <1>5. \A p \in Said("audio", "ssrc"), q \in Said("video", "ssrc") : p.value # q.value
    BY OfferOrder DEF Said
  <1>6. CASE Said(m, "ssrc") = {}
    <2>1. x = HiddenSsrc[m] BY <1>6, SsrcIsSaid
    <2>2. x = 91 \/ x = 92 BY <2>1 DEF HiddenSsrc, Media
    <2> HIDE DEF v, a, x
    <2>3. x # v /\ x # a BY <2>2, <1>2, <1>3, <1>4
    <2> QED BY <2>3, <1>1, <1>6 DEF x
  <1>7. CASE Said(m, "ssrc") # {}
    <2>1. PICK l \in Said(m, "ssrc") : x = l.value BY <1>7, SsrcIsSaid
    <2>2. l.value # 0 BY <2>1, <1>3
    <2>3. x = source[m] BY <1>7, SsrcIsSaid DEF SourceInv
    <2>4. CASE m = "video" BY <2>3, <2>4, <1>1
    <2>5. CASE m = "audio"
      <3>1. x = a BY <2>3, <2>5
      <3>2. x # v
        <4> HIDE DEF v, a, x
        <4> QED BY <2>1, <2>2, <2>5, <1>2, <1>5
      <3> QED BY <3>1, <3>2, <2>5, <1>1
    <2> QED BY <2>4, <2>5 DEF Media
  <1> QED BY <1>6, <1>7

LEMMA PeerSendsKeeps ==
    ASSUME SdpInv, PeerSends
    PROVE  SdpInv'
  <1>1. PICK i \in DOMAIN answer.payloads :
           OnTransportData(answer.payloads[i].medium, SsrcOf(answer.payloads[i].medium),
                           answer.payloads[i])
    BY DEF PeerSends
  <1> DEFINE p == answer.payloads[i]
             m == p.medium
             sink == SinkOf(IF remote.bundle THEN "video" ELSE m, SsrcOf(m))
  <1>2. phase = "answered"
        /\ packet' = [way |-> "in", medium |-> m, codec |-> p.codec, sink |-> sink,
                      pt |-> InternalPT(remote, p.pt)]
        /\ (remote.bundle => source' = source)
        /\ UNCHANGED <<offer, at, left, phase, remote, answer, given>>
    BY <1>1 DEF OnTransportData
  <1>3. Placed /\ AnsweredInv BY <1>2 DEF SdpInv
  <1>4. offer \in Offers BY <1>3 DEF Placed
  <1>5. Offered(answer.payloads) /\ InwardRead(offer, remote, offer.lines)
        /\ BundleRead(remote, offer.lines)
    BY <1>3 DEF AnsweredInv
  <1>6. p.pt \in PayloadTypes /\ p.codec \in DOMAIN Internal /\ m \in Media
        /\ \E l \in Said(m, "rtpmap") : l.pt = p.pt /\ l.codec = p.codec
    BY <1>5 DEF Offered
  <1> HIDE DEF p, m, sink
  <1>7. ~Clash => InternalPT(remote, p.pt) = Internal[p.codec]
    <2> SUFFICES ASSUME ~Clash PROVE InternalPT(remote, p.pt) = Internal[p.codec] OBVIOUS
    <2>1. PICK l \in Said(m, "rtpmap") : l.pt = p.pt /\ l.codec = p.codec BY <1>6
    <2>2. l \in Of(offer.lines, m, "rtpmap") /\ Known(l.codec)
      BY <2>1, <1>6, SaidIsOf DEF Known
    <2>3. remote.outIn[p.pt] = Internal[p.codec]
      BY <2>1, <2>2, <1>5, <1>6, ClashIsShared DEF InwardRead
    <2>4. Internal[p.codec] \in PayloadTypes BY <1>6, InternalNumbers
    <2>5. Internal[p.codec] # Absent BY <2>4 DEF PayloadTypes, Absent
    <2> QED BY <2>3, <2>5 DEF InternalPT
  <1>k. PICK k \in Media : k = m BY <1>6
  <1>8. sink = m \/ (sink = None /\ Bundled /\ Said(m, "ssrc") = {})
    <2>1. CASE remote.bundle
      <3>1. sink = SinkOf("video", SsrcOf(m)) BY <2>1 DEF sink
      <3>2. SourceInv BY <2>1, <1>3 DEF AnsweredInv
      <3>3. remote.bundle => Bundled BY <1>5, BundleIsBundled
      <3> QED BY <3>1, <3>2, <3>3, <2>1, <1>4, <1>6, SinkIsItsMedium
    <2>2. CASE ~remote.bundle BY <2>2 DEF sink, SinkOf
    <2> QED BY <2>1, <2>2
  <1>9. packet'.way = "in" /\ packet'.sink = sink /\ packet'.medium = m
        /\ packet'.codec = p.codec /\ packet'.pt = InternalPT(remote, p.pt)
    BY <1>2
  <1>10. PayloadTypesAgree'
    <2>1. (Clash' <=> Clash) /\ (Bundled' <=> Bundled) /\ Said(k, "ssrc")' = Said(k, "ssrc")
      BY <1>2 DEF Clash, Bundled, Said, Lines
    <2>2. IncomingIsKnown'
      <3>1. Clash' \/ packet'.pt = Internal[packet'.codec] BY <2>1, <1>7, <1>9
      <3>2. \/ packet'.sink = packet'.medium
            \/ packet'.sink = None /\ Bundled' /\ Lines(offer', packet'.medium, "ssrc") = {}
        <4>1. CASE sink = m BY <4>1, <1>9
        <4>2. CASE sink = None /\ Bundled /\ Said(m, "ssrc") = {}
          <5>1. Lines(offer', packet'.medium, "ssrc") = {}
            BY <4>2, <1>2, <1>9 DEF Said
          <5> QED BY <5>1, <4>2, <2>1, <1>9
        <4> QED BY <4>1, <4>2, <1>8
      <3>3. Said(packet.medium, "ssrc")' = Lines(offer', packet'.medium, "ssrc") BY DEF Said
      <3> QED BY <3>1, <3>2, <3>3 DEF IncomingIsKnown
    <2>3. OutgoingIsOffered' BY <1>9 DEF OutgoingIsOffered
    <2> QED BY <2>2, <2>3 DEF PayloadTypesAgree
  <1>11. AnswerMirrorsOffer' /\ Offered(answer.payloads)'
    BY <1>2, <1>3, AnswerKeeps DEF AnsweredInv
  <1>12. HasUsers(remote)' BY <1>2, <1>3, UsersKeep DEF AnsweredInv
  <1>13. OutwardInv' /\ InwardRead(offer, remote, offer.lines)'
    BY <1>2, <1>3, MapsKeep DEF AnsweredInv
  <1>14. GivenInv' /\ CandidatesReachTransport'
    BY <1>2, <1>3, GivenKeeps DEF AnsweredInv
  <1>15. remote'.bundle => SourceInv' BY <1>2, <1>3, SourceKeeps DEF AnsweredInv
  <1>16. Shape(remote') /\ BundleRead(remote, offer.lines)' BY <1>2, <1>3 DEF AnsweredInv
  <1>17. AnsweredInv'
    BY <1>10, <1>11, <1>12, <1>13, <1>14, <1>15, <1>16 DEF AnsweredInv
  <1>18. Placed' BY <1>2, <1>3 DEF Placed
  <1> QED BY <1>2, <1>17, <1>18 DEF SdpInv

\* Looking a number up leaves the numbers that there are.
LEMMA LookUpLeaves ==
    ASSUME NEW s, NEW pt \in PayloadTypes, Shape(s), s.inOut \in Map
    PROVE  /\ Shape(LookedUp(s, pt)) /\ LookedUp(s, pt).has = s.has
           /\ LookedUp(s, pt).bundle = s.bundle /\ LookedUp(s, pt).user = s.user
           /\ LookedUp(s, pt).candidates = s.candidates /\ LookedUp(s, pt).outIn = s.outIn
           /\ LookedUp(s, pt).inOut \in Map
           /\ \A p \in PayloadTypes :
                 s.inOut[p] # Absent => LookedUp(s, pt).inOut[p] = s.inOut[p]
           /\ s.inOut[pt] = Absent => LookedUp(s, pt).inOut[pt] = Absent
  <1> DEFINE found == {i \in DOMAIN s.payloads : s.inOut[s.payloads[i].pt] = pt}
             met == {s.payloads[i].pt : i \in {j \in DOMAIN s.payloads :
                                                   \A f \in found : j < f}}
             r == LookedUp(s, pt)
             q == [s EXCEPT !.inOut = [p \in PayloadTypes |->
                      IF p \in met /\ @[p] = Absent THEN 0 ELSE @[p]]]
  <1>1. CASE s.inOut[pt] = Absent
    <2>1. r = s BY <1>1 DEF LookedUp
    <2> QED BY <2>1, <1>1
  <1>2. CASE s.inOut[pt] # Absent
    <2>1. r = q BY <1>2 DEF LookedUp
    <2> HIDE DEF met, r
    <2>2. q.inOut = [p \in PayloadTypes |->
                       IF p \in met /\ s.inOut[p] = Absent THEN 0 ELSE s.inOut[p]]
      BY DEF Shape, Fields
    <2>3. /\ Shape(q) /\ q.has = s.has /\ q.bundle = s.bundle /\ q.user = s.user
          /\ q.candidates = s.candidates /\ q.outIn = s.outIn
      BY DEF Shape, Fields
    <2> HIDE DEF q
    <2>4. 0 \in PayloadTypes BY DEF PayloadTypes
    <2>5. q.inOut \in Map /\ \A p \in PayloadTypes : s.inOut[p] # Absent => q.inOut[p] = s.inOut[p]
      BY <2>2, <2>4 DEF Map
    <2>6. /\ Shape(r) /\ r.has = s.has /\ r.bundle = s.bundle /\ r.user = s.user
          /\ r.candidates = s.candidates /\ r.outIn = s.outIn
          /\ r.inOut \in Map
          /\ \A p \in PayloadTypes : s.inOut[p] # Absent => r.inOut[p] = s.inOut[p]
      BY <2>1, <2>3, <2>5
    <2> QED BY <2>6, <1>2 DEF r
  <1> QED BY <1>1, <1>2

\* A number inside is that of a line outside.
LEMMA NumberIsOffered ==
    ASSUME offer \in Offers, NEW c \in DOMAIN Internal, NEW f \in Map,
           \E l \in OfCodec(offer.lines, c) : f[Internal[c]] = l.pt
    PROVE  f[Internal[c]] \in NumbersOf(MediumOfCodec(c), c) /\ f[Internal[c]] # Absent
           /\ Internal[c] \in PayloadTypes
  <1>1. PICK l \in OfCodec(offer.lines, c) : f[Internal[c]] = l.pt OBVIOUS
  <1>2. MediumOfCodec(c) \in Sections BY MediaAreSections
  <1>3. l \in offer.lines[MediumOfCodec(c)] /\ l.type = "rtpmap" /\ l.codec = c
    BY <1>1 DEF OfCodec, Of
  <1>4. l.pt \in PayloadTypes BY <1>2, <1>3, LinesAreWell
  <1>5. l \in Said(MediumOfCodec(c), "rtpmap") BY <1>3 DEF Said, Lines
  <1>6. l.pt \in NumbersOf(MediumOfCodec(c), c) BY <1>3, <1>5 DEF NumbersOf
  <1>7. l.pt # Absent BY <1>4 DEF PayloadTypes, Absent
  <1> QED BY <1>1, <1>6, <1>7, InternalNumbers

LEMMA CodecIsOffered ==
    ASSUME NEW c, c \in Codecs(MediumOfCodec(c))
    PROVE  OfCodec(offer.lines, c) # {}
  <1>1. PICK l \in Said(MediumOfCodec(c), "rtpmap") : l.codec = c BY DEF Codecs
  <1>2. l \in OfCodec(offer.lines, c) BY <1>1, SaidIsOf DEF OfCodec
  <1> QED BY <1>2

LEMMA OutgoingNumbers ==
    ASSUME offer \in Offers, Shape(remote), OutwardInv, NEW c \in DOMAIN Internal
    PROVE  /\ c \in Codecs(MediumOfCodec(c)) /\ c # "red" =>
                 OutgoingPT(remote, c) \in NumbersOf(MediumOfCodec(c), c)
           /\ c = "red" /\ "VP8" \in Codecs("video") =>
                 OutgoingPT(remote, c) \in NumbersOf("video", "VP8") \cup NumbersOf("video", "red")
  <1>0. Internal.red = Internal["red"] /\ "red" \in DOMAIN Internal
        /\ Internal.VP8 = Internal["VP8"] /\ "VP8" \in DOMAIN Internal
        /\ \A k \in DOMAIN Internal : Internal[k] \in PayloadTypes
    BY InternalNumbers
  <1>m. MediumOfCodec("red") = "video" /\ MediumOfCodec("VP8") = "video" BY DEF MediumOfCodec
  <1>i. remote.inOut \in Map BY DEF OutwardInv
  <1>1. ASSUME c \in Codecs(MediumOfCodec(c)), c # "red"
        PROVE  OutgoingPT(remote, c) \in NumbersOf(MediumOfCodec(c), c)
    <2>1. OfCodec(offer.lines, c) # {} BY <1>1, CodecIsOffered
    <2>2. \E l \in OfCodec(offer.lines, c) : remote.inOut[Internal[c]] = l.pt
      BY <2>1 DEF OutwardInv
    <2>3. remote.inOut[Internal[c]] \in NumbersOf(MediumOfCodec(c), c)
          /\ remote.inOut[Internal[c]] # Absent
      BY <2>2, <1>i, NumberIsOffered
    <2>4. OutgoingPT(remote, c) = ExternalPT(remote, Internal[c]) BY <1>1 DEF OutgoingPT
    <2> QED BY <2>3, <2>4 DEF ExternalPT
  <1>2. ASSUME c = "red", "VP8" \in Codecs("video")
        PROVE  OutgoingPT(remote, c) \in NumbersOf("video", "VP8") \cup NumbersOf("video", "red")
    <2>1. CASE SupportPayloadType(remote, Internal.red)
      <3>1. remote.inOut[Internal["red"]] # Absent BY <2>1, <1>0 DEF SupportPayloadType
      <3>2. OfCodec(offer.lines, "red") # {} BY <3>1 DEF OutwardInv
      <3>3. \E l \in OfCodec(offer.lines, "red") : remote.inOut[Internal["red"]] = l.pt
        BY <3>2, <1>0 DEF OutwardInv
      <3>4. remote.inOut[Internal["red"]] \in NumbersOf("video", "red")
        BY <3>3, <1>0, <1>i, <1>m, NumberIsOffered
      <3>5. OutgoingPT(remote, c) = ExternalPT(remote, Internal["red"])
        BY <2>1, <1>2 DEF OutgoingPT
      <3> QED BY <3>1, <3>4, <3>5 DEF ExternalPT
    <2>2. CASE ~SupportPayloadType(remote, Internal.red)
      <3> DEFINE r == LookedUp(remote, Internal.red)
      <3>1. OfCodec(offer.lines, "VP8") # {} BY <1>2, <1>m, CodecIsOffered
      <3>2. \E l \in OfCodec(offer.lines, "VP8") : remote.inOut[Internal["VP8"]] = l.pt
        BY <3>1, <1>0 DEF OutwardInv
      <3>3. remote.inOut[Internal["VP8"]] \in NumbersOf("video", "VP8")
            /\ remote.inOut[Internal["VP8"]] # Absent
        BY <3>2, <1>0, <1>i, <1>m, NumberIsOffered
      <3>4. r.inOut[Internal["VP8"]] = remote.inOut[Internal["VP8"]]
        <4>1. Internal.red \in PayloadTypes /\ Internal["VP8"] \in PayloadTypes BY <1>0
        <4> QED BY <4>1, <3>3, <1>i, LookUpLeaves
      <3>5. OutgoingPT(remote, c) = ExternalPT(r, Internal["VP8"])
        BY <2>2, <1>2, <1>0 DEF OutgoingPT
      <3> HIDE DEF r
      <3> QED BY <3>3, <3>4, <3>5 DEF ExternalPT
    <2> QED BY <2>1, <2>2
  <1> QED BY <1>1, <1>2

LEMMA DeliverDataKeeps ==
    ASSUME SdpInv, NEW c \in DOMAIN Internal, DeliverData(MediumOfCodec(c), c)
    PROVE  SdpInv'
  <1> DEFINE n == OutgoingPT(remote, c)
             m == MediumOfCodec(c)
  <1>1. phase = "answered"
        /\ packet' = [way |-> "out", medium |-> m, codec |-> c, sink |-> m, pt |-> n]
        /\ remote' = (IF c = "red" THEN LookedUp(remote, Internal.red) ELSE remote)
        /\ UNCHANGED <<offer, at, left, phase, answer, given, source>>
    BY DEF DeliverData
  <1>2. Placed /\ AnsweredInv BY <1>1 DEF SdpInv
  <1>3. offer \in Offers BY <1>2 DEF Placed
  <1>4. Shape(remote) /\ OutwardInv /\ BundleRead(remote, offer.lines)
        /\ InwardRead(offer, remote, offer.lines)
    BY <1>2 DEF AnsweredInv
  <1>5. remote.inOut \in Map BY <1>4 DEF OutwardInv
  <1>6. Internal.red \in PayloadTypes /\ Internal.red = Internal["red"] BY InternalNumbers
  <1>7. /\ Shape(remote') /\ remote'.has = remote.has /\ remote'.bundle = remote.bundle
        /\ remote'.user = remote.user /\ remote'.candidates = remote.candidates
        /\ remote'.outIn = remote.outIn /\ remote'.inOut \in Map
        /\ \A p \in PayloadTypes : remote.inOut[p] # Absent => remote'.inOut[p] = remote.inOut[p]
        /\ remote.inOut[Internal["red"]] = Absent => remote'.inOut[Internal["red"]] = Absent
    <2>1. CASE c = "red" BY <2>1, <1>1, <1>4, <1>5, <1>6, LookUpLeaves
    <2>2. CASE c # "red" BY <2>2, <1>1, <1>4, <1>5
    <2> QED BY <2>1, <2>2
  <1>8. OutwardInv'
    <2>1. ASSUME NEW k \in DOMAIN Internal, OfCodec(offer.lines, k) # {}
          PROVE  \E l \in OfCodec(offer.lines, k) : remote'.inOut[Internal[k]] = l.pt
      <3>1. PICK l \in OfCodec(offer.lines, k) : remote.inOut[Internal[k]] = l.pt
        BY <2>1, <1>4 DEF OutwardInv
      <3>2. remote.inOut[Internal[k]] # Absent /\ Internal[k] \in PayloadTypes
        BY <3>1, <1>3, <1>5, NumberIsOffered
      <3>3. remote'.inOut[Internal[k]] = l.pt BY <3>1, <3>2, <1>7
      <3> QED BY <3>1, <3>3
    <2> QED BY <2>1, <1>1, <1>4, <1>7 DEF OutwardInv
  <1>9. /\ c \in Codecs(m) /\ c # "red" => n \in NumbersOf(m, c)
        /\ c = "red" /\ "VP8" \in Codecs("video") =>
              n \in NumbersOf("video", "VP8") \cup NumbersOf("video", "red")
    BY <1>3, <1>4, OutgoingNumbers
  <1>k. PICK number : number = n OBVIOUS
  <1> HIDE DEF n, m
  <1>10. packet'.way = "out" /\ packet'.medium = m /\ packet'.codec = c /\ packet'.pt = number
    BY <1>1, <1>k
  <1>11. PayloadTypesAgree'
    <2>1. \A k, x : NumbersOf(k, x)' = NumbersOf(k, x) /\ Codecs(k)' = Codecs(k)
      BY <1>1 DEF NumbersOf, Codecs, Said, Lines
    <2>2. OutgoingIsOffered'
      <3>1. CASE c # "red"
        <4>1. packet'.codec # "red" BY <3>1, <1>10
        <4>2. c \in Codecs(m) => number \in NumbersOf(m, c) BY <3>1, <1>9, <1>k
        <4>3. Codecs(packet.medium)' = Codecs(m)
          BY <1>1, <1>10 DEF Codecs, Said, Lines
        <4>4. NumbersOf(packet.medium, packet.codec)' = NumbersOf(m, c)
          BY <1>1, <1>10 DEF NumbersOf, Said, Lines
        <4>5. packet'.codec \in Codecs(packet.medium)' =>
                 packet'.pt \in NumbersOf(packet.medium, packet.codec)'
          BY <4>2, <4>3, <4>4, <1>10
        <4> QED BY <4>1, <4>5 DEF OutgoingIsOffered
      <3>2. CASE c = "red"
        <4>1. packet'.codec = "red" BY <3>2, <1>10
        <4>2. "VP8" \in Codecs("video")' =>
                 packet'.pt \in NumbersOf("video", "VP8")' \cup NumbersOf("video", "red")'
          BY <3>2, <1>9, <1>10, <1>k, <2>1
        <4> QED BY <4>1, <4>2 DEF OutgoingIsOffered
      <3> QED BY <3>1, <3>2
    <2>3. IncomingIsKnown' BY <1>10 DEF IncomingIsKnown
    <2> QED BY <2>2, <2>3 DEF PayloadTypesAgree
  <1>12. AnswerMirrorsOffer' /\ Offered(answer.payloads)'
    BY <1>1, <1>2, <1>7, AnswerKeeps DEF AnsweredInv
  <1>13. HasUsers(remote)' BY <1>1, <1>2, <1>7, UsersKeep DEF AnsweredInv
  <1>14. InwardRead(offer, remote, offer.lines)' BY <1>1, <1>4, <1>7 DEF InwardRead
  <1>15. GivenInv' /\ CandidatesReachTransport'
    BY <1>1, <1>2, <1>7, GivenKeeps DEF AnsweredInv
  <1>16. remote'.bundle => SourceInv' BY <1>1, <1>2, <1>7, SourceKeeps DEF AnsweredInv
  <1>17. Shape(remote') /\ BundleRead(remote, offer.lines)'
    BY <1>1, <1>4, <1>7 DEF BundleRead
  <1>18. AnsweredInv'
    BY <1>8, <1>11, <1>12, <1>13, <1>14, <1>15, <1>16, <1>17 DEF AnsweredInv
  <1>19. Placed' BY <1>1, <1>2 DEF Placed
  <1> QED BY <1>1, <1>18, <1>19 DEF SdpInv

LEMMA SdpStutters ==
    ASSUME SdpInv, UNCHANGED sdpVars
    PROVE  SdpInv'
  <1>1. UNCHANGED <<offer, at, left, phase, remote, answer, given, source, packet>>
    BY DEF sdpVars
  <1>2. Placed' BY <1>1 DEF SdpInv, Placed
  <1>3. ASSUME phase = "reading" PROVE ReadingInv'
    <2>1. ReadingInv BY <1>3 DEF SdpInv
    <2>2. Done' = Done BY <1>1 DEF Done, Begun
    <2>3. Reads(offer', remote', Done') BY <1>1, <2>1, <2>2 DEF ReadingInv
    <2> QED BY <1>1, <2>1, <2>3 DEF ReadingInv
  <1>4. ASSUME phase = "answered" PROVE AnsweredInv'
    <2>1. AnsweredInv BY <1>4 DEF SdpInv
    <2>2. AnswerMirrorsOffer' /\ Offered(answer.payloads)'
      BY <1>1, <2>1, AnswerKeeps DEF AnsweredInv
    <2>3. HasUsers(remote)' BY <1>1, <2>1, UsersKeep DEF AnsweredInv
    <2>4. OutwardInv' /\ InwardRead(offer, remote, offer.lines)'
      BY <1>1, <2>1, MapsKeep DEF AnsweredInv
    <2>5. GivenInv' /\ CandidatesReachTransport' BY <1>1, <2>1, GivenKeeps DEF AnsweredInv
    <2>6. remote'.bundle => SourceInv' BY <1>1, <2>1, SourceKeeps DEF AnsweredInv
    <2>7. PayloadTypesAgree' BY <1>1, <2>1, HistoryKeeps DEF AnsweredInv
    <2>8. Shape(remote') /\ BundleRead(remote, offer.lines)' BY <1>1, <2>1 DEF AnsweredInv
    <2> QED BY <2>2, <2>3, <2>4, <2>5, <2>6, <2>7, <2>8 DEF AnsweredInv
  <1> QED BY <1>1, <1>2, <1>3, <1>4 DEF SdpInv

LEMMA NextSdp == SdpInv /\ [SdpNext]_sdpVars => SdpInv'
  <1> SUFFICES ASSUME SdpInv, [SdpNext]_sdpVars PROVE SdpInv' OBVIOUS
  <1>1. CASE \E l \in left : Line(l) BY <1>1, LineKeeps
  <1>2. CASE NextSection BY <1>2, NextSectionKeeps
  <1>3. CASE SetRemoteSdp BY <1>3, SetRemoteSdpKeeps
  <1>4. CASE PeerSends BY <1>4, PeerSendsKeeps
  <1>5. CASE \E m \in Media : AddRemoteCandidate(m, Trickled[m])
    BY <1>5, AddRemoteCandidateKeeps
  <1>6. CASE \E c \in DOMAIN Internal : DeliverData(MediumOfCodec(c), c)
    BY <1>6, DeliverDataKeeps
  <1>7. CASE UNCHANGED sdpVars BY <1>7, SdpStutters
  <1> QED BY <1>1, <1>2, <1>3, <1>4, <1>5, <1>6, <1>7 DEF SdpNext

LEMMA SdpInvariant == SdpSpec => []SdpInv
  <1>1. SdpInit => SdpInv BY InitSdp
  <1>2. SdpInv /\ [SdpNext]_sdpVars => SdpInv' BY NextSdp
  <1> QED BY <1>1, <1>2, PTL DEF SdpSpec

LEMMA MapsAreTyped ==
    ASSUME NEW f \in Map, NEW g \in Map
    PROVE  \A p \in PayloadTypes : {f[p], g[p]} \subseteq {Absent} \cup PayloadTypes
  BY DEF Map

LEMMA SdpIsTyped == SdpInv => SdpTypeOK
  <1> SUFFICES ASSUME SdpInv PROVE SdpTypeOK OBVIOUS
  <1>1. Placed BY DEF SdpInv
  <1>2. CASE phase = "reading"
    <2>1. ReadingInv BY <1>2 DEF SdpInv
    <2>2. Reads(offer, remote, Done) /\ given = {} /\ answer.payloads = <<>>
      BY <2>1 DEF ReadingInv
    <2>3. remote.has \subseteq Media /\ DOMAIN remote.user = Media
          /\ remote.inOut \in Map /\ remote.outIn \in Map
      BY <2>2 DEF Reads, Shape, UserRead, OutwardRead, InwardRead
    <2>4. DOMAIN answer.payloads = {} BY <2>2
    <2> QED BY <1>1, <2>2, <2>3, <2>4, MapsAreTyped DEF Placed, SdpTypeOK
  <1>3. CASE phase = "answered"
    <2>1. AnsweredInv BY <1>3 DEF SdpInv
    <2>2. remote.has \subseteq Media /\ DOMAIN remote.user = Media
          /\ remote.inOut \in Map /\ remote.outIn \in Map
          /\ \A m \in Media : remote.user[m] # None
      BY <2>1 DEF AnsweredInv, Shape, HasUsers, OutwardInv, InwardRead
    <2>3. \A i \in DOMAIN answer.payloads : answer.payloads[i].codec \in DOMAIN Internal
      BY <2>1 DEF AnsweredInv, Offered
    <2>4. \A g \in given : g.to \in Media /\ g.user # None
      BY <2>1, <2>2 DEF AnsweredInv, GivenInv
    <2> QED BY <1>1, <2>2, <2>3, <2>4, MapsAreTyped DEF Placed, SdpTypeOK
  <1> QED BY <1>1, <1>2, <1>3 DEF Placed

\* The candidates of an offer are used, and with the credentials of their medium,
\* whatever the order of its sections and of the lines in them (processSdp,
\* setRemoteSdp, addRemoteCandidate).
THEOREM CandidatesAreUsedHolds == SdpSpec => []CandidatesAreUsed
  <1>1. SdpInv => CandidatesAreUsed
    <2> SUFFICES ASSUME SdpInv PROVE CandidatesAreUsed OBVIOUS
    <2>1. SdpTypeOK BY SdpIsTyped
    <2>2. CASE phase = "reading"
      <3>1. given = {} BY <2>2 DEF SdpInv, ReadingInv
      <3>2. ~Answered BY <2>2 DEF Answered
      <3> QED BY <2>1, <3>1, <3>2
             DEF CandidatesAreUsed, CandidatesAreAuthentic, CandidatesReachTransport
    <2>3. CASE phase = "answered"
      <3>1. AnsweredInv BY <2>3 DEF SdpInv
      <3>2. ASSUME OneVoice, NEW g \in given
            PROVE  g.user \in {l.value : l \in UserLines(g.medium)}
        <4>1. g.medium \in Media /\ g.user = remote.user[g.medium]
          BY <3>1, <3>2 DEF AnsweredInv, GivenInv
        <4>2. \E l \in UserLines(g.medium) : g.user = l.value
          BY <4>1, <3>1, <3>2 DEF AnsweredInv, HasUsers
        <4> QED BY <4>2
      <3>3. CandidatesAreAuthentic BY <3>2 DEF CandidatesAreAuthentic, OneVoice
      <3> QED BY <2>1, <3>1, <3>3 DEF CandidatesAreUsed, AnsweredInv
    <2> QED BY <2>2, <2>3 DEF SdpInv, Placed
  <1> QED BY <1>1, SdpInvariant, PTL

\* The answer has the payloads of the offer that the server knows, with their
\* feedback, and directions that face those of the offer, whatever the order of
\* the lines (processSdp, setOfferSdp).
THEOREM AnswerMirrorsOfferHolds == SdpSpec => []AnswerMirrorsOffer
  <1>1. SdpInv => AnswerMirrorsOffer
    BY DEF SdpInv, Placed, AnsweredInv, AnswerMirrorsOffer, Answered
  <1> QED BY <1>1, SdpInvariant, PTL

\* Packets come in and go out with numbers that both ends understand, however many
\* were sent and looked up before (onTransportData, deliverVideoData_, queueData).
THEOREM PayloadTypesAgreeHolds == SdpSpec => []PayloadTypesAgree
  <1>1. SdpInv => PayloadTypesAgree
    <2> SUFFICES ASSUME SdpInv PROVE PayloadTypesAgree OBVIOUS
    <2>1. CASE phase = "reading"
      BY <2>1 DEF SdpInv, ReadingInv, PayloadTypesAgree, IncomingIsKnown, OutgoingIsOffered,
                  NoPacket, None
    <2>2. CASE phase = "answered" BY <2>2 DEF SdpInv, AnsweredInv
    <2> QED BY <2>1, <2>2 DEF SdpInv, Placed
  <1> QED BY <1>1, SdpInvariant, PTL
=============================================================================
