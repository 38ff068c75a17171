----------------------------- MODULE MediaPath -----------------------------
(***************************************************************************)
(* The path of the media of a room in one ErizoJS process: the connection  *)
(* of a publisher, the OneToManyProcessor that copies its packets, and the *)
(* connections of the subscribers (liberizo/OneToManyProcessor.cpp and the *)
(* sending part of WebRtcConnection.cpp).                                  *)
(*                                                                         *)
(* Threads: that of Node, which adds and removes subscribers and destroys  *)
(* connections while it holds the monitor; the reading thread of the       *)
(* publisher, which holds the monitor while it copies a packet; the        *)
(* reading threads of the subscribers, whose feedback goes to the          *)
(* publisher without the monitor; and the sending threads of the           *)
(* subscribers.  That of the publisher, which sends it RTCP, is left out:  *)
(* it is a thread that has ended.                                          *)
(***************************************************************************)
EXTENDS SendLoop, Maps, FiniteSets

CONSTANTS
    Subscribers,   \* peer ids of subscribers
    Failing,       \* bound: connections that may fail
    MaxPackets     \* bound: packets the publisher sends

ASSUME MediaAssumption == Subscribers \cap {"publisher", ""} = {} /\ MaxPackets \in Nat

VARIABLES
    otm,           \* [monitor: "free", "node" or "reader";
                   \*  subscribers: ids in the map;
                   \*  publisher, feedbackSink_: "unset", "set" or "null"]
    node,          \* what the thread of Node runs: [op, step, target]
    loop,          \* connection that exists -> its SendLoop
    reader,        \* connection that exists -> its reading thread:
                   \* [pc, todo: subscribers it has yet to give the packet to,
                   \*  closing: its transports are being deleted]
    sent,          \* packets the publisher has sent
    written,       \* connection that exists -> packets given to its transport
    missed         \* what no test would see: [drops: subscribers a full queue
                   \* cost a packet, wakeups: connections whose thread a
                   \* notification has missed]

vars == <<otm, node, loop, reader, sent, written, missed>>

Connections == Subscribers \cup {"publisher"}
Idle == [op |-> "none", step |-> "", target |-> ""]

Init ==
    /\ otm = [monitor |-> "free", subscribers |-> {}, publisher |-> "unset",
              feedbackSink_ |-> "unset"]
    /\ node = Idle
    /\ loop = <<>> /\ reader = <<>> /\ written = <<>>
    /\ sent = 0
    /\ missed = [drops |-> {}, wakeups |-> {}]

Exists == DOMAIN loop

\* new WebRtcConnection: its threads run, it may be without a sink or source.
Create(c, l) ==
    /\ loop' = With(loop, c, l)
    /\ reader' = With(reader, c, [pc |-> "idle", todo |-> {}, closing |-> FALSE])
    /\ written' = With(written, c, <<>>)

(* The sending thread of a connection. *)

SendThread(c) ==
    /\ LoopRuns(loop[c])
    /\ loop' = [loop EXCEPT ![c] = LoopStep(@)]
    /\ written' = IF loop[c].pc = "writing"
                  THEN [written EXCEPT ![c] = Append(@, loop[c].hand)] ELSE written
    /\ UNCHANGED <<otm, node, reader, sent, missed>>

\* updateState(TRANSPORT_FAILED): sending_ is cleared, then the thread notified.
ConnectionFails(c) ==
    /\ c \in Failing /\ loop[c].sending
    /\ loop' = [loop EXCEPT ![c] = Notified([@ EXCEPT !.sending = FALSE])]
    /\ UNCHANGED <<otm, node, reader, sent, written, missed>>

(* The reading thread of the publisher: deliverAudioData_, deliverVideoData_. *)

Packet ==
    /\ "publisher" \in Exists /\ reader["publisher"].pc = "idle"
    /\ ~reader["publisher"].closing
    /\ sent < MaxPackets
    /\ sent' = sent + 1
    /\ reader' = [reader EXCEPT !["publisher"].pc = "locking"]
    /\ UNCHANGED <<otm, node, loop, written, missed>>

PublisherIs(pc) ==
    "publisher" \in Exists /\ reader["publisher"].pc = pc

LockToDeliver ==
    /\ PublisherIs("locking") /\ otm.monitor = "free"
    /\ otm' = [otm EXCEPT !.monitor = "reader"]
    /\ reader' = [reader EXCEPT !["publisher"].pc = "delivering",
                                !["publisher"].todo = otm.subscribers]
    /\ UNCHANGED <<node, loop, sent, written, missed>>

\* subscriber->deliverVideoData(buf, len) ends in queueData of the subscriber.
Deliver(s) ==
    /\ PublisherIs("delivering") /\ s \in reader["publisher"].todo
    /\ loop[s].pc # "empty"
    /\ loop' = [loop EXCEPT ![s] = QueuePacket(@, sent)]
    /\ missed' = [missed EXCEPT !.drops = IF Full(loop[s]) THEN @ \cup {s} ELSE @]
    /\ reader' = [reader EXCEPT !["publisher"].todo = @ \ {s}]
    /\ UNCHANGED <<otm, node, sent, written>>

Delivered ==
    /\ PublisherIs("delivering") /\ reader["publisher"].todo = {}
    /\ otm' = [otm EXCEPT !.monitor = "free"]
    /\ reader' = [reader EXCEPT !["publisher"].pc = "idle"]
    /\ UNCHANGED <<node, loop, sent, written, missed>>

(* The reading thread of a subscriber: deliverFeedback_. *)

\* Mutant: the feedback takes the monitor too.
FeedbackWaits == otm.monitor = "free"

\* deliverFeedback_ takes no monitor.
FeedbackPasses == TRUE

\* It reads fbSink_ of its connection and feedbackSink_ of the processor, which
\* Node may clear before the call.
FeedbackBegins(s) ==
    /\ reader[s].pc = "idle" /\ ~reader[s].closing /\ otm.feedbackSink_ = "set"
    /\ reader' = [reader EXCEPT ![s].pc = "feedback"]
    /\ UNCHANGED <<otm, node, loop, sent, written, missed>>

\* The RtcpProcessor of the publisher takes it.
FeedbackEnds(s) ==
    /\ reader[s].pc = "feedback" /\ FeedbackPasses
    /\ reader' = [reader EXCEPT ![s].pc = "idle"]
    /\ UNCHANGED <<otm, node, loop, sent, written, missed>>

\* A reading thread ends when its transports are deleted, between two packets.
ReaderEnds(c) ==
    /\ reader[c].closing /\ reader[c].pc = "idle"
    /\ reader' = [reader EXCEPT ![c].pc = "ended"]
    /\ UNCHANGED <<otm, node, loop, sent, written, missed>>

(* The thread of Node. *)

Returned == node.op = "none"

SetPublisher ==
    /\ Returned /\ otm.publisher = "unset"
    /\ otm' = [otm EXCEPT !.publisher = "set", !.feedbackSink_ = "set"]
    /\ Create("publisher", [sending |-> FALSE, queue |-> <<>>, pc |-> "ended", hand |-> 0])
    /\ UNCHANGED <<node, sent, missed>>

AddSubscriber(s) ==
    /\ Returned /\ otm.publisher = "set" /\ otm.monitor = "free"
    /\ s \notin otm.subscribers
    /\ otm' = [otm EXCEPT !.subscribers = @ \cup {s}]
    /\ Create(s, NewLoop)
    /\ UNCHANGED <<node, sent, missed>>

\* Mutant: the subscriber is removed without the monitor.
NoMonitor == TRUE

\* removeSubscriber and closeAll wait for the monitor.
MonitorTaken == otm.monitor = "free"

\* The connection is erased, and with it destroyed, under the monitor.
RemoveSubscriber(s) ==
    /\ Returned /\ s \in otm.subscribers /\ MonitorTaken
    /\ otm' = [otm EXCEPT !.monitor = "node", !.subscribers = @ \ {s}]
    /\ node' = [op |-> "removeSubscriber", step |-> "stop", target |-> s]
    /\ UNCHANGED <<loop, reader, sent, written, missed>>

\* feedbackSink_ = NULL; publisher.reset(): no monitor is held.
CloseAll ==
    /\ Returned /\ otm.publisher = "set"
    /\ otm' = [otm EXCEPT !.feedbackSink_ = "null"]
    /\ node' = [op |-> "closeAll", step |-> "stop", target |-> "publisher"]
    /\ UNCHANGED <<loop, reader, sent, written, missed>>

(* ~WebRtcConnection of the target. *)

At(step) == node.op # "none" /\ node.step = step
Target == node.target
Then(step) == node' = [node EXCEPT !.step = step]

StopSending ==
    /\ At("stop") /\ Then("notify")
    /\ loop' = [loop EXCEPT ![Target].sending = FALSE]
    /\ UNCHANGED <<otm, reader, sent, written, missed>>

NotifySender ==
    /\ At("notify") /\ Then("joinSender")
    /\ loop' = [loop EXCEPT ![Target] = Notified(@)]
    /\ missed' = [missed EXCEPT !.wakeups =
                     IF WillWait(loop[Target]) THEN @ \cup {Target} ELSE @]
    /\ UNCHANGED <<otm, reader, sent, written>>

\* send_Thread_.join(), then the sinks are cleared and the transports deleted.
JoinSender ==
    /\ At("joinSender") /\ Then("joinReader")
    /\ loop[Target].pc = "ended"
    /\ reader' = [reader EXCEPT ![Target].closing = TRUE]
    /\ UNCHANGED <<otm, loop, sent, written, missed>>

JoinReader ==
    /\ At("joinReader") /\ Then("destroyed")
    /\ reader[Target].pc = "ended"
    /\ loop' = Without(loop, Target)
    /\ reader' = Without(reader, Target)
    /\ written' = Without(written, Target)
    /\ missed' = [missed EXCEPT !.drops = @ \ {Target}]
    /\ UNCHANGED <<otm, sent>>

\* removeSubscriber returns; closeAll goes on with the subscribers under the
\* monitor until there is none.
Destroyed ==
    /\ At("destroyed")
    /\ \/ /\ node.op = "removeSubscriber" \/ otm.subscribers = {}
          /\ node.op = "closeAll" => (otm.monitor = "node" \/ MonitorTaken)
          /\ node' = Idle
          /\ otm' = [otm EXCEPT !.monitor = "free", !.publisher =
                        IF node.op = "closeAll" THEN "null" ELSE @]
       \/ \E s \in otm.subscribers :
          /\ node.op = "closeAll" /\ (otm.monitor = "node" \/ MonitorTaken)
          /\ node' = [node EXCEPT !.step = "stop", !.target = s]
          /\ otm' = [otm EXCEPT !.monitor = "node", !.subscribers = @ \ {s}]
    /\ UNCHANGED <<loop, reader, sent, written, missed>>

NodeThread == StopSending \/ NotifySender \/ JoinSender \/ JoinReader \/ Destroyed

ReadingThread ==
    \/ LockToDeliver \/ Delivered
    \/ \E s \in Subscribers \cap Exists : Deliver(s)

Next ==
    \/ SetPublisher \/ CloseAll
    \/ \E s \in Subscribers : AddSubscriber(s) \/ RemoveSubscriber(s)
    \/ NodeThread
    \/ Packet \/ ReadingThread
    \/ \E s \in Subscribers \cap Exists : FeedbackBegins(s) \/ FeedbackEnds(s)
    \/ \E c \in Exists : SendThread(c) \/ ReaderEnds(c) \/ ConnectionFails(c)

Fairness ==
    /\ WF_vars(NodeThread)
    /\ WF_vars(ReadingThread)
    /\ \A c \in Connections :
          /\ WF_vars(c \in Exists /\ SendThread(c))
          /\ WF_vars(c \in Exists /\ (ReaderEnds(c) \/ FeedbackEnds(c)))

Spec == Init /\ [][Next]_vars /\ Fairness
------------------------------------------------------------------------------
\* Types of the threads, queues and connections.
TypeOK ==
    /\ otm.monitor \in {"free", "node", "reader"}
    /\ otm.subscribers \subseteq Subscribers
    /\ node.target \in Connections \cup {""}
    /\ otm.subscribers \subseteq Exists /\ Exists \subseteq Connections
    /\ sent \in 0 .. MaxPackets
    /\ \A c \in Exists :
          /\ loop[c].pc \in SendPCs /\ loop[c].hand \in 0 .. MaxPackets
          /\ Len(loop[c].queue) <= SendQueueBound
          /\ reader[c].pc \in {"idle", "locking", "delivering", "feedback", "ended"}

\* What a subscriber is given or will be: the packets written, the one in hand
\* and those queued.
Stream(s) ==
    written[s] \o (IF loop[s].hand = 0 THEN <<>> ELSE <<loop[s].hand>>) \o loop[s].queue

\* A subscriber gets the packets in their order and each at most once, and
\* without a gap as long as its queue was never full, whatever the sending
\* thread, the publisher and Node do in between (queueData and sendLoop).
StreamsAreContinuous ==
    \A s \in Subscribers \cap Exists : \A i \in 1 .. Len(Stream(s)) - 1 :
        IF s \in missed.drops THEN Stream(s)[i] < Stream(s)[i + 1]
        ELSE Stream(s)[i] + 1 = Stream(s)[i + 1]

\* Queues and threads keep to their bounds and to the order of the packets.
DeliveryIsSound == TypeOK /\ StreamsAreContinuous

\* The reading thread of the publisher never holds a subscriber that Node
\* destroys: the monitor covers the whole copy (deliverVideoData_, removeSubscriber).
NoDeliveryToDestroyed ==
    PublisherIs("delivering") =>
        \A s \in reader["publisher"].todo : s \in Exists /\ node.target # s

\* What is queued for a subscriber is taken, unless its connection ends.
Queued(s) == IF s \in Exists THEN loop[s].queue # <<>> /\ loop[s].sending ELSE FALSE
QueuedIsTaken == \A s \in Subscribers : Queued(s) ~> ~Queued(s)

\* A call of Node that destroys connections returns: no cycle of the monitor,
\* the mutex of a queue and the joins, unless a sending thread has missed the
\* notification of the destructor (removeSubscriber, closeAll, ~WebRtcConnection).
NodeReturns == node.op # "none" ~> (node.op = "none" \/ missed.wakeups # {})

\* "Eliminates the subscriber given its peer id" (OneToManyProcessor.h).
RemovalEnds == node.op = "removeSubscriber" ~> node.op = "none"
==============================================================================
