------------------------------ MODULE SendLoop ------------------------------
(***************************************************************************)
(* The send queue of a WebRtcConnection and the thread that empties it     *)
(* (queueData and sendLoop of liberizo/WebRtcConnection.cpp; RtpSink.cpp   *)
(* and media/ExternalOutput.cpp have the same loop).                       *)
(*                                                                         *)
(* A record [sending, queue, pc, hand], and operators on it.  The thread   *)
(* tests the queue and waits on cond_ under receiveVideoMutex_; sending_   *)
(* is read and written without it.                                         *)
(*   pc   "start"    before the first look at sending_                     *)
(*        "test"     sending_ was set; about to look at the queue          *)
(*        "empty"    it was empty; the mutex is still held                 *)
(*        "waiting"  in cond_.wait                                         *)
(*        "woken"    notified, before it has the mutex again               *)
(*        "writing"  hand goes to the transport                            *)
(*        "ended"                                                          *)
(***************************************************************************)
EXTENDS Naturals, Sequences

CONSTANT
    SendQueueBound      \* 1000 in the code

ASSUME SendQueueAssumption == SendQueueBound \in Nat \ {0}

SendPCs == {"start", "test", "empty", "waiting", "woken", "writing", "ended"}

NewLoop == [sending |-> TRUE, queue |-> <<>>, pc |-> "start", hand |-> 0]

\* cond_.notify_one() reaches a thread that waits, and no other.
Notified(l) == [l EXCEPT !.pc = IF @ = "waiting" THEN "woken" ELSE @]

\* The thread will wait without another look at sending_.
WillWait(l) == l.pc = "empty" \/ (l.pc = "test" /\ l.queue = <<>>)

\* Mutant: the packet is added and nobody told.
QueueSilently(l, p) ==
    IF l.sending /\ Len(l.queue) < SendQueueBound
    THEN [l EXCEPT !.queue = Append(@, p)] ELSE l

\* Needs the mutex: not while the thread is at "empty".
QueuePacket(l, p) ==
    IF ~l.sending THEN l
    ELSE Notified([l EXCEPT !.queue =
                      IF Len(@) < SendQueueBound THEN Append(@, p) ELSE @])

Full(l) == l.sending /\ Len(l.queue) >= SendQueueBound

\* Mutant: the packet stays at the front.
KeepFront(q) == q

RemoveFront(q) == Tail(q)

Took(l) == [l EXCEPT !.pc = "writing", !.hand = Head(l.queue), !.queue = RemoveFront(@)]
Looked(l) == IF l.queue = <<>> THEN [l EXCEPT !.pc = "empty"] ELSE Took(l)

\* A step of the thread. After a packet it looks at sending_ and then waits for
\* the mutex; after a notification it looks at sending_ and the queue at once.
LoopStep(l) ==
    CASE l.pc = "start" -> [l EXCEPT !.pc = IF l.sending THEN "test" ELSE "ended"]
      [] l.pc = "test" -> Looked(l)
      [] l.pc = "empty" -> [l EXCEPT !.pc = "waiting"]
      [] l.pc = "woken" -> IF l.sending THEN Looked(l) ELSE [l EXCEPT !.pc = "ended"]
      [] l.pc = "writing" -> [l EXCEPT !.hand = 0,
                                       !.pc = IF l.sending THEN "test" ELSE "ended"]

LoopRuns(l) == l.pc \notin {"waiting", "ended"}
=============================================================================
