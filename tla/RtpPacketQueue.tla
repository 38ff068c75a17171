--------------------------- MODULE RtpPacketQueue ---------------------------
(***************************************************************************)
(* The reordering queue of RTP packets (liberizo/rtp/RtpPacketQueue.cpp).  *)
(*                                                                         *)
(* A record, and its methods as operators on it:                           *)
(*   list    queue_, newest packet first                                   *)
(*   last    lastSequenceNumberGiven_, -1 before the first                 *)
(*   timed   a timebase is set: without one the depth is zero              *)
(* A packet has at least a seq, of 16 bits, and a time: the second it was  *)
(* captured, of which its timestamp keeps the last bits.                   *)
(***************************************************************************)
EXTENDS Integers, Sequences, SequencesExt, FiniteSetsExt

CONSTANTS
    SeqModulus,    \* 2^16 in the code
    TsModulus,     \* 2^32 / timebase in the code: seconds until timestamps wrap
    FirstTs,       \* the timestamp of second 0
    Depth,         \* depthInSeconds_
    MaxDepth       \* maxDepthInSeconds_

ASSUME QueueAssumption ==
    /\ SeqModulus \in Nat \ {0} /\ SeqModulus % 2 = 0
    /\ TsModulus \in Nat \ {0} /\ FirstTs \in 0 .. TsModulus - 1
    /\ {Depth, MaxDepth} \subseteq Nat /\ Depth < MaxDepth

NewQueue(timed) == [list |-> <<>>, last |-> -1, timed |-> timed]

Timestamp(p) == (p.time + FirstTs) % TsModulus

\* x comes before y on the circle of sequence numbers; half a turn apart,
\* neither comes before the other.
SequenceLessThan(x, y) ==
    LET half == SeqModulus \div 2
    IN  \/ x < y /\ y - x < half
        \/ x > y /\ y - x < -half

\* getDepthInSeconds of a list: an unsigned difference of timestamps.
DepthInSeconds(timed, list) ==
    IF timed /\ Len(list) > 1
    THEN (Timestamp(Head(list)) - Timestamp(Last(list))) % TsModulus ELSE 0

HasData(q) == DepthInSeconds(q.timed, q.list) > Depth

\* The first test of pushPacket, made before the mutex is taken.
IsLate(q, p) == q.last >= 0 /\ (SequenceLessThan(p.seq, q.last) \/ p.seq = q.last)

\* Mutant: the duplicate is inserted too.
InsertAny(list, p) ==
    LET older == {i \in DOMAIN list : ~SequenceLessThan(p.seq, list[i].seq)}
    IN  IF older = {} THEN Append(list, p) ELSE InsertAt(list, Min(older), p)

\* Before the first packet that is older; a duplicate is dropped.
Insert(list, p) ==
    LET stop == {i \in DOMAIN list : \/ list[i].seq = p.seq
                                     \/ SequenceLessThan(list[i].seq, p.seq)}
    IN  IF stop = {} THEN Append(list, p)
        ELSE IF list[Min(stop)].seq = p.seq THEN list
        ELSE InsertAt(list, Min(stop), p)

\* The oldest packets are dropped until the queue is not too deep.
Enforce(timed, list) ==
    SubSeq(list, 1, Max({n \in 0 .. Len(list) :
                           DepthInSeconds(timed, SubSeq(list, 1, n)) <= MaxDepth}))

\* The rest of pushPacket, under the mutex.
PushPacket(q, p) == [q EXCEPT !.list = Enforce(q.timed, Insert(@, p))]

\* popPacket returns a packet, the oldest.
Pops(q, ignoreDepth) == q.list # <<>> /\ (ignoreDepth \/ HasData(q))

PopPacket(q) == [q EXCEPT !.list = Front(@), !.last = Last(q.list).seq]
=============================================================================
