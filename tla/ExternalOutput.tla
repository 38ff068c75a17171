--------------------------- MODULE ExternalOutput ---------------------------
(***************************************************************************)
(* The recorder of a stream (liberizo/media/ExternalOutput.cpp): packets   *)
(* are queued by the thread that delivers them, and a writing thread takes *)
(* them from the queues, puts video frames together and writes the file.   *)
(*                                                                         *)
(* Actors: the thread of Node (init, destructor), the delivering thread    *)
(* and the writing thread.  A OneToManyProcessor delivers and destroys     *)
(* under one monitor, so these two exclude each other; the writing thread  *)
(* runs beside both.  libav and the FEC receiver are external: writing     *)
(* succeeds, and a packet out of RED is one more packet of the network.    *)
(***************************************************************************)
EXTENDS RtpPacketQueue

CONSTANTS
    Stream,        \* [audio, video]: the packets that are sent, of fields
                   \* seq, time, start and marker, and others that are
                   \* not read; the packets of a frame have its time
    MaxFaults      \* bound: packets that overtake others or come twice

Kinds == {"audio", "video"}

\* What the sender of a stream does: sequence numbers go round the circle, time
\* does not go back, and no packet is another once more.
ASSUME StreamAssumption ==
    /\ MaxFaults \in Nat
    /\ \A k \in Kinds :
          /\ Stream[k] \in Seq(ToSet(Stream[k]))
          /\ \A i \in DOMAIN Stream[k] :
                LET p == Stream[k][i] IN
                /\ p.seq \in 0 .. SeqModulus - 1 /\ p.time \in Nat
                /\ p.start \in BOOLEAN /\ p.marker \in BOOLEAN
                /\ p.seq = (Stream[k][1].seq + (i - 1)) % SeqModulus
                /\ \A j \in DOMAIN Stream[k] :
                      i < j => p.time <= Stream[k][j].time /\ p # Stream[k][j]

VARIABLES
    queue,         \* [audio |-> audioQueue_, video |-> videoQueue_]
    recording,     \* recording_: "unset" before init() sets it
    node,          \* what the thread of Node has reached
    writer,        \* what sendLoop has reached
    push,          \* what the delivering thread is about to do
    media,         \* codec   oformat->audio_codec is known
                   \* sound   the publisher has audio: getAudioSinkSSRC() # 0
                   \* data    firstDataReceived_ is set
                   \* ssrc    videoSourceSsrc_ is set
                   \* fir     a picture was asked for
    file,          \* streams video_stream_ and audio_stream_ exist
                   \* search  vp8SearchState_, buffer: unpackagedBuffer_
                   \* lastSeq lastVideoSequenceNumber_
                   \* frames  written: [packets, pts], sound: [packet, pts]
    net,           \* what is under way: [audio, video: indices], and faults
                   \* so far; what is overtaken may never come
    seen           \* history: given [audio, video], the packets popped;
                   \* raced: a packet became late on its way into a queue;
                   \* unset: the thread found recording_ not set, and ended
                   \* missed: the last notification found nobody waiting;
                   \* early: frames that were whole before there was a stream

recorderVars == <<queue, recording, node, writer, push, media, file, net, seen>>

Nothing == [pc |-> "idle"]

RecorderInit ==
    /\ queue = [audio |-> NewQueue(FALSE), video |-> NewQueue(TRUE)]
    /\ recording = "unset" /\ node = "new" /\ writer = "none" /\ push = Nothing
    /\ \E sound \in BOOLEAN :
          media = [codec |-> FALSE, sound |-> sound, data |-> FALSE, ssrc |-> FALSE,
                   fir |-> FALSE]
    /\ file = [streams |-> FALSE, search |-> "start", buffer |-> <<>>, lastSeq |-> -1,
               frames |-> <<>>, sound |-> <<>>]
    /\ net = [audio |-> IF media.sound THEN DOMAIN Stream.audio ELSE {},
              video |-> DOMAIN Stream.video, faults |-> 0]
    /\ seen = [given |-> [k \in Kinds |-> <<>>], raced |-> FALSE, unset |-> FALSE,
             missed |-> FALSE, early |-> {}]

\* popPacket gave no packet, and the process ends where it is used.
Crashed == writer = "crashed"

(* init and destructor, on the thread of Node. *)

\* The thread runs before recording_ is set.
StartWriter ==
    /\ node = "new" /\ node' = "init" /\ writer' = "test"
    /\ UNCHANGED <<queue, recording, push, media, file, net, seen>>

InitReturns ==
    /\ node = "init" /\ node' = "open" /\ recording' = "on"
    /\ UNCHANGED <<queue, writer, push, media, file, net, seen>>

Destroy ==
    /\ node = "open" /\ push = Nothing
    /\ node' = "notify" /\ recording' = "off"
    /\ UNCHANGED <<queue, writer, push, media, file, net, seen>>

Woken == IF writer = "waiting" THEN "audio" ELSE writer

\* cond_.notify_one() without the mutex: a thread between its test and its wait
\* misses it.
NotifyEnd ==
    /\ node = "notify" /\ node' = "join" /\ writer' = Woken
    /\ seen' = [seen EXCEPT !.missed = writer = "locking"]
    /\ UNCHANGED <<queue, recording, push, media, file, net>>

\* The thread has ended, and the file is closed.
Join ==
    /\ node = "join" /\ writer = "ended" /\ node' = "closed"
    /\ UNCHANGED <<queue, recording, writer, push, media, file, net, seen>>

(* The delivering thread: queueData and pushPacket. *)

\* One that is next, overtakes others or comes once more.
Arrives(k, i, copy) ==
    LET fault == copy \/ \E j \in net[k] : j < i
    IN  /\ fault => net.faults < MaxFaults
        /\ net' = [net EXCEPT ![k] = IF copy THEN @ ELSE @ \ {i},
                              !.faults = IF fault THEN @ + 1 ELSE @]

\* deliverAudioData_, deliverVideoData_, and queueData up to the packet's first
\* test: the sender's SSRC is learnt from audio, and FIR is sent once.
Deliver(k, i, copy) ==
    LET p == Stream[k][i]
        ssrc == media.ssrc \/ k = "audio"
    IN  /\ node = "open" /\ push = Nothing /\ Arrives(k, i, copy)
        /\ media' = [media EXCEPT !.data = TRUE, !.ssrc = ssrc, !.fir = @ \/ ssrc,
                                  !.codec = @ \/ (~media.data /\ ~media.sound)]
        /\ queue' = IF k = "audio" THEN [queue EXCEPT !.audio.timed = TRUE] ELSE queue
        /\ push' = [pc |-> IF IsLate(queue[k], p) THEN "notify" ELSE "insert",
                    kind |-> k, packet |-> p]
        /\ UNCHANGED <<recording, node, writer, file, seen>>

InsertPacket ==
    LET k == push.kind
    IN  /\ push.pc = "insert"
        /\ queue' = [queue EXCEPT ![k] = PushPacket(@, push.packet)]
        /\ push' = [push EXCEPT !.pc = "notify"]
        /\ seen' = [seen EXCEPT !.raced = @ \/ IsLate(queue[k], push.packet)]
        /\ UNCHANGED <<recording, node, writer, media, file, net>>

NotifyData ==
    /\ push.pc = "notify" /\ push' = Nothing
    /\ writer' = IF \E k \in Kinds : HasData(queue[k]) THEN Woken ELSE writer
    /\ UNCHANGED <<queue, recording, node, media, file, net, seen>>

(* The writing thread: sendLoop. *)

\* while (recording_): before init() has set it, it may be anything.
TestRecording ==
    /\ writer = "test"
    /\ \/ recording \in {"on", "unset"} /\ writer' = "locking"
          /\ UNCHANGED seen
       \/ recording \in {"off", "unset"} /\ writer' = "drain"
          /\ seen' = [seen EXCEPT !.unset = recording = "unset"]
    /\ UNCHANGED <<queue, recording, node, push, media, file, net>>

Wait ==
    /\ writer = "locking" /\ writer' = "waiting"
    /\ UNCHANGED <<queue, recording, node, push, media, file, net, seen>>

Popping == [audio |-> "popAudio", video |-> "popVideo"]
After == [audio |-> "video", video |-> "test"]

\* hasData of the queue whose turn it is.
Look(k) ==
    /\ writer = k
    /\ writer' = IF HasData(queue[k]) THEN Popping[k] ELSE After[k]
    /\ UNCHANGED <<queue, recording, node, push, media, file, net, seen>>

\* Mutant: the wrap is not corrected.
PtsUncorrected(p, first) == Timestamp(p) - Timestamp(first)

\* A wrap adds 2^32 - 1 where the comment says 2^32.
Pts(p, first) ==
    LET d == Timestamp(p) - Timestamp(first)
    IN  IF d < 0 THEN d + TsModulus - 1 ELSE d

\* The first packet handed out.
First(k, p) == IF seen.given[k] = <<>> THEN p ELSE Head(seen.given[k])

\* writeAudioData: the first packet tells the codec, and with it there are streams.

WriteAudio(p) ==
    /\ media' = [media EXCEPT !.codec = TRUE]
    /\ file' = [file EXCEPT !.streams = TRUE,
                   !.sound = Append(@, [packet |-> p, pts |-> Pts(p, First("audio", p))])]
    /\ seen' = [seen EXCEPT !.given.audio = Append(@, p)]

\* Mutant: packets are put together whatever is missing.
NoGap(p) == FALSE

\* A gap: the sum is an int, so that 0 does not follow SeqModulus - 1.
Gap(p) == p.seq # file.lastSeq + 1

Held(p) == IF Gap(p) THEN <<>> ELSE file.buffer
Search(p) == IF Gap(p) THEN "start" ELSE file.search

\* The payload so far. A frame that begins drops an unfinished one, and not one
\* that is whole and could not be written.
Unpackaged(p) ==
    IF p.start /\ (p.marker \/ Search(p) = "end") THEN <<p>>
    ELSE IF p.start \/ Search(p) = "end" THEN Append(Held(p), p)
    ELSE <<>>

EndsFrame(p) == p.marker /\ (p.start \/ Search(p) = "end")

\* writeVideoData. Without streams the payload stays where it is.
WriteVideo(p) ==
    LET whole == EndsFrame(p)
        written == whole /\ media.codec
        frame == [packets |-> Unpackaged(p), pts |-> Pts(p, First("video", p))]
    IN  /\ file' = [file EXCEPT
               !.lastSeq = p.seq, !.streams = media.codec,
               !.search = IF ~p.marker /\ (p.start \/ Search(p) = "end") THEN "end" ELSE "start",
               !.buffer = IF written THEN <<>> ELSE Unpackaged(p),
               !.frames = IF written THEN Append(@, frame) ELSE @]
        /\ seen' = [seen EXCEPT !.given.video = Append(@, p),
                       !.early = IF whole /\ ~media.codec THEN @ \cup {p.time} ELSE @]
        /\ UNCHANGED media

Write(k, p) == IF k = "audio" THEN WriteAudio(p) ELSE WriteVideo(p)

\* popPacket and the write. Another thread may have changed the queue since
\* hasData: without a packet the process ends.
Pop(k) ==
    /\ writer = Popping[k]
    /\ IF Pops(queue[k], FALSE)
       THEN /\ Write(k, Last(queue[k].list))
            /\ queue' = [queue EXCEPT ![k] = PopPacket(@)]
            /\ writer' = k
       ELSE writer' = "crashed" /\ UNCHANGED <<queue, media, file, seen>>
    /\ UNCHANGED <<recording, node, push, net>>

\* Mutant: only the queue of audio is drained.
DrainAudio == IF queue.audio.list # <<>> THEN "audio" ELSE "none"

Drained == IF queue.audio.list # <<>> THEN "audio"
           ELSE IF queue.video.list # <<>> THEN "video" ELSE "none"

Drain ==
    /\ writer = "drain"
    /\ IF Drained = "none"
       THEN writer' = "ended" /\ UNCHANGED <<queue, media, file, seen>>
       ELSE /\ Write(Drained, Last(queue[Drained].list))
            /\ queue' = [queue EXCEPT ![Drained] = PopPacket(@)]
            /\ UNCHANGED writer
    /\ UNCHANGED <<recording, node, push, net>>

NodeThread == ~Crashed /\ (StartWriter \/ InitReturns \/ NotifyEnd \/ Join)
WritingThread ==
    TestRecording \/ Wait \/ Drain \/ \E k \in Kinds : Look(k) \/ Pop(k)
DeliveringThread == ~Crashed /\ (InsertPacket \/ NotifyData)

RecorderNext ==
    \/ NodeThread \/ WritingThread \/ DeliveringThread
    \/ ~Crashed /\ Destroy
    \/ \E k \in Kinds : \E i \in net[k], copy \in BOOLEAN : ~Crashed /\ Deliver(k, i, copy)

Fairness ==
    /\ WF_recorderVars(NodeThread)
    /\ WF_recorderVars(WritingThread)
    /\ WF_recorderVars(DeliveringThread)

RecorderSpec == RecorderInit /\ [][RecorderNext]_recorderVars /\ Fairness
------------------------------------------------------------------------------
Packets(k) == {Stream[k][i] : i \in DOMAIN Stream[k]}

\* Types of the threads, the queues and the file.
RecorderTypeOK ==
    /\ recording \in {"unset", "on", "off"}
    /\ node \in {"new", "init", "open", "notify", "join", "closed"}
    /\ writer \in {"none", "test", "locking", "waiting", "audio", "video", "popAudio",
                   "popVideo", "drain", "ended", "crashed"}
    /\ push.pc \in {"idle", "insert", "notify"}
    /\ \A k \in Kinds :
          /\ queue[k].last \in -1 .. SeqModulus - 1
          /\ DepthInSeconds(queue[k].timed, queue[k].list) <= MaxDepth
          /\ {queue[k].list[i] : i \in DOMAIN queue[k].list} \subseteq Packets(k)
    /\ file.search \in {"start", "end"} /\ file.streams => media.codec

\* A queue is in the order in which the packets were sent and has no packet
\* twice, across the wrap of sequence numbers and whatever the network did
\* (pushPacket).
Before(k, p, q) ==
    \E i, j \in DOMAIN Stream[k] : i < j /\ p = Stream[k][i] /\ q = Stream[k][j]
QueueIsSorted ==
    \A k \in Kinds : \A i \in 1 .. Len(queue[k].list) - 1 :
        Before(k, queue[k].list[i + 1], queue[k].list[i])

\* Packets are handed out in the order they were sent, each once.
InOrder(k) ==
    \A i \in 1 .. Len(seen.given[k]) - 1 : Before(k, seen.given[k][i], seen.given[k][i + 1])

\* "Handles late packets.  Packets with sequence number greater than the last
\* sequence number handed out through popPacket are discarded." (RtpPacketQueue.h)
\* Only a packet that became late between the test of pushPacket and its mutex
\* is handed out of order or twice.
OrderUnlessRaced == seen.raced \/ \A k \in Kinds : InOrder(k)

\* The queues keep what is in them and what leaves them in order.
QueuesKeepOrder == RecorderTypeOK /\ QueueIsSorted /\ OrderUnlessRaced

\* A frame of the file is made of consecutive packets, from one that starts a
\* frame to one that ends a frame; if it has more than one frame, the others
\* were whole before there were streams (writeVideoData).
FramesAreWhole ==
    \A n \in DOMAIN file.frames :
        \E i, j \in DOMAIN Stream.video :
            /\ i <= j /\ file.frames[n].packets = SubSeq(Stream.video, i, j)
            /\ Stream.video[i].start /\ Stream.video[j].marker
            /\ \A m \in i .. j - 1 :
                  Stream.video[m].marker => Stream.video[m].time \in seen.early

\* The packets from i to j are a frame, whose sequence numbers do not wrap.
IsFrame(i, j) ==
    /\ i <= j /\ Stream.video[i].start /\ Stream.video[j].marker
    /\ \A m \in i .. j - 1 :
          /\ ~Stream.video[m].marker /\ ~Stream.video[m + 1].start
          /\ Stream.video[m + 1].seq = Stream.video[m].seq + 1

\* They are handed out one after the other, after n others.
HandedOut(i, j, n) ==
    /\ n + (j - i) < Len(seen.given.video)
    /\ \A m \in i .. j : seen.given.video[n + 1 + (m - i)] = Stream.video[m]

\* A frame whose packets are handed out one after the other is in the file or
\* was whole before there were streams (writeVideoData).
FramesAreWritten ==
    \A i, j \in DOMAIN Stream.video :
        (IsFrame(i, j) /\ \E n \in 0 .. Len(seen.given.video) : HandedOut(i, j, n)) =>
            \/ Stream.video[j].time \in seen.early
            \/ \E f \in DOMAIN file.frames :
                  Stream.video[j] \in ToSet(file.frames[f].packets)

\* The timestamps of the file follow those of the source from the first packet
\* on, across their wrap, where one tick is lost (writeVideoData, writeAudioData).
Follows(pts, time, first) == pts \in {time - first, time - first - 1}
PtsFollowSource ==
    seen.raced \/
    /\ \A i \in DOMAIN file.frames :
          Follows(file.frames[i].pts, Last(file.frames[i].packets).time,
                  Head(seen.given.video).time)
    /\ \A i \in DOMAIN file.sound :
          Follows(file.sound[i].pts, file.sound[i].packet.time, Head(seen.given.audio).time)

\* The file holds what was sent, whole, in frames and at its time.
FileIsFaithful == FramesAreWhole /\ FramesAreWritten /\ PtsFollowSource

\* A recording that is closed has nothing left in its queues, unless the thread
\* found recording_ unset and ended before it was (sendLoop).
Complete == node = "closed" /\ (seen.unset \/ \A k \in Kinds : queue[k].list = <<>>)

\* The destructor returns, and not before the recording is complete, unless its
\* notification was missed or the process has ended on a packet that was no
\* longer there (~ExternalOutput, sendLoop).
RecordingIsComplete == node = "notify" ~> (Complete \/ seen.missed \/ Crashed)
==============================================================================
