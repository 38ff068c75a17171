---------------------------- MODULE VP8Packager ----------------------------
(***************************************************************************)
(* How the packets of a stream are made of its frames, and what is read of *)
(* them: OutputProcessor (liberizo/media/MediaProcessor.cpp), which a      *)
(* player runs on the frames of its file, with its RtpVP8Fragmenter, and   *)
(* RtpVP8Parser, which a recorder runs on each packet.                     *)
(*                                                                         *)
(* A frame has a size in bytes and a pts; a byte of a payload is a pair of *)
(* the pts of its frame and its place in it.  Timestamps are in the unit   *)
(* of pts, none of which is 0: a pts of 0 would take the wall clock.       *)
(***************************************************************************)
EXTENDS Integers, Sequences, SequencesExt

CONSTANTS
    MaxSize,       \* MAX_SIZE: bytes of a payload, its descriptor included
    SeqNumbers     \* 2^16: sequence numbers are written in 16 bits

ASSUME PackagerAssumption == {MaxSize - 1, SeqNumbers} \subseteq Nat \ {0}

FragmentSize(remaining) == IF remaining > MaxSize - 1 THEN MaxSize - 1 ELSE remaining

\* calculatePackets: fragments as large as they may be, from the first byte on.
Fragments(length) ==
    LET from[pos \in 0 .. length] ==
            IF pos = length THEN <<>>
            ELSE LET size == FragmentSize(length - pos)
                 IN  <<[first |-> pos = 0, position |-> pos, size |-> size]>>
                        \o from[pos + size]
    IN  from[0]

\* Mutant: positions count the descriptors of the fragments before.
WriteFragmentPast(frame, fragment) ==
    LET position == fragment.position + fragment.position \div (MaxSize - 1)
    IN  [s |-> fragment.first,
         data |-> [i \in 1 .. fragment.size |-> <<frame.pts, position + i>>]]

\* The descriptor is one byte, of which only S may be set.
WriteFragment(frame, fragment) ==
    [s |-> fragment.first,
     data |-> [i \in 1 .. fragment.size |-> <<frame.pts, fragment.position + i>>]]

\* packageVideo: the marker is on the packet that leaves no fragment behind.
PackageVideo(frame, seq) ==
    LET fragments == Fragments(frame.size)
    IN  [i \in DOMAIN fragments |->
            [seq |-> (seq + i - 1) % SeqNumbers, time |-> frame.pts,
             marker |-> i = Len(fragments),
             payload |-> WriteFragment(frame, fragments[i])]]

\* The frames that receiveLoop reads, one after the other.
PackageFrames(frames, seq) ==
    FoldLeft(LAMBDA packets, frame : packets \o PackageVideo(frame, seq + Len(packets)),
             <<>>, frames)

\* packageAudio: a packet for each, all marked.
PackageAudio(times, seq) ==
    [i \in DOMAIN times |->
        [seq |-> (seq + i - 1) % SeqNumbers, time |-> times[i], marker |-> TRUE]]

\* parseVP8: the data is what follows the descriptor.
ParseVP8(payload) == [beginningOfPartition |-> payload.s, data |-> payload.data]
=============================================================================
