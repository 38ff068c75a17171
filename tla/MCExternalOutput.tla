-------------------------- MODULE MCExternalOutput --------------------------
(***************************************************************************)
(* The recorder on a stream that the packager makes: two frames before the *)
(* wrap of the sequence numbers and one across it, with a gap in their     *)
(* times, and audio.  Frames have one payload, a full second one, and one  *)
(* byte more than one.                                                     *)
(***************************************************************************)
EXTENDS ExternalOutput, VP8Packager

Frames == <<[size |-> 1, pts |-> 1], [size |-> 4, pts |-> 3], [size |-> 3, pts |-> 4]>>

\* What the recorder reads of a packet of video; audio has no descriptor.
Read(p) ==
    [seq |-> p.seq, time |-> p.time, marker |-> p.marker,
     start |-> ParseVP8(p.payload).beginningOfPartition,
     data |-> ParseVP8(p.payload).data]
Heard(p) ==
    [seq |-> p.seq, time |-> p.time, marker |-> p.marker, start |-> TRUE, data |-> <<>>]

MCStream == [
    audio |-> LET packets == PackageAudio(<<1, 3>>, 7)
              IN  [i \in DOMAIN packets |-> Heard(packets[i])],
    video |-> LET packets == PackageFrames(Frames, 65532)
              IN  [i \in DOMAIN packets |-> Read(packets[i])]]

-----------------------------------------------------------------------------
Times(f) == {f.packets[i].time : i \in DOMAIN f.packets}
BytesOf(frame) == [i \in 1 .. frame.size |-> <<frame.pts, i>>]
Concat(s) == FoldLeft(\o, <<>>, s)

\* The bytes of a frame of the file are those of the frames it is made of, from
\* the first to the last: fragments neither overlap nor leave any out
\* (calculatePackets, writeFragment, parseVP8, writeVideoData).
FramesAreExact ==
    \A i \in DOMAIN file.frames :
        LET f == file.frames[i]
            source == SelectSeq(Frames, LAMBDA frame : frame.pts \in Times(f))
        IN  Concat([j \in DOMAIN f.packets |-> f.packets[j].data])
              = Concat([j \in DOMAIN source |-> BytesOf(source[j])])
=============================================================================
