----------------------------- MODULE MCSdpInfo -----------------------------
(* Offers for TLC, after the descriptions of browsers that the tests read    *)
(* (liberizo/test/Chrome.sdp, Firefox.sdp, Openwebrtc.sdp), one of audio     *)
(* only and one with numbers that are others of the server.                  *)
EXTENDS SdpInfo

Bundle == [type |-> "bundle"]
Ufrag(u) == [type |-> "ufrag", value |-> u]
Direction(d) == [type |-> "direction", value |-> d]
Source(n) == [type |-> "ssrc", value |-> n]
Payload(pt, codec) == [type |-> "rtpmap", pt |-> pt, codec |-> codec]
Fb(pt, value) == [type |-> "rtcp-fb", pt |-> pt, value |-> value]
Cand(id, protocol, component) ==
    [type |-> "candidate", id |-> id, protocol |-> protocol, component |-> component]

Offer(order, session, audio, video) ==
    [order |-> <<"session">> \o order,
     lines |-> [s \in Sections |-> CASE s = "session" -> session [] s = "audio" -> audio
                                     [] s = "video" -> video]]

Chrome == Offer(<<"audio", "video">>, {Bundle},
    {Ufrag("u"), Payload(0, "PCMU"), Payload(111, "opus"), Payload(126, "tel"), Source(1),
     Cand("a", "udp", 1)},
    {Ufrag("u"), Direction("sendonly"), Payload(100, "VP8"), Fb(100, "nack"),
     Payload(116, "red"), Payload(117, "ulpfec"), Source(2), Cand("v", "tcp", 1)})

Firefox == Offer(<<"audio", "video">>, {Ufrag("f")},
    {Payload(109, "opus"), Payload(0, "PCMU"), Payload(101, "tel"), Direction("sendrecv"),
     Cand("a", "udp", 1), Cand("a2", "udp", 2)},
    {Payload(120, "VP8"), Payload(126, "H264"), Fb(120, "nack"), Fb(126, "nack"),
     Direction("recvonly"), Cand("v", "udp", 1)})

Openwebrtc == Offer(<<"audio", "video">>, {},
    {Ufrag("oa"), Payload(0, "PCMU"), Source(1), Cand("a", "udp", 1)},
    {Ufrag("ov"), Payload(103, "H264"), Payload(100, "VP8"), Fb(100, "fir"), Source(2),
     Cand("v", "udp", 1)})

AudioOnly == Offer(<<"audio">>, {Bundle},
    {Ufrag("u"), Payload(0, "PCMU"), Direction("sendonly"), Cand("a", "udp", 1)}, {})

\* The video comes first and names no credentials; its numbers are those of
\* other codecs inside.
Crossed == Offer(<<"video", "audio">>, {},
    {Ufrag("u"), Payload(117, "PCMU"), Payload(8, "tel"), Source(1), Cand("a", "udp", 1)},
    {Payload(126, "VP8"), Payload(100, "red"), Payload(127, "ulpfec"), Fb(126, "nack"),
     Source(2), Cand("v", "udp", 1)})

Clashing == Offer(<<"audio", "video">>, {},
    {Ufrag("ua"), Payload(100, "PCMU")}, {Ufrag("uv"), Payload(100, "VP8")})

MCOffers == {Chrome, Firefox, Openwebrtc, AudioOnly, Crossed, Clashing}
=============================================================================
