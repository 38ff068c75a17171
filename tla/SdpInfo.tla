------------------------------ MODULE SdpInfo ------------------------------
(***************************************************************************)
(* A session description, read line by line (liberizo/SdpInfo.cpp), and    *)
(* what WebRtcConnection does with it: the answer, the candidates that it  *)
(* gives its transports, the sources it listens to and the payload types   *)
(* of packets that come and go.                                            *)
(*                                                                         *)
(* The peer's offer is a sequence of sections, the session first and then  *)
(* the media, each a set of lines in any order.  A line is a record of its *)
(* type and what is read from it; its text is not modelled, nor are the    *)
(* parts of an answer that are copied or constant.                         *)
(***************************************************************************)
EXTENDS Integers, Sequences

CONSTANT Offers    \* each [order: sequence of Sections, lines: Section -> lines]

Media == {"audio", "video"}
Sections == {"session"} \cup Media
Directions == {"sendrecv", "sendonly", "recvonly"}
PayloadTypes == 0 .. 127
Absent == -1       \* of a map: no such key
None == "none"     \* of text: empty

\* internalPayloadVector_
Internal == [VP8 |-> 100, red |-> 116, ulpfec |-> 117, PCMU |-> 0, tel |-> 126]

MediumOfCodec(c) == IF c \in {"VP8", "red", "ulpfec"} THEN "video" ELSE "audio"

\* The source of a medium that the offer does not name.
HiddenSsrc == [audio |-> 91, video |-> 92]

Lines(o, m, type) == {l \in o.lines[m] : l.type = type}

\* What the lines of a section say, one by one and of each other.
WellFormed(o, m) ==
    /\ \A l \in o.lines[m] :
          l.type \in IF m = "session" THEN {"bundle", "ufrag", "direction"}
                    ELSE {"ufrag", "direction", "candidate", "rtpmap", "rtcp-fb", "ssrc"}
    /\ \A l \in Lines(o, m, "ufrag") : l.value # None
    /\ \A l, k \in Lines(o, m, "direction") : l.value \in Directions /\ l = k
    /\ \A l, k \in Lines(o, m, "ssrc") : l.value \notin {0, HiddenSsrc.audio, HiddenSsrc.video} /\ l = k
    /\ \A l \in Lines(o, m, "rtpmap") :
          /\ l.pt \in PayloadTypes
          /\ l.codec \in DOMAIN Internal => MediumOfCodec(l.codec) = m
          /\ \A k \in Lines(o, m, "rtpmap") : k.pt = l.pt => k.codec = l.codec
    /\ \A l \in Lines(o, m, "rtcp-fb") : \E k \in Lines(o, m, "rtpmap") : k.pt = l.pt

\* What a description is: each section comes once and the session first; it has
\* credentials somewhere, and the media are different sources.
ASSUME OfferAssumption ==
    \A o \in Offers :
        /\ o.order \in Seq(Sections) /\ o.order # <<>> /\ Head(o.order) = "session"
        /\ \A i, j \in DOMAIN o.order : o.order[i] = o.order[j] => i = j
        /\ o.lines = [m \in Sections |-> o.lines[m]]
        /\ \A m \in Sections :
              WellFormed(o, m) /\ ((\A i \in DOMAIN o.order : o.order[i] # m) => o.lines[m] = {})
        /\ \E m \in Sections : Lines(o, m, "ufrag") # {}
        /\ \A a \in Lines(o, "audio", "ssrc"), v \in Lines(o, "video", "ssrc") : a.value # v.value

VARIABLES
    offer,         \* what the peer offers
    at, left,      \* the section that is read, and its lines still to come
    phase,         \* "reading", then "answered"
    remote,        \* remoteSdp_
    answer,        \* the parts of localSdp_ that setOfferSdp derives
    given,         \* candidates given to transports: [to, cand, user]
    source,        \* the SSRCs of the sources
    packet         \* history: the last packet, and what became of it

sdpVars == <<offer, at, left, phase, remote, answer, given, source, packet>>

NoPacket == [way |-> None, medium |-> None, codec |-> None, sink |-> None, pt |-> Absent]

SdpInit ==
    /\ offer \in Offers
    /\ at = 1 /\ left = offer.lines["session"] /\ phase = "reading"
    /\ remote = [mtype |-> "other", bundle |-> FALSE, has |-> {},
                 user |-> [m \in Media |-> None], candidates |-> {}, feedback |-> {},
                 ssrc |-> [m \in Media |-> 0], direction |-> [m \in Media |-> None],
                 payloads |-> <<>>, inOut |-> [p \in PayloadTypes |-> Absent],
                 outIn |-> [p \in PayloadTypes |-> Absent]]
    /\ answer = [payloads |-> <<>>, direction |-> [m \in Media |-> None]]
    /\ given = {} /\ source = [m \in Media |-> 0] /\ packet = NoPacket

(* processSdp: one operator for each type of line, which gives the SdpInfo. *)

\* The medium a line is put to: before the first m line, video.
MediumOf(s) == IF s.mtype = "audio" THEN "audio" ELSE "video"

Candidate(s, l) ==
    IF l.protocol = "udp"
    THEN [s EXCEPT !.candidates = @ \cup {[id |-> l.id, component |-> l.component,
              medium |-> s.mtype, user |-> s.user[MediumOf(s)]]}]
    ELSE s

Known(codec) == codec \in DOMAIN Internal

InternalOf(codec) == IF codec \in DOMAIN Internal THEN Internal[codec] ELSE 1

\* One pair of maps for both media.
MapPayload(s, pt, codec) ==
    [s EXCEPT !.outIn[pt] = InternalOf(codec), !.inOut[InternalOf(codec)] = pt]

Rtpmap(s, l) ==
    IF Known(l.codec)
    THEN [MapPayload(s, l.pt, l.codec) EXCEPT
             !.payloads = Append(@, [pt |-> l.pt, codec |-> l.codec, medium |-> s.mtype,
                                     feedback |-> {}])]
    ELSE s

\* Mutant: feedback is put to the payloads read so far.
AddNow(s, l) == [s EXCEPT !.payloads = [i \in DOMAIN @ |->
    IF @[i].pt = l.pt THEN [@[i] EXCEPT !.feedback = @ \cup {l.value}] ELSE @[i]]]

Feedback(s, l) == [s EXCEPT !.feedback = @ \cup {[pt |-> l.pt, value |-> l.value]}]

Ssrc(s, l) ==
    IF s.mtype \in Media /\ s.ssrc[s.mtype] = 0 THEN [s EXCEPT !.ssrc[s.mtype] = l.value]
    ELSE s

ReadLine(s, l) ==
    CASE l.type = "bundle"    -> [s EXCEPT !.bundle = TRUE]
      [] l.type = "ufrag"     -> [s EXCEPT !.user[MediumOf(s)] = l.value]
      [] l.type = "direction" -> [s EXCEPT !.direction[MediumOf(s)] = l.value]
      [] l.type = "candidate" -> Candidate(s, l)
      [] l.type = "rtpmap"    -> Rtpmap(s, l)
      [] l.type = "rtcp-fb"   -> Feedback(s, l)
      [] l.type = "ssrc"      -> Ssrc(s, l)

\* Credentials of one medium serve the other if it has none.
Users(s) ==
    [m \in Media |-> IF s.user[m] # None THEN s.user[m]
                     ELSE s.user[IF m = "audio" THEN "video" ELSE "audio"]]

WithUser(c, users) == [c EXCEPT !.user = users[IF c.medium = "video" THEN "video" ELSE "audio"]]

\* A payload and the feedback that was read for its number.
WithFeedback(s, p) ==
    [p EXCEPT !.feedback = @ \cup {f.value : f \in {g \in s.feedback : g.pt = p.pt}}]

\* The end of processSdp, which is not reached without any credentials.
Finish(s) ==
    LET users == Users(s) IN
    IF s.user = [m \in Media |-> None] THEN s ELSE
    [s EXCEPT !.user = users, !.candidates = {WithUser(c, users) : c \in @},
              !.payloads = [i \in DOMAIN @ |-> WithFeedback(s, @[i])]]

(* WebRtcConnection: setRemoteSdp and addRemoteCandidate. *)

Line(l) ==
    /\ phase = "reading" /\ l \in left /\ left' = left \ {l}
    /\ remote' = ReadLine(remote, l)
    /\ UNCHANGED <<offer, at, phase, answer, given, source, packet>>

\* An m line.
NextSection ==
    /\ phase = "reading" /\ left = {} /\ at < Len(offer.order) /\ at' = at + 1
    /\ LET m == offer.order[at + 1] IN
       /\ left' = offer.lines[m]
       /\ remote' = [remote EXCEPT !.mtype = m, !.has = @ \cup {m}]
    /\ UNCHANGED <<offer, phase, answer, given, source, packet>>

Facing(d) ==
    CASE d = "sendonly" -> {"recvonly"} [] d = "recvonly" -> {"sendonly"}
      [] d = "sendrecv" -> {"sendrecv"}
      [] OTHER -> Directions   \* the field is never initialized

\* The transport of a medium, as setRemoteSdp builds them.
Transports(s) == IF s.bundle THEN {"video"} ELSE s.has

\* NiceConnection::setRemoteCandidates
Taken(s, transport, candidates) ==
    {[to |-> transport, id |-> c.id, medium |-> c.medium, user |-> c.user] :
        c \in {d \in candidates : d.component = 1 /\ (s.bundle \/ d.medium = transport)}}

\* The rest of setRemoteSdp. The candidates of a bundle go to the transport of
\* video if there is video.
SetRemoteSdp ==
    /\ phase = "reading" /\ left = {} /\ at = Len(offer.order)
    /\ LET s == Finish(remote) IN
       \E a \in Facing(s.direction.audio), v \in Facing(s.direction.video) :
          /\ remote' = s
          /\ answer' = [payloads |-> s.payloads,
                        direction |-> [m \in Media |-> IF m = "audio" THEN a ELSE v]]
          /\ source' = s.ssrc
          /\ given' = UNION {Taken(s, t, s.candidates) : t \in Transports(s) \cap s.has}
    /\ phase' = "answered"
    /\ UNCHANGED <<offer, at, left, packet>>

\* Mutant: the candidates of audio go to its transport, bundled or not.
TransportByMedium(m) == m

TransportOf(m) == IF m = "video" \/ remote.bundle THEN "video" ELSE "audio"

\* A candidate that comes after the offer is read with the credentials of its
\* medium.
AddRemoteCandidate(m, id) ==
    LET c == [id |-> id, component |-> 1, medium |-> m, user |-> remote.user[m]]
    IN  /\ phase = "answered" /\ m \in remote.has
        /\ given' = given \cup Taken(remote, TransportOf(m), {c})
        /\ remote' = [remote EXCEPT !.candidates = @ \cup {c}]
        /\ UNCHANGED <<offer, at, left, phase, answer, source, packet>>

(* onTransportData and deliverVideoData_: packets. *)

InternalPT(s, pt) == IF s.outIn[pt] = Absent THEN pt ELSE s.outIn[pt]
ExternalPT(s, pt) == IF s.inOut[pt] = Absent THEN pt ELSE s.inOut[pt]

\* The sink of a packet, None if its source is unknown.
SinkOf(transport, ssrc) ==
    IF ~remote.bundle THEN transport
    ELSE IF ssrc = source.video THEN "video"
    ELSE IF ssrc = source.audio THEN "audio" ELSE None

\* A packet from the peer. Without a bundle the SSRC is learnt.
OnTransportData(m, ssrc, p) ==
    LET sink == SinkOf(IF remote.bundle THEN "video" ELSE m, ssrc)
    IN  /\ phase = "answered"
        /\ packet' = [way |-> "in", medium |-> m, codec |-> p.codec, sink |-> sink,
                      pt |-> InternalPT(remote, p.pt)]
        /\ source' = IF ~remote.bundle /\ source[m] = 0
                     THEN [source EXCEPT ![m] = ssrc] ELSE source
        /\ UNCHANGED <<offer, at, left, phase, remote, answer, given>>

\* Mutant: nothing is taken out of RED.
AlwaysSupported(s, pt) == TRUE

\* supportPayloadType: it looks up the number outside as if it were inside.
SupportPayloadType(s, pt) ==
    /\ s.inOut[pt] # Absent
    /\ \E i \in DOMAIN s.payloads : s.inOut[s.payloads[i].pt] = pt

\* Each number that the look-up meets, up to the one it looks for, and that is
\* not in the map is put there as 0.
LookedUp(s, pt) ==
    LET found == {i \in DOMAIN s.payloads : s.inOut[s.payloads[i].pt] = pt}
        met == {s.payloads[i].pt : i \in {j \in DOMAIN s.payloads : \A f \in found : j < f}}
    IN  IF s.inOut[pt] = Absent THEN s
        ELSE [s EXCEPT !.inOut = [p \in PayloadTypes |->
                 IF p \in met /\ @[p] = Absent THEN 0 ELSE @[p]]]

\* What leaves for a codec: what RED carries is VP8.
OutgoingPT(s, codec) ==
    IF codec = "red" /\ ~SupportPayloadType(s, Internal.red)
    THEN ExternalPT(LookedUp(s, Internal.red), Internal.VP8)
    ELSE ExternalPT(s, Internal[codec])

DeliverData(m, codec) ==
    /\ phase = "answered" /\ m \in remote.has
    /\ packet' = [way |-> "out", medium |-> m, codec |-> codec, sink |-> m,
                  pt |-> OutgoingPT(remote, codec)]
    /\ remote' = IF codec = "red" THEN LookedUp(remote, Internal.red) ELSE remote
    /\ UNCHANGED <<offer, at, left, phase, answer, given, source>>
-----------------------------------------------------------------------------
(* The peer. *)

Said(m, type) == Lines(offer, m, type)

\* The source of a medium.
SsrcOf(m) == IF Said(m, "ssrc") = {} THEN HiddenSsrc[m]
             ELSE (CHOOSE l \in Said(m, "ssrc") : TRUE).value

Trickled == [audio |-> "ta", video |-> "tv"]

\* The peer sends what the answer accepts.
PeerSends ==
    \E i \in DOMAIN answer.payloads :
        LET p == answer.payloads[i] IN OnTransportData(p.medium, SsrcOf(p.medium), p)

SdpNext ==
    \/ \E l \in left : Line(l)
    \/ NextSection \/ SetRemoteSdp \/ PeerSends
    \/ \E m \in Media : AddRemoteCandidate(m, Trickled[m])
    \/ \E c \in DOMAIN Internal : DeliverData(MediumOfCodec(c), c)

SdpSpec == SdpInit /\ [][SdpNext]_sdpVars
-----------------------------------------------------------------------------
Answered == phase = "answered"
Bundled == Said("session", "bundle") # {}
Codecs(m) == {l.codec : l \in Said(m, "rtpmap")}
NumbersOf(m, codec) == {l.pt : l \in {k \in Said(m, "rtpmap") : k.codec = codec}}

\* The media share a payload type, which the maps cannot tell apart.
Clash ==
    \E a \in Said("audio", "rtpmap"), v \in Said("video", "rtpmap") : a.pt = v.pt

\* Types, and no codec is answered that the server does not know.
SdpTypeOK ==
    /\ at \in 1 .. Len(offer.order) /\ left \subseteq offer.lines[offer.order[at]]
    /\ remote.has \subseteq Media /\ DOMAIN remote.user = Media
    /\ \A p \in PayloadTypes : {remote.inOut[p], remote.outIn[p]} \subseteq {Absent} \cup PayloadTypes
    /\ \A i \in DOMAIN answer.payloads : answer.payloads[i].codec \in DOMAIN Internal
    /\ \A g \in given : g.to \in Media /\ g.user # None

\* A transport gets a candidate with the credentials of its medium, those of the
\* session or those of the other medium, wherever their lines are; an offer that
\* names both session and video is read as if video spoke for audio (processSdp,
\* addRemoteCandidate).
Other(m) == IF m = "audio" THEN "video" ELSE "audio"
UserLines(m) ==
    IF Said(m, "ufrag") # {} THEN Said(m, "ufrag")
    ELSE IF Said("session", "ufrag") # {} THEN Said("session", "ufrag")
    ELSE Said(Other(m), "ufrag")
CandidatesAreAuthentic ==
    (Said("session", "ufrag") = {} \/ Said("video", "ufrag") = {}) =>
        \A g \in given : g.user \in {l.value : l \in UserLines(g.medium)}

\* Every candidate of the first component reaches the transport that carries its
\* medium, except those in a bundled offer without video (setRemoteSdp).
Named(m) ==
    {l.id : l \in {c \in Said(m, "candidate") : c.protocol = "udp" /\ c.component = 1}}
    \cup {c.id : c \in {d \in remote.candidates : d.medium = m /\ d.component = 1}}
CandidatesReachTransport ==
    (Answered /\ ~(Bundled /\ "video" \notin remote.has)) =>
        \A m \in remote.has : \A id \in Named(m) :
            \E g \in given : g.id = id /\ g.to = (IF Bundled THEN "video" ELSE m)

\* The candidates of an offer are used, and used right.
CandidatesAreUsed == SdpTypeOK /\ CandidatesAreAuthentic /\ CandidatesReachTransport

\* The answer has the payloads of the offer that the server knows, each with the
\* feedback that the offer names for it in whatever order, and the directions
\* that face those of the offer (processSdp, setOfferSdp).
Feedbacks(m, pt) == {l.value : l \in {f \in Said(m, "rtcp-fb") : f.pt = pt}}
AnswerMirrorsOffer ==
    Answered => \A m \in remote.has :
        /\ Clash \/
           {answer.payloads[i] : i \in {j \in DOMAIN answer.payloads :
                                           answer.payloads[j].medium = m}} =
           {[pt |-> l.pt, codec |-> l.codec, medium |-> m, feedback |-> Feedbacks(m, l.pt)] :
               l \in {k \in Said(m, "rtpmap") : k.codec \in DOMAIN Internal}}
        /\ \A l \in Said(m, "direction") : answer.direction[m] \in Facing(l.value)

\* A packet of the peer goes to the sink of its medium with the number that the
\* server has for its codec, unless the media share a number; in a bundle it is
\* dropped if the offer names no source (onTransportData).
IncomingIsKnown ==
    (packet.way = "in" /\ ~Clash) =>
        \/ packet.sink = packet.medium /\ packet.pt = Internal[packet.codec]
        \/ packet.sink = None /\ Bundled /\ Said(packet.medium, "ssrc") = {}

\* A packet for the peer has a number that the peer offered for its codec, and
\* RED reaches only a peer that offered it (deliverVideoData_, queueData).
OutgoingIsOffered ==
    (packet.way = "out" /\ ~Clash) =>
        CASE packet.codec \in Codecs(packet.medium) /\ packet.codec # "red" ->
                 packet.pt \in NumbersOf(packet.medium, packet.codec)
          [] packet.codec = "red" /\ "VP8" \in Codecs("video") ->
                 packet.pt \in NumbersOf("video", "VP8") \cup NumbersOf("video", "red")
          [] OTHER -> TRUE

\* Both ends understand the numbers of the packets they get.
PayloadTypesAgree == IncomingIsKnown /\ OutgoingIsOffered
=============================================================================
