------------------------------ MODULE RtpProofs ------------------------------
(***************************************************************************)
(* What is proved of the two components that live on the numbers and times *)
(* of RTP: RtcpProcessor and the recorder (ExternalOutput with its         *)
(* RtpPacketQueue).                                                        *)
(*                                                                         *)
(* RtcpProcessor: a report to the publisher stands for what its receivers  *)
(* said, for any number of sender reports and of packets of feedback, any  *)
(* bandwidths and ratios, and at any times.  A part of a compound packet   *)
(* changes the entry; Heard adds it to what was said since the last        *)
(* report.  The invariant relates the two part by part, so it holds of the *)
(* whole packet.                                                           *)
(*                                                                         *)
(* The recorder: its queues are in order and its file holds what was sent, *)
(* for streams of any length that wrap as often as they like, any depth    *)
(* and any number of faults of the network.  Packets are compared by At,   *)
(* their place in the stream; Timely says when the circles of sequence     *)
(* numbers and timestamps can tell those places apart.                     *)
(***************************************************************************)
EXTENDS RtcpProcessor, ExternalOutput, SequenceTheorems, TLAPS

Fields == {"mediaType", "lastSr", "delaySinceLastSr", "lastSrUpdated", "lastDelay",
           "ratioLost", "reportedBandwidth", "nextPacketInMs", "lastRrSent", "lastREMBSent",
           "senderReports", "nack", "pli", "remb", "requestRr"}
Time(t) == {Never} \cup (0 .. t)

\* An entry d when the sender reports of the publisher are srs.
Entry(d, srs, t) ==
    /\ DOMAIN d = Fields
    /\ d.mediaType \in Media
    /\ d.senderReports \in Seq(srs) /\ Len(d.senderReports) <= MaxReports
    /\ d.lastSr \in {0} \cup {Stamp(sr) : sr \in srs}
    /\ d.delaySinceLastSr \in Nat /\ d.lastSrUpdated \in 0 .. t
    /\ d.ratioLost \in {0} \cup Ratios /\ d.nack \in {None} \cup Nacks
    /\ d.reportedBandwidth \in (0 .. DefaultBw) \cup Bandwidths
    /\ d.nextPacketInMs \in {0} \cup Periods[d.mediaType]
    /\ d.lastRrSent \in Time(t) /\ d.lastREMBSent \in Time(t)
    /\ d.nextPacketInMs = 0 => d.lastRrSent = Never
    /\ d.pli \in BOOLEAN /\ d.remb \in BOOLEAN /\ d.requestRr \in BOOLEAN

\* What was said since the last report.
Said(s) ==
    /\ DOMAIN s = {"worst", "lowest", "nack", "asked"}
    /\ s.worst \in Nat /\ s.lowest \in Nat
    /\ s.nack \in {None} \cup Nacks /\ s.asked \in BOOLEAN

\* The entry d stands for all that is in s, and rtts has its round trip.
StandsFor(d, s, rtts) ==
    /\ d.ratioLost >= s.worst
    /\ d.nack = s.nack
    /\ s.lowest = 0 \/ d.reportedBandwidth \in 1 .. s.lowest
    /\ d.requestRr => s.asked
    /\ d.remb /\ d.mediaType = "video" => s.asked
    /\ d.lastSr > 0 =>
          <<d.lastSr, d.lastSrUpdated - (d.lastSr - 1) - d.delaySinceLastSr>> \in rtts

TimeInv ==
    /\ now \in 0 .. MaxTime /\ reports \subseteq 0 .. now /\ budget \in 0 .. MaxFeedback
    /\ DOMAIN ever = {"rtts", "prev", "last"}

ReportInv ==
    /\ TimeInv
    /\ Entry(data, reports, now) /\ Said(since) /\ StandsFor(data, since, ever.rtts)
    /\ WorstIsReported /\ NackIsCurrent /\ LowestIsSent /\ RrsAreSpaced /\ RttIsReal

-----------------------------------------------------------------------------
\* The periods, and what else the assumptions say.
LEMMA Bounds ==
    /\ \A m \in Media : Periods[m] \subseteq 1 .. Long
    /\ RembTimeout \in Nat /\ Wrap \in Nat \ {0} /\ MaxReports \in Nat \ {0}
    /\ DefaultBw \in Nat \ {0} /\ Step \in Nat \ {0} /\ Long \in Nat
    /\ \A b \in Bandwidths \cup Ratios : b \in Nat /\ b # 0
    /\ MaxTime \in Nat /\ MaxFeedback \in Nat /\ None \notin Nacks
<1>1. Long \in Nat BY DEF Long
<1> QED BY <1>1, RtcpAssumption

\* A part of a packet that comes at t, of a receiver of the sender reports srs.
RrPart(p, srs) ==
    /\ p.type = "rr" /\ p.ratio \in Ratios /\ p.delay \in Nat
    /\ p.lastSr \in {0} \cup {Stamp(sr) : sr \in srs}
NackPart(p) == p.type = "nack" /\ p.nack \in Nacks
RembPart(p) == p.type = "remb" /\ p.bandwidth \in Bandwidths

Measured(p, t) ==
    IF p.lastSr = 0 THEN {} ELSE {<<p.lastSr, t - (p.lastSr - 1) - p.delay>>}

\* The state of the loop over the parts.
Loop(d, srs, t) ==
    DOMAIN d = {"data", "delay", "now"} /\ d.now = t /\ Entry(d.data, srs, t)

\* What the next entry e has of the entry d.
Continues(e, d) ==
    /\ e.mediaType = d.mediaType
    /\ d.remb => e.remb

\* A receiver report may make the ratio worse, and be the one recorded.
LEMMA RrFields ==
    ASSUME NEW d, NEW p, NEW srs, NEW t, Loop(d, srs, t), p.type = "rr"
    PROVE  LET f == d.data
               e == Analyze(d, p).data
           IN  /\ DOMAIN e = Fields
               /\ e.ratioLost = Worse(f.ratioLost, p.ratio)
               /\ \/ /\ e.lastSr = p.lastSr /\ e.delaySinceLastSr = p.delay
                     /\ e.lastSrUpdated = t
                  \/ /\ e.lastSr = f.lastSr /\ e.delaySinceLastSr = f.delaySinceLastSr
                     /\ e.lastSrUpdated = f.lastSrUpdated
               /\ \A x \in Fields \ {"ratioLost", "lastSr", "delaySinceLastSr",
                                     "lastSrUpdated", "lastDelay"} : e[x] = f[x]
               /\ DOMAIN Analyze(d, p) = {"data", "delay", "now"}
               /\ Analyze(d, p).now = t
<1> DEFINE f == d.data
           known == {i \in DOMAIN f.senderReports : Stamp(f.senderReports[i]) = p.lastSr}
           delay == IF known = {} THEN d.delay
                    ELSE d.now - f.senderReports[Max(known)] - (p.delay % Wrap)
           worse == [f EXCEPT !.ratioLost = Worse(@, p.ratio)]
           recorded == [RecordSr(worse, p, t) EXCEPT !.lastDelay = delay]
           e == IF f.lastSr = 0 \/ f.lastDelay < delay THEN recorded ELSE worse
<1>1. Analyze(d, p) = [d EXCEPT !.delay = delay, !.data = e]
  BY DEF Analyze, ReceiverReport, Loop
<1>2. DOMAIN f = Fields BY DEF Loop, Entry
<1> HIDE DEF delay, f, known
<1>3. /\ DOMAIN worse = Fields /\ worse.ratioLost = Worse(f.ratioLost, p.ratio)
      /\ \A x \in Fields \ {"ratioLost"} : worse[x] = f[x]
  BY <1>2 DEF Fields
<1>4. /\ DOMAIN recorded = Fields /\ recorded.ratioLost = Worse(f.ratioLost, p.ratio)
      /\ recorded.lastSr = p.lastSr /\ recorded.delaySinceLastSr = p.delay
      /\ recorded.lastSrUpdated = t
      /\ \A x \in Fields \ {"ratioLost", "lastSr", "delaySinceLastSr",
                            "lastSrUpdated", "lastDelay"} : recorded[x] = f[x]
  <2> HIDE DEF worse
  <2>1. QED BY <1>3 DEF RecordSr, Fields
<1>5. DOMAIN d = {"data", "delay", "now"} /\ d.now = t BY DEF Loop
<1> HIDE DEF worse, recorded
<1>6. /\ DOMAIN e = Fields
      /\ e.ratioLost = Worse(f.ratioLost, p.ratio)
      /\ \/ /\ e.lastSr = p.lastSr /\ e.delaySinceLastSr = p.delay
            /\ e.lastSrUpdated = t
         \/ /\ e.lastSr = f.lastSr /\ e.delaySinceLastSr = f.delaySinceLastSr
            /\ e.lastSrUpdated = f.lastSrUpdated
      /\ \A x \in Fields \ {"ratioLost", "lastSr", "delaySinceLastSr",
                            "lastSrUpdated", "lastDelay"} : e[x] = f[x]
  <2>1. CASE f.lastSr = 0 \/ f.lastDelay < delay BY <2>1, <1>4
  <2>2. CASE ~(f.lastSr = 0 \/ f.lastDelay < delay)
    <3>1. e = worse BY <2>2
    <3>2. worse.lastSr = f.lastSr /\ worse.delaySinceLastSr = f.delaySinceLastSr
          /\ worse.lastSrUpdated = f.lastSrUpdated
      BY <1>3 DEF Fields
    <3> QED BY <3>1, <3>2, <1>3
  <2> QED BY <2>1, <2>2
<1> HIDE DEF e
<1>7. /\ Analyze(d, p).data = e /\ Analyze(d, p).now = t
      /\ DOMAIN Analyze(d, p) = {"data", "delay", "now"}
  BY <1>1, <1>5
<1> QED BY <1>6, <1>7 DEF f

HeardRr(s, p) == [s EXCEPT !.worst = IF @ >= p.ratio THEN @ ELSE p.ratio]

LEMMA RrKeeps ==
    ASSUME NEW d, NEW p, NEW srs, NEW t \in Nat, NEW s, NEW rtts, Loop(d, srs, t),
           srs \subseteq Nat, RrPart(p, srs), Said(s), StandsFor(d.data, s, rtts)
    PROVE  /\ Loop(Analyze(d, p), srs, t)
           /\ Said(HeardRr(s, p))
           /\ StandsFor(Analyze(d, p).data, HeardRr(s, p), rtts \cup Measured(p, t))
           /\ Continues(Analyze(d, p).data, d.data)
           /\ Analyze(d, p).data.reportedBandwidth = d.data.reportedBandwidth
<1> DEFINE f == d.data
           e == Analyze(d, p).data
           u == HeardRr(s, p)
<1>1. /\ DOMAIN e = Fields
      /\ e.ratioLost = Worse(f.ratioLost, p.ratio)
      /\ \/ /\ e.lastSr = p.lastSr /\ e.delaySinceLastSr = p.delay
            /\ e.lastSrUpdated = t
         \/ /\ e.lastSr = f.lastSr /\ e.delaySinceLastSr = f.delaySinceLastSr
            /\ e.lastSrUpdated = f.lastSrUpdated
      /\ \A x \in Fields \ {"ratioLost", "lastSr", "delaySinceLastSr",
                            "lastSrUpdated", "lastDelay"} : e[x] = f[x]
      /\ DOMAIN Analyze(d, p) = {"data", "delay", "now"}
      /\ Analyze(d, p).now = t
  BY RrFields DEF RrPart
<1>2. /\ e.mediaType = f.mediaType /\ e.senderReports = f.senderReports
      /\ e.nack = f.nack /\ e.reportedBandwidth = f.reportedBandwidth
      /\ e.nextPacketInMs = f.nextPacketInMs /\ e.lastRrSent = f.lastRrSent
      /\ e.lastREMBSent = f.lastREMBSent /\ e.pli = f.pli /\ e.remb = f.remb
      /\ e.requestRr = f.requestRr
  BY <1>1 DEF Fields
<1>3. Entry(f, srs, t) BY DEF Loop
<1>4. /\ DOMAIN u = {"worst", "lowest", "nack", "asked"}
      /\ u.worst = (IF s.worst >= p.ratio THEN s.worst ELSE p.ratio)
      /\ u.lowest = s.lowest /\ u.nack = s.nack /\ u.asked = s.asked
  BY DEF Said, HeardRr
<1> HIDE DEF f, e, u
<1>5. /\ p.ratio \in Ratios /\ p.ratio \in Nat /\ p.delay \in Nat /\ t \in 0 .. t
      /\ \A r \in Ratios : r \in Nat
  <2>1. p.ratio \in Ratios /\ p.delay \in Nat BY DEF RrPart
  <2>2. \A r \in Ratios : r \in Nat BY Bounds
  <2> QED BY <2>1, <2>2
<1>6. e.ratioLost \in {0} \cup Ratios /\ f.ratioLost \in Nat
  <2>1. f.ratioLost \in {0} \cup Ratios BY <1>3 DEF Entry
  <2>2. f.ratioLost \in Nat BY <2>1, <1>5
  <2>3. e.ratioLost \in {f.ratioLost, p.ratio} BY <1>1 DEF Worse
  <2> QED BY <2>1, <2>2, <2>3, <1>5
<1>7. Entry(e, srs, t)
  <2>1. /\ e.lastSr \in {0} \cup {Stamp(sr) : sr \in srs}
        /\ e.delaySinceLastSr \in Nat /\ e.lastSrUpdated \in 0 .. t
    BY <1>1, <1>3, <1>5 DEF Entry, RrPart
  <2> QED BY <1>1, <1>2, <1>3, <1>6, <2>1 DEF Entry
<1>8. Said(u) BY <1>4, <1>5 DEF Said
<1>9. e.ratioLost >= u.worst
  BY <1>1, <1>4, <1>5, <1>6 DEF StandsFor, Said, Worse, f
<1>10. e.lastSr > 0 =>
          <<e.lastSr, e.lastSrUpdated - (e.lastSr - 1) - e.delaySinceLastSr>>
             \in rtts \cup Measured(p, t)
  BY <1>1 DEF StandsFor, Measured, f
<1>11. StandsFor(e, u, rtts \cup Measured(p, t))
  BY <1>2, <1>4, <1>9, <1>10 DEF StandsFor, f
<1> QED BY <1>1, <1>2, <1>7, <1>8, <1>11 DEF Loop, Continues, e, f, u

HeardNack(s, p) == [s EXCEPT !.nack = p.nack, !.asked = TRUE]

LEMMA NackKeeps ==
    ASSUME NEW d, NEW p, NEW srs, NEW t \in Nat, NEW s, NEW rtts, Loop(d, srs, t),
           NackPart(p), Said(s), StandsFor(d.data, s, rtts)
    PROVE  /\ Loop(Analyze(d, p), srs, t)
           /\ Said(HeardNack(s, p))
           /\ StandsFor(Analyze(d, p).data, HeardNack(s, p), rtts)
           /\ Continues(Analyze(d, p).data, d.data)
<1> DEFINE f == d.data
           g == Analyze(d, p)
           e == g.data
           u == HeardNack(s, p)
<1>1. g = [d EXCEPT !.data = [f EXCEPT !.nack = p.nack, !.requestRr = TRUE]]
  BY DEF Analyze, Nack, NackPart, Loop, Entry, Fields
<1>2. /\ DOMAIN d = {"data", "delay", "now"} /\ d.now = t
      /\ Entry(f, srs, t) /\ DOMAIN f = Fields
  BY DEF Loop, Entry
<1>3. /\ DOMAIN g = {"data", "delay", "now"} /\ g.now = t
      /\ e = [f EXCEPT !.nack = p.nack, !.requestRr = TRUE]
  BY <1>1, <1>2
<1> HIDE DEF f, g
<1>4. /\ DOMAIN e = Fields /\ e.nack = p.nack /\ e.requestRr = TRUE
      /\ \A x \in Fields \ {"nack", "requestRr"} : e[x] = f[x]
  BY <1>2, <1>3 DEF Fields
<1> HIDE DEF e
<1>5. /\ e.mediaType = f.mediaType /\ e.senderReports = f.senderReports
      /\ e.lastSr = f.lastSr /\ e.delaySinceLastSr = f.delaySinceLastSr
      /\ e.lastSrUpdated = f.lastSrUpdated /\ e.ratioLost = f.ratioLost
      /\ e.reportedBandwidth = f.reportedBandwidth
      /\ e.nextPacketInMs = f.nextPacketInMs /\ e.lastRrSent = f.lastRrSent
      /\ e.lastREMBSent = f.lastREMBSent /\ e.pli = f.pli /\ e.remb = f.remb
  BY <1>4 DEF Fields
<1>6. Entry(e, srs, t) BY <1>2, <1>4, <1>5 DEF Entry, NackPart
<1>7. /\ DOMAIN u = {"worst", "lowest", "nack", "asked"}
      /\ u.worst = s.worst /\ u.lowest = s.lowest /\ u.nack = p.nack /\ u.asked = TRUE
  BY DEF Said, HeardNack
<1> HIDE DEF u
<1>8. Said(u) BY <1>7 DEF Said, NackPart
<1>9. StandsFor(e, u, rtts) BY <1>4, <1>5, <1>7 DEF StandsFor, f
<1> QED BY <1>3, <1>5, <1>6, <1>8, <1>9 DEF Loop, Continues, e, f, g, u

HeardRemb(s, d, p) ==
    [s EXCEPT !.lowest = IF @ = 0 \/ p.bandwidth < @ THEN p.bandwidth ELSE @,
              !.asked = @ \/ Lower(d, p)]

LEMMA RembKeeps ==
    ASSUME NEW d, NEW p, NEW srs, NEW t \in Nat, NEW s, NEW rtts, Loop(d, srs, t),
           RembPart(p), Said(s), StandsFor(d.data, s, rtts)
    PROVE  /\ Loop(Analyze(d, p), srs, t)
           /\ Said(HeardRemb(s, d.data, p))
           /\ StandsFor(Analyze(d, p).data, HeardRemb(s, d.data, p), rtts)
           /\ Continues(Analyze(d, p).data, d.data)
<1> DEFINE f == d.data
           g == Analyze(d, p)
           e == g.data
           u == HeardRemb(s, f, p)
<1>2. /\ DOMAIN d = {"data", "delay", "now"} /\ d.now = t
      /\ Entry(f, srs, t) /\ DOMAIN f = Fields
  BY DEF Loop, Entry
<1>a. /\ f.reportedBandwidth \in Nat /\ p.bandwidth \in Nat /\ p.bandwidth # 0
      /\ f.remb \in BOOLEAN
  <2>1. /\ f.reportedBandwidth \in (0 .. DefaultBw) \cup Bandwidths /\ f.remb \in BOOLEAN
        /\ p.bandwidth \in Bandwidths
    BY <1>2 DEF Entry, RembPart
  <2>2. \A b \in Bandwidths : b \in Nat /\ b # 0 BY Bounds
  <2>3. DefaultBw \in Nat BY Bounds
  <2> QED BY <2>1, <2>2, <2>3
<1>b. /\ DOMAIN u = {"worst", "lowest", "nack", "asked"}
      /\ u.worst = s.worst
      /\ u.lowest = (IF s.lowest = 0 \/ p.bandwidth < s.lowest THEN p.bandwidth ELSE s.lowest)
      /\ u.nack = s.nack /\ u.asked = (s.asked \/ Lower(f, p))
      /\ s.worst \in Nat /\ s.lowest \in Nat /\ s.asked \in BOOLEAN /\ s.nack \in {None} \cup Nacks
  BY DEF Said, HeardRemb
<1>c. Lower(f, p) \in BOOLEAN BY DEF Lower
<1>8. Said(u)
  <2> HIDE DEF u, f
  <2>1. u.lowest \in Nat BY <1>a, <1>b
  <2>2. u.asked \in BOOLEAN BY <1>b, <1>c
  <2> QED BY <2>1, <2>2, <1>b DEF Said
<1>1. CASE Lower(f, p)
  <2>1. g = [d EXCEPT !.data = [f EXCEPT !.reportedBandwidth = p.bandwidth, !.remb = TRUE]]
    BY <1>1 DEF Analyze, Remb, RembPart, Loop, Entry, Fields
  <2>3. /\ DOMAIN g = {"data", "delay", "now"} /\ g.now = t
        /\ e = [f EXCEPT !.reportedBandwidth = p.bandwidth, !.remb = TRUE]
    BY <2>1, <1>2
  <2> HIDE DEF f, g
  <2>4. /\ DOMAIN e = Fields /\ e.reportedBandwidth = p.bandwidth /\ e.remb = TRUE
        /\ \A x \in Fields \ {"reportedBandwidth", "remb"} : e[x] = f[x]
    BY <1>2, <2>3 DEF Fields
  <2> HIDE DEF e
  <2>5. /\ e.mediaType = f.mediaType /\ e.senderReports = f.senderReports
        /\ e.lastSr = f.lastSr /\ e.delaySinceLastSr = f.delaySinceLastSr
        /\ e.lastSrUpdated = f.lastSrUpdated /\ e.ratioLost = f.ratioLost
        /\ e.nack = f.nack /\ e.requestRr = f.requestRr
        /\ e.nextPacketInMs = f.nextPacketInMs /\ e.lastRrSent = f.lastRrSent
        /\ e.lastREMBSent = f.lastREMBSent /\ e.pli = f.pli
    BY <2>4 DEF Fields
  <2>6. Entry(e, srs, t) BY <1>2, <2>4, <2>5 DEF Entry, RembPart
  <2> HIDE DEF u
  <2>7. e.reportedBandwidth \in 1 .. u.lowest
    <3>1. s.lowest # 0 => f.reportedBandwidth \in 1 .. s.lowest BY <1>b DEF StandsFor, f
    <3>2. s.lowest # 0 => p.bandwidth < s.lowest \/ p.bandwidth <= s.lowest
      BY <3>1, <1>1, <1>a, <1>b DEF Lower
    <3>3. u.lowest = p.bandwidth BY <3>2, <1>a, <1>b
    <3> QED BY <2>4, <3>3, <1>a
  <2>8. u.asked = TRUE BY <1>1, <1>b
  <2>9. StandsFor(e, u, rtts) BY <2>4, <2>5, <2>7, <2>8, <1>b DEF StandsFor, f
  <2> QED BY <2>3, <2>4, <2>5, <2>6, <1>8, <2>9 DEF Loop, Continues, e, f, g, u
<1>3. CASE ~Lower(f, p)
  <2>1. g = d BY <1>3 DEF Analyze, Remb, RembPart
  <2> HIDE DEF u, f
  <2>2. f.reportedBandwidth # 0 /\ f.reportedBandwidth <= p.bandwidth
    BY <1>3, <1>a DEF Lower
  <2>3. u.lowest = 0 \/ f.reportedBandwidth \in 1 .. u.lowest
    BY <2>2, <1>a, <1>b DEF StandsFor, f
  <2>4. u.asked = s.asked BY <1>3, <1>b
  <2>5. StandsFor(f, u, rtts) BY <2>3, <2>4, <1>b DEF StandsFor, f
  <2> QED BY <2>1, <2>5, <1>8 DEF Loop, Continues, f, u
<1> QED BY <1>1, <1>3

LEMMA PliKeeps ==
    ASSUME NEW d, NEW p, NEW srs, NEW t \in Nat, NEW s, NEW rtts, Loop(d, srs, t),
           p.type = "pli", StandsFor(d.data, s, rtts)
    PROVE  /\ Loop(Analyze(d, p), srs, t)
           /\ StandsFor(Analyze(d, p).data, s, rtts)
           /\ Continues(Analyze(d, p).data, d.data)
<1> DEFINE f == d.data
           g == Analyze(d, p)
           e == g.data
<1>1. g = [d EXCEPT !.data = [f EXCEPT !.pli = TRUE]]
  BY DEF Analyze, Loop, Entry, Fields
<1>2. /\ DOMAIN d = {"data", "delay", "now"} /\ d.now = t
      /\ Entry(f, srs, t) /\ DOMAIN f = Fields
  BY DEF Loop, Entry
<1>3. DOMAIN g = {"data", "delay", "now"} /\ g.now = t /\ e = [f EXCEPT !.pli = TRUE]
  BY <1>1, <1>2
<1> HIDE DEF f, g
<1>4. DOMAIN e = Fields /\ e.pli = TRUE /\ \A x \in Fields \ {"pli"} : e[x] = f[x]
  BY <1>2, <1>3 DEF Fields
<1> HIDE DEF e
<1>5. /\ e.mediaType = f.mediaType /\ e.senderReports = f.senderReports
      /\ e.lastSr = f.lastSr /\ e.delaySinceLastSr = f.delaySinceLastSr
      /\ e.lastSrUpdated = f.lastSrUpdated /\ e.ratioLost = f.ratioLost
      /\ e.reportedBandwidth = f.reportedBandwidth /\ e.nack = f.nack
      /\ e.nextPacketInMs = f.nextPacketInMs /\ e.lastRrSent = f.lastRrSent
      /\ e.lastREMBSent = f.lastREMBSent /\ e.remb = f.remb /\ e.requestRr = f.requestRr
  BY <1>4 DEF Fields
<1>6. Entry(e, srs, t) BY <1>2, <1>4, <1>5 DEF Entry
<1>7. StandsFor(e, s, rtts) BY <1>5 DEF StandsFor, f
<1> QED BY <1>3, <1>5, <1>6, <1>7 DEF Loop, Continues, e, f, g

-----------------------------------------------------------------------------
\* The loop over a packet of one part or of two.
Turn(ctx, d, p) == Analyze(d, p)
Turned(ctx, done, d) ==
    /\ done = 0 => d = ctx.base
    /\ done = 1 => d = Analyze(ctx.base, ctx.packet[1])
    /\ done = 2 => d = Analyze(Analyze(ctx.base, ctx.packet[1]), ctx.packet[2])
Turns == INSTANCE FoldProofs WITH Op <- Turn, Inv <- Turned

LEMMA PacketIsRead ==
    ASSUME NEW base, NEW packet, NEW n \in {1, 2}, DOMAIN packet = 1 .. n
    PROVE  Turned([base |-> base, packet |-> packet], n, FoldLeft(Analyze, base, packet))
<1> DEFINE ctx == [base |-> base, packet |-> packet]
<1>1. ctx.base = base /\ ctx.packet = packet OBVIOUS
<1>2. FoldLeft(Analyze, base, packet) = Turns!LeftFold(ctx, base, packet)
  BY DEF FoldLeft, MapThenFoldSet, Max, Turn, Turns!LeftFold
<1> HIDE DEF ctx
<1>3. Turned(ctx, 0, base) BY <1>1 DEF Turned
<1>4. \A k \in 1 .. n : \A q : Turned(ctx, k - 1, q) => Turned(ctx, k, Turn(ctx, q, packet[k]))
  BY <1>1 DEF Turned, Turn
<1>5. n \in Nat OBVIOUS
<1>6. Turned(ctx, n, Turns!LeftFold(ctx, base, packet))
  BY <1>3, <1>4, <1>5, Turns!FoldLeftKeeps
<1> QED BY <1>2, <1>6 DEF ctx

\* The loop itself.
ReadAll(base, packet) == FoldLeft(Analyze, base, packet)

LEMMA OnePart ==
    ASSUME NEW base, NEW p PROVE ReadAll(base, <<p>>) = Analyze(base, p)
<1>1. DOMAIN <<p>> = 1 .. 1 /\ <<p>>[1] = p OBVIOUS
<1>2. Turned([base |-> base, packet |-> <<p>>], 1, ReadAll(base, <<p>>))
  BY <1>1, PacketIsRead DEF ReadAll
<1> QED BY <1>1, <1>2 DEF Turned

LEMMA TwoParts ==
    ASSUME NEW base, NEW p, NEW q
    PROVE  ReadAll(base, <<p, q>>) = Analyze(Analyze(base, p), q)
<1>1. DOMAIN <<p, q>> = 1 .. 2 /\ <<p, q>>[1] = p /\ <<p, q>>[2] = q OBVIOUS
<1>2. Turned([base |-> base, packet |-> <<p, q>>], 2, ReadAll(base, <<p, q>>))
  BY <1>1, PacketIsRead DEF ReadAll
<1> QED BY <1>1, <1>2 DEF Turned

LEMMA PartsOfOne ==
    ASSUME NEW p, NEW type
    PROVE  Parts(<<p>>, type) = IF p.type = type THEN {p} ELSE {}
<1>1. DOMAIN <<p>> = {1} /\ <<p>>[1] = p OBVIOUS
<1> QED BY <1>1 DEF Parts

LEMMA PartsOfTwo ==
    ASSUME NEW p, NEW q, NEW type
    PROVE  Parts(<<p, q>>, type) = {x \in {p, q} : x.type = type}
<1> DEFINE packet == <<p, q>>
<1>1. DOMAIN packet = {1, 2} /\ packet[1] = p /\ packet[2] = q OBVIOUS
<1> HIDE DEF packet
<1>2. Parts(packet, type) = {x \in {p, q} : x.type = type} BY <1>1 DEF Parts
<1> QED BY <1>2 DEF packet

LEMMA Extremes ==
    /\ \A a, b \in Nat : Max({a, b}) = IF a >= b THEN a ELSE b
    /\ \A a, b \in Nat : Min({a, b}) = IF a <= b THEN a ELSE b
    /\ \A a \in Nat : Max({a}) = a /\ Min({a}) = a
BY DEF Max, Min

-----------------------------------------------------------------------------
(* analyzeFeedback *)

\* s and u say the same.
LEMMA SaidTheSame ==
    ASSUME NEW d, NEW s, NEW u, NEW rtts, Said(s), StandsFor(d, s, rtts),
           DOMAIN u = {"worst", "lowest", "nack", "asked"}, u.worst = s.worst,
           u.lowest = s.lowest, u.nack = s.nack, u.asked = s.asked
    PROVE  Said(u) /\ StandsFor(d, u, rtts)
BY DEF Said, StandsFor

\* What AnalyzeFeedback makes of history.
LEMMA HistoryFields ==
    ASSUME ReportInv, NEW packet, AnalyzeFeedback(packet)
    PROVE  /\ DOMAIN since' = {"worst", "lowest", "nack", "asked"}
           /\ since'.worst = Max({since.worst} \cup {p.ratio : p \in Parts(packet, "rr")})
           /\ since'.lowest = LET all == {p.bandwidth : p \in Parts(packet, "remb")}
                                           \cup {since.lowest}
                              IN  IF all = {0} THEN 0 ELSE Min(all \ {0})
           /\ since'.nack = IF Parts(packet, "nack") = {} THEN since.nack ELSE Last(packet).nack
           /\ since'.asked = (since.asked \/ Parts(packet, "nack") # {}
                                \/ \E b \in Parts(packet, "remb") : Lower(data, b))
           /\ DOMAIN ever' = {"rtts", "prev", "last"}
           /\ ever'.prev = ever.prev /\ ever'.last = ever.last
           /\ ever'.rtts = ever.rtts
                 \cup {<<p.lastSr, now - (p.lastSr - 1) - p.delay>> :
                          p \in {r \in Parts(packet, "rr") : r.lastSr # 0}}
           /\ now' = now /\ sent' = sent /\ reports' = reports
           /\ budget' = budget - 1 /\ budget > 0
           /\ \E delay \in Garbage :
                 data' = ReadAll([data |-> data, delay |-> delay, now |-> now],
                                  packet).data
BY DEF AnalyzeFeedback, ReadAll, ReportInv, TimeInv, Said

\* What a packet of feedback leaves of the rest.
HeardStep ==
    /\ Entry(data', reports, now) /\ Said(since') /\ StandsFor(data', since', ever'.rtts)
    /\ Continues(data', data)

LEMMA LoopBegins ==
    ASSUME ReportInv, NEW delay
    PROVE  LET d == [data |-> data, delay |-> delay, now |-> now]
           IN  Loop(d, reports, now) /\ d.data = data
BY DEF ReportInv, Loop

LEMMA ReceiverReportsAreOne ==
    ASSUME ReportInv, NEW p \in ReceiverReports
    PROVE  RrPart(p, reports)
<1>1. now \in Nat /\ Step \in Nat \ {0} /\ reports \subseteq 0 .. now
  BY Bounds DEF ReportInv, TimeInv
<1>2. CASE p \in {[type |-> "rr", ratio |-> r, lastSr |-> 0, delay |-> 0] : r \in Ratios}
  BY <1>2 DEF RrPart
<1>3. CASE \E sr \in reports :
              p \in {[type |-> "rr", ratio |-> r, lastSr |-> Stamp(sr), delay |-> k * Step] :
                        r \in Ratios, k \in 0 .. (now - sr) \div Step}
  <2>0. PICK sr \in reports :
            p \in {[type |-> "rr", ratio |-> r, lastSr |-> Stamp(sr), delay |-> k * Step] :
                      r \in Ratios, k \in 0 .. (now - sr) \div Step}
    BY <1>3
  <2>1. PICK r \in Ratios, k \in 0 .. (now - sr) \div Step :
            p = [type |-> "rr", ratio |-> r, lastSr |-> Stamp(sr), delay |-> k * Step]
    BY <2>0
  <2>2. k \in Nat OBVIOUS
  <2>3. k * Step \in Nat BY <1>1, <2>2
  <2> QED BY <2>1, <2>3 DEF RrPart
<1> QED BY <1>2, <1>3 DEF ReceiverReports


\* What history has of the parts of a packet.
LEMMA PartsHeard ==
    ASSUME ReportInv, NEW packet, AnalyzeFeedback(packet)
    PROVE  /\ Parts(packet, "rr") = {} =>
                 since'.worst = since.worst /\ ever'.rtts = ever.rtts
           /\ \A p : Parts(packet, "rr") = {p} /\ p.ratio \in Nat =>
                 /\ since'.worst = HeardRr(since, p).worst
                 /\ ever'.rtts = ever.rtts \cup Measured(p, now)
           /\ Parts(packet, "remb") = {} => since'.lowest = since.lowest
           /\ \A b : Parts(packet, "remb") = {b} /\ b.bandwidth \in Nat \ {0} =>
                 since'.lowest = HeardRemb(since, data, b).lowest
           /\ Parts(packet, "nack") = {} => since'.nack = since.nack
           /\ Parts(packet, "nack") # {} =>
                 since'.nack = Last(packet).nack /\ since'.asked = TRUE
           /\ Parts(packet, "nack") = {} /\ Parts(packet, "remb") = {} =>
                 since'.asked = since.asked
           /\ \A b : Parts(packet, "nack") = {} /\ Parts(packet, "remb") = {b} =>
                 since'.asked = (since.asked \/ Lower(data, b))
<1> DEFINE w == since.worst
           l == since.lowest
<1>1. /\ w \in Nat /\ l \in Nat /\ since.asked \in BOOLEAN
      /\ DOMAIN since = {"worst", "lowest", "nack", "asked"}
  BY DEF ReportInv, Said
<1>2. Parts(packet, "rr") = {} => since'.worst = w /\ ever'.rtts = ever.rtts
  <2> SUFFICES ASSUME Parts(packet, "rr") = {} PROVE since'.worst = w /\ ever'.rtts = ever.rtts
    OBVIOUS
  <2>1. {w} \cup {x.ratio : x \in Parts(packet, "rr")} = {w} OBVIOUS
  <2>2. {<<x.lastSr, now - (x.lastSr - 1) - x.delay>> :
            x \in {r \in Parts(packet, "rr") : r.lastSr # 0}} = {}
    OBVIOUS
  <2>3. since'.worst = Max({w}) BY <2>1, HistoryFields
  <2>4. ever'.rtts = ever.rtts BY <2>2, HistoryFields
  <2> QED BY <2>3, <2>4, <1>1, Extremes
<1>3. ASSUME NEW p, Parts(packet, "rr") = {p}, p.ratio \in Nat
      PROVE  /\ since'.worst = HeardRr(since, p).worst
             /\ ever'.rtts = ever.rtts \cup Measured(p, now)
  <2>1. {w} \cup {x.ratio : x \in Parts(packet, "rr")} = {w, p.ratio} BY <1>3
  <2>2. since'.worst = Max({w, p.ratio}) BY <2>1, HistoryFields
  <2>3. HeardRr(since, p).worst = IF w >= p.ratio THEN w ELSE p.ratio
    BY <1>1 DEF HeardRr
  <2>4. {<<x.lastSr, now - (x.lastSr - 1) - x.delay>> : x \in {r \in {p} : r.lastSr # 0}}
          = Measured(p, now)
    BY DEF Measured
  <2>5. ever'.rtts = ever.rtts \cup Measured(p, now) BY <1>3, <2>4, HistoryFields
  <2> QED BY <2>2, <2>3, <2>5, <1>1, <1>3, Extremes
<1>4. Parts(packet, "remb") = {} => since'.lowest = l
  <2> SUFFICES ASSUME Parts(packet, "remb") = {} PROVE since'.lowest = l OBVIOUS
  <2>1. {x.bandwidth : x \in Parts(packet, "remb")} \cup {l} = {l} OBVIOUS
  <2>2. since'.lowest = IF {l} = {0} THEN 0 ELSE Min({l} \ {0}) BY <2>1, HistoryFields
  <2>3. l # 0 => {l} \ {0} = {l} OBVIOUS
  <2> QED BY <2>2, <2>3, <1>1, Extremes
<1>5. ASSUME NEW b, Parts(packet, "remb") = {b}, b.bandwidth \in Nat \ {0}
      PROVE  since'.lowest = HeardRemb(since, data, b).lowest
  <2> DEFINE all == {x.bandwidth : x \in Parts(packet, "remb")} \cup {l}
  <2>1. since'.lowest = IF all = {0} THEN 0 ELSE Min(all \ {0}) BY HistoryFields
  <2>2. all = {b.bandwidth, l} BY <1>5
  <2> HIDE DEF all
  <2>3. all # {0} /\ all \ {0} = IF l = 0 THEN {b.bandwidth} ELSE {b.bandwidth, l}
    BY <2>2, <1>1, <1>5
  <2>4. since'.lowest = IF l = 0 \/ b.bandwidth < l THEN b.bandwidth ELSE l
    BY <2>1, <2>3, <1>1, <1>5, Extremes
  <2> QED BY <2>4, <1>1 DEF HeardRemb
<1>6. /\ Parts(packet, "nack") = {} => since'.nack = since.nack
      /\ Parts(packet, "nack") # {} =>
            since'.nack = Last(packet).nack /\ since'.asked = TRUE
  BY HistoryFields
<1>7. /\ Parts(packet, "nack") = {} /\ Parts(packet, "remb") = {} =>
            since'.asked = since.asked
      /\ \A b : Parts(packet, "nack") = {} /\ Parts(packet, "remb") = {b} =>
            since'.asked = (since.asked \/ Lower(data, b))
  <2>1. since'.asked = (since.asked \/ Parts(packet, "nack") # {}
                          \/ \E b \in Parts(packet, "remb") : Lower(data, b))
    BY HistoryFields
  <2> QED BY <2>1, <1>1
<1> QED BY <1>2, <1>3, <1>4, <1>5, <1>6, <1>7

\* The packet is read from d, which has the entry, and leaves e.
LEMMA Read ==
    ASSUME ReportInv, NEW e, NEW s, NEW rtts, Entry(e, reports, now), Said(s),
           StandsFor(e, s, rtts), Continues(e, data), data' = e, ever'.rtts = rtts,
           DOMAIN since' = {"worst", "lowest", "nack", "asked"},
           since'.worst = s.worst, since'.lowest = s.lowest,
           since'.nack = s.nack, since'.asked = s.asked
    PROVE  HeardStep
<1>1. Said(since') /\ StandsFor(e, since', rtts) BY SaidTheSame
<1> QED BY <1>1 DEF HeardStep

\* A receiver report alone.
LEMMA RrPacket ==
    ASSUME ReportInv, NEW p \in ReceiverReports, AnalyzeFeedback(<<p>>)
    PROVE  HeardStep
<1>1. RrPart(p, reports) /\ p.type = "rr" /\ p.ratio \in Nat
  BY ReceiverReportsAreOne, Bounds DEF RrPart
<1>2. PICK delay : data' = ReadAll([data |-> data, delay |-> delay, now |-> now],
                                    <<p>>).data
  BY HistoryFields
<1> DEFINE d == [data |-> data, delay |-> delay, now |-> now]
           u == HeardRr(since, p)
<1>3. data' = Analyze(d, p).data BY <1>2, OnePart
<1>4. Loop(d, reports, now) /\ d.data = data BY LoopBegins
<1>5. now \in Nat /\ reports \subseteq Nat BY DEF ReportInv, TimeInv
<1> HIDE DEF d
<1>6. /\ Loop(Analyze(d, p), reports, now) /\ Said(u)
      /\ StandsFor(data', u, ever.rtts \cup Measured(p, now))
      /\ Continues(data', data)
  BY <1>1, <1>3, <1>4, <1>5, RrKeeps DEF ReportInv
<1>7. Parts(<<p>>, "rr") = {p} /\ Parts(<<p>>, "nack") = {} /\ Parts(<<p>>, "remb") = {}
  BY <1>1, PartsOfOne
<1>8. u.lowest = since.lowest /\ u.nack = since.nack /\ u.asked = since.asked
  BY DEF HeardRr, ReportInv, Said
<1>a. since'.worst = u.worst /\ ever'.rtts = ever.rtts \cup Measured(p, now)
  BY <1>1, <1>7, PartsHeard
<1> HIDE DEF u
<1>9. /\ ever'.rtts = ever.rtts \cup Measured(p, now)
      /\ DOMAIN since' = {"worst", "lowest", "nack", "asked"}
      /\ since'.worst = u.worst /\ since'.lowest = u.lowest
      /\ since'.nack = u.nack /\ since'.asked = u.asked
  <2>1. since'.lowest = since.lowest /\ since'.nack = since.nack /\ since'.asked = since.asked
    BY <1>7, PartsHeard
  <2>2. DOMAIN since' = {"worst", "lowest", "nack", "asked"} BY HistoryFields
  <2> QED BY <1>8, <1>a, <2>1, <2>2
<1>10. Entry(data', reports, now) BY <1>3, <1>6 DEF Loop
<1> QED BY <1>6, <1>9, <1>10, Read

\* A NACK alone.
LEMMA NackPacket ==
    ASSUME ReportInv, NEW q \in NackParts, AnalyzeFeedback(<<q>>)
    PROVE  HeardStep
<1>1. NackPart(q) /\ q.type = "nack" BY DEF NackParts, NackPart
<1>2. PICK delay : data' = ReadAll([data |-> data, delay |-> delay, now |-> now],
                                    <<q>>).data
  BY HistoryFields
<1> DEFINE d == [data |-> data, delay |-> delay, now |-> now]
           u == HeardNack(since, q)
<1>3. data' = Analyze(d, q).data BY <1>2, OnePart
<1>4. Loop(d, reports, now) /\ d.data = data BY LoopBegins
<1>5. now \in Nat BY DEF ReportInv, TimeInv
<1> HIDE DEF d
<1>6. /\ Loop(Analyze(d, q), reports, now) /\ Said(u)
      /\ StandsFor(data', u, ever.rtts)
      /\ Continues(data', data)
  BY <1>1, <1>3, <1>4, <1>5, NackKeeps DEF ReportInv
<1>7. /\ Parts(<<q>>, "rr") = {} /\ Parts(<<q>>, "nack") = {q} /\ Parts(<<q>>, "remb") = {}
      /\ Last(<<q>>) = q
  BY <1>1, PartsOfOne DEF Last
<1>8. u.worst = since.worst /\ u.lowest = since.lowest /\ u.nack = q.nack /\ u.asked = TRUE
  BY DEF HeardNack, ReportInv, Said
<1> HIDE DEF u
<1>9. /\ ever'.rtts = ever.rtts
      /\ DOMAIN since' = {"worst", "lowest", "nack", "asked"}
      /\ since'.worst = u.worst /\ since'.lowest = u.lowest
      /\ since'.nack = u.nack /\ since'.asked = u.asked
  BY <1>7, <1>8, PartsHeard, HistoryFields
<1>10. Entry(data', reports, now) BY <1>3, <1>6 DEF Loop
<1> QED BY <1>6, <1>9, <1>10, Read

\* A PLI alone.
LEMMA PliPacket ==
    ASSUME ReportInv, NEW p, p.type = "pli", AnalyzeFeedback(<<p>>)
    PROVE  HeardStep
<1>1. PICK delay : data' = ReadAll([data |-> data, delay |-> delay, now |-> now],
                                    <<p>>).data
  BY HistoryFields
<1> DEFINE d == [data |-> data, delay |-> delay, now |-> now]
<1>2. data' = Analyze(d, p).data BY <1>1, OnePart
<1>3. Loop(d, reports, now) /\ d.data = data BY LoopBegins
<1>4. now \in Nat BY DEF ReportInv, TimeInv
<1> HIDE DEF d
<1>5. /\ Loop(Analyze(d, p), reports, now)
      /\ StandsFor(data', since, ever.rtts) /\ Said(since)
      /\ Continues(data', data)
  BY <1>2, <1>3, <1>4, PliKeeps DEF ReportInv
<1>6. Parts(<<p>>, "rr") = {} /\ Parts(<<p>>, "nack") = {} /\ Parts(<<p>>, "remb") = {}
  BY PartsOfOne
<1>7. /\ ever'.rtts = ever.rtts
      /\ DOMAIN since' = {"worst", "lowest", "nack", "asked"}
      /\ since'.worst = since.worst /\ since'.lowest = since.lowest
      /\ since'.nack = since.nack /\ since'.asked = since.asked
  BY <1>6, PartsHeard, HistoryFields
<1>8. Entry(data', reports, now) BY <1>2, <1>5 DEF Loop
<1> QED BY <1>5, <1>7, <1>8, Read

\* A receiver report and a NACK or a REMB.
LEMMA TwoPartsPacket ==
    ASSUME ReportInv, NEW p \in ReceiverReports, NEW q \in NackParts \cup RembParts,
           AnalyzeFeedback(<<p, q>>)
    PROVE  HeardStep
<1>1. RrPart(p, reports) /\ p.type = "rr" /\ p.ratio \in Nat
  BY ReceiverReportsAreOne, Bounds DEF RrPart
<1>2. PICK delay : data' = ReadAll([data |-> data, delay |-> delay, now |-> now],
                                    <<p, q>>).data
  BY HistoryFields
<1> DEFINE d == [data |-> data, delay |-> delay, now |-> now]
           g == Analyze(d, p)
           u == HeardRr(since, p)
           rtts == ever.rtts \cup Measured(p, now)
<1>3. data' = Analyze(g, q).data
  <2>1. data' = ReadAll(d, <<p, q>>).data BY <1>2
  <2> HIDE DEF d
  <2>2. ReadAll(d, <<p, q>>) = Analyze(Analyze(d, p), q) BY TwoParts
  <2> QED BY <2>1, <2>2
<1>4. Loop(d, reports, now) /\ d.data = data BY LoopBegins
<1>5. now \in Nat /\ reports \subseteq Nat BY DEF ReportInv, TimeInv
<1> HIDE DEF d
<1>6. /\ Loop(g, reports, now) /\ Said(u) /\ StandsFor(g.data, u, rtts)
      /\ Continues(g.data, data) /\ g.data.reportedBandwidth = data.reportedBandwidth
  BY <1>1, <1>4, <1>5, RrKeeps DEF ReportInv
<1>7. \A type : Parts(<<p, q>>, type) = {x \in {p, q} : x.type = type} BY PartsOfTwo
<1>8. /\ u.lowest = since.lowest /\ u.nack = since.nack /\ u.asked = since.asked
      /\ DOMAIN u = {"worst", "lowest", "nack", "asked"}
  BY DEF HeardRr, ReportInv, Said
<1> HIDE DEF g, u
<1>9. CASE q \in NackParts
  <2> DEFINE v == HeardNack(u, q)
  <2>1. NackPart(q) /\ q.type = "nack" BY <1>9 DEF NackParts, NackPart
  <2>2. /\ Loop(Analyze(g, q), reports, now) /\ Said(v)
        /\ StandsFor(data', v, rtts)
        /\ Continues(data', g.data)
    BY <1>3, <1>5, <1>6, <2>1, NackKeeps
  <2>3. /\ Parts(<<p, q>>, "rr") = {p} /\ Parts(<<p, q>>, "nack") = {q}
        /\ Parts(<<p, q>>, "remb") = {} /\ Last(<<p, q>>) = q
    BY <1>1, <1>7, <2>1 DEF Last
  <2>4. v.worst = u.worst /\ v.lowest = u.lowest /\ v.nack = q.nack /\ v.asked = TRUE
    BY <1>8 DEF HeardNack
  <2> HIDE DEF v
  <2>5. /\ ever'.rtts = rtts
        /\ DOMAIN since' = {"worst", "lowest", "nack", "asked"}
        /\ since'.worst = v.worst /\ since'.lowest = v.lowest
        /\ since'.nack = v.nack /\ since'.asked = v.asked
    <3>1. since'.worst = u.worst /\ ever'.rtts = rtts BY <1>1, <2>3, PartsHeard DEF u
    <3>2. since'.lowest = since.lowest /\ since'.nack = q.nack /\ since'.asked = TRUE
      BY <2>3, PartsHeard
    <3>3. DOMAIN since' = {"worst", "lowest", "nack", "asked"} BY HistoryFields
    <3> QED BY <1>8, <2>4, <3>1, <3>2, <3>3
  <2>6. Entry(data', reports, now) BY <1>3, <2>2 DEF Loop
  <2>7. Continues(data', data) BY <1>6, <2>2 DEF Continues
  <2> QED BY <2>2, <2>5, <2>6, <2>7, Read
<1>10. CASE q \in RembParts
  <2> DEFINE v == HeardRemb(u, g.data, q)
  <2>1. RembPart(q) /\ q.type = "remb" /\ q.bandwidth \in Nat \ {0}
    BY <1>10, Bounds DEF RembParts, RembPart
  <2>2. /\ Loop(Analyze(g, q), reports, now) /\ Said(v)
        /\ StandsFor(data', v, rtts)
        /\ Continues(data', g.data)
    BY <1>3, <1>5, <1>6, <2>1, RembKeeps
  <2>3. /\ Parts(<<p, q>>, "rr") = {p} /\ Parts(<<p, q>>, "nack") = {}
        /\ Parts(<<p, q>>, "remb") = {q}
    BY <1>1, <1>7, <2>1
  <2>4. /\ v.worst = u.worst /\ v.nack = u.nack
        /\ v.lowest = HeardRemb(since, data, q).lowest
        /\ v.asked = (since.asked \/ Lower(data, q))
    BY <1>6, <1>8 DEF HeardRemb, Lower, ReportInv, Said
  <2> HIDE DEF v
  <2>5. /\ ever'.rtts = rtts
        /\ DOMAIN since' = {"worst", "lowest", "nack", "asked"}
        /\ since'.worst = v.worst /\ since'.lowest = v.lowest
        /\ since'.nack = v.nack /\ since'.asked = v.asked
    <3>1. since'.worst = u.worst /\ ever'.rtts = rtts BY <1>1, <2>3, PartsHeard DEF u
    <3>2. since'.lowest = HeardRemb(since, data, q).lowest BY <2>1, <2>3, PartsHeard
    <3>3. since'.nack = since.nack BY <2>3, PartsHeard
    <3>4. since'.asked = (since.asked \/ Lower(data, q)) BY <2>3, PartsHeard
    <3>5. DOMAIN since' = {"worst", "lowest", "nack", "asked"} BY HistoryFields
    <3> QED BY <1>8, <2>4, <3>1, <3>2, <3>3, <3>4, <3>5
  <2>6. Entry(data', reports, now) BY <1>3, <2>2 DEF Loop
  <2>7. Continues(data', data) BY <1>6, <2>2 DEF Continues
  <2> QED BY <2>2, <2>5, <2>6, <2>7, Read
<1> QED BY <1>9, <1>10

LEMMA PacketIsHeard ==
    ASSUME ReportInv, NEW packet \in CompoundPackets, AnalyzeFeedback(packet)
    PROVE  HeardStep
BY RrPacket, NackPacket, PliPacket, TwoPartsPacket DEF CompoundPackets

-----------------------------------------------------------------------------
(* checkRtcpFb *)

\* The entry after a report.
LEMMA SentFields ==
    ASSUME ReportInv, NEW next \in Periods[data.mediaType]
    PROVE  LET d == [Sent(data) EXCEPT !.nextPacketInMs = next, !.pli = FALSE]
           IN  /\ DOMAIN d = Fields
               /\ d.lastRrSent = now /\ d.requestRr = FALSE /\ d.nack = None
               /\ d.remb = (data.remb /\ ~SendsRemb)
               /\ d.lastREMBSent = (IF SendsRemb THEN now ELSE data.lastREMBSent)
               /\ d.nextPacketInMs = next /\ d.pli = FALSE
               /\ d.mediaType = data.mediaType /\ d.senderReports = data.senderReports
               /\ d.lastSr = data.lastSr /\ d.delaySinceLastSr = data.delaySinceLastSr
               /\ d.lastSrUpdated = data.lastSrUpdated /\ d.ratioLost = data.ratioLost
               /\ d.reportedBandwidth = data.reportedBandwidth
<1> DEFINE m == Sent(data)
<1>1. DOMAIN data = Fields BY DEF ReportInv, Entry
<1>2. /\ DOMAIN m = Fields
      /\ m.lastRrSent = now /\ m.requestRr = FALSE /\ m.nack = None
      /\ m.remb = (data.remb /\ ~SendsRemb)
      /\ m.lastREMBSent = (IF SendsRemb THEN now ELSE data.lastREMBSent)
      /\ \A x \in Fields \ {"lastRrSent", "requestRr", "nack", "remb", "lastREMBSent"} :
            m[x] = data[x]
  BY <1>1 DEF Sent, Fields
<1>3. /\ m.mediaType = data.mediaType /\ m.senderReports = data.senderReports
      /\ m.lastSr = data.lastSr /\ m.delaySinceLastSr = data.delaySinceLastSr
      /\ m.lastSrUpdated = data.lastSrUpdated /\ m.ratioLost = data.ratioLost
      /\ m.reportedBandwidth = data.reportedBandwidth
  BY <1>2 DEF Fields
<1> HIDE DEF m
<1> DEFINE d == [m EXCEPT !.nextPacketInMs = next, !.pli = FALSE]
<1>4. /\ DOMAIN d = Fields /\ d.nextPacketInMs = next /\ d.pli = FALSE
      /\ \A x \in Fields \ {"nextPacketInMs", "pli"} : d[x] = m[x]
  BY <1>2 DEF Fields
<1> HIDE DEF d
<1>5. /\ d.lastRrSent = m.lastRrSent /\ d.requestRr = m.requestRr /\ d.nack = m.nack
      /\ d.remb = m.remb /\ d.lastREMBSent = m.lastREMBSent
      /\ d.mediaType = m.mediaType /\ d.senderReports = m.senderReports
      /\ d.lastSr = m.lastSr /\ d.delaySinceLastSr = m.delaySinceLastSr
      /\ d.lastSrUpdated = m.lastSrUpdated /\ d.ratioLost = m.ratioLost
      /\ d.reportedBandwidth = m.reportedBandwidth
  BY <1>4 DEF Fields
<1> QED BY <1>2, <1>3, <1>4, <1>5 DEF d, m

\* What a report later than scheduled resets.
LEMMA ResetFields ==
    ASSUME NEW d, DOMAIN d = Fields,
           d.reportedBandwidth \in (0 .. DefaultBw) \cup Bandwidths
    PROVE  LET e == Reset(d)
           IN  /\ DOMAIN e = Fields /\ e.ratioLost = 0
               /\ e.reportedBandwidth \in (0 .. DefaultBw) \cup Bandwidths
               /\ \A x \in Fields \ {"ratioLost", "reportedBandwidth", "lastDelay"} :
                     e[x] = d[x]
<1> DEFINE b == d.reportedBandwidth
           c == IF b < DefaultBw THEN Min({2 * b, DefaultBw}) ELSE b
           e == Reset(d)
<1>1. DefaultBw \in Nat /\ b \in Nat
  <2>1. DefaultBw \in Nat /\ \A x \in Bandwidths : x \in Nat BY Bounds
  <2> QED BY <2>1
<1>2. /\ DOMAIN e = Fields /\ e.ratioLost = 0 /\ e.reportedBandwidth = c
      /\ \A x \in Fields \ {"ratioLost", "reportedBandwidth", "lastDelay"} : e[x] = d[x]
  BY DEF Reset, Fields
<1> HIDE DEF e
<1>3. c \in (0 .. DefaultBw) \cup Bandwidths
  <2>1. 2 * b \in Nat BY <1>1
  <2>2. Min({2 * b, DefaultBw}) \in 0 .. DefaultBw BY <1>1, <2>1, Extremes
  <2> QED BY <2>2
<1> QED BY <1>2, <1>3 DEF e

LEMMA SendKeeps ==
    ASSUME ReportInv, Due, SendReport, now' = now, reports' = reports, budget' = budget
    PROVE  ReportInv'
<1>1. PICK next \in Periods[data.mediaType] :
        LET late == now - data.lastRrSent > data.nextPacketInMs
            d == [Sent(data) EXCEPT !.nextPacketInMs = next, !.pli = FALSE]
        IN  /\ data' = IF late THEN Reset(d) ELSE d
            /\ sent' = Report
            /\ since' = Fresh
            /\ ever' = [ever EXCEPT !.prev = data.lastRrSent, !.last = since]
  BY DEF SendReport
<1> DEFINE d == [Sent(data) EXCEPT !.nextPacketInMs = next, !.pli = FALSE]
<1>2. /\ DOMAIN d = Fields
      /\ d.lastRrSent = now /\ d.requestRr = FALSE /\ d.nack = None
      /\ d.remb = (data.remb /\ ~SendsRemb)
      /\ d.lastREMBSent = (IF SendsRemb THEN now ELSE data.lastREMBSent)
      /\ d.nextPacketInMs = next /\ d.pli = FALSE
      /\ d.mediaType = data.mediaType /\ d.senderReports = data.senderReports
      /\ d.lastSr = data.lastSr /\ d.delaySinceLastSr = data.delaySinceLastSr
      /\ d.lastSrUpdated = data.lastSrUpdated /\ d.ratioLost = data.ratioLost
      /\ d.reportedBandwidth = data.reportedBandwidth
  BY SentFields
<1>3. data' = d \/ data' = Reset(d) BY <1>1
<1> HIDE DEF d
<1>4. Entry(data, reports, now) /\ Said(since) /\ StandsFor(data, since, ever.rtts)
      /\ now \in Nat /\ DOMAIN ever = {"rtts", "prev", "last"}
  BY DEF ReportInv, TimeInv
<1>5. d.reportedBandwidth \in (0 .. DefaultBw) \cup Bandwidths BY <1>2, <1>4 DEF Entry
<1>6. /\ DOMAIN data' = Fields
      /\ data'.lastRrSent = now /\ data'.requestRr = FALSE /\ data'.nack = None
      /\ data'.remb = (data.remb /\ ~SendsRemb)
      /\ data'.lastREMBSent = (IF SendsRemb THEN now ELSE data.lastREMBSent)
      /\ data'.nextPacketInMs = next /\ data'.pli = FALSE
      /\ data'.mediaType = data.mediaType /\ data'.senderReports = data.senderReports
      /\ data'.lastSr = data.lastSr /\ data'.delaySinceLastSr = data.delaySinceLastSr
      /\ data'.lastSrUpdated = data.lastSrUpdated
      /\ data'.ratioLost \in {0, data.ratioLost}
      /\ data'.reportedBandwidth \in (0 .. DefaultBw) \cup Bandwidths
  <2>1. CASE data' = d BY <2>1, <1>2, <1>5
  <2>2. CASE data' = Reset(d)
    <3> DEFINE e == Reset(d)
    <3>1. /\ DOMAIN e = Fields /\ e.ratioLost = 0
          /\ e.reportedBandwidth \in (0 .. DefaultBw) \cup Bandwidths
          /\ \A x \in Fields \ {"ratioLost", "reportedBandwidth", "lastDelay"} : e[x] = d[x]
      BY <1>2, <1>5, ResetFields
    <3> HIDE DEF e
    <3>2. /\ e.lastRrSent = d.lastRrSent /\ e.requestRr = d.requestRr /\ e.nack = d.nack
          /\ e.remb = d.remb /\ e.lastREMBSent = d.lastREMBSent
          /\ e.nextPacketInMs = d.nextPacketInMs /\ e.pli = d.pli
          /\ e.mediaType = d.mediaType /\ e.senderReports = d.senderReports
          /\ e.lastSr = d.lastSr /\ e.delaySinceLastSr = d.delaySinceLastSr
          /\ e.lastSrUpdated = d.lastSrUpdated
      BY <3>1 DEF Fields
    <3>3. data' = e BY <2>2 DEF e
    <3> QED BY <1>2, <3>1, <3>2, <3>3
  <2> QED BY <1>3, <2>1, <2>2
<1>7. next \in Nat /\ next # 0
  <2>1. data.mediaType \in Media BY <1>4 DEF Entry
  <2>2. Periods[data.mediaType] \subseteq 1 .. Long /\ Long \in Nat BY <2>1, Bounds
  <2> QED BY <2>2
<1>8. now \in Time(now) BY <1>4 DEF Time
<1>9. Entry(data', reports, now)
  <2>1. data'.lastREMBSent \in Time(now) BY <1>4, <1>6, <1>8 DEF Entry
  <2>2. data'.ratioLost \in {0} \cup Ratios BY <1>4, <1>6 DEF Entry
  <2>3. data'.remb \in BOOLEAN BY <1>6
  <2> QED BY <1>4, <1>6, <1>7, <1>8, <2>1, <2>2, <2>3 DEF Entry
<1>10. since' = Fresh /\ sent' = Report
       /\ DOMAIN ever' = {"rtts", "prev", "last"} /\ ever'.rtts = ever.rtts
       /\ ever'.prev = data.lastRrSent /\ ever'.last = since
  BY <1>1, <1>4
<1>11. Said(since') BY <1>10 DEF Said, Fresh
<1>12. StandsFor(data', since', ever'.rtts)
  <2>1. data'.ratioLost >= 0
    <3>1. \A r \in Ratios : r \in Nat BY Bounds
    <3> QED BY <1>9, <3>1 DEF Entry
  <2>2. data'.mediaType = "video" => ~data'.remb BY <1>6 DEF SendsRemb
  <2>3. data'.lastSr > 0 =>
           <<data'.lastSr, data'.lastSrUpdated - (data'.lastSr - 1) - data'.delaySinceLastSr>>
              \in ever'.rtts
    BY <1>4, <1>6, <1>10 DEF StandsFor
  <2> QED BY <1>6, <1>10, <2>1, <2>2, <2>3 DEF StandsFor, Fresh
<1>13. /\ sent'.at = now /\ sent'.ratio = data.ratioLost /\ sent'.lastSr = data.lastSr
       /\ sent'.delay = data.delaySinceLastSr + ((now - data.lastSrUpdated) % Wrap)
       /\ sent'.age = now - data.lastSrUpdated /\ sent'.nack = data.nack
       /\ sent'.remb = IF SendsRemb THEN data.reportedBandwidth ELSE NoRemb
  BY <1>10 DEF Report
<1>14. WorstIsReported' BY <1>4, <1>10, <1>13 DEF WorstIsReported, StandsFor
<1>15. NackIsCurrent' BY <1>4, <1>10, <1>13 DEF NackIsCurrent, StandsFor
<1>16. LowestIsSent' BY <1>4, <1>10, <1>13 DEF LowestIsSent, StandsFor
<1>17. RrsAreSpaced'
  <2>1. CASE data.requestRr BY <2>1, <1>4, <1>10 DEF RrsAreSpaced, StandsFor
  <2>2. CASE data.remb
    <3>1. CASE data.mediaType = "video" BY <2>2, <3>1, <1>4, <1>10 DEF RrsAreSpaced, StandsFor
    <3>2. CASE data.mediaType = "audio"
      <4>1. data'.remb /\ data'.mediaType = "audio" BY <2>2, <3>2, <1>6 DEF SendsRemb
      <4> QED BY <4>1 DEF RrsAreSpaced
    <3> QED BY <3>1, <3>2, <1>4 DEF Entry, Media
  <2>3. CASE now - data.lastRrSent >= data.nextPacketInMs
    <3> DEFINE P == Periods[data.mediaType]
    <3>1. data.mediaType \in Media /\ P \subseteq 1 .. Long /\ Long \in Nat
      <4>1. data.mediaType \in Media BY <1>4 DEF Entry
      <4> QED BY <4>1, Bounds
    <3>2. PICK m \in P : \A k \in P : m <= k
      <4>1. P \subseteq Nat /\ P # {} BY <3>1
      <4> HIDE DEF P
      <4> QED BY <4>1, Turns!Least
    <3>3. Min(P) \in P /\ \A k \in P : Min(P) <= k BY <3>2 DEF Min
    <3>4. data.lastRrSent \in {Never} \cup (0 .. now) BY <1>4 DEF Entry, Time
    <3>5. now - data.lastRrSent >= Min(P)
      <4>1. CASE data.nextPacketInMs = 0
        <5>1. data.lastRrSent = Never BY <4>1, <1>4 DEF Entry
        <5>2. now - data.lastRrSent = now + Long BY <5>1, <1>4, <3>1 DEF Never
        <5>3. Min(P) <= Long /\ Min(P) \in Nat BY <3>1, <3>3
        <5> QED BY <5>2, <5>3, <1>4, <3>1
      <4>2. CASE data.nextPacketInMs # 0
        <5>1. data.nextPacketInMs \in P BY <4>2, <1>4 DEF Entry
        <5>2. Min(P) <= data.nextPacketInMs BY <5>1, <3>3
        <5>3. data.nextPacketInMs \in Nat /\ Min(P) \in Nat /\ data.lastRrSent \in Int
          <6>1. Never \in Int BY <3>1 DEF Never
          <6>2. data.lastRrSent \in Int BY <3>4, <6>1
          <6> QED BY <5>1, <6>2, <3>1, <3>3
        <5> QED BY <5>2, <5>3, <2>3, <1>4
      <4> QED BY <4>1, <4>2
    <3>6. sent'.at - ever'.prev >= Min(Periods[data'.mediaType])
      BY <3>5, <1>6, <1>10, <1>13
    <3> QED BY <3>6 DEF RrsAreSpaced
  <2> QED BY <2>1, <2>2, <2>3 DEF Due
<1>18. RttIsReal'
  <2> DEFINE age == now - data.lastSrUpdated
  <2>1. /\ age \in Nat /\ data.lastSrUpdated \in Nat /\ data.lastSr > 0
        /\ data.delaySinceLastSr \in Nat /\ Wrap \in Nat \ {0}
    <3>1. Wrap \in Nat \ {0} BY Bounds
    <3>2. data.lastSrUpdated \in 0 .. now /\ data.delaySinceLastSr \in Nat BY <1>4 DEF Entry
    <3> QED BY <3>1, <3>2, <1>4 DEF Due
  <2>2. data.lastSr \in Nat
    <3>1. data.lastSr \in {0} \cup {Stamp(sr) : sr \in reports} BY <1>4 DEF Entry
    <3>2. \A sr \in reports : sr + 1 \in Nat BY DEF ReportInv, TimeInv
    <3> QED BY <3>1, <3>2 DEF Stamp
  <2>3. sent'.age = age /\ sent'.delay = data.delaySinceLastSr + (age % Wrap) BY <1>13
  <2>4. <<data.lastSr, data.lastSrUpdated - (data.lastSr - 1) - data.delaySinceLastSr>> \in ever.rtts
    BY <2>1, <1>4 DEF StandsFor
  <2>5. ASSUME sent'.age < Wrap
        PROVE  sent'.at - (sent'.lastSr - 1) - sent'.delay
                  = data.lastSrUpdated - (data.lastSr - 1) - data.delaySinceLastSr
    <3>1. age < Wrap BY <2>3, <2>5
    <3>2. now = data.lastSrUpdated + age BY <2>1, <1>4
    <3> HIDE DEF age
    <3>3. age % Wrap = age BY <2>1, <3>1
    <3> QED BY <2>1, <2>2, <2>3, <3>2, <3>3, <1>13
  <2> HIDE DEF age
  <2>6. sent'.lastSr = data.lastSr /\ ever'.rtts = ever.rtts BY <1>10, <1>13
  <2> QED BY <2>4, <2>5, <2>6 DEF RttIsReal
<1>19. TimeInv' BY <1>10 DEF ReportInv, TimeInv
<1> QED BY <1>9, <1>11, <1>12, <1>14, <1>15, <1>16, <1>17, <1>18, <1>19 DEF ReportInv

-----------------------------------------------------------------------------
(* The other steps, and the theorems *)

\* What a step without a report keeps of the last one.
LEMMA LastReportKeeps ==
    ASSUME ReportInv, sent' = sent, ever'.prev = ever.prev, ever'.last = ever.last,
           ever.rtts \subseteq ever'.rtts, Continues(data', data)
    PROVE  /\ WorstIsReported' /\ NackIsCurrent' /\ LowestIsSent'
           /\ RrsAreSpaced' /\ RttIsReal'
<1>1. WorstIsReported' /\ NackIsCurrent' /\ LowestIsSent'
  BY DEF ReportInv, WorstIsReported, NackIsCurrent, LowestIsSent
<1>2. RrsAreSpaced' BY DEF ReportInv, RrsAreSpaced, Continues
<1>3. RttIsReal' BY DEF ReportInv, RttIsReal
<1> QED BY <1>1, <1>2, <1>3

\* An entry stays one when time goes on and sender reports come.
LEMMA EntryLater ==
    ASSUME NEW d, NEW srs, NEW all, srs \subseteq all, NEW t \in Nat, NEW u \in Nat, t <= u,
           Entry(d, srs, t)
    PROVE  Entry(d, all, u)
<1>1. d.senderReports \in Seq(all) BY DEF Entry
<1>2. 0 .. t \subseteq 0 .. u OBVIOUS
<1>3. d.lastSr \in {0} \cup {Stamp(sr) : sr \in all} BY DEF Entry
<1>4. d.lastSrUpdated \in 0 .. u /\ d.lastRrSent \in Time(u) /\ d.lastREMBSent \in Time(u)
  BY <1>2 DEF Entry, Time
<1> QED BY <1>1, <1>3, <1>4 DEF Entry

LEMMA TickKeeps ==
    ASSUME ReportInv, Tick PROVE ReportInv'
<1>1. now' = now + Step /\ now' <= MaxTime /\ Step \in Nat /\ now \in Nat /\ now' \in Nat
  BY Bounds DEF Tick, ReportInv, TimeInv
<1>2. UNCHANGED <<data, sent, reports, budget, since, ever>> BY DEF Tick
<1>3. TimeInv' BY <1>1, <1>2, Bounds DEF ReportInv, TimeInv
<1>4. Entry(data', reports', now')
  <2>1. reports \subseteq reports /\ now <= now' BY <1>1
  <2> QED BY <1>1, <1>2, <2>1, EntryLater DEF ReportInv
<1>5. /\ WorstIsReported' /\ NackIsCurrent' /\ LowestIsSent' /\ RrsAreSpaced' /\ RttIsReal'
  BY <1>2, LastReportKeeps DEF Continues
<1> QED BY <1>2, <1>3, <1>4, <1>5 DEF ReportInv

LEMMA AnalyzeSrKeeps ==
    ASSUME ReportInv, AnalyzeSr PROVE ReportInv'
<1> DEFINE q == data.senderReports
           p == Append(q, now)
           n == IF Len(p) > MaxReports THEN Tail(p) ELSE p
<1>1. /\ reports' = reports \cup {now} /\ data' = [data EXCEPT !.senderReports = n]
      /\ UNCHANGED <<now, sent, budget, since, ever>>
  BY DEF AnalyzeSr
<1>2. now \in 0 .. MaxTime /\ now \in Nat /\ reports \subseteq 0 .. now
      /\ Entry(data, reports, now)
  BY DEF ReportInv, TimeInv
<1>3. n \in Seq(reports') /\ Len(n) <= MaxReports
  <2> DEFINE R == reports'
  <2>1. q \in Seq(R) /\ now \in R /\ Len(q) <= MaxReports
    <3>1. q \in Seq(reports) /\ Len(q) <= MaxReports BY <1>2 DEF Entry
    <3> QED BY <3>1, <1>1
  <2>2. MaxReports \in Nat BY Bounds
  <2> HIDE DEF q, R
  <2>3. p \in Seq(R) /\ Len(p) = Len(q) + 1 /\ Len(q) \in Nat /\ p # <<>> BY <2>1
  <2> HIDE DEF p
  <2>4. Tail(p) \in Seq(R) /\ Len(Tail(p)) = Len(p) - 1 BY <2>3
  <2> QED BY <2>1, <2>2, <2>3, <2>4 DEF R
<1> HIDE DEF n
<1>4. /\ DOMAIN data' = Fields /\ data'.senderReports = n
      /\ \A x \in Fields \ {"senderReports"} : data'[x] = data[x]
  BY <1>1, <1>2 DEF Entry, Fields
<1>5. /\ data'.mediaType = data.mediaType /\ data'.lastSr = data.lastSr
      /\ data'.delaySinceLastSr = data.delaySinceLastSr
      /\ data'.lastSrUpdated = data.lastSrUpdated /\ data'.ratioLost = data.ratioLost
      /\ data'.reportedBandwidth = data.reportedBandwidth /\ data'.nack = data.nack
      /\ data'.nextPacketInMs = data.nextPacketInMs /\ data'.lastRrSent = data.lastRrSent
      /\ data'.lastREMBSent = data.lastREMBSent /\ data'.pli = data.pli
      /\ data'.remb = data.remb /\ data'.requestRr = data.requestRr
  BY <1>4 DEF Fields
<1>6. Entry(data, reports', now)
  <2>1. reports \subseteq reports' /\ now <= now BY <1>1, <1>2
  <2> QED BY <1>2, <2>1, EntryLater
<1>7. Entry(data', reports', now') BY <1>1, <1>3, <1>4, <1>5, <1>6 DEF Entry
<1>8. StandsFor(data', since', ever'.rtts) BY <1>1, <1>5 DEF ReportInv, StandsFor
<1>9. Said(since') BY <1>1 DEF ReportInv
<1>10. TimeInv' BY <1>1, <1>2 DEF ReportInv, TimeInv
<1>11. /\ WorstIsReported' /\ NackIsCurrent' /\ LowestIsSent' /\ RrsAreSpaced' /\ RttIsReal'
  BY <1>1, <1>5, LastReportKeeps DEF Continues
<1> QED BY <1>7, <1>8, <1>9, <1>10, <1>11 DEF ReportInv

LEMMA FeedbackKeeps ==
    ASSUME ReportInv, NEW packet \in CompoundPackets, AnalyzeFeedback(packet)
    PROVE  ReportInv'
<1>1. HeardStep BY PacketIsHeard
<1>2. /\ DOMAIN ever' = {"rtts", "prev", "last"}
      /\ ever'.prev = ever.prev /\ ever'.last = ever.last /\ ever.rtts \subseteq ever'.rtts
      /\ now' = now /\ sent' = sent /\ reports' = reports
      /\ budget' = budget - 1 /\ budget > 0
  BY HistoryFields
<1>3. TimeInv' BY <1>2, Bounds DEF ReportInv, TimeInv
<1>4. /\ WorstIsReported' /\ NackIsCurrent' /\ LowestIsSent' /\ RrsAreSpaced' /\ RttIsReal'
  BY <1>1, <1>2, LastReportKeeps DEF HeardStep
<1> QED BY <1>1, <1>2, <1>3, <1>4 DEF HeardStep, ReportInv

LEMMA CheckKeeps ==
    ASSUME ReportInv, CheckRtcpFb PROVE ReportInv'
<1>1. CASE Due BY <1>1, SendKeeps DEF CheckRtcpFb
<1>2. CASE ~Due
  <2>1. /\ data' = [data EXCEPT !.pli = FALSE]
        /\ UNCHANGED <<sent, since, ever, now, reports, budget>>
    BY <1>2 DEF CheckRtcpFb
  <2>2. Entry(data, reports, now) BY DEF ReportInv
  <2>3. /\ DOMAIN data' = Fields /\ data'.pli = FALSE
        /\ \A x \in Fields \ {"pli"} : data'[x] = data[x]
    BY <2>1, <2>2 DEF Entry, Fields
  <2>4. /\ data'.mediaType = data.mediaType /\ data'.lastSr = data.lastSr
        /\ data'.senderReports = data.senderReports
        /\ data'.delaySinceLastSr = data.delaySinceLastSr
        /\ data'.lastSrUpdated = data.lastSrUpdated /\ data'.ratioLost = data.ratioLost
        /\ data'.reportedBandwidth = data.reportedBandwidth /\ data'.nack = data.nack
        /\ data'.nextPacketInMs = data.nextPacketInMs /\ data'.lastRrSent = data.lastRrSent
        /\ data'.lastREMBSent = data.lastREMBSent
        /\ data'.remb = data.remb /\ data'.requestRr = data.requestRr
    BY <2>3 DEF Fields
  <2>5. Entry(data', reports', now') BY <2>1, <2>2, <2>3, <2>4 DEF Entry
  <2>6. StandsFor(data', since', ever'.rtts) BY <2>1, <2>4 DEF ReportInv, StandsFor
  <2>7. Said(since') /\ TimeInv' BY <2>1 DEF ReportInv, TimeInv
  <2>8. /\ WorstIsReported' /\ NackIsCurrent' /\ LowestIsSent' /\ RrsAreSpaced' /\ RttIsReal'
    BY <2>1, <2>4, LastReportKeeps DEF Continues
  <2> QED BY <2>5, <2>6, <2>7, <2>8 DEF ReportInv
<1> QED BY <1>1, <1>2

LEMMA InitReport == Init => ReportInv
<1> SUFFICES ASSUME Init PROVE ReportInv OBVIOUS
<1>1. PICK m \in Media :
          data = [mediaType |-> m, lastSr |-> 0, delaySinceLastSr |-> 0, lastSrUpdated |-> 0,
                  lastDelay |-> 0, ratioLost |-> 0, reportedBandwidth |-> 0,
                  nextPacketInMs |-> 0, lastRrSent |-> Never, lastREMBSent |-> Never,
                  senderReports |-> <<>>, nack |-> None,
                  pli |-> FALSE, remb |-> FALSE, requestRr |-> FALSE]
  BY DEF Init
<1>2. /\ now = 0 /\ sent = NoReport /\ reports = {} /\ budget = MaxFeedback
      /\ since = Fresh /\ ever = [rtts |-> {}, prev |-> Never, last |-> Fresh]
  BY DEF Init
<1>3. TimeInv BY <1>2, Bounds DEF TimeInv
<1>4. Entry(data, reports, now)
  <2>1. MaxReports \in Nat /\ DefaultBw \in Nat BY Bounds
  <2>2. <<>> \in Seq(reports) /\ Len(<<>>) = 0 OBVIOUS
  <2>3. DOMAIN data = Fields BY <1>1 DEF Fields
  <2> QED BY <1>1, <1>2, <2>1, <2>2, <2>3 DEF Entry, Time
<1>5. Said(since) BY <1>2 DEF Said, Fresh
<1>6. StandsFor(data, since, ever.rtts) BY <1>1, <1>2 DEF StandsFor, Fresh
<1>7. sent.remb = NoRemb BY <1>2 DEF NoReport
<1>8. WorstIsReported /\ NackIsCurrent /\ LowestIsSent /\ RrsAreSpaced /\ RttIsReal
  BY <1>2, <1>7 DEF WorstIsReported, NackIsCurrent, LowestIsSent, RrsAreSpaced, RttIsReal
<1> QED BY <1>3, <1>4, <1>5, <1>6, <1>8 DEF ReportInv

LEMMA NextReport == ReportInv /\ [Next]_vars => ReportInv'
<1> SUFFICES ASSUME ReportInv, [Next]_vars PROVE ReportInv' OBVIOUS
<1>1. CASE Tick BY <1>1, TickKeeps
<1>2. CASE AnalyzeSr BY <1>2, AnalyzeSrKeeps
<1>3. CASE CheckRtcpFb BY <1>3, CheckKeeps
<1>4. CASE \E packet \in CompoundPackets : AnalyzeFeedback(packet) BY <1>4, FeedbackKeeps
<1>5. CASE UNCHANGED vars
  <2>1. UNCHANGED <<now, data, sent, reports, budget, since, ever>> BY <1>5 DEF vars
  <2> QED BY <2>1 DEF ReportInv, TimeInv, WorstIsReported, NackIsCurrent, LowestIsSent,
                      RrsAreSpaced, RttIsReal
<1> QED BY <1>1, <1>2, <1>3, <1>4, <1>5 DEF Next

LEMMA ReportInvariant == Spec => []ReportInv
BY InitReport, NextReport, PTL DEF Spec

\* What is sent to a publisher stands for all that its receivers asked for since
\* the report before: the worst ratio, the last NACK, a bandwidth none of them
\* is below, and no sooner than the shortest period unless one of them asked
\* (analyzeFeedback, checkRtcpFb, reset).
THEOREM ReportsStandForReceivers == Spec => []ReportsAreFaithful
<1>1. ReportInv => ReportsAreFaithful
  <2> SUFFICES ASSUME ReportInv PROVE TypeOK
    BY DEF ReportInv, ReportsAreFaithful
  <2>1. Entry(data, reports, now) /\ TimeInv BY DEF ReportInv
  <2>2. {data.senderReports[i] : i \in DOMAIN data.senderReports} \subseteq reports
    <3>1. data.senderReports \in Seq(reports) BY <2>1 DEF Entry
    <3> QED BY <3>1
  <2> QED BY <2>1, <2>2 DEF TypeOK, Entry, TimeInv
<1> QED BY <1>1, ReportInvariant, PTL

\* The round trip that a publisher computes from a report is one that a receiver
\* measured with the very sender report it names: lastSr, delaySinceLastSr and
\* lastSrUpdated always come from one packet.
THEOREM RoundTripsAreReal == Spec => []RttIsReal
<1>1. ReportInv => RttIsReal BY DEF ReportInv
<1> QED BY <1>1, ReportInvariant, PTL
-----------------------------------------------------------------------------
(* The recorder. *)

Half == SeqModulus \div 2

\* Numbers less than a turn apart, on a circle of m.
LEMMA OnCircle ==
    ASSUME NEW m \in Nat \ {0}, NEW a \in Nat, NEW d \in Nat, d < m
    PROVE  /\ a % m \in 0 .. m - 1
           /\ (a + d) % m \in 0 .. m - 1
           /\ (a + d) % m \in {(a % m) + d, (a % m) + d - m}
<1> DEFINE q == (a + d) \div m - a \div m
           x == a % m
           y == (a + d) % m
<1>1. x \in 0 .. m - 1 /\ y \in 0 .. m - 1 OBVIOUS
<1>2. a = m * (a \div m) + x /\ a \div m \in Int OBVIOUS
<1>3. a + d = m * ((a + d) \div m) + y /\ (a + d) \div m \in Int OBVIOUS
<1>4. q \in Int /\ d = m * q + y - x BY <1>1, <1>2, <1>3
<1> HIDE DEF q, x, y
<1>5. CASE q = 0
  <2>1. y = x + d BY <1>1, <1>4, <1>5
  <2> QED BY <2>1, <1>1 DEF x, y
<1>6. CASE q = 1
  <2>1. y = x + d - m BY <1>1, <1>4, <1>6
  <2> QED BY <2>1, <1>1 DEF x, y
<1>7. CASE q >= 2
  <2>1. m * q >= 2 * m BY <1>4, <1>7
  <2> QED BY <2>1, <1>1, <1>4
<1>8. CASE q <= -1
  <2>1. m * q <= -m BY <1>4, <1>8
  <2> QED BY <2>1, <1>1, <1>4
<1> QED BY <1>4, <1>5, <1>6, <1>7, <1>8

\* What a difference of two such numbers is on the circle.
LEMMA Remainder ==
    ASSUME NEW m \in Nat \ {0}, NEW d \in 0 .. m - 1, NEW x \in {d, d - m}
    PROVE  x % m = d
<1>1. CASE x = d BY <1>1
<1>2. CASE x = d - m
  <2> DEFINE q == x \div m
             r == x % m
  <2>1. x = m * q + r /\ q \in Int /\ r \in 0 .. m - 1
    <3>1. x \in Int BY <1>2
    <3> HIDE <1>2
    <3> QED BY <3>1
  <2> HIDE DEF q, r
  <2>2. d - m = m * q + r BY <1>2, <2>1
  <2>3. CASE q >= 0
    <3>1. m * q >= 0 BY <2>3, <2>1
    <3> QED BY <3>1, <2>1, <2>2
  <2>4. CASE q <= -2
    <3>1. m * q <= -(2 * m) BY <2>4, <2>1
    <3> QED BY <3>1, <2>1, <2>2
  <2>5. CASE q = -1
    <3>1. m * q = -m BY <2>5, <2>1
    <3> QED BY <3>1, <2>1, <2>2 DEF r
  <2> QED BY <2>1, <2>3, <2>4, <2>5
<1> QED BY <1>1, <1>2

LEMMA HalfATurn == Half \in Nat /\ Half + Half = SeqModulus /\ SeqModulus \in Nat \ {0}
  BY QueueAssumption DEF Half

-----------------------------------------------------------------------------
\* A stream is a sequence of its packets, and AtIs, AtOf give each its place.
LEMMA HasPackets ==
    ASSUME NEW k \in Kinds
    PROVE  /\ Stream[k] \in Seq(Packets(k)) /\ Len(Stream[k]) \in Nat
           /\ DOMAIN Stream[k] = 1 .. Len(Stream[k])
<1>1. Stream[k] \in Seq(Packets(k)) BY StreamAssumption DEF ToSet, Packets
<1> QED BY <1>1, LenProperties

\* A packet of the stream of a kind.
IsPacket(p) ==
    /\ p.seq \in 0 .. SeqModulus - 1 /\ p.time \in Nat
    /\ p.start \in BOOLEAN /\ p.marker \in BOOLEAN

LEMMA PacketIs ==
    ASSUME NEW k \in Kinds, NEW i \in DOMAIN Stream[k]
    PROVE  /\ IsPacket(Stream[k][i])
           /\ Stream[k][i].seq = (Stream[k][1].seq + (i - 1)) % SeqModulus
           /\ \A j \in DOMAIN Stream[k] :
                 i < j => Stream[k][i].time <= Stream[k][j].time /\ Stream[k][i] # Stream[k][j]
  BY StreamAssumption DEF IsPacket

\* Where a packet is in its stream.
At(k, p) == CHOOSE i \in DOMAIN Stream[k] : Stream[k][i] = p

LEMMA AtIs ==
    ASSUME NEW k \in Kinds, NEW p \in Packets(k)
    PROVE  /\ At(k, p) \in DOMAIN Stream[k] /\ At(k, p) \in Nat /\ At(k, p) >= 1
           /\ Stream[k][At(k, p)] = p /\ IsPacket(p)
<1>1. PICK i \in DOMAIN Stream[k] : p = Stream[k][i] BY DEF Packets
<1>2. At(k, p) \in DOMAIN Stream[k] /\ Stream[k][At(k, p)] = p BY <1>1 DEF At
<1> QED BY <1>2, HasPackets, PacketIs

LEMMA AtOf ==
    ASSUME NEW k \in Kinds, NEW i \in DOMAIN Stream[k]
    PROVE  At(k, Stream[k][i]) = i /\ Stream[k][i] \in Packets(k)
<1>1. Stream[k][i] \in Packets(k) BY DEF Packets
<1>2. At(k, Stream[k][i]) \in DOMAIN Stream[k] /\ Stream[k][At(k, Stream[k][i])] = Stream[k][i]
  BY <1>1, AtIs
<1>3. ASSUME NEW a \in DOMAIN Stream[k], Stream[k][a] = Stream[k][i] PROVE a = i
  <2>1. a \in Nat /\ i \in Nat BY HasPackets
  <2>2. ~(a < i) /\ ~(i < a) BY <1>3, PacketIs
  <2> QED BY <2>1, <2>2
<1> QED BY <1>1, <1>2, <1>3

\* Before is the order of positions, and time does not go back with them.
LEMMA BeforeIs ==
    ASSUME NEW k \in Kinds, NEW p \in Packets(k), NEW q \in Packets(k)
    PROVE  /\ Before(k, p, q) <=> At(k, p) < At(k, q)
           /\ At(k, p) <= At(k, q) => p.time <= q.time
           /\ At(k, p) = At(k, q) <=> p = q
<1>1. Before(k, p, q) => At(k, p) < At(k, q) BY AtOf DEF Before
<1>2. At(k, p) < At(k, q) => Before(k, p, q) BY AtIs DEF Before
<1>3. At(k, p) = At(k, q) <=> p = q BY AtIs
<1>4. p.time \in Nat /\ q.time \in Nat /\ At(k, p) \in Nat /\ At(k, q) \in Nat
  BY AtIs DEF IsPacket
<1>5. At(k, p) < At(k, q) => p.time <= q.time BY AtIs, PacketIs
<1>6. At(k, p) <= At(k, q) => p.time <= q.time BY <1>3, <1>4, <1>5
<1> QED BY <1>1, <1>2, <1>3, <1>6

\* The numbers of packets less than half a turn apart are in the order of the packets.
LEMMA SeqIs ==
    ASSUME NEW k \in Kinds, NEW p \in Packets(k), NEW q \in Packets(k),
           At(k, p) <= At(k, q), At(k, q) - At(k, p) < Half
    PROVE  q.seq \in {p.seq + (At(k, q) - At(k, p)), p.seq + (At(k, q) - At(k, p)) - SeqModulus}
<1> DEFINE i == At(k, p)
           j == At(k, q)
           a == Stream[k][1].seq + (i - 1)
           d == j - i
<1>1. /\ i \in DOMAIN Stream[k] /\ j \in DOMAIN Stream[k] /\ i \in Nat /\ j \in Nat /\ i >= 1
      /\ Stream[k][i] = p /\ Stream[k][j] = q
  BY AtIs
<1>2. 1 \in DOMAIN Stream[k] BY <1>1, HasPackets
<1>3. Stream[k][1].seq \in Nat BY <1>2, PacketIs, HalfATurn DEF IsPacket
<1>4. p.seq = a % SeqModulus /\ q.seq = (Stream[k][1].seq + (j - 1)) % SeqModulus
  BY <1>1, PacketIs
<1> HIDE DEF i, j
<1>5. a \in Nat /\ d \in Nat /\ d < SeqModulus /\ Stream[k][1].seq + (j - 1) = a + d
  BY <1>1, <1>3, HalfATurn DEF i, j
<1> HIDE DEF a, d
<1>6. (a + d) % SeqModulus \in {(a % SeqModulus) + d, (a % SeqModulus) + d - SeqModulus}
  BY <1>5, OnCircle, HalfATurn
<1> QED BY <1>4, <1>5, <1>6 DEF d, i, j

\* SequenceLessThan is the order of packets that are less than half a turn apart.
LEMMA SeqOrder ==
    ASSUME NEW k \in Kinds, NEW p \in Packets(k), NEW q \in Packets(k),
           At(k, p) < At(k, q), At(k, q) - At(k, p) < Half
    PROVE  /\ SequenceLessThan(p.seq, q.seq) /\ ~SequenceLessThan(q.seq, p.seq)
           /\ p.seq # q.seq
<1> DEFINE d == At(k, q) - At(k, p)
<1>1. d \in Nat /\ d > 0 /\ d < Half BY AtIs
<1>2. p.seq \in 0 .. SeqModulus - 1 /\ q.seq \in 0 .. SeqModulus - 1 BY AtIs DEF IsPacket
<1>3. q.seq \in {p.seq + d, p.seq + d - SeqModulus} BY AtIs, SeqIs
<1> HIDE DEF d
<1>4. p.seq \in Int /\ q.seq \in Int /\ SeqModulus \in Int /\ Half \in Int /\ Half + Half = SeqModulus
  BY <1>2, HalfATurn
<1>5. ASSUME NEW x \in Int, NEW y \in Int, y \in {x + d, x + d - SeqModulus}
      PROVE  /\ (x < y /\ y - x < Half) \/ (x > y /\ y - x < -Half)
             /\ ~(y < x /\ x - y < Half) /\ ~(y > x /\ x - y < -Half) /\ x # y
  BY <1>1, <1>4, <1>5
<1> QED BY <1>3, <1>4, <1>5 DEF SequenceLessThan, Half

\* Packets that the circles of numbers and of timestamps can tell apart: less than
\* half a turn of the ones and one turn of the others.
Near(k, p, q) ==
    \A i, j \in DOMAIN Stream[k] :
        (Stream[k][i] = p /\ Stream[k][j] = q) =>
            j - i < Half /\ q.time - p.time < TsModulus

LEMMA NearIs ==
    ASSUME NEW k \in Kinds, NEW p \in Packets(k), NEW q \in Packets(k), Near(k, p, q)
    PROVE  At(k, q) - At(k, p) < Half /\ q.time - p.time < TsModulus
  BY AtIs DEF Near

\* What the queue compares is the order in the stream.
LEMMA Compares ==
    ASSUME NEW k \in Kinds, NEW p \in Packets(k), NEW q \in Packets(k),
           Near(k, p, q), Near(k, q, p)
    PROVE  /\ SequenceLessThan(p.seq, q.seq) <=> At(k, p) < At(k, q)
           /\ p.seq = q.seq <=> At(k, p) = At(k, q)
<1>1. At(k, p) \in Nat /\ At(k, q) \in Nat /\ (At(k, p) = At(k, q) <=> p = q)
  BY AtIs, BeforeIs
<1>2. At(k, q) - At(k, p) < Half /\ At(k, p) - At(k, q) < Half BY NearIs
<1>3. CASE At(k, p) < At(k, q) BY <1>1, <1>2, <1>3, SeqOrder
<1>4. CASE At(k, q) < At(k, p) BY <1>1, <1>2, <1>4, SeqOrder
<1>5. CASE p = q
  <2>1. p.seq \in Int BY AtIs, HalfATurn DEF IsPacket
  <2> QED BY <1>5, <1>1, <2>1 DEF SequenceLessThan
<1> QED BY <1>1, <1>3, <1>4, <1>5
-----------------------------------------------------------------------------
(* The queue: Sorted is QueueIsSorted for every two packets of a list. *)

Sorted(k, list) ==
    /\ list \in Seq(Packets(k))
    /\ \A i, j \in 1 .. Len(list) : i < j => At(k, list[j]) < At(k, list[i])

AllNear(k, list, p) == \A i \in 1 .. Len(list) : Near(k, list[i], p) /\ Near(k, p, list[i])

LEMMA MinIs ==
    ASSUME NEW S \in SUBSET Nat, S # {}
    PROVE  Min(S) \in S /\ \A x \in S : Min(S) <= x
<1>1. \E m \in S : \A x \in S : m <= x BY Turns!Least
<1> QED BY <1>1 DEF Min

\* What InsertAt of the community modules does, element by element.
LEMMA InsertAtIs ==
    ASSUME NEW S, NEW s \in Seq(S), NEW m \in 1 .. Len(s), NEW e \in S
    PROVE  /\ InsertAt(s, m, e) \in Seq(S) /\ Len(InsertAt(s, m, e)) = Len(s) + 1
           /\ \A i \in 1 .. Len(s) + 1 :
                 InsertAt(s, m, e)[i] = IF i < m THEN s[i] ELSE IF i = m THEN e ELSE s[i - 1]
<1> DEFINE a == SubSeq(s, 1, m - 1)
           b == SubSeq(s, m, Len(s))
           n == Len(s)
<1>1. n \in Nat /\ m \in Nat /\ m >= 1 /\ m <= n /\ \A i \in 1 .. n : s[i] \in S
  BY LenProperties
<1>2. /\ a \in Seq(S) /\ Len(a) = m - 1 /\ \A i \in 1 .. m - 1 : a[i] = s[i]
  <2>1. m - 1 \in Int /\ \A i \in 1 .. m - 1 : s[i] \in S BY <1>1
  <2>2. /\ a \in Seq(S) /\ Len(a) = (IF 1 <= m - 1 THEN (m - 1) - 1 + 1 ELSE 0)
        /\ \A i \in 1 .. (m - 1) - 1 + 1 : a[i] = s[1 + i - 1]
    BY <2>1, SubSeqProperties
  <2> QED BY <2>2, <1>1
<1>3. /\ b \in Seq(S) /\ Len(b) = n - m + 1 /\ \A i \in 1 .. n - m + 1 : b[i] = s[m + i - 1]
  <2>1. \A i \in m .. n : s[i] \in S BY <1>1
  <2> QED BY <2>1, <1>1, SubSeqProperties
<1> HIDE DEF a, b, n
<1>4. <<e>> \in Seq(S) /\ Len(<<e>>) = 1 /\ <<e>>[1] = e OBVIOUS
<1> DEFINE ae == a \o <<e>>
<1>5. /\ ae \in Seq(S) /\ Len(ae) = m
      /\ \A i \in 1 .. m : ae[i] = IF i <= m - 1 THEN a[i] ELSE <<e>>[i - (m - 1)]
  <2>1. Len(a) + Len(<<e>>) = m BY <1>1, <1>2, <1>4
  <2>2. /\ ae \in Seq(S) /\ Len(ae) = Len(a) + Len(<<e>>)
        /\ \A i \in 1 .. Len(a) + Len(<<e>>) :
              ae[i] = IF i <= Len(a) THEN a[i] ELSE <<e>>[i - Len(a)]
    BY <1>2, <1>4, ConcatProperties
  <2> QED BY <2>1, <2>2, <1>2
<1> HIDE DEF ae
<1> DEFINE r == ae \o b
<1>6. /\ r \in Seq(S) /\ Len(r) = n + 1
      /\ \A i \in 1 .. n + 1 : r[i] = IF i <= m THEN ae[i] ELSE b[i - m]
  <2>1. Len(ae) + Len(b) = n + 1 BY <1>1, <1>3, <1>5
  <2>2. /\ r \in Seq(S) /\ Len(r) = Len(ae) + Len(b)
        /\ \A i \in 1 .. Len(ae) + Len(b) : r[i] = IF i <= Len(ae) THEN ae[i] ELSE b[i - Len(ae)]
    BY <1>3, <1>5, ConcatProperties
  <2> QED BY <2>1, <2>2, <1>5
<1>7. r = InsertAt(s, m, e) BY DEF InsertAt, ae, a, b, n
<1> HIDE DEF r
<1>8. ASSUME NEW i \in 1 .. n + 1
      PROVE  r[i] = IF i < m THEN s[i] ELSE IF i = m THEN e ELSE s[i - 1]
  <2>1. i \in Int /\ i >= 1 /\ i <= n + 1 BY <1>1
  <2>2. CASE i < m
    <3>1. i \in 1 .. m /\ i <= m - 1 /\ i <= m BY <1>1, <2>1, <2>2
    <3>2. r[i] = a[i] BY <1>5, <1>6, <3>1
    <3> QED BY <3>1, <3>2, <1>2, <2>1, <2>2
  <2>3. CASE i = m
    <3>1. i \in 1 .. m /\ ~(i <= m - 1) /\ i <= m /\ i - (m - 1) = 1 BY <1>1, <2>1, <2>3
    <3>2. r[i] = <<e>>[1] BY <1>5, <1>6, <3>1
    <3> QED BY <3>1, <3>2, <1>4, <2>3
  <2>4. CASE i > m
    <3>1. ~(i <= m) /\ i - m \in 1 .. n - m + 1 /\ m + (i - m) - 1 = i - 1 /\ ~(i < m) /\ i # m
      BY <1>1, <2>1, <2>4
    <3>2. r[i] = b[i - m] BY <1>6, <3>1
    <3>3. b[i - m] = s[i - 1] BY <1>3, <3>1
    <3> QED BY <3>1, <3>2, <3>3
  <2> QED BY <2>1, <2>2, <2>3, <2>4, <1>1
<1> QED BY <1>6, <1>7, <1>8 DEF n

\* pushPacket puts a packet where it belongs and adds no other (Insert).
LEMMA InsertKeeps ==
    ASSUME NEW k \in Kinds, NEW list, Sorted(k, list), NEW p \in Packets(k), AllNear(k, list, p)
    PROVE  /\ Sorted(k, Insert(list, p))
           /\ \A i \in 1 .. Len(Insert(list, p)) :
                 Insert(list, p)[i] = p \/ \E j \in 1 .. Len(list) : Insert(list, p)[i] = list[j]
<1> DEFINE n == Len(list)
           pos == [i \in 1 .. n |-> At(k, list[i])]
           c == At(k, p)
           stop == {i \in DOMAIN list : \/ list[i].seq = p.seq
                                        \/ SequenceLessThan(list[i].seq, p.seq)}
<1>1. /\ list \in Seq(Packets(k)) /\ n \in Nat /\ DOMAIN list = 1 .. n
      /\ \A i \in 1 .. n : list[i] \in Packets(k)
  BY LenProperties DEF Sorted
<1>2. c \in Nat /\ \A i \in 1 .. n : pos[i] \in Nat /\ pos[i] = At(k, list[i])
  BY <1>1, AtIs
<1>3. \A i, j \in 1 .. n : i < j => pos[j] < pos[i] BY DEF Sorted
<1>4. ASSUME NEW i \in 1 .. n PROVE (i \in stop <=> pos[i] <= c) /\ (list[i].seq = p.seq <=> pos[i] = c)
  <2>1. /\ SequenceLessThan(list[i].seq, p.seq) <=> At(k, list[i]) < c
        /\ list[i].seq = p.seq <=> At(k, list[i]) = c
    BY <1>1, Compares DEF AllNear
  <2> QED BY <2>1, <1>1, <1>2
<1>5. stop \subseteq 1 .. n BY <1>1
<1>6. Insert(list, p) = IF stop = {} THEN Append(list, p)
                        ELSE IF list[Min(stop)].seq = p.seq THEN list
                        ELSE InsertAt(list, Min(stop), p)
  BY DEF Insert
<1> HIDE DEF stop, pos, n, c
<1>7. CASE stop = {}
  <2> DEFINE r == Append(list, p)
  <2>1. /\ r \in Seq(Packets(k)) /\ Len(r) = n + 1 /\ r[n + 1] = p
        /\ \A i \in 1 .. n : r[i] = list[i]
    BY <1>1, AppendProperties DEF n
  <2>2. Insert(list, p) = r BY <1>6, <1>7
  <2> HIDE DEF r
  <2>3. ASSUME NEW i \in 1 .. Len(r), NEW j \in 1 .. Len(r), i < j
        PROVE  At(k, r[j]) < At(k, r[i])
    <3>1. i \in 1 .. n /\ (j \in 1 .. n \/ j = n + 1) BY <2>1, <2>3, <1>1
    <3>2. CASE j \in 1 .. n BY <3>1, <3>2, <2>1, <2>3, <1>2, <1>3
    <3>3. CASE j = n + 1
      <4>1. c < pos[i] BY <3>1, <1>2, <1>4, <1>7
      <4> QED BY <4>1, <3>1, <3>3, <2>1, <1>2 DEF c
    <3> QED BY <3>1, <3>2, <3>3
  <2>4. ASSUME NEW i \in 1 .. Len(r) PROVE r[i] = p \/ \E j \in 1 .. n : r[i] = list[j]
    <3>1. i \in 1 .. n \/ i = n + 1 BY <2>1, <1>1
    <3> QED BY <3>1, <2>1
  <2> QED BY <2>1, <2>2, <2>3, <2>4 DEF Sorted, n
<1>8. CASE stop # {}
  <2> DEFINE m == Min(stop)
  <2>1. m \in stop /\ m \in 1 .. n /\ \A i \in stop : m <= i
    <3>1. stop \in SUBSET Nat BY <1>1, <1>5
    <3> QED BY <3>1, <1>5, <1>8, MinIs
  <2> HIDE DEF m
  <2>2. \A i \in 1 .. n : i < m => c < pos[i]
    <3>1. ASSUME NEW i \in 1 .. n, i < m PROVE c < pos[i]
      <4>1. i \notin stop BY <2>1, <3>1, <1>1
      <4> QED BY <4>1, <1>2, <1>4
    <3> QED BY <3>1
  <2>3. \A i \in 1 .. n : i >= m => pos[i] <= pos[m]
    BY <2>1, <1>1, <1>2, <1>3
  <2>4. pos[m] <= c BY <2>1, <1>4
  <2>5. CASE list[m].seq = p.seq
    <3>1. Insert(list, p) = list BY <1>6, <1>8, <2>5 DEF m
    <3> QED BY <3>1, <1>1 DEF Sorted, n
  <2>6. CASE list[m].seq # p.seq
    <3> DEFINE r == InsertAt(list, m, p)
    <3>1. Insert(list, p) = r BY <1>6, <1>8, <2>6 DEF m
    <3>2. /\ r \in Seq(Packets(k)) /\ Len(r) = n + 1
          /\ \A i \in 1 .. n + 1 : r[i] = IF i < m THEN list[i] ELSE IF i = m THEN p ELSE list[i - 1]
      <4>1. list \in Seq(Packets(k)) /\ m \in 1 .. Len(list) /\ p \in Packets(k)
        BY <1>1, <2>1 DEF n
      <4> HIDE DEF r
      <4>2. /\ InsertAt(list, m, p) \in Seq(Packets(k))
            /\ Len(InsertAt(list, m, p)) = Len(list) + 1
            /\ \A i \in 1 .. Len(list) + 1 : InsertAt(list, m, p)[i] =
                   IF i < m THEN list[i] ELSE IF i = m THEN p ELSE list[i - 1]
        BY <4>1, InsertAtIs
      <4> QED BY <4>2 DEF n, r
    <3>3. pos[m] < c BY <2>1, <2>4, <2>6, <1>2, <1>4
    <3> HIDE DEF r
    <3> DEFINE q == [i \in 1 .. n + 1 |-> IF i < m THEN pos[i] ELSE IF i = m THEN c ELSE pos[i - 1]]
    <3>4. ASSUME NEW i \in 1 .. n + 1 PROVE At(k, r[i]) = q[i]
      <4>1. i \in Int /\ m \in Int /\ (i < m => i \in 1 .. n) /\ (i > m => i - 1 \in 1 .. n)
        BY <1>1, <2>1
      <4> QED BY <4>1, <3>2, <1>2 DEF c
    <3>5. ASSUME NEW i \in 1 .. n + 1, NEW j \in 1 .. n + 1, i < j PROVE q[j] < q[i]
      <4>1. /\ i \in Int /\ j \in Int /\ m \in 1 .. n /\ c \in Nat /\ n \in Nat
            /\ \A x \in 1 .. n : pos[x] \in Nat
        BY <1>1, <1>2, <2>1
      <4>2. CASE j < m
        <5>1. q[j] = pos[j] /\ q[i] = pos[i] /\ i \in 1 .. n /\ j \in 1 .. n BY <4>1, <4>2, <3>5
        <5> QED BY <5>1, <1>3, <3>5
      <4>3. CASE j = m
        <5>1. q[j] = c /\ q[i] = pos[i] /\ i \in 1 .. n /\ i < m BY <4>1, <4>3, <3>5
        <5> QED BY <5>1, <2>2
      <4>4. CASE j > m
        <5>1. q[j] = pos[j - 1] /\ j - 1 \in 1 .. n /\ j - 1 >= m BY <4>1, <4>4
        <5>2. pos[j - 1] <= pos[m] BY <5>1, <2>3
        <5>3. CASE i < m
          <6>1. q[i] = pos[i] /\ i \in 1 .. n BY <4>1, <5>3
          <6> QED BY <6>1, <5>1, <5>2, <5>3, <2>2, <3>3, <4>1
        <5>4. CASE i = m
          <6>1. q[i] = c BY <4>1, <5>4
          <6> QED BY <6>1, <5>1, <5>2, <3>3, <4>1
        <5>5. CASE i > m
          <6>1. q[i] = pos[i - 1] /\ i - 1 \in 1 .. n /\ i - 1 < j - 1 BY <4>1, <5>5, <3>5
          <6> QED BY <6>1, <5>1, <1>3
        <5> QED BY <5>3, <5>4, <5>5, <4>1
      <4> QED BY <4>1, <4>2, <4>3, <4>4
    <3> HIDE DEF q
    <3>6. ASSUME NEW i \in 1 .. n + 1 PROVE r[i] = p \/ \E j \in 1 .. n : r[i] = list[j]
      <4>1. i \in Int /\ m \in Int /\ (i < m => i \in 1 .. n) /\ (i > m => i - 1 \in 1 .. n)
        BY <1>1, <2>1
      <4> QED BY <4>1, <3>2
    <3> QED BY <3>1, <3>2, <3>4, <3>5, <3>6 DEF Sorted, n
  <2> QED BY <2>5, <2>6
<1> QED BY <1>7, <1>8
-----------------------------------------------------------------------------
(* Types. *)

QueueOf(k) == [list: Seq(Packets(k)), last: -1 .. SeqModulus - 1, timed: BOOLEAN]
Queues == [audio: QueueOf("audio"), video: QueueOf("video")]
PushOf(k) == [pc: {"insert", "notify"}, kind: {k}, packet: Packets(k)]
Medias == [codec: BOOLEAN, sound: BOOLEAN, data: BOOLEAN, ssrc: BOOLEAN, fir: BOOLEAN]
Files == [streams: BOOLEAN, search: {"start", "end"}, buffer: Seq(Packets("video")),
          lastSeq: -1 .. SeqModulus - 1,
          frames: Seq([packets: Seq(Packets("video")), pts: Int]),
          sound: Seq([packet: Packets("audio"), pts: Int])]
Nets == [audio: SUBSET DOMAIN Stream.audio, video: SUBSET DOMAIN Stream.video, faults: Nat]
Given == [audio: Seq(Packets("audio")), video: Seq(Packets("video"))]
Histories == [given: Given, raced: BOOLEAN, unset: BOOLEAN, missed: BOOLEAN, early: SUBSET Nat]

DataInv ==
    /\ queue \in Queues /\ media \in Medias /\ file \in Files /\ net \in Nets
    /\ seen \in Histories /\ (push = Nothing \/ \E k \in Kinds : push \in PushOf(k))

ThreadInv ==
    /\ recording \in {"unset", "on", "off"}
    /\ node \in {"new", "init", "open", "notify", "join", "closed"}
    /\ writer \in {"none", "test", "locking", "waiting", "audio", "video", "popAudio",
                   "popVideo", "drain", "ended", "crashed"}
    /\ push.pc \in {"idle", "insert", "notify"}
    /\ file.streams => media.codec

\* The depth of a list is a number of seconds, zero for fewer than two packets.
LEMMA DepthIs ==
    ASSUME NEW k \in Kinds, NEW list \in Seq(Packets(k)), NEW timed \in BOOLEAN
    PROVE  /\ DepthInSeconds(timed, list) \in 0 .. TsModulus - 1
           /\ (~timed \/ Len(list) <= 1) => DepthInSeconds(timed, list) = 0
<1>1. TsModulus \in Nat \ {0} /\ FirstTs \in Nat BY QueueAssumption
<1>2. CASE timed /\ Len(list) > 1
  <2>1. 1 \in 1 .. Len(list) /\ Len(list) \in 1 .. Len(list) /\ list # <<>>
    BY <1>2, LenProperties
  <2>2. Head(list) = list[1] /\ Last(list) = list[Len(list)] BY <2>1 DEF Last
  <2>3. Head(list) \in Packets(k) /\ Last(list) \in Packets(k) BY <2>1, <2>2, ElementOfSeq
  <2>4. Head(list).time \in Nat /\ Last(list).time \in Nat BY <2>3, AtIs DEF IsPacket
  <2>5. Timestamp(Head(list)) \in Int /\ Timestamp(Last(list)) \in Int
    BY <2>4, <1>1 DEF Timestamp
  <2>6. ASSUME NEW x \in Int PROVE x % TsModulus \in 0 .. TsModulus - 1 BY <1>1
  <2>7. DepthInSeconds(timed, list) = (Timestamp(Head(list)) - Timestamp(Last(list))) % TsModulus
    BY <1>2 DEF DepthInSeconds
  <2>8. Timestamp(Head(list)) - Timestamp(Last(list)) \in Int BY <2>5
  <2>9. timed /\ ~(Len(list) <= 1) BY <1>2, LenProperties
  <2> QED BY <2>6, <2>7, <2>8, <2>9
<1>3. CASE ~(timed /\ Len(list) > 1) BY <1>1, <1>3, LenProperties DEF DepthInSeconds
<1> QED BY <1>2, <1>3

LEMMA MaxDepthIs == MaxDepth \in Nat /\ MaxDepth > 0 /\ Depth \in Nat
  BY QueueAssumption

\* What Enforce leaves: the packets from the newest on, as many as are not too deep.
LEMMA EnforceIs ==
    ASSUME NEW k \in Kinds, NEW list \in Seq(Packets(k)), NEW timed \in BOOLEAN
    PROVE  \E n \in 0 .. Len(list) :
              /\ Enforce(timed, list) \in Seq(Packets(k)) /\ Len(Enforce(timed, list)) = n
              /\ \A i \in 1 .. n : Enforce(timed, list)[i] = list[i]
              /\ DepthInSeconds(timed, Enforce(timed, list)) <= MaxDepth
<1> DEFINE D == {n \in 0 .. Len(list) : DepthInSeconds(timed, SubSeq(list, 1, n)) <= MaxDepth}
           m == Max(D)
<1>1. Len(list) \in Nat /\ \A i \in 1 .. Len(list) : list[i] \in Packets(k)
  BY LenProperties
<1>2. ASSUME NEW n \in 0 .. Len(list)
      PROVE  /\ SubSeq(list, 1, n) \in Seq(Packets(k)) /\ Len(SubSeq(list, 1, n)) = n
             /\ \A i \in 1 .. n : SubSeq(list, 1, n)[i] = list[i]
  <2>1. n \in Int /\ n >= 0 /\ \A i \in 1 .. n : list[i] \in Packets(k) BY <1>1
  <2>2. /\ SubSeq(list, 1, n) \in Seq(Packets(k))
        /\ Len(SubSeq(list, 1, n)) = (IF 1 <= n THEN n - 1 + 1 ELSE 0)
        /\ \A i \in 1 .. n - 1 + 1 : SubSeq(list, 1, n)[i] = list[1 + i - 1]
    BY <2>1, SubSeqProperties
  <2> QED BY <2>1, <2>2
<1>3. 0 \in D
  <2>1. 0 \in 0 .. Len(list) BY <1>1
  <2>3. SubSeq(list, 1, 0) \in Seq(Packets(k)) /\ Len(SubSeq(list, 1, 0)) = 0 BY <2>1, <1>2
  <2>4. Len(SubSeq(list, 1, 0)) <= 1 BY <2>3
  <2>2. DepthInSeconds(timed, SubSeq(list, 1, 0)) = 0 BY <2>3, <2>4, DepthIs
  <2> QED BY <2>1, <2>2, MaxDepthIs
<1>4. m \in D
  <2> DEFINE up == {n + 1 : n \in D}
  <2>1. D \subseteq 0 .. Len(list) OBVIOUS
  <2>2. \E x \in D : \A y \in D : y <= x
    <3> DEFINE U == {Len(list) - n : n \in D}
    <3>1. U \subseteq Nat /\ U # {} BY <1>1, <1>3, <2>1
    <3>2. PICK u \in U : \A v \in U : u <= v BY <3>1, Turns!Least
    <3>3. PICK x \in D : u = Len(list) - x BY <3>2
    <3>4. ASSUME NEW y \in D PROVE y <= x
      <4>1. Len(list) - y \in U OBVIOUS
      <4>2. x \in Int /\ y \in Int BY <2>1
      <4>3. u <= Len(list) - y BY <4>1, <3>2
      <4> HIDE DEF U, D
      <4> QED BY <4>2, <4>3, <3>3, <1>1
    <3> QED BY <3>3, <3>4
  <2> QED BY <2>2 DEF Max
<1>5. Enforce(timed, list) = SubSeq(list, 1, m) BY DEF Enforce
<1> HIDE DEF m
<1>6. m \in 0 .. Len(list) /\ DepthInSeconds(timed, SubSeq(list, 1, m)) <= MaxDepth BY <1>4
<1> QED BY <1>2, <1>5, <1>6

\* A sequence without its last element.
LEMMA FrontIs ==
    ASSUME NEW S, NEW s \in Seq(S), s # <<>>
    PROVE  /\ Front(s) \in Seq(S) /\ Len(Front(s)) = Len(s) - 1 /\ Len(s) \in Nat \ {0}
           /\ \A i \in 1 .. Len(s) - 1 : Front(s)[i] = s[i]
           /\ Last(s) \in S /\ Last(s) = s[Len(s)] /\ Head(s) = s[1] /\ Head(s) \in S
<1>1. Len(s) \in Nat \ {0} /\ \A i \in 1 .. Len(s) : s[i] \in S BY EmptySeq, LenProperties
<1> DEFINE n == Len(s) - 1
           r == SubSeq(s, 1, n)
<1>2. 1 \in Int /\ n \in Int /\ n >= 0 /\ \A i \in 1 .. n : s[i] \in S BY <1>1
<1>3. /\ r \in Seq(S) /\ Len(r) = (IF 1 <= n THEN n - 1 + 1 ELSE 0)
      /\ \A i \in 1 .. n - 1 + 1 : r[i] = s[1 + i - 1]
  <2> HIDE DEF n
  <2> QED BY <1>2, SubSeqProperties
<1>5. Last(s) = s[Len(s)] /\ Last(s) \in S /\ Head(s) = s[1] /\ Head(s) \in S
  BY <1>1 DEF Last
<1>4. Front(s) = r BY DEF Front
<1> HIDE DEF r
<1>6. r \in Seq(S) /\ Len(r) = Len(s) - 1 /\ \A i \in 1 .. Len(s) - 1 : r[i] = s[i]
  <2>1. n = Len(s) - 1 OBVIOUS
  <2> HIDE DEF n
  <2>2. Len(r) = n BY <1>2, <1>3
  <2>3. ASSUME NEW i \in 1 .. n PROVE r[i] = s[i] BY <1>2, <1>3
  <2> QED BY <1>3, <2>1, <2>2, <2>3
<1> QED BY <1>1, <1>4, <1>5, <1>6
-----------------------------------------------------------------------------
(* What a step does to the queues, the file and the history. *)

\* The writing thread takes the oldest packet of a queue and writes it.
Takes(k) ==
    /\ queue[k].list # <<>> /\ Write(k, Last(queue[k].list))
    /\ queue' = [queue EXCEPT ![k] = PopPacket(@)] /\ UNCHANGED <<push, net>>

Delivers == \E k \in Kinds : \E i \in net[k], copy \in BOOLEAN : Deliver(k, i, copy)

Quiet ==
    /\ UNCHANGED <<queue, media, file, net>> /\ (push' = push \/ push' = Nothing)
    /\ seen' \in Histories /\ seen'.given = seen.given /\ seen'.raced = seen.raced
    /\ seen'.early = seen.early

\* Every step of the threads is one of four as far as the data goes.
LEMMA Steps ==
    ASSUME DataInv, [RecorderNext]_recorderVars
    PROVE  Quiet \/ Delivers \/ InsertPacket \/ \E k \in Kinds : Takes(k)
<1>1. seen \in Histories BY DEF DataInv
<1>2. CASE UNCHANGED recorderVars BY <1>1, <1>2 DEF recorderVars, Quiet
<1>3. CASE NodeThread
  <2>1. CASE StartWriter BY <1>1, <2>1 DEF StartWriter, Quiet
  <2>2. CASE InitReturns BY <1>1, <2>2 DEF InitReturns, Quiet
  <2>3. CASE NotifyEnd BY <1>1, <2>3 DEF NotifyEnd, Quiet, Histories
  <2>4. CASE Join BY <1>1, <2>4 DEF Join, Quiet
  <2> QED BY <1>3, <2>1, <2>2, <2>3, <2>4 DEF NodeThread
<1>4. CASE WritingThread
  <2>1. CASE TestRecording BY <1>1, <2>1 DEF TestRecording, Quiet, Histories
  <2>2. CASE Wait BY <1>1, <2>2 DEF Wait, Quiet
  <2>3. CASE Drain
    <3>1. CASE Drained = "none" BY <1>1, <2>3, <3>1 DEF Drain, Quiet
    <3>2. CASE Drained # "none"
      <4>1. Drained \in Kinds /\ queue[Drained].list # <<>> BY <3>2 DEF Drained, Kinds
      <4> QED BY <4>1, <2>3, <3>2 DEF Drain, Takes
    <3> QED BY <3>1, <3>2
  <2>4. ASSUME NEW k \in Kinds, Look(k) PROVE Quiet BY <1>1, <2>4 DEF Look, Quiet
  <2>5. ASSUME NEW k \in Kinds, Pop(k) PROVE Quiet \/ Takes(k)
    <3>1. CASE Pops(queue[k], FALSE) BY <2>5, <3>1 DEF Pop, Pops, Takes
    <3>2. CASE ~Pops(queue[k], FALSE) BY <1>1, <2>5, <3>2 DEF Pop, Quiet
    <3> QED BY <3>1, <3>2
  <2> QED BY <1>4, <2>1, <2>2, <2>3, <2>4, <2>5 DEF WritingThread
<1>5. CASE DeliveringThread
  <2>1. CASE NotifyData BY <1>1, <2>1 DEF NotifyData, Quiet
  <2> QED BY <1>5, <2>1 DEF DeliveringThread
<1>6. CASE Destroy BY <1>1, <1>6 DEF Destroy, Quiet
<1> QED BY <1>2, <1>3, <1>4, <1>5, <1>6 DEF RecorderNext, Delivers

\* The parts of the data that belong to a kind.
LEMMA OfKind ==
    ASSUME DataInv, NEW k \in Kinds
    PROVE  /\ queue[k] \in QueueOf(k) /\ queue[k].list \in Seq(Packets(k))
           /\ queue[k].last \in -1 .. SeqModulus - 1 /\ queue[k].timed \in BOOLEAN
           /\ seen.given[k] \in Seq(Packets(k)) /\ net[k] \subseteq DOMAIN Stream[k]
<1>1. CASE k = "audio"
  BY <1>1 DEF DataInv, Queues, QueueOf, Histories, Given, Nets
<1>2. CASE k = "video"
  BY <1>2 DEF DataInv, Queues, QueueOf, Histories, Given, Nets
<1> QED BY <1>1, <1>2 DEF Kinds

LEMMA Pushing ==
    ASSUME DataInv, push.pc = "insert"
    PROVE  push.kind \in Kinds /\ push.packet \in Packets(push.kind) /\ push \in PushOf(push.kind)
  BY DEF DataInv, Nothing, PushOf

LEMMA QueueExcept ==
    ASSUME DataInv, NEW k \in Kinds, NEW v \in QueueOf(k)
    PROVE  /\ [queue EXCEPT ![k] = v] \in Queues
           /\ \A j \in Kinds : [queue EXCEPT ![k] = v][j] = IF j = k THEN v ELSE queue[j]
<1>1. queue \in Queues BY DEF DataInv
<1>2. CASE k = "audio" BY <1>1, <1>2 DEF Queues, Kinds
<1>3. CASE k = "video" BY <1>1, <1>3 DEF Queues, Kinds
<1> QED BY <1>2, <1>3 DEF Kinds

LEMMA InsertIs ==
    ASSUME NEW k \in Kinds, NEW list \in Seq(Packets(k)), NEW p \in Packets(k)
    PROVE  Insert(list, p) \in Seq(Packets(k))
<1> DEFINE stop == {i \in DOMAIN list : \/ list[i].seq = p.seq
                                        \/ SequenceLessThan(list[i].seq, p.seq)}
<1>1. DOMAIN list = 1 .. Len(list) /\ Len(list) \in Nat BY LenProperties
<1>2. Insert(list, p) = IF stop = {} THEN Append(list, p)
                        ELSE IF list[Min(stop)].seq = p.seq THEN list
                        ELSE InsertAt(list, Min(stop), p)
  BY DEF Insert
<1>3. stop \subseteq 1 .. Len(list) BY <1>1
<1> HIDE DEF stop
<1>4. stop # {} => Min(stop) \in 1 .. Len(list)
  <2>1. stop \in SUBSET Nat BY <1>1, <1>3
  <2> QED BY <2>1, <1>3, MinIs
<1>5. Append(list, p) \in Seq(Packets(k)) BY AppendProperties
<1>6. stop # {} => InsertAt(list, Min(stop), p) \in Seq(Packets(k)) BY <1>4, InsertAtIs
<1> QED BY <1>2, <1>5, <1>6
LEMMA PtsIs ==
    ASSUME NEW k \in Kinds, NEW p \in Packets(k), NEW q \in Packets(k)
    PROVE  Timestamp(p) \in Int /\ Pts(p, q) \in Int
<1>1. p.time \in Nat /\ q.time \in Nat BY AtIs DEF IsPacket
<1>2. TsModulus \in Nat \ {0} /\ FirstTs \in Nat BY QueueAssumption
<1>3. Timestamp(p) \in Int /\ Timestamp(q) \in Int BY <1>1, <1>2 DEF Timestamp
<1> QED BY <1>2, <1>3 DEF Pts

LEMMA FirstIs ==
    ASSUME DataInv, NEW k \in Kinds, NEW p \in Packets(k)
    PROVE  First(k, p) \in Packets(k)
<1>1. seen.given[k] \in Seq(Packets(k)) BY OfKind
<1>2. CASE seen.given[k] = <<>> BY <1>2 DEF First
<1>3. CASE seen.given[k] # <<>> BY <1>1, <1>3, FrontIs DEF First
<1> QED BY <1>2, <1>3

LEMMA UnpackagedIs ==
    ASSUME DataInv, NEW p \in Packets("video")
    PROVE  Unpackaged(p) \in Seq(Packets("video")) /\ Search(p) \in {"start", "end"}
<1>1. file.buffer \in Seq(Packets("video")) /\ file.search \in {"start", "end"}
  BY DEF DataInv, Files
<1>2. Held(p) \in Seq(Packets("video")) BY <1>1, EmptySeq DEF Held
<1>3. Append(Held(p), p) \in Seq(Packets("video")) BY <1>2, AppendProperties
<1>4. <<>> \in Seq(Packets("video")) /\ <<p>> \in Seq(Packets("video")) OBVIOUS
<1>5. Search(p) \in {"start", "end"} BY <1>1 DEF Search
<1> QED BY <1>3, <1>4, <1>5 DEF Unpackaged

LEMMA PopIs ==
    ASSUME DataInv, NEW k \in Kinds, queue[k].list # <<>>
    PROVE  /\ Last(queue[k].list) \in Packets(k) /\ IsPacket(Last(queue[k].list))
           /\ PopPacket(queue[k]) \in QueueOf(k)
           /\ PopPacket(queue[k]).list = Front(queue[k].list)
           /\ PopPacket(queue[k]).last = Last(queue[k].list).seq
           /\ PopPacket(queue[k]).timed = queue[k].timed
<1>1. queue[k] \in QueueOf(k) /\ queue[k].list \in Seq(Packets(k)) BY OfKind
<1>2. Last(queue[k].list) \in Packets(k) /\ Front(queue[k].list) \in Seq(Packets(k))
  BY <1>1, FrontIs
<1>3. IsPacket(Last(queue[k].list)) BY <1>2, AtIs
<1>4. Last(queue[k].list).seq \in -1 .. SeqModulus - 1 BY <1>3, HalfATurn DEF IsPacket
<1> QED BY <1>1, <1>2, <1>3, <1>4 DEF PopPacket, QueueOf

LEMMA PushIs ==
    ASSUME DataInv, push.pc = "insert", NEW k \in Kinds, k = push.kind
    PROVE  /\ PushPacket(queue[k], push.packet) \in QueueOf(k)
           /\ PushPacket(queue[k], push.packet).list
                = Enforce(queue[k].timed, Insert(queue[k].list, push.packet))
           /\ PushPacket(queue[k], push.packet).last = queue[k].last
           /\ PushPacket(queue[k], push.packet).timed = queue[k].timed
<1>1. queue[k] \in QueueOf(k) /\ queue[k].list \in Seq(Packets(k)) /\ queue[k].timed \in BOOLEAN
  BY OfKind
<1>2. push.packet \in Packets(k) BY Pushing
<1>3. Enforce(queue[k].timed, Insert(queue[k].list, push.packet)) \in Seq(Packets(k))
  BY <1>1, <1>2, InsertIs, EnforceIs
<1> QED BY <1>1, <1>3 DEF PushPacket, QueueOf

\* What taking a packet does to the queues and to what was handed out.
LEMMA GivenIs ==
    ASSUME DataInv, NEW k \in Kinds, Takes(k)
    PROVE  /\ queue'[k] = PopPacket(queue[k])
           /\ seen'.given[k] = Append(seen.given[k], Last(queue[k].list))
           /\ \A j \in Kinds : j # k => queue'[j] = queue[j] /\ seen'.given[j] = seen.given[j]
           /\ seen'.raced = seen.raced /\ queue' \in Queues
<1>1. PopPacket(queue[k]) \in QueueOf(k) BY PopIs DEF Takes
<1>2. queue' = [queue EXCEPT ![k] = PopPacket(queue[k])] BY DEF Takes
<1>3. seen \in Histories BY DEF DataInv
<1>4. CASE k = "audio"
  <2>1. seen' = [seen EXCEPT !.given.audio = Append(@, Last(queue[k].list))]
    BY <1>4 DEF Takes, Write, WriteAudio
  <2> QED BY <1>1, <1>2, <1>3, <1>4, <2>1, QueueExcept DEF Histories, Given, Kinds
<1>5. CASE k = "video"
  <2>1. seen' = [seen EXCEPT !.given.video = Append(@, Last(queue[k].list)),
                    !.early = IF EndsFrame(Last(queue[k].list)) /\ ~media.codec
                              THEN @ \cup {Last(queue[k].list).time} ELSE @]
    BY <1>5 DEF Takes, Write, WriteVideo, Kinds
  <2> QED BY <1>1, <1>2, <1>3, <1>5, <2>1, QueueExcept DEF Histories, Given, Kinds
<1> QED BY <1>4, <1>5 DEF Kinds

LEMMA TakesKeepsData ==
    ASSUME DataInv, NEW k \in Kinds, Takes(k)
    PROVE  DataInv'
<1> DEFINE p == Last(queue[k].list)
<1>1. p \in Packets(k) /\ IsPacket(p) BY PopIs DEF Takes
<1>2. queue' \in Queues BY GivenIs
<1>3. push' = push /\ net' = net /\ Write(k, p) BY DEF Takes
<1>4. media \in Medias /\ file \in Files /\ seen \in Histories /\ net \in Nets BY DEF DataInv
<1>5. First(k, p) \in Packets(k) /\ Pts(p, First(k, p)) \in Int BY <1>1, FirstIs, PtsIs
<1>6. Append(seen.given[k], p) \in Seq(Packets(k)) BY <1>1, OfKind, AppendProperties
<1> HIDE DEF p
<1>7. CASE k = "audio"
  <2>1. WriteAudio(p) BY <1>3, <1>7 DEF Write
  <2>2. [packet |-> p, pts |-> Pts(p, First("audio", p))] \in [packet: Packets("audio"), pts: Int]
    BY <1>1, <1>5, <1>7
  <2>3. Append(file.sound, [packet |-> p, pts |-> Pts(p, First("audio", p))])
          \in Seq([packet: Packets("audio"), pts: Int])
    <3>1. file.sound \in Seq([packet: Packets("audio"), pts: Int]) BY <1>4 DEF Files
    <3> QED BY <2>2, <3>1, AppendProperties
  <2>4. media' \in Medias BY <2>1, <1>4 DEF WriteAudio, Medias
  <2>5. file' \in Files BY <2>1, <2>3, <1>4 DEF WriteAudio, Files
  <2>6. seen' \in Histories BY <2>1, <1>4, <1>6, <1>7 DEF WriteAudio, Histories, Given
  <2> QED BY <1>2, <1>3, <1>4, <2>4, <2>5, <2>6 DEF DataInv
<1>8. CASE k = "video"
  <2>1. WriteVideo(p) BY <1>3, <1>8 DEF Write
  <2> DEFINE whole == EndsFrame(p)
             frame == [packets |-> Unpackaged(p), pts |-> Pts(p, First("video", p))]
             Frames == Seq([packets: Seq(Packets("video")), pts: Int])
  <2>2. Unpackaged(p) \in Seq(Packets("video")) /\ Search(p) \in {"start", "end"}
    BY <1>1, <1>8, UnpackagedIs
  <2>3. Append(file.frames, frame) \in Frames /\ file.frames \in Frames
    <3>1. file.frames \in Frames BY <1>4 DEF Files
    <3>2. frame \in [packets: Seq(Packets("video")), pts: Int] BY <2>2, <1>5, <1>8
    <3> HIDE DEF frame
    <3> QED BY <3>1, <3>2, AppendProperties
  <2>4. media' = media BY <2>1 DEF WriteVideo
  <2>5. p.seq \in -1 .. SeqModulus - 1 BY <1>1, HalfATurn DEF IsPacket
  <2>6. media.codec \in BOOLEAN /\ <<>> \in Seq(Packets("video")) BY <1>4 DEF Medias
  <2>7. file' = [file EXCEPT
               !.lastSeq = p.seq, !.streams = media.codec,
               !.search = IF ~p.marker /\ (p.start \/ Search(p) = "end") THEN "end" ELSE "start",
               !.buffer = IF whole /\ media.codec THEN <<>> ELSE Unpackaged(p),
               !.frames = IF whole /\ media.codec THEN Append(@, frame) ELSE @]
    BY <2>1 DEF WriteVideo
  <2>8. seen' = [seen EXCEPT !.given.video = Append(@, p),
                   !.early = IF whole /\ ~media.codec THEN @ \cup {p.time} ELSE @]
    BY <2>1 DEF WriteVideo
  <2> HIDE DEF whole, frame, Frames
  <2>9. file' \in Files BY <2>2, <2>3, <2>5, <2>6, <2>7, <1>4 DEF Files, Frames
  <2>10. seen' \in Histories BY <2>8, <1>1, <1>4, <1>6, <1>8 DEF Histories, Given, IsPacket
  <2> QED BY <1>2, <1>3, <1>4, <2>4, <2>9, <2>10 DEF DataInv
<1> QED BY <1>7, <1>8 DEF Kinds

\* What is delivered is pushed, and nothing else changes that the file depends on.
LEMMA DeliversIs ==
    ASSUME DataInv, NEW k \in Kinds, NEW i \in net[k], NEW copy \in BOOLEAN, Deliver(k, i, copy)
    PROVE  /\ Stream[k][i] \in Packets(k) /\ push' \in PushOf(k)
           /\ push'.packet = Stream[k][i] /\ push'.kind = k
           /\ push'.pc = "insert" => ~IsLate(queue[k], Stream[k][i])
           /\ UNCHANGED <<file, seen>> /\ (media.codec => media'.codec)
           /\ media' \in Medias /\ net' \in Nets /\ queue' \in Queues
           /\ \A j \in Kinds : /\ queue'[j].list = queue[j].list /\ queue'[j].last = queue[j].last
                               /\ queue'[j].timed = (queue[j].timed \/ (k = "audio" /\ j = "audio"))
<1>1. i \in DOMAIN Stream[k] BY OfKind
<1>2. Stream[k][i] \in Packets(k) BY <1>1, AtOf
<1>3. media \in Medias /\ net \in Nets /\ queue \in Queues BY DEF DataInv
<1>4. push' \in PushOf(k) /\ push'.packet = Stream[k][i] /\ push'.kind = k
      /\ (push'.pc = "insert" => ~IsLate(queue[k], Stream[k][i]))
  BY <1>2 DEF Deliver, PushOf
<1>5. media' \in Medias /\ (media.codec => media'.codec) BY <1>3 DEF Deliver, Medias
<1>6. net' \in Nets
  <2> DEFINE fault == copy \/ \E j \in net[k] : j < i
             rest == IF copy THEN net[k] ELSE net[k] \ {i}
  <2>1. net' = [net EXCEPT ![k] = rest, !.faults = IF fault THEN @ + 1 ELSE @]
    BY DEF Deliver, Arrives
  <2>2. rest \subseteq net[k] OBVIOUS
  <2> HIDE DEF fault, rest
  <2> DEFINE count == IF fault THEN net.faults + 1 ELSE net.faults
  <2>3. net.faults \in Nat /\ count \in Nat BY <1>3 DEF Nets
  <2>4. net' = [net EXCEPT ![k] = rest, !.faults = count] BY <2>1, <1>3 DEF Nets, Kinds
  <2> HIDE DEF count
  <2>5. CASE k = "audio" BY <1>3, <2>2, <2>3, <2>4, <2>5 DEF Nets
  <2>6. CASE k = "video" BY <1>3, <2>2, <2>3, <2>4, <2>6 DEF Nets
  <2> QED BY <2>5, <2>6 DEF Kinds
<1>7. /\ queue' \in Queues
      /\ \A j \in Kinds : /\ queue'[j].list = queue[j].list /\ queue'[j].last = queue[j].last
                          /\ queue'[j].timed = (queue[j].timed \/ (k = "audio" /\ j = "audio"))
  BY <1>3 DEF Deliver, Queues, QueueOf, Kinds
<1> QED BY <1>2, <1>4, <1>5, <1>6, <1>7 DEF Deliver

\* What the second half of pushPacket changes.
LEMMA InsertsIs ==
    ASSUME DataInv, InsertPacket
    PROVE  LET k == push.kind IN
           /\ k \in Kinds /\ push.packet \in Packets(k) /\ push.pc = "insert"
           /\ queue'[k] = PushPacket(queue[k], push.packet) /\ queue' \in Queues
           /\ \A j \in Kinds : j # k => queue'[j] = queue[j]
           /\ push' \in PushOf(k) /\ push'.pc = "notify"
           /\ seen' \in Histories /\ seen'.given = seen.given /\ seen'.early = seen.early
           /\ seen'.raced = (seen.raced \/ IsLate(queue[k], push.packet))
           /\ UNCHANGED <<media, file, net>>
<1> DEFINE k == push.kind
<1>1. k \in Kinds /\ push.packet \in Packets(k) /\ push \in PushOf(k) /\ push.pc = "insert"
  BY Pushing DEF InsertPacket
<1>2. PushPacket(queue[k], push.packet) \in QueueOf(k) BY <1>1, PushIs
<1>3. queue' = [queue EXCEPT ![k] = PushPacket(queue[k], push.packet)] BY DEF InsertPacket
<1>4. push' \in PushOf(k) /\ push'.pc = "notify" BY <1>1 DEF InsertPacket, PushOf
<1>5. IsLate(queue[k], push.packet) \in BOOLEAN BY DEF IsLate, SequenceLessThan
<1>6. seen' = [seen EXCEPT !.raced = @ \/ IsLate(queue[k], push.packet)] /\ UNCHANGED <<media, file, net>>
  BY DEF InsertPacket
<1>7. seen \in Histories BY DEF DataInv
<1> HIDE DEF k
<1>8. /\ seen' \in Histories /\ seen'.given = seen.given /\ seen'.early = seen.early
      /\ seen'.raced = (seen.raced \/ IsLate(queue[k], push.packet))
  BY <1>5, <1>6, <1>7 DEF Histories
<1>9. /\ queue'[k] = PushPacket(queue[k], push.packet) /\ queue' \in Queues
      /\ \A j \in Kinds : j # k => queue'[j] = queue[j]
  <2> DEFINE v == PushPacket(queue[k], push.packet)
  <2>1. v \in QueueOf(k) /\ queue' = [queue EXCEPT ![k] = v] BY <1>2, <1>3
  <2> HIDE DEF v
  <2>2. /\ [queue EXCEPT ![k] = v] \in Queues
        /\ \A j \in Kinds : [queue EXCEPT ![k] = v][j] = IF j = k THEN v ELSE queue[j]
    BY <1>1, <2>1, QueueExcept
  <2>3. queue' \in Queues /\ \A j \in Kinds : queue'[j] = IF j = k THEN v ELSE queue[j]
    BY <2>1, <2>2
  <2> QED BY <1>1, <2>3 DEF v
<1> QED BY <1>1, <1>4, <1>6, <1>8, <1>9 DEF k

LEMMA DataStep ==
    ASSUME DataInv, [RecorderNext]_recorderVars
    PROVE  DataInv'
<1>1. CASE Quiet BY <1>1 DEF Quiet, DataInv
<1>2. CASE Delivers
  <2>1. PICK k \in Kinds : \E i \in net[k], copy \in BOOLEAN : Deliver(k, i, copy)
    BY <1>2 DEF Delivers
  <2>2. PICK i \in net[k], copy \in BOOLEAN : Deliver(k, i, copy) BY <2>1
  <2>3. /\ push' \in PushOf(k) /\ UNCHANGED <<file, seen>>
        /\ media' \in Medias /\ net' \in Nets /\ queue' \in Queues
    BY <2>2, DeliversIs
  <2> QED BY <2>3 DEF DataInv
<1>3. CASE InsertPacket
  <2>1. /\ push.kind \in Kinds /\ push' \in PushOf(push.kind) /\ UNCHANGED <<media, file, net>>
        /\ seen' \in Histories /\ queue' \in Queues
    BY <1>3, InsertsIs
  <2> QED BY <2>1 DEF DataInv
<1>4. ASSUME NEW k \in Kinds, Takes(k) PROVE DataInv' BY <1>4, TakesKeepsData
<1> QED BY <1>1, <1>2, <1>3, <1>4, Steps
-----------------------------------------------------------------------------
(* Order. *)

\* The packets of a kind that are compared with one another: those of the queue,
\* the last one that left it and the one on its way into it.
InPlay(k) ==
    ToSet(queue[k].list)
    \cup (IF seen.given[k] = <<>> THEN {} ELSE {Last(seen.given[k])})
    \cup (IF push.pc = "insert" /\ push.kind = k THEN {push.packet} ELSE {})

\* They are less than half a turn of the sequence numbers and less than a turn
\* of the timestamps apart, without which no comparison of the queue means anything.
Timely == \A k \in Kinds : \A p, q \in InPlay(k) : Near(k, p, q)

Ascending(k, s) == \A i, j \in 1 .. Len(s) : i < j => At(k, s[i]) < At(k, s[j])
Follow(k, list, p) == \A i \in 1 .. Len(list) : At(k, p) < At(k, list[i])
LastGiven(k) == IF seen.given[k] = <<>> THEN -1 ELSE Last(seen.given[k]).seq

KindInv(k) ==
    /\ Sorted(k, queue[k].list)
    /\ DepthInSeconds(queue[k].timed, queue[k].list) <= MaxDepth
    /\ ~queue[k].timed => queue[k].list = <<>>
    /\ queue[k].last = LastGiven(k)
    /\ ~seen.raced =>
          /\ Ascending(k, seen.given[k])
          /\ seen.given[k] # <<>> => Follow(k, queue[k].list, Last(seen.given[k]))

OrderInv ==
    /\ DataInv /\ queue["video"].timed /\ (push.pc = "insert" => queue[push.kind].timed)
    /\ \A k \in Kinds : KindInv(k)

LEMMA NearIn ==
    ASSUME Timely, NEW k \in Kinds, NEW p \in InPlay(k), NEW q \in InPlay(k)
    PROVE  Near(k, p, q)
  BY DEF Timely

LEMMA ListInPlay ==
    ASSUME DataInv, NEW k \in Kinds
    PROVE  /\ \A i \in 1 .. Len(queue[k].list) :
                 queue[k].list[i] \in InPlay(k) /\ queue[k].list[i] \in Packets(k)
           /\ seen.given[k] # <<>> => Last(seen.given[k]) \in InPlay(k)
           /\ (push.pc = "insert" /\ push.kind = k) => push.packet \in InPlay(k)
<1>1. queue[k].list \in Seq(Packets(k)) BY OfKind
<1>2. /\ DOMAIN queue[k].list = 1 .. Len(queue[k].list)
      /\ \A i \in 1 .. Len(queue[k].list) : queue[k].list[i] \in Packets(k)
  BY <1>1, LenProperties
<1> QED BY <1>2 DEF InPlay, ToSet

\* Of a list in order, the depth is the time between its ends.
LEMMA DepthOfSorted ==
    ASSUME NEW k \in Kinds, NEW list, Sorted(k, list), Len(list) > 1,
           Near(k, list[Len(list)], list[1])
    PROVE  DepthInSeconds(TRUE, list) = list[1].time - list[Len(list)].time
<1> DEFINE n == Len(list)
           h == list[1]
           l == list[n]
           d == h.time - l.time
<1>1. list \in Seq(Packets(k)) /\ n \in Nat /\ n > 1 BY LenProperties DEF Sorted
<1>2. 1 \in 1 .. n /\ n \in 1 .. n /\ list # <<>> BY <1>1
<1>3. h \in Packets(k) /\ l \in Packets(k) /\ Head(list) = h /\ Last(list) = l
  BY <1>1, <1>2, ElementOfSeq DEF Last
<1>4. h.time \in Nat /\ l.time \in Nat BY <1>3, AtIs DEF IsPacket
<1>5. At(k, l) < At(k, h) BY <1>1, <1>2 DEF Sorted
<1>6. l.time <= h.time
  <2>1. At(k, l) <= At(k, h) BY <1>3, <1>5, AtIs
  <2> QED BY <1>3, <2>1, BeforeIs
<1>7. d < TsModulus BY <1>3, NearIs
<1>8. TsModulus \in Nat \ {0} /\ FirstTs \in Nat BY QueueAssumption
<1>9. DepthInSeconds(TRUE, list) = (Timestamp(h) - Timestamp(l)) % TsModulus
  BY <1>1, <1>3 DEF DepthInSeconds
<1> HIDE DEF n, h, l
<1> DEFINE a == l.time + FirstTs
<1>10. a \in Nat /\ d \in Nat /\ h.time + FirstTs = a + d BY <1>4, <1>6, <1>8
<1> HIDE DEF d, a
<1>11. (a + d) % TsModulus \in {(a % TsModulus) + d, (a % TsModulus) + d - TsModulus}
       /\ a % TsModulus \in Int
  <2>1. /\ TsModulus \in Nat \ {0} /\ a \in Nat /\ d \in Nat /\ d < TsModulus
    BY <1>7, <1>8, <1>10
  <2>2. /\ a % TsModulus \in 0 .. TsModulus - 1
        /\ (a + d) % TsModulus \in {(a % TsModulus) + d, (a % TsModulus) + d - TsModulus}
    BY ONLY <2>1, OnCircle
  <2> QED BY <2>1, <2>2
<1>12. Timestamp(h) = (a + d) % TsModulus /\ Timestamp(l) = a % TsModulus
  BY <1>10 DEF Timestamp, a
<1>13. Timestamp(h) - Timestamp(l) \in {d, d - TsModulus}
  BY <1>8, <1>10, <1>11, <1>12
<1>14. d \in 0 .. TsModulus - 1 /\ TsModulus \in Nat \ {0} BY <1>7, <1>8, <1>10
<1>15. (Timestamp(h) - Timestamp(l)) % TsModulus = d BY <1>13, <1>14, Remainder
<1> QED BY <1>9, <1>15 DEF d, h, l, n

\* popPacket keeps a queue in order and no deeper than it was.
LEMMA FrontShallower ==
    ASSUME NEW k \in Kinds, NEW list, Sorted(k, list), list # <<>>, NEW timed \in BOOLEAN,
           \A i, j \in 1 .. Len(list) : Near(k, list[i], list[j])
    PROVE  /\ Sorted(k, Front(list))
           /\ DepthInSeconds(timed, Front(list)) <= DepthInSeconds(timed, list)
<1> DEFINE n == Len(list)
           f == Front(list)
<1>1. list \in Seq(Packets(k)) BY DEF Sorted
<1>2. /\ f \in Seq(Packets(k)) /\ Len(f) = n - 1 /\ n \in Nat \ {0}
      /\ \A i \in 1 .. n - 1 : f[i] = list[i]
  BY <1>1, FrontIs
<1>3. DepthInSeconds(timed, list) \in 0 .. TsModulus - 1 BY <1>1, DepthIs
<1>4. \A i, j \in 1 .. n : i < j => At(k, list[j]) < At(k, list[i]) BY DEF Sorted
<1>5. \A i, j \in 1 .. n : Near(k, list[i], list[j]) OBVIOUS
<1> HIDE DEF n, f
<1>6. Sorted(k, f)
  <2>1. ASSUME NEW i \in 1 .. Len(f), NEW j \in 1 .. Len(f), i < j
        PROVE  At(k, f[j]) < At(k, f[i])
    <3>1. i \in 1 .. n - 1 /\ j \in 1 .. n - 1 /\ i \in 1 .. n /\ j \in 1 .. n BY <1>2
    <3> QED BY <3>1, <1>2, <1>4, <2>1
  <2> QED BY <1>2, <2>1 DEF Sorted
<1>7. CASE ~timed \/ n - 1 <= 1
  <2>1. DepthInSeconds(timed, f) = 0 BY <1>2, <1>7, DepthIs
  <2> QED BY <1>3, <1>6, <2>1 DEF f
<1>8. CASE timed /\ n - 1 > 1
  <2>1. /\ 1 \in 1 .. n - 1 /\ n - 1 \in 1 .. n - 1 /\ 1 \in 1 .. n /\ n - 1 \in 1 .. n
        /\ n \in 1 .. n /\ n > 1 /\ n - 1 < n
    BY <1>2, <1>8
  <2>2. f[1] = list[1] /\ f[n - 1] = list[n - 1] BY <1>2, <2>1
  <2>3. Near(k, list[n], list[1]) /\ Near(k, f[n - 1], f[1]) BY <1>5, <2>1, <2>2
  <2>4. DepthInSeconds(TRUE, list) = list[1].time - list[n].time
    BY <2>1, <2>3, DepthOfSorted DEF n
  <2>5. DepthInSeconds(TRUE, f) = f[1].time - f[n - 1].time
    <3>1. Len(f) > 1 /\ Near(k, f[Len(f)], f[1]) BY <1>2, <1>8, <2>3
    <3> QED BY <3>1, <1>2, <1>6, DepthOfSorted
  <2>6. list[n - 1] \in Packets(k) /\ list[n] \in Packets(k) /\ list[1] \in Packets(k)
    BY <1>1, <2>1, ElementOfSeq DEF n
  <2>7. At(k, list[n]) < At(k, list[n - 1]) BY <1>4, <2>1
  <2>8. list[n].time <= list[n - 1].time
    <3>1. At(k, list[n]) <= At(k, list[n - 1]) BY <2>6, <2>7, AtIs
    <3> QED BY <2>6, <3>1, BeforeIs
  <2>9. list[n].time \in Nat /\ list[n - 1].time \in Nat /\ list[1].time \in Nat
    BY <2>6, AtIs DEF IsPacket
  <2> DEFINE x == list[n].time
             y == list[n - 1].time
             z == list[1].time
  <2>10. DepthInSeconds(timed, list) = z - x /\ DepthInSeconds(timed, f) = z - y
    <3>1. /\ DepthInSeconds(timed, list) = DepthInSeconds(TRUE, list)
          /\ DepthInSeconds(timed, f) = DepthInSeconds(TRUE, f)
      BY <1>8 DEF DepthInSeconds
    <3> QED BY <3>1, <2>2, <2>4, <2>5
  <2>11. x \in Int /\ y \in Int /\ z \in Int /\ x <= y BY <2>8, <2>9
  <2> HIDE DEF x, y, z
  <2>12. DepthInSeconds(timed, f) <= DepthInSeconds(timed, list) BY <2>10, <2>11
  <2> QED BY <1>6, <2>12 DEF f
<1> QED BY <1>2, <1>7, <1>8
\* One packet more is handed out, after all the others.
LEMMA GivenAppends ==
    ASSUME NEW k \in Kinds, NEW s \in Seq(Packets(k)), NEW p \in Packets(k),
           Ascending(k, s), s # <<>> => At(k, Last(s)) < At(k, p)
    PROVE  Ascending(k, Append(s, p))
<1> DEFINE n == Len(s)
           r == Append(s, p)
<1>1. /\ n \in Nat /\ \A i \in 1 .. n : s[i] \in Packets(k) /\ At(k, s[i]) \in Nat
      /\ Len(r) = n + 1 /\ r[n + 1] = p /\ \A i \in 1 .. n : r[i] = s[i]
  BY LenProperties, AppendProperties, AtIs
<1>2. \A i, j \in 1 .. n : i < j => At(k, s[i]) < At(k, s[j]) BY DEF Ascending
<1>3. n > 0 => At(k, s[n]) < At(k, p)
  <2>1. n > 0 => s # <<>> BY EmptySeq
  <2> QED BY <2>1 DEF Last
<1>4. At(k, p) \in Nat BY AtIs
<1> HIDE DEF n, r
<1>5. ASSUME NEW i \in 1 .. Len(r), NEW j \in 1 .. Len(r), i < j
      PROVE  At(k, r[i]) < At(k, r[j])
  <2>1. i \in 1 .. n /\ n \in Nat /\ n > 0 /\ i <= n BY <1>1, <1>5
  <2>2. CASE j \in 1 .. n BY <1>1, <1>2, <1>5, <2>1, <2>2
  <2>3. CASE j = n + 1
    <3>1. n \in 1 .. n /\ (i = n \/ i < n) BY <2>1
    <3>2. At(k, s[i]) = At(k, s[n]) \/ At(k, s[i]) < At(k, s[n]) BY <1>2, <2>1, <3>1
    <3>3. At(k, s[i]) < At(k, p) BY <1>1, <1>3, <1>4, <2>1, <3>1, <3>2
    <3> QED BY <1>1, <2>1, <2>3, <3>3
  <2> QED BY <1>1, <2>2, <2>3
<1> QED BY <1>5 DEF Ascending, r

\* Order is kept by popPacket,
LEMMA TakesKeepsOrder ==
    ASSUME OrderInv, Timely, NEW k \in Kinds, Takes(k), DataInv'
    PROVE  OrderInv'
<1> DEFINE list == queue[k].list
           n == Len(list)
           p == Last(list)
           given == seen.given[k]
<1>1. DataInv /\ KindInv(k) /\ list # <<>> BY DEF OrderInv, Takes
<1>2. /\ queue'[k] = PopPacket(queue[k]) /\ seen'.given[k] = Append(given, p)
      /\ \A j \in Kinds : j # k => queue'[j] = queue[j] /\ seen'.given[j] = seen.given[j]
      /\ seen'.raced = seen.raced
  BY <1>1, GivenIs
<1>3. /\ p \in Packets(k) /\ IsPacket(p) /\ PopPacket(queue[k]).list = Front(list)
      /\ PopPacket(queue[k]).last = p.seq /\ PopPacket(queue[k]).timed = queue[k].timed
  BY <1>1, PopIs
<1>4. queue[k].timed \in BOOLEAN /\ list \in Seq(Packets(k)) /\ given \in Seq(Packets(k))
  BY <1>1, OfKind
<1>5. Sorted(k, list) /\ DepthInSeconds(queue[k].timed, list) <= MaxDepth BY <1>1 DEF KindInv
<1>6. ASSUME NEW i \in 1 .. n, NEW j \in 1 .. n PROVE Near(k, list[i], list[j])
  BY <1>1, ListInPlay, NearIn
<1>7. /\ Sorted(k, Front(list))
      /\ DepthInSeconds(queue[k].timed, Front(list)) <= DepthInSeconds(queue[k].timed, list)
  BY <1>1, <1>4, <1>5, <1>6, FrontShallower
<1>8. DepthInSeconds(queue[k].timed, Front(list)) <= MaxDepth
  <2>1. /\ DepthInSeconds(queue[k].timed, Front(list)) \in Int
        /\ DepthInSeconds(queue[k].timed, list) \in Int
    BY <1>1, <1>4, FrontIs, DepthIs, QueueAssumption
  <2> QED BY <1>5, <1>7, <2>1, MaxDepthIs
<1>9. /\ Front(list) \in Seq(Packets(k)) /\ Len(Front(list)) = n - 1 /\ n \in Nat \ {0}
      /\ \A i \in 1 .. n - 1 : Front(list)[i] = list[i]
      /\ p = list[n]
  BY <1>1, <1>4, FrontIs
<1>10. /\ Append(given, p) \in Seq(Packets(k)) /\ Append(given, p) # <<>>
       /\ Last(Append(given, p)) = p
  BY <1>3, <1>4, AppendProperties DEF Last
<1>11. ASSUME ~seen.raced PROVE Ascending(k, Append(given, p)) /\ Follow(k, Front(list), p)
  <2>1. Ascending(k, given) /\ (given # <<>> => Follow(k, list, Last(given)))
    BY <1>1, <1>11 DEF KindInv
  <2>2. n \in 1 .. n BY <1>9
  <2>3. given # <<>> => At(k, Last(given)) < At(k, p) BY <2>1, <2>2, <1>9 DEF Follow
  <2>4. Ascending(k, Append(given, p)) BY <1>3, <1>4, <2>1, <2>3, GivenAppends
  <2>5. ASSUME NEW i \in 1 .. n - 1 PROVE At(k, p) < At(k, Front(list)[i])
    <3>1. i \in 1 .. n /\ i < n BY <1>9
    <3> QED BY <3>1, <2>2, <1>5, <1>9 DEF Sorted
  <2> QED BY <2>4, <2>5, <1>9 DEF Follow
<1> HIDE DEF list, n, p, given
<1>12. /\ queue'[k].list = Front(list) /\ queue'[k].last = p.seq /\ queue'[k].timed = queue[k].timed
  BY <1>2, <1>3 DEF list
<1>13. queue[k].timed
  <2>1. ~queue[k].timed => queue[k].list = <<>> BY <1>1 DEF KindInv
  <2> QED BY <1>1, <2>1 DEF list
<1>14. KindInv(k)'
  <2>1. LastGiven(k)' = p.seq BY <1>2, <1>10 DEF LastGiven
  <2> QED BY <2>1, <1>2, <1>7, <1>8, <1>10, <1>11, <1>12, <1>13 DEF KindInv
<1>15. ASSUME NEW j \in Kinds, j # k PROVE KindInv(j)'
  <2>1. KindInv(j) /\ queue'[j] = queue[j] /\ seen'.given[j] = seen.given[j] /\ seen'.raced = seen.raced
    BY <1>2, <1>15 DEF OrderInv
  <2> QED BY <2>1 DEF KindInv, LastGiven
<1>16. push' = push /\ \A j \in Kinds : queue'[j].timed = queue[j].timed
  BY <1>2, <1>12 DEF Takes
<1>17. queue'["video"].timed /\ (push'.pc = "insert" => queue'[push'.kind].timed)
  <2>1. push.pc = "insert" => push.kind \in Kinds BY <1>1, Pushing
  <2> QED BY <2>1, <1>16 DEF OrderInv, Kinds
<1> QED BY <1>14, <1>15, <1>17 DEF OrderInv

\* by pushPacket once it has the mutex: a packet that is not late comes after the last
\* one that was handed out,
LEMMA InsertKeepsOrder ==
    ASSUME OrderInv, Timely, InsertPacket, DataInv'
    PROVE  OrderInv'
<1>0. PICK k \in Kinds : k = push.kind BY Pushing DEF OrderInv, InsertPacket
<1> DEFINE p == push.packet
           list == queue[k].list
           timed == queue[k].timed
           ins == Insert(list, p)
           r == Enforce(timed, ins)
           given == seen.given[k]
<1>1. DataInv BY DEF OrderInv
<1>2. /\ k \in Kinds /\ p \in Packets(k) /\ push.pc = "insert"
      /\ queue'[k] = PushPacket(queue[k], p) /\ \A j \in Kinds : j # k => queue'[j] = queue[j]
      /\ push'.pc = "notify" /\ seen'.given = seen.given
      /\ seen'.raced = (seen.raced \/ IsLate(queue[k], p))
  BY <1>0, <1>1, InsertsIs
<1>3. /\ PushPacket(queue[k], p).list = r /\ PushPacket(queue[k], p).last = queue[k].last
      /\ PushPacket(queue[k], p).timed = timed
  BY <1>0, <1>1, <1>2, PushIs
<1>4. KindInv(k) /\ timed BY <1>0, <1>2 DEF OrderInv
<1>5. timed \in BOOLEAN /\ list \in Seq(Packets(k)) /\ given \in Seq(Packets(k))
  BY <1>1, <1>2, OfKind
<1>6. p \in InPlay(k) BY <1>0, <1>1, <1>2, ListInPlay
<1>7. AllNear(k, list, p)
  <2>1. ASSUME NEW i \in 1 .. Len(list) PROVE Near(k, list[i], p) /\ Near(k, p, list[i])
    BY <1>1, <1>2, <1>6, ListInPlay, NearIn
  <2> QED BY <2>1 DEF AllNear
<1>8. Sorted(k, list) BY <1>4 DEF KindInv
<1>9. /\ Sorted(k, ins)
      /\ \A i \in 1 .. Len(ins) : ins[i] = p \/ \E j \in 1 .. Len(list) : ins[i] = list[j]
  BY <1>2, <1>7, <1>8, InsertKeeps
<1>10. ins \in Seq(Packets(k)) BY <1>9 DEF Sorted
<1> HIDE DEF p, list, timed, ins, given
<1>11. PICK n \in 0 .. Len(ins) :
          /\ r \in Seq(Packets(k)) /\ Len(r) = n /\ \A i \in 1 .. n : r[i] = ins[i]
          /\ DepthInSeconds(timed, r) <= MaxDepth
  BY <1>2, <1>5, <1>10, EnforceIs
<1> HIDE DEF r
<1>12. Len(ins) \in Nat BY <1>10, LenProperties
<1>13. Sorted(k, r)
  <2>1. ASSUME NEW i \in 1 .. Len(r), NEW j \in 1 .. Len(r), i < j
        PROVE  At(k, r[j]) < At(k, r[i])
    <3>1. i \in 1 .. n /\ j \in 1 .. n /\ i \in 1 .. Len(ins) /\ j \in 1 .. Len(ins)
      BY <1>11, <1>12
    <3> QED BY <3>1, <2>1, <1>9, <1>11 DEF Sorted
  <2> QED BY <2>1, <1>11 DEF Sorted
<1>14. queue'[k].list = r /\ queue'[k].last = queue[k].last /\ queue'[k].timed = timed
  BY <1>2, <1>3
<1>15. ASSUME ~seen'.raced, given # <<>> PROVE Follow(k, r, Last(given))
  <2> DEFINE l == Last(given)
  <2>1. ~seen.raced /\ ~IsLate(queue[k], p) BY <1>2, <1>15
  <2>2. Follow(k, list, l) /\ queue[k].last = l.seq
    BY <1>4, <1>15, <2>1 DEF KindInv, LastGiven, list, given
  <2>3. l \in Packets(k) /\ l \in InPlay(k)
    BY <1>1, <1>2, <1>5, <1>15, FrontIs, ListInPlay DEF given
  <2>4. l.seq >= 0 BY <1>2, <2>3, AtIs, HalfATurn DEF IsPacket
  <2>5. ~SequenceLessThan(p.seq, l.seq) /\ p.seq # l.seq BY <2>1, <2>2, <2>4 DEF IsLate
  <2>6. Near(k, p, l) /\ Near(k, l, p) BY <1>2, <1>6, <2>3, NearIn
  <2>7. ~(At(k, p) < At(k, l)) /\ At(k, p) # At(k, l) BY <1>2, <2>3, <2>5, <2>6, Compares
  <2>8. At(k, l) < At(k, p) BY <1>2, <2>3, <2>7, AtIs
  <2> HIDE DEF l
  <2>9. ASSUME NEW i \in 1 .. Len(r) PROVE At(k, l) < At(k, r[i])
    <3>1. i \in 1 .. Len(ins) /\ r[i] = ins[i] BY <1>11, <1>12
    <3>2. r[i] = p \/ \E j \in 1 .. Len(list) : r[i] = list[j] BY <3>1, <1>9
    <3> QED BY <3>2, <2>2, <2>8 DEF Follow
  <2> QED BY <2>9 DEF Follow, l
<1>16. KindInv(k)'
  <2>1. ~seen'.raced => ~seen.raced BY <1>2
  <2>2. ~seen'.raced => Ascending(k, given) BY <1>4, <2>1 DEF KindInv, given
  <2>3. seen'.given[k] = given /\ LastGiven(k)' = LastGiven(k) BY <1>2 DEF given, LastGiven
  <2>4. queue[k].last = LastGiven(k) BY <1>4 DEF KindInv
  <2> QED BY <1>4, <1>11, <1>13, <1>14, <1>15, <2>2, <2>3, <2>4 DEF KindInv
<1>17. ASSUME NEW j \in Kinds, j # k PROVE KindInv(j)'
  <2>1. KindInv(j) /\ queue'[j] = queue[j] /\ seen'.given[j] = seen.given[j]
        /\ (~seen'.raced => ~seen.raced)
    BY <1>2, <1>17 DEF OrderInv
  <2> QED BY <2>1 DEF KindInv, LastGiven
<1>18. queue'["video"].timed
  <2>1. \A j \in Kinds : queue'[j].timed = queue[j].timed BY <1>2, <1>14 DEF timed
  <2> QED BY <2>1 DEF OrderInv, Kinds
<1> QED BY <1>2, <1>16, <1>17, <1>18 DEF OrderInv

\* and by its first test, which only reads the queue.
LEMMA DeliversKeepsOrder ==
    ASSUME OrderInv, Delivers, DataInv'
    PROVE  OrderInv'
<1>1. PICK k \in Kinds : \E i \in net[k], copy \in BOOLEAN : Deliver(k, i, copy)
  BY DEF Delivers
<1>2. PICK i \in net[k], copy \in BOOLEAN : Deliver(k, i, copy) BY <1>1
<1>3. DataInv BY DEF OrderInv
<1>4. /\ push'.kind = k /\ UNCHANGED seen
      /\ \A j \in Kinds : /\ queue'[j].list = queue[j].list /\ queue'[j].last = queue[j].last
                          /\ queue'[j].timed = (queue[j].timed \/ (k = "audio" /\ j = "audio"))
  BY <1>2, <1>3, DeliversIs
<1>5. queue'["video"].timed /\ queue'[push'.kind].timed
  BY <1>4 DEF OrderInv, Kinds
<1>6. ASSUME NEW j \in Kinds PROVE KindInv(j)'
  <2>1. KindInv(j) BY DEF OrderInv
  <2>2. queue[j].list \in Seq(Packets(j)) /\ queue[j].timed \in BOOLEAN /\ queue'[j].timed \in BOOLEAN
    BY <1>3, <1>4, OfKind
  <2>3. queue[j].timed => queue'[j].timed BY <1>4
  <2>4. DepthInSeconds(queue'[j].timed, queue[j].list) <= MaxDepth
    <3>1. CASE queue[j].timed
      <4>1. DepthInSeconds(queue'[j].timed, queue[j].list) = DepthInSeconds(queue[j].timed, queue[j].list)
        BY <3>1, <2>3 DEF DepthInSeconds
      <4> QED BY <4>1, <2>1 DEF KindInv
    <3>2. CASE ~queue[j].timed
      <4>1. queue[j].list = <<>> BY <3>2, <2>1 DEF KindInv
      <4>2. Len(queue[j].list) <= 1 BY <4>1
      <4> QED BY <4>2, <2>2, DepthIs, MaxDepthIs
    <3> QED BY <3>1, <3>2
  <2> QED BY <2>1, <2>3, <2>4, <1>4 DEF KindInv, LastGiven
<1> QED BY <1>5, <1>6 DEF OrderInv

LEMMA OrderStep ==
    ASSUME OrderInv, Timely, [RecorderNext]_recorderVars
    PROVE  OrderInv'
<1>1. DataInv BY DEF OrderInv
<1>2. DataInv' BY <1>1, DataStep
<1>3. CASE Quiet
  <2>1. /\ queue' = queue /\ seen'.given = seen.given /\ seen'.raced = seen.raced
        /\ (push'.pc = "insert" => push' = push)
    BY <1>3 DEF Quiet, Nothing
  <2>2. ASSUME NEW j \in Kinds PROVE KindInv(j)'
    BY <2>1 DEF OrderInv, KindInv, LastGiven
  <2> QED BY <1>2, <2>1, <2>2 DEF OrderInv
<1>4. ASSUME NEW k \in Kinds, Takes(k) PROVE OrderInv' BY <1>2, <1>4, TakesKeepsOrder
<1> QED BY <1>1, <1>2, <1>3, <1>4, DeliversKeepsOrder, InsertKeepsOrder, Steps
\* The states of the threads.
LEMMA ThreadStep ==
    ASSUME DataInv, ThreadInv, [RecorderNext]_recorderVars
    PROVE  ThreadInv'
<1> USE DEF ThreadInv
<1>1. media \in Medias /\ file \in Files BY DEF DataInv
<1>2. CASE UNCHANGED recorderVars BY <1>2 DEF recorderVars
<1>3. CASE NodeThread
  BY <1>3 DEF NodeThread, StartWriter, InitReturns, NotifyEnd, Join, Woken
<1>4. CASE WritingThread
  <2>1. CASE TestRecording BY <2>1 DEF TestRecording
  <2>2. CASE Wait BY <2>2 DEF Wait
  <2>3. ASSUME NEW k \in Kinds, Look(k) PROVE ThreadInv' BY <2>3 DEF Look, Popping, After, Kinds
  <2>4. ASSUME NEW k \in Kinds, NEW p, Write(k, p) PROVE file'.streams => media'.codec
    <3>1. CASE WriteAudio(p) BY <1>1, <3>1 DEF WriteAudio, Medias
    <3>2. CASE WriteVideo(p) BY <1>1, <3>2 DEF WriteVideo, Files
    <3> QED BY <2>4, <3>1, <3>2 DEF Write
  <2>5. CASE Drain
    <3>1. CASE Drained = "none" BY <2>5, <3>1 DEF Drain
    <3>2. CASE Drained # "none"
      <4>1. Drained \in Kinds BY <3>2 DEF Drained, Kinds
      <4>2. Write(Drained, Last(queue[Drained].list)) /\ UNCHANGED <<recording, node, push, writer>>
        BY <2>5, <3>2 DEF Drain
      <4> QED BY <4>1, <4>2, <2>4
    <3> QED BY <3>1, <3>2
  <2>6. ASSUME NEW k \in Kinds, Pop(k) PROVE ThreadInv'
    <3>1. CASE Pops(queue[k], FALSE)
      <4>1. /\ Write(k, Last(queue[k].list)) /\ writer' = k /\ UNCHANGED <<recording, node, push>>
        BY <2>6, <3>1 DEF Pop
      <4> QED BY <4>1, <2>4 DEF Kinds
    <3>2. CASE ~Pops(queue[k], FALSE) BY <2>6, <3>2 DEF Pop
    <3> QED BY <3>1, <3>2
  <2> QED BY <1>4, <2>1, <2>2, <2>3, <2>5, <2>6 DEF WritingThread
<1>5. CASE DeliveringThread
  <2>1. CASE NotifyData BY <2>1 DEF NotifyData, Nothing, Woken
  <2>2. CASE InsertPacket
    <3>1. push'.pc = "notify" BY <2>2, InsertsIs
    <3> QED BY <2>2, <3>1 DEF InsertPacket
  <2> QED BY <1>5, <2>1, <2>2 DEF DeliveringThread
<1>6. CASE Destroy BY <1>6 DEF Destroy
<1>7. CASE Delivers
  <2>1. PICK k \in Kinds : \E i \in net[k], copy \in BOOLEAN : Deliver(k, i, copy)
    BY <1>7 DEF Delivers
  <2>2. PICK i \in net[k], copy \in BOOLEAN : Deliver(k, i, copy) BY <2>1
  <2>3. push' \in PushOf(k) /\ (media.codec => media'.codec) /\ UNCHANGED file BY <2>2, DeliversIs
  <2>4. push'.pc \in {"idle", "insert", "notify"} BY <2>3 DEF PushOf
  <2> QED BY <2>2, <2>3, <2>4 DEF Deliver
<1> QED BY <1>2, <1>3, <1>4, <1>5, <1>6, <1>7 DEF RecorderNext, Delivers

LEMMA InitOrder ==
    ASSUME RecorderInit
    PROVE  OrderInv /\ ThreadInv
<1>1. SeqModulus \in Nat /\ -1 \in -1 .. SeqModulus - 1 BY HalfATurn
<1>2. ASSUME NEW k \in Kinds
      PROVE  queue[k].list = <<>> /\ queue[k].last = -1 /\ seen.given[k] = <<>>
  BY DEF RecorderInit, NewQueue, Kinds
<1>3. queue \in Queues BY <1>1 DEF RecorderInit, Queues, NewQueue, QueueOf
<1>4. media \in Medias BY DEF RecorderInit, Medias
<1>5. file \in Files BY <1>1 DEF RecorderInit, Files
<1>6. net \in Nets
  <2>1. media.sound \in BOOLEAN BY <1>4 DEF Medias
  <2> QED BY <2>1 DEF RecorderInit, Nets
<1>7. seen \in Histories
  <2>1. [k \in Kinds |-> <<>>] = [audio |-> <<>>, video |-> <<>>] BY DEF Kinds
  <2>2. [audio |-> <<>>, video |-> <<>>] \in Given BY DEF Given
  <2> QED BY <2>1, <2>2 DEF RecorderInit, Histories
<1>8. DataInv BY <1>3, <1>4, <1>5, <1>6, <1>7 DEF RecorderInit, DataInv
<1>9. ASSUME NEW k \in Kinds PROVE KindInv(k)
  <2>1. <<>> \in Seq(Packets(k)) /\ Len(<<>>) = 0 BY EmptySeq
  <2>2. Sorted(k, <<>>) /\ Ascending(k, <<>>) BY <2>1 DEF Sorted, Ascending
  <2>3. queue[k].timed \in BOOLEAN BY <1>8, OfKind
  <2>4. DepthInSeconds(queue[k].timed, <<>>) = 0
    <3>1. Len(<<>>) <= 1 BY <2>1
    <3> QED BY <3>1, <2>1, <2>3, DepthIs
  <2>5. DepthInSeconds(queue[k].timed, queue[k].list) <= MaxDepth BY <2>4, <1>2, MaxDepthIs
  <2> QED BY <1>2, <2>2, <2>5 DEF KindInv, LastGiven
<1>10. queue["video"].timed /\ push.pc = "idle" BY DEF RecorderInit, NewQueue, Nothing
<1>11. ThreadInv BY DEF RecorderInit, ThreadInv, Nothing
<1> QED BY <1>8, <1>9, <1>10, <1>11 DEF OrderInv

LEMMA OrderHolds ==
    ASSUME OrderInv, ThreadInv, Timely
    PROVE  QueuesKeepOrder
<1>1. DataInv BY DEF OrderInv
<1>2. RecorderTypeOK
  <2>1. ASSUME NEW k \in Kinds
        PROVE  /\ queue[k].last \in -1 .. SeqModulus - 1
               /\ DepthInSeconds(queue[k].timed, queue[k].list) <= MaxDepth
               /\ {queue[k].list[i] : i \in DOMAIN queue[k].list} \subseteq Packets(k)
    <3>1. queue[k].list \in Seq(Packets(k)) BY <1>1, OfKind
    <3>2. /\ DOMAIN queue[k].list = 1 .. Len(queue[k].list)
          /\ \A i \in 1 .. Len(queue[k].list) : queue[k].list[i] \in Packets(k)
      BY <3>1, LenProperties
    <3> QED BY <1>1, <3>2, OfKind DEF OrderInv, KindInv
  <2>2. file.search \in {"start", "end"} BY <1>1 DEF DataInv, Files
  <2> QED BY <2>1, <2>2 DEF ThreadInv, RecorderTypeOK
<1>3. QueueIsSorted
  <2>1. ASSUME NEW k \in Kinds, NEW i \in 1 .. Len(queue[k].list) - 1
        PROVE  Before(k, queue[k].list[i + 1], queue[k].list[i])
    <3>1. queue[k].list \in Seq(Packets(k)) BY <1>1, OfKind
    <3>2. /\ i \in 1 .. Len(queue[k].list) /\ i + 1 \in 1 .. Len(queue[k].list) /\ i < i + 1
      BY <3>1, LenProperties
    <3>3. Sorted(k, queue[k].list) BY DEF OrderInv, KindInv
    <3>4. At(k, queue[k].list[i + 1]) < At(k, queue[k].list[i]) BY <3>2, <3>3 DEF Sorted
    <3> QED BY <3>1, <3>2, <3>4, ElementOfSeq, BeforeIs
  <2> QED BY <2>1 DEF QueueIsSorted
<1>4. OrderUnlessRaced
  <2>1. ASSUME ~seen.raced, NEW k \in Kinds, NEW i \in 1 .. Len(seen.given[k]) - 1
        PROVE  Before(k, seen.given[k][i], seen.given[k][i + 1])
    <3>1. seen.given[k] \in Seq(Packets(k)) BY <1>1, OfKind
    <3>2. i \in 1 .. Len(seen.given[k]) /\ i + 1 \in 1 .. Len(seen.given[k]) /\ i < i + 1
      BY <3>1, LenProperties
    <3>3. Ascending(k, seen.given[k]) BY <2>1 DEF OrderInv, KindInv
    <3>4. At(k, seen.given[k][i]) < At(k, seen.given[k][i + 1]) BY <3>2, <3>3 DEF Ascending
    <3> QED BY <3>1, <3>2, <3>4, ElementOfSeq, BeforeIs
  <2> QED BY <2>1 DEF OrderUnlessRaced, InOrder
<1> QED BY <1>2, <1>3, <1>4 DEF QueuesKeepOrder

\* While the packets that the queues compare are less than half a turn apart, the
\* queues are in the order of the stream and no deeper than allowed, and packets
\* are handed out in that order, each once, unless one became late between the
\* test of pushPacket and its mutex: for any streams, depths and faults.
THEOREM QueuesKeepOrderHolds ==
    RecorderSpec /\ []Timely => []QueuesKeepOrder
<1>1. RecorderInit => OrderInv /\ ThreadInv BY InitOrder
<1>2. OrderInv /\ ThreadInv /\ Timely /\ [RecorderNext]_recorderVars => (OrderInv /\ ThreadInv)'
  <2>1. OrderInv => DataInv BY DEF OrderInv
  <2> QED BY <2>1, OrderStep, ThreadStep
<1>3. OrderInv /\ ThreadInv /\ Timely => QueuesKeepOrder BY OrderHolds
<1> QED BY <1>1, <1>2, <1>3, PTL DEF RecorderSpec
-----------------------------------------------------------------------------
(* The file. *)

V == Stream["video"]

\* The times of what was handed out are within one turn of the timestamps.
OneTurn ==
    \A k \in Kinds : \A i \in DOMAIN seen.given[k] :
        seen.given[k][i].time - Head(seen.given[k]).time < TsModulus

\* The packets from i to j, the first of which starts a frame, and in which
\* other frames end only if they were whole early.
Parted(s, i, j, early) ==
    /\ i <= j /\ s = SubSeq(V, i, j) /\ V[i].start
    /\ \A m \in i .. j - 1 : V[m].marker => V[m].time \in early

BufferInv ==
    /\ file.search = "end" => file.buffer # <<>>
    /\ file.buffer # <<>> =>
          \E i, j \in DOMAIN V :
             /\ Parted(file.buffer, i, j, seen.early)
             /\ seen.given["video"] # <<>> /\ Last(seen.given["video"]) = V[j]
             /\ file.search = "end" => ~V[j].marker
             /\ file.search # "end" => V[j].marker /\ V[j].time \in seen.early

\* The packets from i to j begin a frame that has not ended.
Unfinished(i, j) ==
    /\ i <= j /\ V[i].start /\ ~V[j].marker
    /\ \A m \in i .. j - 1 : ~V[m].marker /\ ~V[m + 1].start /\ V[m + 1].seq = V[m].seq + 1

\* If they were handed out last, what follows them is put to them.
Assembling ==
    \A i, j \in DOMAIN V : \A n \in 0 .. Len(seen.given["video"]) :
        (/\ Unfinished(i, j) /\ HandedOut(i, j, n)
         /\ n + (j - i) + 1 = Len(seen.given["video"])) => file.search = "end"

FramesFollow ==
    \A i \in DOMAIN file.frames :
        Follows(file.frames[i].pts, Last(file.frames[i].packets).time,
                Head(seen.given["video"]).time)
SoundFollows ==
    \A i \in DOMAIN file.sound :
        Follows(file.sound[i].pts, file.sound[i].packet.time, Head(seen.given["audio"]).time)

FileInv ==
    /\ file.lastSeq = LastGiven("video") /\ BufferInv /\ Assembling
    /\ FramesAreWhole /\ FramesAreWritten
    /\ file.frames # <<>> => seen.given["video"] # <<>>
    /\ file.sound # <<>> => seen.given["audio"] # <<>>
    /\ ~seen.raced => FramesFollow /\ SoundFollows

LEMMA KindsAre == "audio" \in Kinds /\ "video" \in Kinds /\ Kinds = {"audio", "video"}
  BY DEF Kinds

\* Only the next packet of the stream has the next sequence number: writeVideoData
\* sees every gap.
LEMMA NextSeq ==
    ASSUME NEW k \in Kinds, NEW p \in Packets(k), NEW q \in Packets(k),
           Near(k, p, q), Near(k, q, p), p.seq = q.seq + 1
    PROVE  At(k, p) = At(k, q) + 1
<1> DEFINE d == At(k, p) - At(k, q)
           e == At(k, q) - At(k, p)
<1>1. At(k, p) \in Nat /\ At(k, q) \in Nat BY AtIs
<1>2. d < Half /\ e < Half BY NearIs
<1>3. p.seq \in 0 .. SeqModulus - 1 /\ q.seq \in 0 .. SeqModulus - 1 BY AtIs DEF IsPacket
<1>4. CASE At(k, q) <= At(k, p)
  <2>1. p.seq \in {q.seq + d, q.seq + d - SeqModulus} BY <1>2, <1>4, SeqIs
  <2>2. d = 1 BY <2>1, <1>1, <1>2, <1>3, HalfATurn
  <2> QED BY <2>2, <1>1
<1>5. CASE At(k, p) <= At(k, q)
  <2>1. q.seq \in {p.seq + e, p.seq + e - SeqModulus} BY <1>2, <1>5, SeqIs
  <2>2. e \in Nat BY <1>1, <1>5
  <2> HIDE DEF e
  <2>3. FALSE BY <2>1, <2>2, <1>2, <1>3, HalfATurn
  <2> QED BY <2>3
<1> QED BY <1>1, <1>4, <1>5

LEMMA SubSeqAppend ==
    ASSUME NEW S, NEW s \in Seq(S), NEW i \in 1 .. Len(s), NEW j \in i .. Len(s),
           j + 1 \in 1 .. Len(s)
    PROVE  Append(SubSeq(s, i, j), s[j + 1]) = SubSeq(s, i, j + 1)
<1>1. i \in Int /\ j \in Int /\ j + 1 \in i .. Len(s) /\ (j + 1) - 1 = j BY LenProperties
<1>2. SubSeq(s, i, j + 1) = SubSeq(s, i, (j + 1) - 1) \o <<s[j + 1]>>
  BY <1>1, SubSeqRecursiveSecond
<1>3. \A m \in i .. j : s[m] \in S
  <2>1. \A m \in 1 .. Len(s) : s[m] \in S BY LenProperties
  <2>2. \A m \in i .. j : m \in 1 .. Len(s) BY <1>1, LenProperties
  <2> QED BY <2>1, <2>2
<1>4. SubSeq(s, i, j) \in Seq(S) /\ s[j + 1] \in S BY <1>1, <1>3, SubSeqProperties, ElementOfSeq
<1>5. Append(SubSeq(s, i, j), s[j + 1]) = SubSeq(s, i, j) \o <<s[j + 1]>>
  BY <1>4, AppendIsConcat
<1> QED BY <1>1, <1>2, <1>5

LEMMA SubSeqOne ==
    ASSUME NEW S, NEW s \in Seq(S), NEW c \in 1 .. Len(s)
    PROVE  <<s[c]>> = SubSeq(s, c, c)
<1>1. c \in c .. Len(s) /\ c \in Int /\ c - 1 \in Int /\ c - 1 < c BY LenProperties
<1>2. SubSeq(s, c, c) = SubSeq(s, c, c - 1) \o <<s[c]>> BY <1>1, SubSeqRecursiveSecond
<1>3. SubSeq(s, c, c - 1) = <<>> BY <1>1, SubSeqEmpty
<1>4. <<s[c]>> \in Seq(S) BY ElementOfSeq
<1> QED BY <1>2, <1>3, <1>4, ConcatEmptySeq

LEMMA VIs ==
    /\ V \in Seq(Packets("video")) /\ Len(V) \in Nat /\ DOMAIN V = 1 .. Len(V)
    /\ V = Stream.video
  BY KindsAre, HasPackets DEF V

\* A run of packets is a sequence that ends with its last.
LEMMA PartedIs ==
    ASSUME NEW s, NEW early, NEW i \in DOMAIN V, NEW j \in DOMAIN V, Parted(s, i, j, early)
    PROVE  /\ s \in Seq(Packets("video")) /\ Len(s) = j - i + 1 /\ s # <<>>
           /\ Last(s) = V[j] /\ V[j] \in ToSet(s)
<1>1. i \in 1 .. Len(V) /\ j \in 1 .. Len(V) /\ Len(V) \in Nat /\ i <= j
  BY VIs DEF Parted
<1>2. \A m \in i .. j : V[m] \in Packets("video")
  <2>1. \A m \in 1 .. Len(V) : V[m] \in Packets("video") BY VIs, LenProperties
  <2>2. \A m \in i .. j : m \in 1 .. Len(V) BY <1>1
  <2> QED BY <2>1, <2>2
<1>3. /\ SubSeq(V, i, j) \in Seq(Packets("video")) /\ Len(SubSeq(V, i, j)) = j - i + 1
      /\ \A m \in 1 .. j - i + 1 : SubSeq(V, i, j)[m] = V[i + m - 1]
  BY <1>1, <1>2, SubSeqProperties
<1>4. s = SubSeq(V, i, j) BY DEF Parted
<1> DEFINE n == j - i + 1
<1>5. n \in 1 .. n /\ i + n - 1 = j /\ n >= 1 BY <1>1
<1>6. s \in Seq(Packets("video")) /\ Len(s) = n /\ s[n] = V[j] BY <1>3, <1>4, <1>5
<1>7. DOMAIN s = 1 .. n BY <1>6, LenProperties
<1> HIDE DEF n
<1>8. s # <<>> BY <1>5, <1>6
<1>9. V[j] \in ToSet(s) BY <1>5, <1>6, <1>7 DEF ToSet
<1> QED BY <1>6, <1>8, <1>9 DEF Last, n

\* What the buffer becomes with the next packet.
LEMMA Assembled ==
    ASSUME OrderInv, Timely, FileInv, NEW p, p = Last(queue["video"].list),
           queue["video"].list # <<>>
    PROVE  /\ At("video", p) \in DOMAIN V /\ V[At("video", p)] = p /\ IsPacket(p)
           /\ (p.start \/ Search(p) = "end") <=> Unpackaged(p) # <<>>
           /\ Unpackaged(p) # <<>> =>
                 \E i \in DOMAIN V : Parted(Unpackaged(p), i, At("video", p), seen.early)
<1> DEFINE c == At("video", p)
           given == seen.given["video"]
<1>1. DataInv BY DEF OrderInv
<1>2. /\ queue["video"].list \in Seq(Packets("video")) /\ given \in Seq(Packets("video"))
  BY <1>1, KindsAre, OfKind
<1>3. p \in Packets("video") /\ IsPacket(p) BY <1>1, KindsAre, PopIs
<1>4. c \in DOMAIN V /\ V[c] = p /\ c \in Nat BY <1>3, KindsAre, AtIs DEF V
<1>5. p \in InPlay("video")
  <2>1. Len(queue["video"].list) \in 1 .. Len(queue["video"].list)
    BY <1>2, EmptySeq
  <2> QED BY <2>1, <1>1, KindsAre, ListInPlay DEF Last
<1>6. given # <<>> => Last(given) \in InPlay("video") /\ Last(given) \in Packets("video")
  BY <1>1, <1>2, KindsAre, ListInPlay, FrontIs
<1>7. file.search \in {"start", "end"} /\ file.buffer \in Seq(Packets("video"))
  BY <1>1 DEF DataInv, Files
<1>8. BufferInv /\ file.lastSeq = LastGiven("video") BY DEF FileInv
<1>9. Search(p) = "end" => ~Gap(p) /\ file.search = "end" /\ file.buffer # <<>>
  BY <1>7, <1>8 DEF Search, BufferInv
<1>10. Held(p) # <<>> => ~Gap(p) /\ file.buffer # <<>> /\ Held(p) = file.buffer
  BY DEF Held
<1>11. Held(p) \in Seq(Packets("video")) BY <1>7, EmptySeq DEF Held
<1>12. <<p>> = SubSeq(V, c, c)
  <2>1. c \in 1 .. Len(V) BY <1>4, VIs
  <2> QED BY <2>1, <1>4, VIs, SubSeqOne
<1>13. p.start => Parted(<<p>>, c, c, seen.early)
  <2>1. c <= c /\ \A m \in c .. c - 1 : FALSE BY <1>4
  <2> QED BY <2>1, <1>4, <1>12 DEF Parted
<1>14. CASE p.start /\ (p.marker \/ Search(p) = "end")
  <2>1. Unpackaged(p) = <<p>> BY <1>14 DEF Unpackaged
  <2>2. <<p>> # <<>> OBVIOUS
  <2>3. Parted(Unpackaged(p), c, c, seen.early) BY <2>1, <1>13, <1>14
  <2> QED BY <2>1, <2>2, <2>3, <1>3, <1>4, <1>14
<1>15. CASE ~(p.start /\ (p.marker \/ Search(p) = "end")) /\ (p.start \/ Search(p) = "end")
  <2>1. Unpackaged(p) = Append(Held(p), p) BY <1>15 DEF Unpackaged
  <2>2. Unpackaged(p) # <<>> BY <2>1, <1>3, <1>11, AppendProperties
  <2>3. CASE Held(p) = <<>>
    <3>1. Search(p) # "end" BY <1>9, <2>3 DEF Held
    <3>2. p.start /\ Unpackaged(p) = <<p>> BY <3>1, <1>15, <2>1, <2>3
    <3> QED BY <3>2, <2>2, <1>3, <1>4, <1>13, <1>15
  <2>4. CASE Held(p) # <<>>
    <3>1. ~Gap(p) /\ file.buffer # <<>> /\ Held(p) = file.buffer BY <1>10, <2>4
    <3>2. PICK i \in DOMAIN V, j \in DOMAIN V :
             /\ Parted(file.buffer, i, j, seen.early)
             /\ given # <<>> /\ Last(given) = V[j]
             /\ file.search = "end" => ~V[j].marker
             /\ file.search # "end" => V[j].marker /\ V[j].time \in seen.early
      BY <3>1, <1>8 DEF BufferInv
    <3>3. p.seq = V[j].seq + 1 BY <3>1, <3>2, <1>8 DEF Gap, LastGiven
    <3>4. V[j] \in Packets("video") /\ Near("video", p, V[j]) /\ Near("video", V[j], p)
      BY <3>2, <1>5, <1>6, KindsAre, NearIn
    <3>5. At("video", V[j]) = j BY KindsAre, AtOf DEF V
    <3>6. c = j + 1 BY <3>3, <3>4, <3>5, <1>3, KindsAre, NextSeq
    <3>7. i \in 1 .. Len(V) /\ j \in i .. Len(V) /\ j + 1 \in 1 .. Len(V) /\ i <= j /\ j \in Int /\ i \in Int
      BY <3>2, <3>6, <1>4, VIs DEF Parted
    <3>8. Unpackaged(p) = SubSeq(V, i, j + 1)
      <4>1. Append(SubSeq(V, i, j), V[j + 1]) = SubSeq(V, i, j + 1) BY <3>7, VIs, SubSeqAppend
      <4> QED BY <4>1, <2>1, <3>1, <3>2, <3>6, <1>4 DEF Parted
    <3>9. ASSUME NEW m \in i .. c - 1, V[m].marker PROVE V[m].time \in seen.early
      <4>1. m \in i .. j - 1 \/ m = j BY <3>6, <3>7
      <4> QED BY <4>1, <3>2, <3>9 DEF Parted
    <3>10. Parted(Unpackaged(p), i, c, seen.early)
      <4>1. i <= c BY <3>6, <3>7
      <4>2. Unpackaged(p) = SubSeq(V, i, c) BY <3>6, <3>8
      <4>3. V[i].start BY <3>2 DEF Parted
      <4>4. \A m \in i .. c - 1 : V[m].marker => V[m].time \in seen.early BY <3>9
      <4> HIDE DEF c, given
      <4> QED BY <4>1, <4>2, <4>3, <4>4 DEF Parted
    <3> QED BY <3>10, <2>2, <1>3, <1>4, <1>15
  <2> QED BY <2>3, <2>4
<1>16. CASE ~(p.start \/ Search(p) = "end")
  <2>1. Unpackaged(p) = <<>> BY <1>16 DEF Unpackaged
  <2> QED BY <2>1, <1>3, <1>4, <1>16
<1> QED BY <1>14, <1>15, <1>16
\* A frame that is in progress is continued by the packet that follows it.
LEMMA Continued ==
    ASSUME OrderInv, Timely, FileInv, NEW p, NEW i \in DOMAIN V, NEW j \in DOMAIN V,
           NEW n \in Nat, j - 1 \in DOMAIN V, i <= j - 1, Unfinished(i, j - 1),
           \A m \in i .. j - 1 : seen.given["video"][n + 1 + (m - i)] = V[m],
           n + (j - i) = Len(seen.given["video"]), p.seq = V[j - 1].seq + 1
    PROVE  Search(p) = "end"
<1> DEFINE given == seen.given["video"]
<1>1. i \in Nat /\ j \in Nat /\ i >= 1 BY VIs
<1>2. DataInv BY DEF OrderInv
<1>3. given \in Seq(Packets("video")) /\ Len(given) \in Nat
  BY <1>2, KindsAre, OfKind, LenProperties
<1>4. n + ((j - 1) - i) < Len(given) /\ n \in 0 .. Len(given)
      /\ n + ((j - 1) - i) + 1 = Len(given)
  BY <1>1, <1>3
<1>5. HandedOut(i, j - 1, n) BY <1>4, VIs DEF HandedOut, V
<1>6. file.search = "end" BY <1>4, <1>5 DEF FileInv, Assembling
<1>7. j - 1 \in i .. j - 1 /\ n + 1 + ((j - 1) - i) = Len(given) BY <1>1, <1>3
<1>8. given[Len(given)] = V[j - 1] BY <1>7
<1>9. given # <<>> BY <1>1, <1>3, <1>7
<1>10. file.lastSeq = V[j - 1].seq BY <1>8, <1>9 DEF FileInv, LastGiven, Last
<1> QED BY <1>6, <1>10 DEF Search, Gap

\* The timestamp written for a packet, across one wrap.
LEMMA PtsFollows ==
    ASSUME NEW k \in Kinds, NEW p \in Packets(k), NEW q \in Packets(k),
           q.time <= p.time, p.time - q.time < TsModulus
    PROVE  Follows(Pts(p, q), p.time, q.time)
<1> DEFINE d == p.time - q.time
           a == q.time + FirstTs
<1>1. p.time \in Nat /\ q.time \in Nat BY AtIs DEF IsPacket
<1>2. TsModulus \in Nat \ {0} /\ FirstTs \in Nat BY QueueAssumption
<1>3. d \in Nat /\ d < TsModulus /\ a \in Nat /\ p.time + FirstTs = a + d BY <1>1, <1>2
<1>4. Timestamp(p) = (a + d) % TsModulus /\ Timestamp(q) = a % TsModulus
  BY <1>3 DEF Timestamp
<1> HIDE DEF d, a
<1>5. /\ a % TsModulus \in 0 .. TsModulus - 1
      /\ (a + d) % TsModulus \in {(a % TsModulus) + d, (a % TsModulus) + d - TsModulus}
  BY ONLY <1>2, <1>3, OnCircle
<1>6. Timestamp(p) - Timestamp(q) \in {d, d - TsModulus} BY <1>2, <1>3, <1>4, <1>5
<1>7. Pts(p, q) \in {d, d - 1} BY <1>2, <1>3, <1>6 DEF Pts
<1> QED BY <1>7 DEF Follows, d

\* The packet that is handed out is at or after the first one, within a turn.
LEMMA TakenFollows ==
    ASSUME OrderInv, OrderInv', OneTurn', NEW k \in Kinds, Takes(k), ~seen'.raced
    PROVE  LET p == Last(queue[k].list) IN
           Follows(Pts(p, First(k, p)), p.time, Head(seen'.given[k]).time)
<1> DEFINE p == Last(queue[k].list)
           given == seen.given[k]
           r == Append(given, p)
<1>1. DataInv BY DEF OrderInv
<1>2. p \in Packets(k) /\ seen'.given[k] = r BY <1>1, PopIs, GivenIs DEF Takes
<1>3. given \in Seq(Packets(k)) /\ Len(given) \in Nat BY <1>1, OfKind, LenProperties
<1>4. /\ r \in Seq(Packets(k)) /\ r # <<>> /\ Len(r) = Len(given) + 1 /\ r[Len(given) + 1] = p
      /\ \A i \in 1 .. Len(given) : r[i] = given[i]
  BY <1>2, <1>3, AppendProperties
<1>5. First(k, p) = Head(r)
  <2>1. CASE given = <<>>
    <3>1. r[1] = p BY <2>1, <1>4
    <3> QED BY <3>1, <2>1, <1>4, FrontIs DEF First
  <2>2. CASE given # <<>>
    <3>1. 1 \in 1 .. Len(given) BY <2>2, <1>3, EmptySeq
    <3> QED BY <3>1, <2>2, <1>3, <1>4, FrontIs DEF First
  <2> QED BY <2>1, <2>2
<1>6. Head(r) \in Packets(k) /\ Head(r) = r[1] BY <1>4, FrontIs
<1>7. KindInv(k)' BY DEF OrderInv
<1>8. Ascending(k, r)
  <2>1. Ascending(k, seen'.given[k]) BY <1>7 DEF KindInv
  <2> QED BY <2>1, <1>2
<1>9. DOMAIN r = 1 .. Len(r) BY <1>4, LenProperties
<1> HIDE DEF r, p, given
<1>10. At(k, r[1]) <= At(k, p)
  <2>1. At(k, p) \in Nat BY <1>2, AtIs
  <2>2. CASE Len(given) = 0 BY <2>1, <2>2, <1>4
  <2>3. CASE Len(given) > 0
    <3>1. 1 \in 1 .. Len(r) /\ Len(given) + 1 \in 1 .. Len(r) /\ 1 < Len(given) + 1
      BY <2>3, <1>3, <1>4
    <3>2. At(k, r[1]) < At(k, r[Len(given) + 1]) BY <3>1, <1>8 DEF Ascending
    <3> QED BY <3>2, <2>1, <1>4, <1>6, AtIs
  <2> QED BY <2>2, <2>3, <1>3
<1>11. Head(r).time <= p.time BY <1>2, <1>6, <1>10, BeforeIs
<1>12. p.time - Head(r).time < TsModulus
  <2>1. Len(given) + 1 \in DOMAIN r BY <1>3, <1>4, <1>9
  <2>2. \A i \in DOMAIN r : r[i].time - Head(r).time < TsModulus BY <1>2 DEF OneTurn
  <2> QED BY <2>1, <2>2, <1>4
<1>13. Follows(Pts(p, Head(r)), p.time, Head(r).time)
  BY <1>2, <1>6, <1>11, <1>12, PtsFollows
<1> QED BY <1>2, <1>5, <1>13 DEF p

LEMMA HeadStays ==
    ASSUME OrderInv, NEW k \in Kinds, Takes(k), seen.given[k] # <<>>
    PROVE  Head(seen'.given[k]) = Head(seen.given[k])
<1> DEFINE p == Last(queue[k].list)
           given == seen.given[k]
<1>1. DataInv BY DEF OrderInv
<1>2. p \in Packets(k) /\ seen'.given[k] = Append(given, p) BY <1>1, PopIs, GivenIs DEF Takes
<1>3. given \in Seq(Packets(k)) BY <1>1, OfKind
<1>4. 1 \in 1 .. Len(given) BY <1>3, EmptySeq
<1>5. Append(given, p) \in Seq(Packets(k)) /\ Append(given, p) # <<>> /\ Append(given, p)[1] = given[1]
  BY <1>2, <1>3, <1>4, AppendProperties
<1> QED BY <1>2, <1>3, <1>5, FrontIs
\* writeVideoData keeps the file faithful; one step for each part of FileInv,
LEMMA VideoStep ==
    ASSUME OrderInv, OrderInv', Timely, OneTurn', FileInv, Takes("video")
    PROVE  FileInv'
<1> DEFINE p == Last(queue["video"].list)
           given == seen.given["video"]
           c == At("video", p)
           more == p.start \/ Search(p) = "end"
           whole == EndsFrame(p)
           written == whole /\ media.codec
           frame == [packets |-> Unpackaged(p), pts |-> Pts(p, First("video", p))]
<1>1. DataInv /\ queue["video"].list # <<>> BY DEF OrderInv, Takes
<1>2. /\ p \in Packets("video") /\ seen'.given["video"] = Append(given, p)
      /\ seen'.given["audio"] = seen.given["audio"] /\ seen'.raced = seen.raced
  BY <1>1, KindsAre, PopIs, GivenIs
<1>3. given \in Seq(Packets("video")) /\ Len(given) \in Nat
  BY <1>1, KindsAre, OfKind, LenProperties
<1>4. /\ Append(given, p) # <<>> /\ Len(Append(given, p)) = Len(given) + 1
      /\ Append(given, p)[Len(given) + 1] = p
      /\ \A n \in 1 .. Len(given) : Append(given, p)[n] = given[n]
      /\ Last(Append(given, p)) = p
  BY <1>2, <1>3, AppendProperties DEF Last
<1>5. /\ c \in DOMAIN V /\ V[c] = p /\ IsPacket(p)
      /\ more <=> Unpackaged(p) # <<>>
      /\ Unpackaged(p) # <<>> =>
            \E i \in DOMAIN V : Parted(Unpackaged(p), i, c, seen.early)
  BY <1>1, Assembled
<1>6. media \in Medias /\ file \in Files /\ seen \in Histories BY <1>1 DEF DataInv
<1>7. /\ file'.lastSeq = p.seq
      /\ file'.search = IF ~p.marker /\ more THEN "end" ELSE "start"
      /\ file'.buffer = IF written THEN <<>> ELSE Unpackaged(p)
      /\ file'.frames = IF written THEN Append(file.frames, frame) ELSE file.frames
      /\ file'.sound = file.sound
  <2>1. WriteVideo(p) BY KindsAre DEF Takes, Write
  <2>2. file' = [file EXCEPT
               !.lastSeq = p.seq, !.streams = media.codec,
               !.search = IF ~p.marker /\ (p.start \/ Search(p) = "end") THEN "end" ELSE "start",
               !.buffer = IF written THEN <<>> ELSE Unpackaged(p),
               !.frames = IF written THEN Append(@, frame) ELSE @]
    BY <2>1 DEF WriteVideo
  <2> HIDE DEF p, written, frame
  <2> QED BY <2>2, <1>6 DEF Files
<1>8. seen'.early = IF whole /\ ~media.codec THEN seen.early \cup {p.time} ELSE seen.early
  <2>1. seen' = [seen EXCEPT !.given.video = Append(@, p),
                    !.early = IF whole /\ ~media.codec THEN @ \cup {p.time} ELSE @]
    BY KindsAre DEF Takes, Write, WriteVideo
  <2> HIDE DEF p, whole
  <2> QED BY <2>1, <1>6 DEF Histories
<1>9. whole <=> p.marker /\ more BY DEF EndsFrame
<1>10. /\ file.frames \in Seq([packets: Seq(Packets("video")), pts: Int])
       /\ frame \in [packets: Seq(Packets("video")), pts: Int]
  <2>1. Unpackaged(p) \in Seq(Packets("video")) BY <1>1, <1>2, UnpackagedIs
  <2>2. Pts(p, First("video", p)) \in Int BY <1>1, <1>2, KindsAre, FirstIs, PtsIs
  <2> QED BY <2>1, <2>2, <1>6 DEF Files
<1>11. frame.packets = Unpackaged(p) /\ frame.pts = Pts(p, First("video", p)) OBVIOUS
<1>12. p.seq \in Nat BY <1>5, HalfATurn DEF IsPacket
<1> HIDE DEF p, given, c, more, whole, written, frame
<1>13. written => Len(file'.frames) = Len(file.frames) + 1
                  /\ file'.frames[Len(file.frames) + 1] = frame
                  /\ \A n \in 1 .. Len(file.frames) : file'.frames[n] = file.frames[n]
  BY <1>7, <1>10, AppendProperties
<1>14. /\ DOMAIN file.frames = 1 .. Len(file.frames) /\ Len(file.frames) \in Nat
       /\ DOMAIN file'.frames = 1 .. Len(file'.frames) /\ Len(file'.frames) \in Nat
  <2>1. file'.frames \in Seq([packets: Seq(Packets("video")), pts: Int])
    <3>1. CASE written BY <3>1, <1>7, <1>10, AppendProperties
    <3>2. CASE ~written BY <3>2, <1>7, <1>10
    <3> QED BY <3>1, <3>2
  <2> QED BY <2>1, <1>10, LenProperties
<1>15. ASSUME NEW n \in DOMAIN file'.frames
       PROVE  \/ n \in DOMAIN file.frames /\ file'.frames[n] = file.frames[n]
              \/ written /\ n = Len(file.frames) + 1 /\ file'.frames[n] = frame
  <2>1. CASE written
    <3>1. n \in 1 .. Len(file.frames) \/ n = Len(file.frames) + 1 BY <2>1, <1>13, <1>14
    <3> QED BY <3>1, <2>1, <1>13, <1>14
  <2>2. CASE ~written BY <2>2, <1>7
  <2> QED BY <2>1, <2>2
<1>16. ASSUME NEW n \in DOMAIN file.frames
       PROVE  n \in DOMAIN file'.frames /\ file'.frames[n] = file.frames[n]
  BY <1>7, <1>13, <1>14
<1>17. ASSUME NEW x \in seen.early PROVE x \in seen'.early BY <1>8
<1>18. file'.lastSeq = LastGiven("video")' BY <1>2, <1>4, <1>7 DEF LastGiven
<1>19. (file'.search = "end") <=> (~p.marker /\ more) BY <1>7
<1>20. BufferInv'
  <2>1. file'.search = "end" => file'.buffer # <<>> BY <1>5, <1>7, <1>9, <1>19 DEF written
  <2>2. ASSUME file'.buffer # <<>>
        PROVE  \E i, j \in DOMAIN V :
                 /\ Parted(file'.buffer, i, j, seen'.early)
                 /\ seen'.given["video"] # <<>> /\ Last(seen'.given["video"]) = V[j]
                 /\ file'.search = "end" => ~V[j].marker
                 /\ file'.search # "end" => V[j].marker /\ V[j].time \in seen'.early
    <3>1. file'.buffer = Unpackaged(p) /\ Unpackaged(p) # <<>> /\ ~written /\ more
      BY <2>2, <1>5, <1>7
    <3>2. PICK i \in DOMAIN V : Parted(Unpackaged(p), i, c, seen.early) BY <3>1, <1>5
    <3>3. Parted(file'.buffer, i, c, seen'.early) BY <3>1, <3>2, <1>17 DEF Parted
    <3>4. file'.search = "end" => ~V[c].marker BY <1>5, <1>19
    <3>5. file'.search # "end" => V[c].marker /\ V[c].time \in seen'.early
      BY <3>1, <1>5, <1>8, <1>9, <1>19 DEF written
    <3> QED BY <3>3, <3>4, <3>5, <1>2, <1>4, <1>5
  <2> QED BY <2>1, <2>2 DEF BufferInv, V
<1>21. FramesAreWhole'
  <2>1. ASSUME NEW n \in DOMAIN file'.frames
        PROVE  \E i, j \in DOMAIN V :
                 /\ i <= j /\ file'.frames[n].packets = SubSeq(V, i, j)
                 /\ V[i].start /\ V[j].marker
                 /\ \A m \in i .. j - 1 : V[m].marker => V[m].time \in seen'.early
    <3>1. CASE n \in DOMAIN file.frames /\ file'.frames[n] = file.frames[n]
      <4>1. \E i, j \in DOMAIN V :
                 /\ i <= j /\ file.frames[n].packets = SubSeq(V, i, j)
                 /\ V[i].start /\ V[j].marker
                 /\ \A m \in i .. j - 1 : V[m].marker => V[m].time \in seen.early
        BY <3>1 DEF FileInv, FramesAreWhole, V
      <4> QED BY <4>1, <3>1, <1>17
    <3>2. CASE written /\ file'.frames[n] = frame
      <4>1. PICK i \in DOMAIN V : Parted(Unpackaged(p), i, c, seen.early)
        BY <3>2, <1>5, <1>9 DEF written
      <4>2. V[c].marker BY <3>2, <1>5, <1>9 DEF written
      <4> QED BY <4>1, <4>2, <3>2, <1>5, <1>11, <1>17 DEF Parted
    <3> QED BY <3>1, <3>2, <1>15
  <2> QED BY <2>1 DEF FramesAreWhole, V
<1>22. ASSUME NEW i \in DOMAIN V, NEW j \in DOMAIN V, NEW n \in 0 .. Len(seen'.given["video"]),
              HandedOut(i, j, n)', i <= j, i = j \/ Unfinished(i, j - 1),
              i < j => V[j].seq = V[j - 1].seq + 1,
              n + (j - i) = Len(given)
       PROVE  p = V[j] /\ (i < j => Search(p) = "end")
  <2>1. i \in Nat /\ j \in Nat /\ n \in Nat BY <1>2, <1>3, <1>4, VIs
  <2>2. ASSUME NEW m \in i .. j PROVE Append(given, p)[n + 1 + (m - i)] = V[m]
    BY <1>2, <1>22 DEF HandedOut, V
  <2>3. j \in i .. j /\ n + 1 + (j - i) = Len(given) + 1 BY <2>1, <1>3, <1>22
  <2>4. Append(given, p)[n + 1 + (j - i)] = V[j] BY <2>2, <2>3
  <2>5. p = V[j] BY <2>3, <2>4, <1>4
  <2>6. ASSUME i < j PROVE Search(p) = "end"
    <3>1. i <= j - 1 /\ j - 1 \in DOMAIN V BY <2>1, <2>6, VIs
    <3>2. ASSUME NEW m \in i .. j - 1 PROVE seen.given["video"][n + 1 + (m - i)] = V[m]
      <4>1. m \in i .. j /\ n + 1 + (m - i) \in 1 .. Len(given) BY <2>1, <1>3, <1>22
      <4>2. Append(given, p)[n + 1 + (m - i)] = V[m] BY <4>1, <2>2
      <4> QED BY <4>1, <4>2, <1>4 DEF given
    <3>3. Unfinished(i, j - 1) /\ p.seq = V[j - 1].seq + 1 BY <2>1, <2>5, <2>6, <1>22
    <3>4. n + (j - i) = Len(seen.given["video"]) BY <1>22 DEF given
    <3> QED BY <2>1, <3>1, <3>2, <3>3, <3>4, Continued
  <2> QED BY <2>5, <2>6
<1>23. Assembling'
  <2>1. ASSUME NEW i \in DOMAIN V, NEW j \in DOMAIN V, NEW n \in 0 .. Len(seen'.given["video"]),
               Unfinished(i, j), HandedOut(i, j, n)',
               n + (j - i) + 1 = Len(seen'.given["video"])
        PROVE  file'.search = "end"
    <3>1. i \in Nat /\ j \in Nat /\ n \in Nat /\ i <= j BY <2>1, <1>2, <1>3, <1>4, VIs DEF Unfinished
    <3>2. n + (j - i) = Len(given) BY <2>1, <3>1, <1>2, <1>3, <1>4
    <3>3. ASSUME i < j PROVE Unfinished(i, j - 1) /\ V[j].seq = V[j - 1].seq + 1 /\ ~V[j - 1].marker
      <4>1. j - 1 \in i .. j - 1 /\ (j - 1) + 1 = j /\ i <= j - 1 BY <3>1, <3>3
      <4>2. \A m \in i .. (j - 1) - 1 : m \in i .. j - 1 BY <3>1
      <4>3. ~V[j - 1].marker /\ V[j].seq = V[j - 1].seq + 1
        <5>1. ~V[j - 1].marker /\ V[(j - 1) + 1].seq = V[j - 1].seq + 1
          BY <2>1, <4>1 DEF Unfinished
        <5> QED BY <5>1, <4>1
      <4> QED BY <2>1, <4>1, <4>2, <4>3 DEF Unfinished
    <3>4. i = j \/ i < j BY <3>1
    <3>5. p = V[j] /\ (i < j => Search(p) = "end") BY <2>1, <3>1, <3>2, <3>3, <3>4, <1>22
    <3>6. ~p.marker BY <2>1, <3>5 DEF Unfinished
    <3>7. more
      <4>1. CASE i = j BY <4>1, <2>1, <3>5 DEF Unfinished, more
      <4>2. CASE i < j BY <4>2, <3>5 DEF more
      <4> QED BY <4>1, <4>2, <3>4
    <3> QED BY <3>6, <3>7, <1>19
  <2> QED BY <2>1 DEF Assembling, Unfinished, V
<1>24. FramesAreWritten'
  <2>1. ASSUME NEW i \in DOMAIN V, NEW j \in DOMAIN V, IsFrame(i, j),
               NEW n \in 0 .. Len(seen'.given["video"]), HandedOut(i, j, n)'
        PROVE  \/ V[j].time \in seen'.early
               \/ \E f \in DOMAIN file'.frames : V[j] \in ToSet(file'.frames[f].packets)
    <3>1. /\ i \in Nat /\ j \in Nat /\ n \in Nat /\ i <= j
          /\ n + (j - i) < Len(given) + 1
      <4>1. Len(seen'.given["video"]) = Len(given) + 1 BY <1>2, <1>4
      <4>2. i \in Nat /\ j \in Nat BY VIs
      <4>3. n \in Nat BY <4>1, <1>3
      <4>4. i <= j BY <2>1 DEF IsFrame
      <4>5. n + (j - i) < Len(seen'.given["video"]) BY <2>1 DEF HandedOut
      <4> QED BY <4>1, <4>2, <4>3, <4>4, <4>5
    <3>2. CASE n + (j - i) < Len(given)
      <4>1. ASSUME NEW m \in i .. j PROVE given[n + 1 + (m - i)] = V[m]
        <5>1. n + 1 + (m - i) \in 1 .. Len(given) BY <3>1, <3>2, <1>3
        <5>2. Append(given, p)[n + 1 + (m - i)] = V[m] BY <2>1, <1>2 DEF HandedOut, V
        <5> QED BY <5>1, <5>2, <1>4
      <4>2. HandedOut(i, j, n) BY <3>2, <4>1 DEF HandedOut, V, given
      <4>3. n \in 0 .. Len(given) BY <3>1, <3>2, <1>3
      <4>4. \/ V[j].time \in seen.early
            \/ \E f \in DOMAIN file.frames : V[j] \in ToSet(file.frames[f].packets)
        BY <2>1, <4>2, <4>3 DEF FileInv, FramesAreWritten, V, given
      <4> QED BY <4>4, <1>16, <1>17
    <3>3. CASE n + (j - i) = Len(given)
      <4>1. V[j].marker /\ V[i].start BY <2>1 DEF IsFrame, V
      <4>2. ASSUME i < j PROVE Unfinished(i, j - 1) /\ V[j].seq = V[j - 1].seq + 1
        <5>1. j - 1 \in i .. j - 1 /\ (j - 1) + 1 = j /\ i <= j - 1 BY <3>1, <4>2
        <5>2. \A m \in i .. (j - 1) - 1 : m \in i .. j - 1 BY <3>1
        <5>3. ~V[j - 1].marker /\ V[(j - 1) + 1].seq = V[j - 1].seq + 1
          BY <2>1, <5>1 DEF IsFrame, V
        <5> QED BY <2>1, <5>1, <5>2, <5>3 DEF Unfinished, IsFrame, V
      <4>3. i = j \/ i < j BY <3>1
      <4>4. p = V[j] /\ (i < j => Search(p) = "end") BY <2>1, <3>1, <3>3, <4>2, <4>3, <1>22
      <4>5. more
        <5>1. CASE i = j BY <5>1, <4>1, <4>4 DEF more
        <5>2. CASE i < j BY <5>2, <4>4 DEF more
        <5> QED BY <5>1, <5>2, <4>3
      <4>6. whole BY <4>1, <4>4, <4>5, <1>9
      <4>7. CASE media.codec
        <5>1. written BY <4>6, <4>7 DEF written
        <5>2. PICK a \in DOMAIN V : Parted(Unpackaged(p), a, c, seen.early) BY <4>5, <1>5
        <5>3. V[j] \in ToSet(Unpackaged(p)) BY <5>2, <4>4, <1>5, PartedIs
        <5>4. Len(file.frames) + 1 \in DOMAIN file'.frames
              /\ file'.frames[Len(file.frames) + 1] = frame
          BY <5>1, <1>13, <1>14
        <5> QED BY <5>3, <5>4, <1>11
      <4>8. CASE ~media.codec BY <4>4, <4>6, <4>8, <1>8
      <4> QED BY <4>7, <4>8
    <3> QED BY <3>1, <3>2, <3>3, <1>3
  <2> QED BY <2>1 DEF FramesAreWritten, IsFrame, V
<1>25. /\ file'.frames # <<>> => seen'.given["video"] # <<>>
       /\ file'.sound # <<>> => seen'.given["audio"] # <<>>
  BY <1>2, <1>4, <1>7 DEF FileInv
<1>26. ASSUME ~seen'.raced PROVE FramesFollow' /\ SoundFollows'
  <2>1. FramesFollow /\ SoundFollows BY <1>2, <1>26 DEF FileInv
  <2>2. SoundFollows' BY <2>1, <1>2, <1>7 DEF SoundFollows
  <2>3. ASSUME NEW i \in DOMAIN file'.frames
        PROVE  Follows(file'.frames[i].pts, Last(file'.frames[i].packets).time,
                       Head(seen'.given["video"]).time)
    <3>1. CASE i \in DOMAIN file.frames /\ file'.frames[i] = file.frames[i]
      <4>1. file.frames # <<>> BY <3>1, <1>14
      <4>2. given # <<>> BY <4>1 DEF FileInv, given
      <4>3. Head(seen'.given["video"]) = Head(given) BY <4>2, KindsAre, HeadStays DEF given
      <4> QED BY <3>1, <4>3, <2>1 DEF FramesFollow, given
    <3>2. CASE written /\ file'.frames[i] = frame
      <4>1. PICK a \in DOMAIN V : Parted(Unpackaged(p), a, c, seen.early)
        BY <3>2, <1>5, <1>9 DEF written
      <4>2. Last(Unpackaged(p)) = p BY <4>1, <1>5, PartedIs
      <4>3. Follows(Pts(p, First("video", p)), p.time, Head(seen'.given["video"]).time)
        BY <1>26, KindsAre, TakenFollows DEF p
      <4> QED BY <3>2, <4>2, <4>3, <1>11
    <3> QED BY <3>1, <3>2, <1>15
  <2> QED BY <2>2, <2>3 DEF FramesFollow
<1> QED BY <1>18, <1>20, <1>21, <1>23, <1>24, <1>25, <1>26 DEF FileInv

\* writeAudioData changes only what is said of sound,
LEMMA AudioStep ==
    ASSUME OrderInv, OrderInv', OneTurn', FileInv, Takes("audio")
    PROVE  FileInv'
<1> DEFINE p == Last(queue["audio"].list)
           given == seen.given["audio"]
           piece == [packet |-> p, pts |-> Pts(p, First("audio", p))]
           Pieces == [packet: Packets("audio"), pts: Int]
<1>1. DataInv BY DEF OrderInv
<1>2. /\ p \in Packets("audio") /\ seen'.given["audio"] = Append(given, p)
      /\ seen'.given["video"] = seen.given["video"] /\ seen'.raced = seen.raced
  BY <1>1, KindsAre, PopIs, GivenIs DEF Takes
<1>3. given \in Seq(Packets("audio")) BY <1>1, KindsAre, OfKind
<1>4. Append(given, p) # <<>> BY <1>2, <1>3, AppendProperties
<1>5. file \in Files /\ seen \in Histories BY <1>1 DEF DataInv
<1>6. WriteAudio(p) BY DEF Takes, Write
<1>7. piece \in Pieces BY <1>1, <1>2, KindsAre, FirstIs, PtsIs
<1>8. piece.packet = p /\ piece.pts = Pts(p, First("audio", p)) OBVIOUS
<1>9. file' = [file EXCEPT !.streams = TRUE, !.sound = Append(@, piece)] BY <1>6 DEF WriteAudio
<1>10. seen'.early = seen.early BY <1>5, <1>6 DEF WriteAudio, Histories
<1> HIDE DEF p, given, piece, Pieces
<1>11. /\ file'.lastSeq = file.lastSeq /\ file'.search = file.search /\ file'.buffer = file.buffer
       /\ file'.frames = file.frames /\ file'.sound = Append(file.sound, piece)
  BY <1>5, <1>9 DEF Files
<1>12. file.sound \in Seq(Pieces) BY <1>5 DEF Files, Pieces
<1>13. /\ Len(file'.sound) = Len(file.sound) + 1 /\ file'.sound[Len(file.sound) + 1] = piece
       /\ \A n \in 1 .. Len(file.sound) : file'.sound[n] = file.sound[n]
       /\ DOMAIN file.sound = 1 .. Len(file.sound) /\ DOMAIN file'.sound = 1 .. Len(file'.sound)
       /\ Len(file.sound) \in Nat
  BY <1>7, <1>11, <1>12, AppendProperties, LenProperties
<1>14. file'.lastSeq = LastGiven("video")' /\ BufferInv' /\ Assembling'
  BY <1>2, <1>10, <1>11 DEF FileInv, LastGiven, BufferInv, Assembling, HandedOut
<1>15. FramesAreWhole' /\ FramesAreWritten'
  <2>1. FramesAreWhole' BY <1>10, <1>11 DEF FileInv, FramesAreWhole
  <2>2. \A i, j : \A n : HandedOut(i, j, n)' <=> HandedOut(i, j, n) BY <1>2 DEF HandedOut
  <2>3. FramesAreWritten BY DEF FileInv
  <2>4. FramesAreWritten' BY <1>2, <1>10, <1>11, <2>2, <2>3 DEF FramesAreWritten
  <2> QED BY <2>1, <2>4
<1>16. /\ file'.frames # <<>> => seen'.given["video"] # <<>>
       /\ file'.sound # <<>> => seen'.given["audio"] # <<>>
  BY <1>2, <1>4, <1>11 DEF FileInv
<1>17. ASSUME ~seen'.raced PROVE FramesFollow' /\ SoundFollows'
  <2>1. FramesFollow /\ SoundFollows BY <1>2, <1>17 DEF FileInv
  <2>2. FramesFollow' BY <2>1, <1>2, <1>11 DEF FramesFollow
  <2>3. ASSUME NEW i \in DOMAIN file'.sound
        PROVE  Follows(file'.sound[i].pts, file'.sound[i].packet.time,
                       Head(seen'.given["audio"]).time)
    <3>1. i \in DOMAIN file.sound \/ i = Len(file.sound) + 1 BY <1>13
    <3>2. CASE i \in DOMAIN file.sound
      <4>1. file.sound # <<>> BY <3>2, <1>13
      <4>2. given # <<>> BY <4>1 DEF FileInv, given
      <4>3. Head(seen'.given["audio"]) = Head(given) BY <4>2, KindsAre, HeadStays DEF given
      <4> QED BY <3>2, <4>3, <2>1, <1>13 DEF SoundFollows, given
    <3>3. CASE i = Len(file.sound) + 1
      <4>1. Follows(Pts(p, First("audio", p)), p.time, Head(seen'.given["audio"]).time)
        BY <1>17, KindsAre, TakenFollows DEF p
      <4> QED BY <3>3, <4>1, <1>8, <1>13
    <3> QED BY <3>1, <3>2, <3>3
  <2> QED BY <2>2, <2>3 DEF SoundFollows
<1> QED BY <1>14, <1>15, <1>16, <1>17 DEF FileInv

\* and nothing else touches the file.
LEMMA FileStep ==
    ASSUME OrderInv, OrderInv', Timely, OneTurn', FileInv, [RecorderNext]_recorderVars
    PROVE  FileInv'
<1>1. DataInv BY DEF OrderInv
<1>2. ASSUME file' = file, seen'.given = seen.given, seen'.early = seen.early,
             ~seen'.raced => ~seen.raced
      PROVE  FileInv'
  BY <1>2 DEF FileInv, LastGiven, BufferInv, Assembling, HandedOut, FramesAreWhole,
              FramesAreWritten, FramesFollow, SoundFollows
<1>3. CASE Quiet BY <1>2, <1>3 DEF Quiet
<1>4. CASE Delivers
  <2>1. PICK k \in Kinds : \E i \in net[k], copy \in BOOLEAN : Deliver(k, i, copy)
    BY <1>4 DEF Delivers
  <2>2. PICK i \in net[k], copy \in BOOLEAN : Deliver(k, i, copy) BY <2>1
  <2>3. UNCHANGED <<file, seen>> BY <1>1, <2>2, DeliversIs
  <2> QED BY <2>3, <1>2
<1>5. CASE InsertPacket
  <2>1. /\ seen'.given = seen.given /\ seen'.early = seen.early /\ UNCHANGED file
        /\ (~seen'.raced => ~seen.raced)
    BY <1>1, <1>5, InsertsIs
  <2> QED BY <2>1, <1>2
<1>6. ASSUME NEW k \in Kinds, Takes(k) PROVE FileInv'
  <2>1. CASE k = "audio" BY <1>6, <2>1, AudioStep
  <2>2. CASE k = "video" BY <1>6, <2>2, VideoStep
  <2> QED BY <2>1, <2>2, KindsAre
<1> QED BY <1>1, <1>3, <1>4, <1>5, <1>6, Steps

LEMMA InitFile ==
    ASSUME RecorderInit
    PROVE  FileInv
<1>1. /\ file.lastSeq = -1 /\ file.search = "start" /\ file.buffer = <<>>
      /\ file.frames = <<>> /\ file.sound = <<>> /\ seen.given["video"] = <<>>
      /\ seen.given["audio"] = <<>>
  BY DEF RecorderInit, Kinds
<1>2. Len(<<>>) = 0 /\ DOMAIN <<>> = {} OBVIOUS
<1>3. file.lastSeq = LastGiven("video") /\ BufferInv BY <1>1 DEF LastGiven, BufferInv
<1>4. Assembling
  <2>1. ASSUME NEW i \in DOMAIN V, NEW j \in DOMAIN V, NEW n \in 0 .. Len(seen.given["video"]),
               Unfinished(i, j), n + (j - i) + 1 = Len(seen.given["video"])
        PROVE  FALSE
    <3>1. i \in Nat /\ j \in Nat /\ i <= j /\ n \in Nat BY <2>1, <1>1, <1>2, VIs DEF Unfinished
    <3> QED BY <3>1, <2>1, <1>1, <1>2
  <2> QED BY <2>1 DEF Assembling
<1>5. FramesAreWhole BY <1>1, <1>2 DEF FramesAreWhole
<1>6. FramesAreWritten
  <2>1. ASSUME NEW i \in DOMAIN V, NEW j \in DOMAIN V, NEW n \in 0 .. Len(seen.given["video"]),
               IsFrame(i, j), HandedOut(i, j, n)
        PROVE  FALSE
    <3>1. i \in Nat /\ j \in Nat /\ i <= j /\ n \in Nat BY <2>1, <1>1, <1>2, VIs DEF IsFrame
    <3>2. n + (j - i) < Len(seen.given["video"]) BY <2>1 DEF HandedOut
    <3> QED BY <3>1, <3>2, <1>1, <1>2
  <2> QED BY <2>1 DEF FramesAreWritten, V
<1>7. FramesFollow /\ SoundFollows BY <1>1, <1>2 DEF FramesFollow, SoundFollows
<1> QED BY <1>1, <1>3, <1>4, <1>5, <1>6, <1>7 DEF FileInv

LEMMA FileHolds ==
    ASSUME FileInv
    PROVE  FileIsFaithful
  BY DEF FileInv, FileIsFaithful, PtsFollowSource, FramesFollow, SoundFollows

\* Then every frame of the file is a run of consecutive packets from a start to an
\* end, every frame that was handed out whole is in the file, and the timestamps
\* follow the source as long as it has not gone round them since its first packet.
THEOREM FileIsFaithfulHolds ==
    RecorderSpec /\ [](Timely /\ OneTurn) => []FileIsFaithful
<1>1. RecorderInit => OrderInv /\ FileInv BY InitOrder, InitFile
<1>2. OrderInv /\ FileInv /\ Timely /\ OneTurn' /\ [RecorderNext]_recorderVars
        => (OrderInv /\ FileInv)'
  BY OrderStep, FileStep
<1>3. OrderInv /\ FileInv => FileIsFaithful BY FileHolds
<1> QED BY <1>1, <1>2, <1>3, PTL DEF RecorderSpec
==============================================================================
