--------------------------- MODULE RtcpProcessor ---------------------------
(***************************************************************************)
(* The aggregation of RTCP in the connection of a publisher                *)
(* (liberizo/rtp/RtcpProcessor.cpp).  The threads of its subscribers give  *)
(* it their feedback, its own gives it sender reports and, after every     *)
(* packet, lets it send what is due.  One mutex covers each of these       *)
(* calls, so each is an action.                                            *)
(*                                                                         *)
(* One entry of rtcpData_ is modelled, of either medium: entries do not    *)
(* read each other.  Of the values that are kept as a maximum only the     *)
(* ratio of lost packets is, since jitter is reset with it and the others  *)
(* never.                                                                  *)
(***************************************************************************)
EXTENDS Integers, Sequences, SequencesExt, FiniteSetsExt

CONSTANTS
    Periods,       \* [audio, video]: the values nextPacketInMs may get
    RembTimeout,   \* REMB_TIMEOUT
    Wrap,          \* 65536 ms in the code, where (edlsr * 65536) overflows
    MaxReports,    \* 20 sender reports in the code
    Ratios, Bandwidths, DefaultBw, Nacks,
    Garbage,       \* values that an uninitialized delay may have
    Step,          \* bound: time goes on in steps of Step ms,
    MaxTime,       \* bound: until MaxTime
    MaxSr,         \* bound: sender reports
    MaxFeedback    \* bound: packets of feedback

None == "none"
Media == {"audio", "video"}

\* Longer than any period: how long ago the epoch is.
Long == 100000

ASSUME RtcpAssumption ==
    /\ \A m \in Media : Periods[m] \subseteq 1 .. Long
    /\ {RembTimeout, Wrap, MaxReports, DefaultBw, Step} \subseteq Nat \ {0}
    /\ Bandwidths \cup Ratios \subseteq Nat \ {0} /\ Garbage \subseteq Nat
    /\ None \notin Nacks /\ {MaxTime, MaxSr, MaxFeedback} \subseteq Nat

VARIABLES
    now,           \* ms since the connection exists
    data,          \* the RtcpData
    sent,          \* the last report: its fields and when it was sent
    reports,       \* the sender reports of the publisher, by their time
    budget,        \* packets of feedback that may still come
    since,         \* history, since the last report: the worst ratio, the lowest
                   \* bandwidth, the last NACK and whether one was asked for
    ever           \* history: rtts, pairs of a sender report and the round trip
                   \* that a receiver measured with it; prev, when the report
                   \* before the last was sent; last, since as the last found it

vars == <<now, data, sent, reports, budget, since, ever>>

\* Sender reports are named by their time, and 0 is none.
Stamp(t) == t + 1

\* gettimeofday minus the epoch: lastRrSent and lastREMBSent are zero at first.
Never == -Long

NoRemb == -1
NoReport == [at |-> Never, ratio |-> 0, lastSr |-> 0, delay |-> 0, age |-> 0,
             nack |-> None, remb |-> NoRemb]

Fresh == [worst |-> 0, lowest |-> 0, nack |-> None, asked |-> FALSE]

Init ==
    /\ now = 0 /\ sent = NoReport /\ reports = {} /\ budget = MaxFeedback
    /\ \E m \in Media :
          data = [mediaType |-> m, lastSr |-> 0, delaySinceLastSr |-> 0, lastSrUpdated |-> 0,
                  lastDelay |-> 0, ratioLost |-> 0, reportedBandwidth |-> 0,
                  nextPacketInMs |-> 0, lastRrSent |-> Never, lastREMBSent |-> Never,
                  senderReports |-> <<>>, nack |-> None,
                  pli |-> FALSE, remb |-> FALSE, requestRr |-> FALSE]
    /\ since = Fresh
    /\ ever = [rtts |-> {}, prev |-> Never, last |-> Fresh]

Tick ==
    /\ now + Step <= MaxTime /\ now' = now + Step
    /\ UNCHANGED <<data, sent, reports, budget, since, ever>>

(* analyzeSr: the last MaxReports sender reports are kept. *)

AnalyzeSr ==
    /\ now \notin reports /\ Cardinality(reports) < MaxSr
    /\ reports' = reports \cup {now}
    /\ data' = [data EXCEPT !.senderReports =
                   LET all == Append(@, now)
                   IN  IF Len(all) > MaxReports THEN Tail(all) ELSE all]
    /\ UNCHANGED <<now, sent, budget, since, ever>>

(* analyzeFeedback: a compound packet, part by part. d.data is the entry;    *)
(* d.now, when the packet came, and d.delay are local variables, and the     *)
(* latter a report without a match leaves alone.                             *)

\* Mutant: the last ratio replaces a worse one.
LastRatio(old, new) == new

Worse(old, new) == IF old > new THEN old ELSE new

\* Mutant: lastSrUpdated stays at the first report.
SrOnce(d, p, time) ==
    [d EXCEPT !.lastSr = p.lastSr, !.delaySinceLastSr = p.delay,
              !.lastSrUpdated = IF d.lastSr = 0 THEN time ELSE @]

\* What is recorded of a receiver report.
RecordSr(d, p, time) ==
    [d EXCEPT !.lastSr = p.lastSr, !.delaySinceLastSr = p.delay, !.lastSrUpdated = time]

ReceiverReport(d, p) ==
    LET known == {i \in DOMAIN d.data.senderReports :
                     Stamp(d.data.senderReports[i]) = p.lastSr}
        delay == IF known = {} THEN d.delay
                 ELSE d.now - d.data.senderReports[Max(known)] - (p.delay % Wrap)
        worse == [d.data EXCEPT !.ratioLost = Worse(@, p.ratio)]
    IN  [d EXCEPT !.delay = delay,
                  !.data = IF d.data.lastSr = 0 \/ d.data.lastDelay < delay
                           THEN [RecordSr(worse, p, d.now) EXCEPT !.lastDelay = delay]
                           ELSE worse]

\* Mutant: the flag that a report was asked for is forgotten.
NackLater(d, p) == [d EXCEPT !.data.nack = p.nack]

Nack(d, p) == [d EXCEPT !.data.nack = p.nack, !.data.requestRr = TRUE]

Lower(d, p) == p.bandwidth < d.reportedBandwidth \/ d.reportedBandwidth = 0

Remb(d, p) ==
    IF Lower(d.data, p)
    THEN [d EXCEPT !.data.reportedBandwidth = p.bandwidth, !.data.remb = TRUE] ELSE d

Analyze(d, p) ==
    CASE p.type = "rr"   -> ReceiverReport(d, p)
      [] p.type = "nack" -> Nack(d, p)
      [] p.type = "remb" -> Remb(d, p)
      [] p.type = "pli"  -> [d EXCEPT !.data.pli = TRUE]

\* What a receiver may report: nothing received, or a sender report of the
\* publisher that it received some time ago.
ReceiverReports ==
    {[type |-> "rr", ratio |-> r, lastSr |-> 0, delay |-> 0] : r \in Ratios}
    \cup UNION {{[type |-> "rr", ratio |-> r, lastSr |-> Stamp(sr), delay |-> k * Step] :
                    r \in Ratios, k \in 0 .. (now - sr) \div Step} : sr \in reports}

NackParts == {[type |-> "nack", nack |-> n] : n \in Nacks}
RembParts == {[type |-> "remb", bandwidth |-> b] : b \in Bandwidths}

\* The entry is found by the first part, and REMB names no source: it follows a
\* receiver report.
CompoundPackets ==
    {<<rr>> : rr \in ReceiverReports} \cup {<<q>> : q \in NackParts}
    \cup {<<rr, q>> : rr \in ReceiverReports, q \in NackParts \cup RembParts}
    \cup {<<[type |-> "pli"]>>}

Parts(packet, type) == {packet[i] : i \in {j \in DOMAIN packet : packet[j].type = type}}

AnalyzeFeedback(packet) ==
    /\ budget > 0 /\ budget' = budget - 1
    /\ \E delay \in Garbage :
          data' = FoldLeft(Analyze, [data |-> data, delay |-> delay, now |-> now], packet).data
    /\ since' = [since EXCEPT
          !.worst = Max({@} \cup {p.ratio : p \in Parts(packet, "rr")}),
          !.lowest = LET all == {p.bandwidth : p \in Parts(packet, "remb")} \cup {@}
                     IN  IF all = {0} THEN 0 ELSE Min(all \ {0}),
          !.nack = IF Parts(packet, "nack") = {} THEN @ ELSE Last(packet).nack,
          !.asked = @ \/ Parts(packet, "nack") # {}
                      \/ \E b \in Parts(packet, "remb") : Lower(data, b)]
    /\ ever' = [ever EXCEPT
          !.rtts = @ \cup {<<p.lastSr, now - (p.lastSr - 1) - p.delay>> :
                               p \in {r \in Parts(packet, "rr") : r.lastSr # 0}}]
    /\ UNCHANGED <<now, sent, reports>>

(* checkRtcpFb. *)

Due ==
    /\ data.lastSr > 0
    /\ \/ data.requestRr \/ data.remb
       \/ now - data.lastRrSent >= data.nextPacketInMs

SendsRemb ==
    data.mediaType = "video" /\ (data.remb \/ now - data.lastREMBSent > RembTimeout)

Report ==
    [at |-> now, ratio |-> data.ratioLost, lastSr |-> data.lastSr,
     delay |-> data.delaySinceLastSr + ((now - data.lastSrUpdated) % Wrap),
     age |-> now - data.lastSrUpdated, nack |-> data.nack,
     remb |-> IF SendsRemb THEN data.reportedBandwidth ELSE NoRemb]

\* RtcpData::reset
Reset(d) ==
    [d EXCEPT !.ratioLost = 0,
              !.reportedBandwidth = IF @ < DefaultBw THEN Min({2 * @, DefaultBw}) ELSE @,
              !.lastDelay = (@ * 6) \div 10]

\* shouldSendREMB of an audio entry is never cleared.
Sent(d) ==
    [d EXCEPT !.lastRrSent = now, !.requestRr = FALSE, !.nack = None,
              !.remb = @ /\ ~SendsRemb,
              !.lastREMBSent = IF SendsRemb THEN now ELSE @]

\* A report later than it was scheduled resets, others go on from what they had.
SendReport ==
    \E next \in Periods[data.mediaType] :
        LET late == now - data.lastRrSent > data.nextPacketInMs
            d == [Sent(data) EXCEPT !.nextPacketInMs = next, !.pli = FALSE]
        IN  /\ data' = IF late THEN Reset(d) ELSE d
            /\ sent' = Report
            /\ since' = Fresh
            /\ ever' = [ever EXCEPT !.prev = data.lastRrSent, !.last = since]

CheckRtcpFb ==
    /\ IF Due THEN SendReport
       ELSE data' = [data EXCEPT !.pli = FALSE] /\ UNCHANGED <<sent, since, ever>>
    /\ UNCHANGED <<now, reports, budget>>

Next ==
    \/ Tick \/ AnalyzeSr \/ CheckRtcpFb
    \/ \E packet \in CompoundPackets : AnalyzeFeedback(packet)

\* A publisher that sends keeps on sending.
Spec == Init /\ [][Next]_vars /\ WF_vars(CheckRtcpFb)
------------------------------------------------------------------------------
\* Types, and a reported bandwidth that recovers to the default at most.
TypeOK ==
    /\ now \in 0 .. MaxTime /\ reports \subseteq 0 .. now /\ budget \in 0 .. MaxFeedback
    /\ Len(data.senderReports) <= MaxReports
    /\ {data.senderReports[i] : i \in DOMAIN data.senderReports} \subseteq reports
    /\ data.lastSr \in {0} \cup {Stamp(t) : t \in reports}
    /\ data.ratioLost \in {0} \cup Ratios /\ data.nack \in {None} \cup Nacks
    /\ data.reportedBandwidth \in (0 .. DefaultBw) \cup Bandwidths
    /\ data.nextPacketInMs \in {0} \cup Periods[data.mediaType]

\* No receiver lost more than the last report said, of those that reported since
\* the report before (analyzeFeedback takes the maximum, reset comes after).
WorstIsReported ==
    sent # NoReport => sent.ratio >= ever.last.worst

\* A report has the NACK that was asked for last since the report before, and
\* none if none was (shouldSendNACK).
NackIsCurrent == sent # NoReport => sent.nack = ever.last.nack

\* A bandwidth sent is not above any that a receiver asked for since the report
\* before, although it recovers in steps, and none only if nobody asked.
LowestIsSent ==
    sent.remb # NoRemb =>
        ever.last.lowest = 0 \/ sent.remb \in 1 .. ever.last.lowest

\* Without a NACK or a lower bandwidth reports keep the shortest period, except
\* on an audio entry that was once given a bandwidth (checkRtcpFb).
RrsAreSpaced ==
    sent # NoReport =>
        \/ ever.last.asked \/ (data.mediaType = "audio" /\ data.remb)
        \/ sent.at - ever.prev >= Min(Periods[data.mediaType])

\* A report stands for all that receivers asked for since the report before, and
\* comes when one is due.
ReportsAreFaithful ==
    TypeOK /\ WorstIsReported /\ NackIsCurrent /\ LowestIsSent /\ RrsAreSpaced

\* From a report the publisher computes a round trip that some receiver measured
\* with that sender report, however long ago, until the time since then overflows
\* (lastSr, delaySinceLastSr and lastSrUpdated come from one packet).
RttIsReal ==
    (sent # NoReport /\ sent.age < Wrap) =>
        <<sent.lastSr, sent.at - (sent.lastSr - 1) - sent.delay>> \in ever.rtts

\* A NACK is passed on, unless no sender report is known to have arrived, and a
\* PLI always (analyzeFeedback, checkRtcpFb).
FeedbackIsSent ==
    /\ data.nack # None ~> (data.nack = None \/ data.lastSr = 0)
    /\ data.pli ~> ~data.pli
=============================================================================
