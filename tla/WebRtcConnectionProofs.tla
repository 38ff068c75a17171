----------------------- MODULE WebRtcConnectionProofs -----------------------
(***************************************************************************)
(* Proofs about WebRtcConnection, for all offers, bounds of the queues and *)
(* numbers of faults.                                                      *)
(*                                                                         *)
(* That the detailed connection implements ConnectionState rests on this:  *)
(* without trickle a client gets its answer only when every transport has  *)
(* announced its candidates, no transport gets further before it, and none *)
(* announces them twice.  So READY is never followed by GATHERED, although *)
(* the threads write the state of their transport long before they tell    *)
(* the connection of it.                                                   *)
(*                                                                         *)
(* That READY is worth something rests on the keys: a component gets them  *)
(* once, from the thread that completed its handshake, and a transport     *)
(* says READY when the last of its components has them.                    *)
(***************************************************************************)
EXTENDS WebRtcConnection, TLAPS

CandidatesCall == <<"ice", "CANDIDATES_RECEIVED">>
GatheredCall == <<"transport", "GATHERED">>

NiceFields == {"state", "comps", "running", "listener", "gathered", "alive", "call", "queue"}
DtlsFields == {"state", "running", "alive", "call", "step", "keys", "resender"}
NiceCalls == {<<>>, CandidatesCall, <<"ice", "READY">>, <<"ice", "FAILED">>,
              GatheredCall, <<"transport", "FAILED">>}

Open == phase = "open"

\* No transport has got further than to its candidates.
Waits(t) ==
    /\ nice[t].call \in {<<>>, CandidatesCall, GatheredCall}
    /\ nice[t].queue = <<>>
    /\ dtls[t].call = <<>> /\ dtls[t].resender = {}

\* What is true of a transport that was answered without trickle.
Goes(t) ==
    /\ nice[t].gathered /\ nice[t].call # CandidatesCall
    /\ conn.offer.bundle => nice[t].call # GatheredCall
    /\ (~conn.offer.bundle /\ conn.state = "READY") => dtls[t].state \in {"READY", "FAILED"}

TransportInv(t) ==
    /\ DOMAIN nice[t] = NiceFields /\ DOMAIN dtls[t] = DtlsFields
    /\ nice[t].call \in NiceCalls
    /\ (dtls[t].call # <<>> /\ dtls[t].call[1] = "transport") =>
           dtls[t].call[2] \in {"READY", "FAILED"}
    /\ nice[t].call \in {CandidatesCall, GatheredCall} => nice[t].gathered
    /\ dtls[t].state = "GATHERED" => nice[t].gathered /\ nice[t].call # CandidatesCall
    /\ (Open /\ ~conn.trickle) => IF conn.answered THEN Goes(t) ELSE Waits(t)

\* The shape of the connection, and what Node's thread has done of setRemoteSdp
\* and of the destructor.
Shape ==
    /\ DOMAIN conn = {"state", "offer", "trickle", "todo", "have", "answered", "early", "pc"}
    /\ conn.offer \in Offers /\ {conn.trickle, conn.answered} \subseteq BOOLEAN
    /\ DOMAIN dtls = Built
    /\ phase \in {"open", "finishing", "closed"}
    /\ Open <=> conn.pc \in {"new", "setRemoteSdp", "building", "open"}
    /\ conn.pc = "finishing" => phase = "finishing"

Building ==
    /\ conn.have \cap conn.todo = {}
    /\ IF conn.pc = "new"
       THEN conn.have = {} /\ conn.todo = {} /\ ~conn.answered
       ELSE conn.have \cup conn.todo = Used
    /\ Built = conn.have \cup (IF conn.pc = "building" THEN {ToBuild} ELSE {})
    /\ conn.pc = "building" => conn.todo # {}

Reports ==
    /\ reported = conn.state
    /\ conn.state \in {"INITIAL", "GATHERED", "READY", "FAILED"}
    /\ ~conn.trickle => IF conn.answered THEN conn.todo = {}
                        ELSE conn.state = "INITIAL" /\ net = {}

ConnectionInv == Shape /\ (Open => Building /\ Reports)

StateInv == ConnectionInv /\ \A t \in Built : TransportInv(t)
-----------------------------------------------------------------------------
\* A step of one transport: the connection and the others are left alone.
OnlyHere(t) ==
    /\ DOMAIN nice' = DOMAIN nice /\ DOMAIN dtls' = DOMAIN dtls
    /\ \A u \in Built : u # t => nice'[u] = nice[u] /\ dtls'[u] = dtls[u]
    /\ net = {} /\ Waits(t) => net' = {}

LEMMA OneTransport ==
    ASSUME StateInv, Same, NEW t \in Built, OnlyHere(t), TransportInv(t)'
    PROVE  StateInv'
<1>1. ConnectionInv'
  <2>1. Built' = Built /\ Used' = Used /\ ToBuild' = ToBuild /\ Open' = Open
    BY DEF OnlyHere, Same, Built, Used, ToBuild, Open
  <2>2. Shape'
    BY <2>1 DEF OnlyHere, Same, StateInv, ConnectionInv, Shape
  <2>3. Open => Building'
    BY <2>1 DEF Same, StateInv, ConnectionInv, Building
  <2>4. (Open /\ ~conn.trickle /\ ~conn.answered) => net' = {}
    BY DEF OnlyHere, StateInv, ConnectionInv, Reports, TransportInv
  <2>5. Open => Reports'
    BY <2>4 DEF Same, StateInv, ConnectionInv, Reports
  <2>6. QED
    BY <2>1, <2>2, <2>3, <2>5 DEF ConnectionInv
<1>2. ASSUME NEW u \in Built, u # t PROVE TransportInv(u)'
  <2>1. nice'[u] = nice[u] /\ dtls'[u] = dtls[u] /\ conn' = conn /\ phase' = phase
    BY <1>2 DEF OnlyHere, Same
  <2>2. QED
    BY <2>1 DEF StateInv, TransportInv, Goes, Waits, Open
<1>3. QED
  BY <1>1, <1>2 DEF StateInv, OnlyHere, Built

(* The thread of libnice. *)

LEMMA OnGatheredKeeps ==
    ASSUME StateInv, Same, NEW t \in Built, OnGathered(t)
    PROVE  StateInv'
<1>1. OnlyHere(t)
  BY DEF OnGathered, Told, OnlyHere, Waits, StateInv, ConnectionInv, Shape, Built
<1>2. TransportInv(t)'
  BY DEF OnGathered, Told, Same, StateInv, ConnectionInv, Shape, TransportInv, Goes, Waits, Open,
     NiceFields, DtlsFields, NiceCalls, CandidatesCall, GatheredCall, Built
<1>3. QED
  BY <1>1, <1>2, OneTransport

LEMMA OnIceFailedKeeps ==
    ASSUME StateInv, Same, NEW t \in Built, OnIceFailed(t)
    PROVE  StateInv'
<1>1. OnlyHere(t)
  BY DEF OnIceFailed, Told, OnlyHere, Waits, StateInv, ConnectionInv, Shape, Built
<1>2. TransportInv(t)'
  BY DEF OnIceFailed, Told, Same, StateInv, ConnectionInv, Shape, TransportInv, Goes, Waits, Open,
     NiceFields, DtlsFields, NiceCalls, CandidatesCall, GatheredCall, Built
<1>3. QED
  BY <1>1, <1>2, OneTransport

LEMMA OnIceReadyKeeps ==
    ASSUME StateInv, Same, NEW t \in Built, OnIceReady(t)
    PROVE  StateInv'
<1>1. OnlyHere(t)
  BY DEF OnIceReady, OnlyHere, Waits, StateInv, ConnectionInv, Shape, Built,
     CandidatesCall, GatheredCall
<1>2. TransportInv(t)'
  BY DEF OnIceReady, Same, StateInv, ConnectionInv, Shape, TransportInv, Goes, Waits, Open,
     NiceFields, DtlsFields, NiceCalls, CandidatesCall, GatheredCall, Built
<1>3. QED
  BY <1>1, <1>2, OneTransport

LEMMA NiceLoopEndsKeeps ==
    ASSUME StateInv, Same, NEW t \in Built, NiceLoopEnds(t)
    PROVE  StateInv'
<1>1. OnlyHere(t)
  BY DEF NiceLoopEnds, OnlyHere, Waits, StateInv, ConnectionInv, Shape, Built
<1>2. TransportInv(t)'
  BY DEF NiceLoopEnds, Same, StateInv, ConnectionInv, Shape, TransportInv, Goes, Waits, Open,
     NiceFields, DtlsFields, NiceCalls, CandidatesCall, GatheredCall, Built
<1>3. QED
  BY <1>1, <1>2, OneTransport

LEMMA NiceGathersKeeps ==
    ASSUME StateInv, Same, NEW t \in Built, NiceGathers(t)
    PROVE  StateInv'
<1>1. OnlyHere(t)
  BY DEF NiceGathers, Idle, GatheringDone, UpdateIceState, OnlyHere, Waits, StateInv, ConnectionInv, Shape, Built
<1>2. TransportInv(t)'
  BY DEF NiceGathers, Idle, GatheringDone, UpdateIceState, Same, StateInv, ConnectionInv, Shape, TransportInv, Goes, Waits, Open,
     NiceFields, DtlsFields, NiceCalls, CandidatesCall, GatheredCall, Built
<1>3. QED
  BY <1>1, <1>2, OneTransport

LEMMA SelectedPairKeeps ==
    ASSUME StateInv, Same, NEW t \in Built, NEW c, conn.answered, SelectedPair(t, c)
    PROVE  StateInv'
<1>1. OnlyHere(t)
  BY DEF SelectedPair, Idle, UpdateComponentState, UpdateIceState, OnlyHere, Waits, StateInv, ConnectionInv, Shape, Built
<1>2. TransportInv(t)'
  BY DEF SelectedPair, Idle, UpdateComponentState, UpdateIceState, Same, StateInv, ConnectionInv, Shape, TransportInv, Goes, Waits, Open,
     NiceFields, DtlsFields, NiceCalls, CandidatesCall, GatheredCall, Built
<1>3. QED
  BY <1>1, <1>2, OneTransport

LEMMA ComponentFailsKeeps ==
    ASSUME StateInv, Same, NEW t \in Built, NEW c, conn.answered, ComponentFails(t, c)
    PROVE  StateInv'
<1>1. OnlyHere(t)
  BY DEF ComponentFails, Idle, UpdateComponentState, UpdateIceState, OnlyHere, Waits, StateInv, ConnectionInv, Shape, Built
<1>2. TransportInv(t)'
  BY DEF ComponentFails, Idle, UpdateComponentState, UpdateIceState, Same, StateInv, ConnectionInv, Shape, TransportInv, Goes, Waits, Open,
     NiceFields, DtlsFields, NiceCalls, CandidatesCall, GatheredCall, Built
<1>3. QED
  BY <1>1, <1>2, OneTransport

(* The reading thread and the Resenders. *)

LEMMA OnDtlsPacketKeeps ==
    ASSUME StateInv, Same, NEW t \in Built, OnDtlsPacket(t)
    PROVE  StateInv'
<1>1. OnlyHere(t)
  BY DEF OnDtlsPacket, Reads, OnlyHere, Waits, StateInv, ConnectionInv, Shape, Built
<1>2. TransportInv(t)'
  BY ZenonT(60) DEF OnDtlsPacket, Reads, Same, StateInv, ConnectionInv, Shape, TransportInv, Goes, Waits, Open,
     NiceFields, DtlsFields, NiceCalls, CandidatesCall, GatheredCall, Built
<1>3. QED
  BY <1>1, <1>2, OneTransport

LEMMA OnDtlsErrorKeeps ==
    ASSUME StateInv, Same, NEW t \in Built, OnDtlsError(t)
    PROVE  StateInv'
<1>1. OnlyHere(t)
  BY DEF OnDtlsError, Reads, OnlyHere, Waits, StateInv, ConnectionInv, Shape, Built
<1>2. TransportInv(t)'
  BY DEF OnDtlsError, Reads, Same, StateInv, ConnectionInv, Shape, TransportInv, Goes, Waits, Open,
     NiceFields, DtlsFields, NiceCalls, CandidatesCall, GatheredCall, Built
<1>3. QED
  BY <1>1, <1>2, OneTransport

LEMMA OnHandshakeCompletedKeeps ==
    ASSUME StateInv, Same, NEW t \in Built, NEW ok \in BOOLEAN, OnHandshakeCompleted(t, ok)
    PROVE  StateInv'
<1>1. OnlyHere(t)
  BY DEF OnHandshakeCompleted, Told, OnlyHere, Waits, StateInv, ConnectionInv, Shape, Built
<1>2. TransportInv(t)'
  BY DEF OnHandshakeCompleted, Told, Same, StateInv, ConnectionInv, Shape, TransportInv, Goes, Waits, Open,
     NiceFields, DtlsFields, NiceCalls, CandidatesCall, GatheredCall, Built
<1>3. QED
  BY <1>1, <1>2, OneTransport

LEMMA DataLoopEndsKeeps ==
    ASSUME StateInv, Same, NEW t \in Built, DataLoopEnds(t)
    PROVE  StateInv'
<1>1. OnlyHere(t)
  BY DEF DataLoopEnds, OnlyHere, Waits, StateInv, ConnectionInv, Shape, Built
<1>2. TransportInv(t)'
  BY DEF DataLoopEnds, Same, StateInv, ConnectionInv, Shape, TransportInv, Goes, Waits, Open,
     NiceFields, DtlsFields, NiceCalls, CandidatesCall, GatheredCall, Built
<1>3. QED
  BY <1>1, <1>2, OneTransport

LEMMA ResendKeeps ==
    ASSUME StateInv, Same, NEW t \in Built, NEW c, Resend(t, c)
    PROVE  StateInv'
<1>1. OnlyHere(t)
  BY DEF Resend, OnlyHere, Waits, StateInv, ConnectionInv, Shape, Built
<1>2. TransportInv(t)'
  BY DEF Resend, Same, StateInv, ConnectionInv, Shape, TransportInv, Goes, Waits, Open,
     NiceFields, DtlsFields, NiceCalls, CandidatesCall, GatheredCall, Built
<1>3. QED
  BY <1>1, <1>2, OneTransport

(* The network. *)

LEMMA LoseKeeps ==
    ASSUME StateInv, Same, NEW m \in net, Lose(m)
    PROVE  StateInv'
<1>1. nice' = nice /\ dtls' = dtls /\ net' \subseteq net /\ conn' = conn
      /\ reported' = reported /\ phase' = phase
  BY DEF Lose, Same
<1>2. ConnectionInv'
  BY <1>1 DEF StateInv, ConnectionInv, Shape, Building, Reports, Open, Built, Used, ToBuild
<1>3. \A t \in Built : TransportInv(t)'
  BY <1>1 DEF StateInv, TransportInv, Goes, Waits, Open
<1>4. QED
  BY <1>1, <1>2, <1>3 DEF StateInv, Built

LEMMA ReceiveKeeps ==
    ASSUME StateInv, Same, NEW m \in net, Receive(m)
    PROVE  StateInv'
<1>1. CASE m.media \in Built
  <2>1. OnlyHere(m.media)
    BY <1>1 DEF Receive, OnlyHere, Built
  <2>2. ~(Open /\ ~conn.trickle /\ ~conn.answered)
    BY DEF StateInv, ConnectionInv, Reports
  <2>3. TransportInv(m.media)'
    BY <1>1, <2>2 DEF Receive, QueueData, Same, StateInv, ConnectionInv, Shape, TransportInv,
       Goes, Open, NiceFields, Built
  <2>4. QED
    BY <1>1, <2>1, <2>3, OneTransport
<1>2. CASE m.media \notin Built
  <2>1. /\ Built' = Built /\ dtls' = dtls /\ net' \subseteq net /\ conn' = conn
        /\ reported' = reported /\ phase' = phase
        /\ \A t \in Built : nice'[t] = nice[t]
    BY <1>2 DEF Receive, Same, Built
  <2>2. ConnectionInv'
    BY <2>1 DEF StateInv, ConnectionInv, Shape, Building, Reports, Open, Used, ToBuild
  <2>3. \A t \in Built : TransportInv(t)'
    BY <2>1 DEF StateInv, TransportInv, Goes, Waits, Open
  <2>4. QED
    BY <2>1, <2>2, <2>3 DEF StateInv
<1>3. QED
  BY <1>1, <1>2

(* The thread of Node. *)

LEMMA SetRemoteSdpKeeps ==
    ASSUME StateInv, SetRemoteSdp
    PROVE  StateInv'
<1>1. /\ nice' = nice /\ dtls' = dtls /\ net' = net /\ reported' = reported /\ phase' = phase
      /\ conn.pc = "new" /\ conn' = [conn EXCEPT !.pc = "setRemoteSdp", !.todo = Used]
  BY DEF SetRemoteSdp, transportVars
<1>2. Built = {} /\ Built' = {}
  BY <1>1 DEF StateInv, ConnectionInv, Shape, Building, Built, Open
<1>3. ConnectionInv'
  BY <1>1, <1>2 DEF StateInv, ConnectionInv, Shape, Building, Reports, Open, Built, Used
<1>4. QED
  BY <1>2, <1>3 DEF StateInv

LEMMA BuildTransportKeeps ==
    ASSUME StateInv, NEW t, t = ToBuild, BuildTransport
    PROVE  StateInv'
<1>1. /\ conn.pc = "setRemoteSdp" /\ conn.todo # {} /\ Open
      /\ nice' = With(nice, t, NewNice(conn.offer.comps))
      /\ dtls' = With(dtls, t, NewTransport(conn.offer.comps))
      /\ conn' = [conn EXCEPT !.pc = "building"]
      /\ reported' = reported /\ phase' = phase /\ net' = net
  BY DEF BuildTransport, StateInv, ConnectionInv, Shape, Open
<1>2. t \in conn.todo
  BY <1>1, OffersAssumption DEF StateInv, ConnectionInv, Shape, Building, Used, ToBuild
<1>3. t \notin Built /\ Built = conn.have /\ Built' = Built \cup {t} /\ DOMAIN dtls = Built
  BY <1>1, <1>2 DEF StateInv, ConnectionInv, Shape, Building, Built, With
<1>4. Shape'
  BY <1>1, <1>3 DEF StateInv, ConnectionInv, Shape, Open, With
<1>5. Building' /\ Reports'
  BY <1>1, <1>3 DEF StateInv, ConnectionInv, Shape, Building, Reports, Open, Used, ToBuild
<1>6. ASSUME NEW u \in Built PROVE TransportInv(u)'
  <2>1. nice'[u] = nice[u] /\ dtls'[u] = dtls[u]
    BY <1>1, <1>3 DEF With, Built
  <2>2. /\ conn'.offer = conn.offer /\ conn'.answered = conn.answered
        /\ conn'.state = conn.state /\ conn'.trickle = conn.trickle
    BY <1>1 DEF StateInv, ConnectionInv, Shape
  <2>3. QED
    BY <1>1, <2>1, <2>2 DEF StateInv, TransportInv, Goes, Waits, Open
<1>7. TransportInv(t)'
  <2>1. nice'[t] = NewNice(conn.offer.comps) /\ dtls'[t] = NewTransport(conn.offer.comps)
    BY <1>1, <1>3 DEF With, Built
  <2>2. (Open /\ ~conn.trickle) => ~conn.answered
    BY <1>2 DEF StateInv, ConnectionInv, Reports
  <2>3. conn'.answered = conn.answered /\ conn'.trickle = conn.trickle /\ Open' = Open
    BY <1>1 DEF StateInv, ConnectionInv, Shape, Open
  <2>4. QED
    BY <2>1, <2>2, <2>3 DEF NewNice, NewTransport, TransportInv, Waits,
       NiceFields, DtlsFields, NiceCalls, CandidatesCall, GatheredCall
<1>8. QED
  BY <1>3, <1>4, <1>5, <1>6, <1>7 DEF StateInv, ConnectionInv

\* What Node's thread leaves of the transports.
LEMMA TransportsKeep ==
    ASSUME StateInv, Open' => Open, nice' = nice, dtls' = dtls,
           conn'.offer = conn.offer, conn'.trickle = conn.trickle,
           (Open' /\ ~conn.trickle) =>
               conn'.answered = conn.answered /\ conn'.state = conn.state
    PROVE  \A t \in Built : TransportInv(t)'
BY DEF StateInv, TransportInv, Goes, Waits, Built

LEMMA AssignTransportKeeps ==
    ASSUME StateInv, AssignTransport
    PROVE  StateInv'
<1>1. /\ conn.pc = "building" /\ Open
      /\ conn' = [conn EXCEPT !.pc = "setRemoteSdp", !.have = @ \cup {ToBuild},
                              !.todo = @ \ {ToBuild}]
      /\ nice' = nice /\ dtls' = dtls /\ net' = net /\ reported' = reported /\ phase' = phase
  BY DEF AssignTransport, transportVars, StateInv, ConnectionInv, Shape, Open
<1>2. ToBuild \in conn.todo
  BY <1>1, OffersAssumption DEF StateInv, ConnectionInv, Shape, Building, Used, ToBuild
<1>3. Shape' /\ Reports'
  BY <1>1, <1>2 DEF StateInv, ConnectionInv, Shape, Reports, Open, Built
<1>4. Building'
  BY <1>1, <1>2 DEF StateInv, ConnectionInv, Shape, Building, Built, Used
<1>5. \A t \in Built : TransportInv(t)'
  BY <1>1, TransportsKeep DEF StateInv, ConnectionInv, Shape, Open
<1>6. QED
  BY <1>1, <1>3, <1>4, <1>5 DEF StateInv, ConnectionInv, Built

LEMMA SetRemoteSdpReturnsKeeps ==
    ASSUME StateInv, SetRemoteSdpReturns
    PROVE  StateInv'
<1>1. /\ conn.pc = "setRemoteSdp" /\ conn.todo = {} /\ Open
      /\ conn' = [conn EXCEPT !.pc = "open", !.answered = @ \/ conn.trickle]
      /\ nice' = nice /\ dtls' = dtls /\ net' = net /\ reported' = reported /\ phase' = phase
  BY DEF SetRemoteSdpReturns, transportVars, StateInv, ConnectionInv, Shape, Open
<1>2. ~conn.trickle => conn'.answered = conn.answered
  BY <1>1 DEF StateInv, ConnectionInv, Shape
<1>3. Shape' /\ Reports'
  BY <1>1, <1>2 DEF StateInv, ConnectionInv, Shape, Reports, Open, Built
<1>4. Building'
  BY <1>1 DEF StateInv, ConnectionInv, Shape, Building, Built, Used
<1>5. \A t \in Built : TransportInv(t)'
  BY <1>1, <1>2, TransportsKeep DEF StateInv, ConnectionInv, Shape, Open
<1>6. QED
  BY <1>1, <1>3, <1>4, <1>5 DEF StateInv, ConnectionInv, Built

\* The destructor, after which the connection is no longer open.
LEMMA EndKeeps ==
    ASSUME StateInv, Destroy \/ Unlisten \/ DestructorReturns
    PROVE  StateInv'
<1>1. /\ nice' = nice /\ dtls' = dtls /\ ~Open' /\ conn'.offer = conn.offer
      /\ conn'.trickle = conn.trickle
  BY DEF Destroy, Unlisten, DestructorReturns, transportVars, StateInv, ConnectionInv, Shape, Open
<1>2. Shape'
  BY DEF Destroy, Unlisten, DestructorReturns, transportVars, StateInv, ConnectionInv, Shape,
     Open, Built
<1>3. QED
  BY <1>1, <1>2, TransportsKeep DEF StateInv, ConnectionInv, Built

LEMMA DeleteTransportKeeps ==
    ASSUME StateInv, NEW t, t = Deleted, DeleteTransport
    PROVE  StateInv'
<1>1. /\ conn.pc = "deleting" /\ ~Open /\ ~Open'
      /\ conn' = [conn EXCEPT !.pc = "joining"]
      /\ dtls' = [dtls EXCEPT ![t].running = FALSE]
      /\ nice' = [nice EXCEPT ![t] = CloseNice(@)]
      /\ phase' = phase
  BY DEF DeleteTransport, StateInv, ConnectionInv, Shape, Open
<1>2. Shape'
  BY <1>1 DEF StateInv, ConnectionInv, Shape, Open, Built
<1>3. ASSUME NEW u \in Built PROVE TransportInv(u)'
  BY <1>1 DEF StateInv, ConnectionInv, Shape, TransportInv, CloseNice, Built, NiceFields,
     DtlsFields
<1>4. QED
  BY <1>1, <1>2, <1>3 DEF StateInv, ConnectionInv, Built

LEMMA JoinThreadsKeeps ==
    ASSUME StateInv, NEW t, t = Deleted, JoinThreads
    PROVE  StateInv'
<1>1. /\ conn.pc = "joining" /\ ~Open /\ ~Open'
      /\ conn' = [conn EXCEPT !.pc = "deleting", !.have = @ \ {t}]
      /\ dtls' = Without(dtls, t) /\ nice' = Without(nice, t)
      /\ phase' = phase
  BY DEF JoinThreads, StateInv, ConnectionInv, Shape, Open
<1>2. Shape'
  BY <1>1 DEF StateInv, ConnectionInv, Shape, Open, Built, Without
<1>3. Built' = Built \ {t}
  BY <1>1 DEF Built, Without
<1>4. ASSUME NEW u \in Built \ {t} PROVE TransportInv(u)'
  BY <1>1 DEF StateInv, ConnectionInv, Shape, TransportInv, Built, Without
<1>5. QED
  BY <1>1, <1>2, <1>3, <1>4 DEF StateInv, ConnectionInv

(* updateState, from either thread of a transport. *)

\* When a transport tells of its candidates and all have them, it is the last to
\* do so, and the connection is not READY yet.
LEMMA AllGathered ==
    ASSUME StateInv, Open, ~conn.trickle, NEW t \in Built, nice[t].call = GatheredCall,
           AllIn("GATHERED"), conn.have # {}
    PROVE  /\ conn.todo = {} /\ conn.state # "READY"
           /\ \A u \in Built : nice[u].gathered /\ nice[u].call # CandidatesCall
           /\ conn.offer.bundle => Built = {t}
<1>1. Built \subseteq Used /\ conn.have \cap conn.todo = {} /\ conn.pc # "new"
  BY OffersAssumption DEF StateInv, ConnectionInv, Shape, Building, Used, ToBuild
<1>2. TransportInv(t)
  BY DEF StateInv
<1>3. CASE conn.offer.bundle
  <2>1. Used = {"video"} /\ t = "video" /\ Built = {t}
    BY <1>1, <1>3 DEF Used
  <2>2. conn.todo = {}
    BY <1>1, <2>1 DEF StateInv, ConnectionInv, Building
  <2>3. ~conn.answered
    BY <1>2, <1>3 DEF TransportInv, Goes
  <2>4. conn.state = "INITIAL"
    BY <2>3 DEF StateInv, ConnectionInv, Reports
  <2>5. nice[t].gathered /\ nice[t].call # CandidatesCall
    BY <1>2 DEF TransportInv, GatheredCall, CandidatesCall
  <2>6. QED
    BY <1>3, <2>1, <2>2, <2>4, <2>5
<1>4. CASE ~conn.offer.bundle
  <2>1. Used = conn.offer.media /\ \A u \in Used : u \in conn.have /\ dtls[u].state = "GATHERED"
    BY <1>4 DEF Used, AllIn
  <2>2. conn.todo = {}
    BY <1>1, <2>1 DEF StateInv, ConnectionInv, Building
  <2>3. \A u \in Built : nice[u].gathered /\ nice[u].call # CandidatesCall
    BY <1>1, <2>1 DEF StateInv, TransportInv
  <2>4. conn.state # "READY"
    BY <1>1, <1>2, <1>4, <2>1 DEF StateInv, ConnectionInv, Reports, TransportInv, Goes
  <2>5. QED
    BY <1>4, <2>2, <2>3, <2>4
<1>5. QED
  BY <1>3, <1>4

\* The call of t is made: what updateState(s) does.
Updates(t, s) ==
    /\ UpdateState(s)
    /\ s \in {"GATHERED", "READY", "FAILED"}
    /\ s = "GATHERED" => nice[t].call = GatheredCall
    /\ (Open /\ ~conn.trickle /\ ~conn.answered) => s = "GATHERED"
    /\ DOMAIN nice' = DOMAIN nice /\ DOMAIN dtls' = DOMAIN dtls /\ net' = net
    /\ \A u \in Built : u # t => nice'[u] = nice[u] /\ dtls'[u] = dtls[u]
    /\ \/ nice'[t] = [nice[t] EXCEPT !.call = <<>>] /\ dtls'[t] = dtls[t]
       \/ s # "GATHERED" /\ nice'[t] = nice[t] /\ dtls'[t] = [dtls[t] EXCEPT !.call = <<>>]

LEMMA NiceUpdates ==
    ASSUME StateInv, NEW t \in Built, NiceUpdatesState(t)
    PROVE  \E s \in {"GATHERED", "READY", "FAILED"} : Updates(t, s)
<1>1. nice[t].call \in {GatheredCall, <<"transport", "FAILED">>}
  BY DEF NiceUpdatesState, Calls, StateInv, TransportInv, NiceCalls, CandidatesCall, GatheredCall
<1>2. nice[t].call[2] \in {"GATHERED", "FAILED"}
      /\ (nice[t].call[2] = "GATHERED" => nice[t].call = GatheredCall)
  BY <1>1 DEF GatheredCall
<1>3. (Open /\ ~conn.trickle /\ ~conn.answered) => nice[t].call[2] = "GATHERED"
  BY <1>1 DEF StateInv, TransportInv, Waits, CandidatesCall, GatheredCall
<1>4. Updates(t, nice[t].call[2])
  BY <1>2, <1>3 DEF NiceUpdatesState, Updates, Built
<1>5. QED
  BY <1>2, <1>4

LEMMA ReaderUpdates ==
    ASSUME StateInv, NEW t \in Built, ReaderUpdatesState(t)
    PROVE  \E s \in {"GATHERED", "READY", "FAILED"} : Updates(t, s)
<1>1. dtls[t].call # <<>> /\ dtls[t].call[2] \in {"READY", "FAILED"}
  BY DEF ReaderUpdatesState, Calls, StateInv, TransportInv
<1>2. ~(Open /\ ~conn.trickle /\ ~conn.answered)
  BY <1>1 DEF StateInv, TransportInv, Waits
<1>3. Updates(t, dtls[t].call[2])
  BY <1>1, <1>2 DEF ReaderUpdatesState, Updates, Built, StateInv, ConnectionInv, Shape
<1>4. QED
  BY <1>1, <1>3

\* The state becomes that of the update, or is not changed.
LEMMA NewStates ==
    ASSUME NEW s, NewState(s) # conn.state
    PROVE  /\ NewState(s) = s /\ conn.have # {} /\ conn.state # "FAILED"
           /\ s # "FAILED" => AllIn(s) /\ ~(s = "GATHERED" /\ conn.trickle)
BY DEF NewState, Failed

LEMMA UpdateKeeps ==
    ASSUME StateInv, NEW t \in Built, NEW s, Updates(t, s)
    PROVE  StateInv'
<1> DEFINE new == NewState(s)
           told == new # conn.state /\ phase # "closed"
<1>1. /\ DOMAIN conn' = DOMAIN conn /\ conn'.state = new
      /\ conn'.answered = (conn.answered \/ (told /\ new = "GATHERED"))
      /\ conn'.offer = conn.offer /\ conn'.trickle = conn.trickle /\ conn'.have = conn.have
      /\ conn'.todo = conn.todo /\ conn'.pc = conn.pc
      /\ reported' = (IF told THEN new ELSE reported) /\ phase' = phase
  BY DEF Updates, UpdateState, StateInv, ConnectionInv, Shape
<1>2. /\ Built' = Built /\ DOMAIN dtls' = DOMAIN dtls /\ Used' = Used /\ ToBuild' = ToBuild
      /\ Open' = Open /\ net' = net
  BY <1>1 DEF Updates, Built, Used, ToBuild, Open
<1>3. conn.answered \in BOOLEAN /\ conn.trickle \in BOOLEAN /\ conn.offer.bundle \in BOOLEAN
  BY OffersAssumption DEF StateInv, ConnectionInv, Shape
<1>4. new # conn.state =>
          /\ new = s /\ conn.have # {} /\ conn.state # "FAILED"
          /\ s # "FAILED" => AllIn(s) /\ ~(s = "GATHERED" /\ conn.trickle)
  BY NewStates
<1>5. s \in {"GATHERED", "READY", "FAILED"} /\ (s = "GATHERED" => nice[t].call = GatheredCall)
      /\ ((Open /\ ~conn.trickle /\ ~conn.answered) => s = "GATHERED")
  BY DEF Updates
<1> HIDE DEF new
<1>6. (Open /\ ~conn.trickle /\ told /\ new = "GATHERED") =>
          /\ conn.todo = {} /\ conn.state # "READY"
          /\ \A u \in Built : nice[u].gathered /\ nice[u].call # CandidatesCall
          /\ conn.offer.bundle => Built = {t}
  BY <1>4, <1>5, AllGathered
<1>7. Shape'
  BY <1>1, <1>2 DEF StateInv, ConnectionInv, Shape, Open
<1>8. Open => Building'
  BY <1>1, <1>2 DEF StateInv, ConnectionInv, Building
<1>9. Open => Reports'
  BY <1>1, <1>2, <1>3, <1>4, <1>5, <1>6 DEF StateInv, ConnectionInv, Reports, Open
<1>10. ASSUME NEW u \in Built PROVE TransportInv(u)'
  <2>1. /\ nice'[u] = nice[u] \/ (nice'[u] = [nice[u] EXCEPT !.call = <<>>])
        /\ dtls'[u] = dtls[u] \/ (dtls'[u] = [dtls[u] EXCEPT !.call = <<>>])
    BY DEF Updates
  <2>2. TransportInv(u)
    BY DEF StateInv
  <2>3. /\ DOMAIN nice'[u] = NiceFields /\ DOMAIN dtls'[u] = DtlsFields
        /\ nice'[u].call \in {nice[u].call, <<>>} /\ dtls'[u].call \in {dtls[u].call, <<>>}
        /\ nice'[u].gathered = nice[u].gathered /\ nice'[u].queue = nice[u].queue
        /\ dtls'[u].state = dtls[u].state /\ dtls'[u].resender = dtls[u].resender
    BY <2>1, <2>2 DEF TransportInv, NiceFields, DtlsFields
  <2>4. /\ nice'[u].call \in {CandidatesCall, GatheredCall} => nice'[u].call = nice[u].call
        /\ nice'[u].call \in NiceCalls
        /\ (dtls'[u].call # <<>> /\ dtls'[u].call[1] = "transport") =>
               dtls'[u].call[2] \in {"READY", "FAILED"}
    BY <2>2, <2>3 DEF TransportInv, NiceCalls, CandidatesCall, GatheredCall
  <2>5. (Open /\ ~conn.trickle /\ conn'.answered) =>
            /\ nice[u].gathered /\ nice[u].call # CandidatesCall
            /\ conn.offer.bundle => nice'[u].call # GatheredCall
            /\ (~conn.offer.bundle /\ new = "READY") => dtls[u].state \in {"READY", "FAILED"}
    <3>1. CASE told /\ new = "GATHERED"
      <4>1. (Open /\ ~conn.trickle) => nice[u].gathered /\ nice[u].call # CandidatesCall
        BY <1>6, <3>1
      <4>2. nice'[t].call # GatheredCall
        BY <1>4, <1>5, <3>1 DEF Updates, GatheredCall, StateInv, TransportInv, NiceFields
      <4>3. QED
        BY <1>6, <3>1, <4>1, <4>2
    <3>2. CASE ~(told /\ new = "GATHERED")
      <4>1. conn'.answered = conn.answered
        BY <1>1, <1>3, <3>2
      <4>2. (Open /\ ~conn.trickle /\ conn.answered) => Goes(u)
        BY <2>2 DEF TransportInv
      <4>3. Open => u \in Used
        BY OffersAssumption DEF StateInv, ConnectionInv, Building, Shape, Used, ToBuild
      <4>4. (Open /\ new = "READY" /\ conn.state # "READY" /\ ~conn.offer.bundle) =>
                dtls[u].state = "READY"
        BY <1>4, <4>3 DEF AllIn, Used
      <4>5. QED
        BY <2>4, <4>1, <4>2, <4>4 DEF Goes
    <3>3. QED
      BY <3>1, <3>2
  <2>6. (Open /\ ~conn.trickle /\ ~conn'.answered) =>
            /\ nice'[u].call \in {<<>>, CandidatesCall, GatheredCall} /\ nice[u].queue = <<>>
            /\ dtls'[u].call = <<>> /\ dtls[u].resender = {}
    <3>1. (Open /\ ~conn.trickle /\ ~conn'.answered) => Waits(u)
      BY <1>1, <2>2 DEF TransportInv
    <3>2. QED
      BY <2>3, <3>1 DEF Waits
  <2>7. /\ nice'[u].call \in {CandidatesCall, GatheredCall} => nice'[u].gathered
        /\ dtls'[u].state = "GATHERED" => nice'[u].gathered /\ nice'[u].call # CandidatesCall
    BY <2>2, <2>3, <2>4 DEF TransportInv
  <2>8. (Open /\ ~conn.trickle) => IF conn'.answered THEN Goes(u)' ELSE Waits(u)'
    BY <1>1, <2>3, <2>4, <2>5, <2>6 DEF Goes, Waits
  <2>9. QED
    BY <1>1, <1>2, <2>3, <2>4, <2>7, <2>8 DEF TransportInv
<1>11. QED
  BY <1>2, <1>7, <1>8, <1>9, <1>10 DEF StateInv, ConnectionInv

-----------------------------------------------------------------------------
LEMMA InitState == Init => StateInv
BY DEF Init, StateInv, ConnectionInv, Shape, Building, Reports, Built, Open, ToBuild

LEMMA NodeStepKeeps ==
    ASSUME StateInv, NodeStep
    PROVE  StateInv'
BY SetRemoteSdpKeeps, BuildTransportKeeps, AssignTransportKeeps, SetRemoteSdpReturnsKeeps,
   EndKeeps, DeleteTransportKeeps, JoinThreadsKeeps DEF NodeStep

\* The steps that the connection takes no part in.
LEMMA SameKeeps ==
    ASSUME StateInv, Next, Same
    PROVE  StateInv' \/ NodeStep \/ Destroy \/ \E t \in Built : NiceUpdatesState(t)
                     \/ ReaderUpdatesState(t)
<1>1. ASSUME NEW t \in Built, NiceThread(t) PROVE StateInv' \/ NiceUpdatesState(t)
  BY <1>1, OnGatheredKeeps, OnIceFailedKeeps, OnIceReadyKeeps, NiceLoopEndsKeeps DEF NiceThread
<1>2. ASSUME NEW t \in Built, ReadingThread(t) PROVE StateInv' \/ ReaderUpdatesState(t)
  BY <1>2, OnDtlsPacketKeeps, DataLoopEndsKeeps, OnHandshakeCompletedKeeps DEF ReadingThread
<1>3. ASSUME NEW t \in Built, Ice(t) PROVE StateInv'
  BY <1>3, SelectedPairKeeps, ComponentFailsKeeps DEF Ice
<1>4. ASSUME NEW t \in Built, Error(t) PROVE StateInv'
  BY <1>4, OnDtlsErrorKeeps, OnHandshakeCompletedKeeps DEF Error
<1>5. ASSUME Network PROVE StateInv'
  BY <1>5, ReceiveKeeps DEF Network
<1>6. QED
  BY <1>1, <1>2, <1>3, <1>4, <1>5, ResendKeeps, NiceGathersKeeps, LoseKeeps DEF Next

\* Every other step is one of Node or the call of updateState.
LEMMA Steps ==
    ASSUME Next
    PROVE  Same \/ NodeStep \/ Destroy
           \/ \E t \in Built : NiceUpdatesState(t) \/ ReaderUpdatesState(t)
BY DEF Next, NiceThread, ReadingThread

LEMMA NextState == StateInv /\ [Next]_vars => StateInv'
<1> SUFFICES ASSUME StateInv, [Next]_vars PROVE StateInv'
  OBVIOUS
<1>1. CASE NodeStep \/ Destroy
  BY <1>1, NodeStepKeeps, EndKeeps
<1>2. ASSUME NEW t \in Built, NiceUpdatesState(t) \/ ReaderUpdatesState(t) PROVE StateInv'
  BY <1>2, NiceUpdates, ReaderUpdates, UpdateKeeps
<1>3. CASE Next /\ Same
  BY <1>1, <1>2, <1>3, SameKeeps
<1>4. CASE UNCHANGED vars
  BY <1>4 DEF vars, transportVars, StateInv, ConnectionInv, Shape, Building, Reports, Built, Used,
     ToBuild, Open, TransportInv, Goes, Waits
<1>5. QED
  BY <1>1, <1>2, <1>3, <1>4, Steps

\* Without trickle every transport waits for the answer, and goes on only after it,
\* whatever its threads have written and not yet told the connection.
THEOREM StateInvariant == Spec => []StateInv
BY InitState, NextState, PTL DEF Spec

(* The step simulation. *)

LEMMA UpdateReports ==
    ASSUME StateInv, NEW t \in Built, NEW s, Updates(t, s)
    PROVE  Promised!Next \/ UNCHANGED <<reported, phase>>
<1> DEFINE new == NewState(s)
<1>1. /\ phase' = phase /\ phase \in {"open", "finishing", "closed"}
      /\ reported' = IF new # conn.state /\ phase # "closed" THEN new ELSE reported
  BY DEF Updates, UpdateState, StateInv, ConnectionInv, Shape
<1>2. s \in {"GATHERED", "READY", "FAILED"} /\ (s = "GATHERED" => nice[t].call = GatheredCall)
  BY DEF Updates
<1>3. new # conn.state =>
          /\ new = s /\ conn.have # {} /\ conn.state # "FAILED"
          /\ s # "FAILED" => AllIn(s) /\ ~(s = "GATHERED" /\ conn.trickle)
  BY NewStates
<1> HIDE DEF new
<1>4. CASE phase = "open" /\ new # conn.state
  <2>1. reported = conn.state /\ conn.state \in {"INITIAL", "GATHERED", "READY"}
    BY <1>3, <1>4 DEF StateInv, ConnectionInv, Reports, Open
  <2>2. new = "GATHERED" => conn.state # "READY"
    BY <1>2, <1>3, <1>4, AllGathered DEF Open
  <2>3. Promised!Order[new] > Promised!Order[reported]
    BY <1>2, <1>3, <1>4, <2>1, <2>2 DEF Promised!Order
  <2>4. Promised!Report
    BY <1>1, <1>2, <1>3, <1>4, <2>3 DEF Promised!Report
  <2>5. QED
    BY <2>4 DEF Promised!Next
<1>5. CASE phase = "finishing" /\ new # conn.state
  BY <1>1, <1>2, <1>3, <1>5 DEF Promised!Next, Promised!Late
<1>6. QED
  BY <1>1, <1>4, <1>5

LEMMA StepSimulates ==
    StateInv /\ [Next]_vars => [Promised!Next]_<<reported, phase>>
<1> SUFFICES ASSUME StateInv, [Next]_vars
             PROVE  Promised!Next \/ UNCHANGED <<reported, phase>>
  OBVIOUS
<1>1. CASE NodeStep
  BY <1>1 DEF NodeStep, SetRemoteSdp, BuildTransport, AssignTransport, SetRemoteSdpReturns,
     Unlisten, DeleteTransport, JoinThreads, DestructorReturns, StateInv, ConnectionInv, Shape,
     Promised!Next, Promised!Close
<1>2. CASE Destroy
  BY <1>2 DEF Destroy, StateInv, ConnectionInv, Shape, Open, Promised!Next, Promised!Finish
<1>3. ASSUME NEW t \in Built, NiceUpdatesState(t) \/ ReaderUpdatesState(t)
      PROVE  Promised!Next \/ UNCHANGED <<reported, phase>>
  BY <1>3, NiceUpdates, ReaderUpdates, UpdateReports
<1>4. CASE Same \/ UNCHANGED vars
  BY <1>4 DEF Same, vars
<1>5. QED
  BY <1>1, <1>2, <1>3, <1>4, Steps

\* A connection implements what ConnectionState promises its process: the states
\* it reports go forward, each at most once, nothing but the end follows FAILED,
\* and nothing at all follows once the listener is taken away.
THEOREM ConnectionImplementsStates == Spec => ReportsInOrder
<1>1. Init => Promised!Init
  BY DEF Init, Promised!Init
<1>2. QED
  BY <1>1, StepSimulates, StateInvariant, PTL DEF Spec, ReportsInOrder, Promised!Spec

-----------------------------------------------------------------------------
(* What READY is worth: the keys of the components. *)

ReadyCall == <<"transport", "READY">>

Packets(comps) == [comp : comps, flight : 1 .. Flights]
Messages(comps) == [media : Media, comp : comps, flight : 1 .. Flights]

\* A handshake that has ended, with keys still to come.
Completed(d, c) == d.step[c] = Done /\ d.keys[c] = "none"

\* All components have their keys.
Keyed(d, comps) == \A c \in comps : d.keys[c] = "set"

DtlsCalls(d, comps) ==
    {<<>>, ReadyCall, <<"transport", "FAILED">>}
      \cup {<<"completed", c>> : c \in {c \in comps : Completed(d, c)}}

\* A transport n, d: a component gets its keys once, after its handshake, and the
\* transport is READY only with all of them.
Sound(n, d, comps) ==
    /\ n.state \in IceStates
    /\ n.queue \in Seq(Packets(comps)) /\ Len(n.queue) <= NiceQueueBound
    /\ d.state \in TransportStates
    /\ d.step \in [comps -> 0 .. Broken]
    /\ d.keys \in [comps -> {"none", "set", "bad"}]
    /\ d.resender \subseteq comps
    /\ \A c \in d.resender : d.step[c] \in 1 .. Flights
    /\ \A c \in comps : d.keys[c] # "none" => d.step[c] = Done
    /\ d.call \in DtlsCalls(d, comps)
    /\ (d.state = "READY" \/ d.call = ReadyCall) => Keyed(d, comps)

\* Without trickle nothing takes READY away but a failure.
Stays(t) ==
    (phase = "open" /\ ~conn.trickle /\ dtls[t].call = ReadyCall) =>
        dtls[t].state \in {"READY", "FAILED"}

ConnTyped ==
    /\ conn.state \in ConnectionStates /\ conn.pc \in PCs /\ conn.early \in BOOLEAN
    /\ reported \in ConnectionStates
    /\ conn.have \subseteq Built /\ Built \subseteq Media
    /\ net \subseteq Messages(conn.offer.comps)

ReadyInv ==
    (phase = "open" /\ conn.state = "READY") =>
        \A t \in Used :
            /\ t \in Built
            /\ Keyed(dtls[t], conn.offer.comps)
            /\ conn.trickle \/ dtls[t].state \in {"READY", "FAILED"}

SoundInv ==
    /\ ConnTyped
    /\ \A t \in Built : Sound(nice[t], dtls[t], conn.offer.comps) /\ Stays(t)
    /\ ReadyInv

-----------------------------------------------------------------------------
(* The methods of one transport, as operators on its two records. *)

LEMMA CallsDiffer ==
    /\ ReadyCall # <<>> /\ <<"transport", "FAILED">> # <<>>
    /\ <<"transport", "FAILED">> # ReadyCall
    /\ \A c : <<"completed", c>> # <<>> /\ <<"completed", c>> # ReadyCall
BY DEF ReadyCall

\* The parts that a change of the states alone has to keep.
LEMMA SameHandshake ==
    ASSUME NEW n, NEW d, NEW comps, Sound(n, d, comps), NEW m, NEW e,
           m.state \in IceStates, m.queue = n.queue,
           e.step = d.step, e.keys = d.keys, e.resender = d.resender,
           e.state \in TransportStates, e.call \in {d.call, <<>>},
           e.state = "READY" => d.state = "READY"
    PROVE  Sound(m, e, comps)
<1>1. \A c : Completed(e, c) <=> Completed(d, c)
  BY DEF Completed
<1>2. e.call \in DtlsCalls(e, comps)
  BY <1>1 DEF Sound, DtlsCalls
<1>3. (e.state = "READY" \/ e.call = ReadyCall) => Keyed(e, comps)
  <2>1. (d.state = "READY" \/ d.call = ReadyCall) => Keyed(d, comps)
    BY DEF Sound
  <2>2. e.call = ReadyCall => d.call = ReadyCall
    BY CallsDiffer
  <2>3. QED
    BY <2>1, <2>2 DEF Keyed
<1>4. QED
  BY <1>2, <1>3 DEF Sound

LEMMA IceStatesStay ==
    ASSUME NEW n, NEW s \in IceStates, NEW c, DOMAIN n = NiceFields, n.state \in IceStates
    PROVE  /\ UpdateIceState(n, s).state \in IceStates
           /\ UpdateIceState(n, s).queue = n.queue
           /\ UpdateComponentState(n, c, s).state \in IceStates
           /\ UpdateComponentState(n, c, s).queue = n.queue
           /\ GatheringDone(n).state \in IceStates
           /\ GatheringDone(n).queue = n.queue
<1>1. "CANDIDATES_RECEIVED" \in IceStates BY DEF IceStates
<1>2. ASSUME NEW m, DOMAIN m = NiceFields, m.state \in IceStates, NEW v \in IceStates
      PROVE  UpdateIceState(m, v).state \in IceStates /\ UpdateIceState(m, v).queue = m.queue
  BY <1>2 DEF UpdateIceState, NiceFields
<1>3. /\ DOMAIN [n EXCEPT !.comps[c] = s] = NiceFields
      /\ [n EXCEPT !.comps[c] = s].state = n.state
      /\ [n EXCEPT !.comps[c] = s].queue = n.queue
  BY DEF NiceFields
<1>4. /\ DOMAIN [n EXCEPT !.gathered = TRUE] = NiceFields
      /\ [n EXCEPT !.gathered = TRUE].state = n.state
      /\ [n EXCEPT !.gathered = TRUE].queue = n.queue
  BY DEF NiceFields
<1>5. /\ UpdateComponentState(n, c, s).state \in IceStates
      /\ UpdateComponentState(n, c, s).queue = n.queue
  BY <1>2, <1>3 DEF UpdateComponentState
<1>6. GatheringDone(n).state \in IceStates /\ GatheringDone(n).queue = n.queue
  BY <1>1, <1>2, <1>4 DEF GatheringDone
<1>7. QED
  BY <1>2, <1>5, <1>6

\* The other transports are left alone.
Here(t) ==
    /\ DOMAIN nice' = DOMAIN nice /\ DOMAIN dtls' = DOMAIN dtls
    /\ \A u \in Built : u # t => nice'[u] = nice[u] /\ dtls'[u] = dtls[u]

\* A step of the transport t that the connection takes no part in, and what it
\* leaves of its keys and of READY.
SoundStep(t) ==
    /\ Here(t)
    /\ net' \subseteq Messages(conn.offer.comps)
    /\ Sound(nice'[t], dtls'[t], conn.offer.comps)
    /\ Keyed(dtls[t], conn.offer.comps) => Keyed(dtls'[t], conn.offer.comps)
    /\ dtls'[t].call # ReadyCall \/ dtls'[t].call = dtls[t].call
         \/ dtls'[t].state \in {"READY", "FAILED"}
    /\ dtls[t].state \in {"READY", "FAILED"} =>
          \/ dtls'[t].state \in {"READY", "FAILED"}
          \/ nice[t].call = CandidatesCall

LEMMA SoundStepKeeps ==
    ASSUME StateInv, SoundInv, Same, NEW t \in Built, SoundStep(t)
    PROVE  SoundInv'
<1>1. /\ Built' = Built /\ Used' = Used /\ conn' = conn /\ reported' = reported
      /\ phase' = phase
  BY DEF SoundStep, Here, Same, Built, Used
<1>2. ConnTyped'
  BY <1>1 DEF SoundStep, SoundInv, ConnTyped
<1>3. ASSUME Open, ~conn.trickle, conn.answered \/ dtls[t].call # <<>>
      PROVE  nice[t].call # CandidatesCall
  BY <1>3 DEF StateInv, TransportInv, Goes, Waits
<1>4. ASSUME NEW u \in Built
      PROVE  /\ Sound(nice'[u], dtls'[u], conn.offer.comps)
             /\ (Open /\ ~conn.trickle /\ dtls'[u].call = ReadyCall) =>
                    dtls'[u].state \in {"READY", "FAILED"}
  <2>1. CASE u # t
    BY <2>1 DEF SoundStep, Here, SoundInv, Stays, Open
  <2>2. CASE u = t
    BY <1>3, <2>2 DEF SoundStep, SoundInv, Stays, ReadyCall, Open
  <2>3. QED
    BY <2>1, <2>2
<1>5. ASSUME Open, conn.state = "READY", NEW u \in Used
      PROVE  /\ u \in Built /\ Keyed(dtls'[u], conn.offer.comps)
             /\ conn.trickle \/ dtls'[u].state \in {"READY", "FAILED"}
  <2>1. /\ u \in Built /\ Keyed(dtls[u], conn.offer.comps)
        /\ conn.trickle \/ dtls[u].state \in {"READY", "FAILED"}
    BY <1>5 DEF SoundInv, ReadyInv, Open
  <2>2. ~conn.trickle => conn.answered
    BY <1>5 DEF StateInv, ConnectionInv, Reports
  <2>3. CASE u # t
    BY <2>1, <2>3 DEF SoundStep, Here
  <2>4. CASE u = t
    BY <1>3, <1>5, <2>1, <2>2, <2>4 DEF SoundStep
  <2>5. QED
    BY <2>3, <2>4
<1>6. (\A u \in Built : Sound(nice[u], dtls[u], conn.offer.comps) /\ Stays(u))'
  BY <1>1, <1>4 DEF Stays, Open
<1>7. ReadyInv'
  BY <1>1, <1>5 DEF ReadyInv, Open
<1>8. QED
  BY <1>2, <1>6, <1>7 DEF SoundInv

\* A step that changes neither handshake nor keys.
LEMMA StatesStep ==
    ASSUME StateInv, SoundInv, NEW t \in Built, NEW n, NEW d,
           Here(t), nice'[t] = n, dtls'[t] = d,
           net' \subseteq Messages(conn.offer.comps),
           n.state \in IceStates, n.queue = nice[t].queue,
           d.step = dtls[t].step, d.keys = dtls[t].keys, d.resender = dtls[t].resender,
           d.state \in TransportStates, d.call \in {dtls[t].call, <<>>},
           \/ d.state = dtls[t].state
           \/ d.state = "FAILED"
           \/ d.state = "GATHERED" /\ nice[t].call = CandidatesCall
    PROVE  SoundStep(t)
<1>2. Sound(nice[t], dtls[t], conn.offer.comps)
  BY DEF SoundInv
<1>3. Sound(n, d, conn.offer.comps)
  BY <1>2, SameHandshake
<1>4. Keyed(dtls[t], conn.offer.comps) => Keyed(d, conn.offer.comps)
  BY DEF Keyed
<1>5. d.call # ReadyCall \/ d.call = dtls[t].call
  BY CallsDiffer
<1>6. QED
  BY <1>3, <1>4, <1>5 DEF SoundStep

LEMMA NiceThreadSound ==
    ASSUME StateInv, SoundInv, NEW t \in Built,
           OnGathered(t) \/ OnIceFailed(t) \/ NiceLoopEnds(t)
    PROVE  SoundStep(t)
<1> DEFINE n == nice'[t]
           d == dtls'[t]
<1>1. /\ DOMAIN nice[t] = NiceFields /\ DOMAIN dtls[t] = DtlsFields /\ DOMAIN dtls = Built
      /\ net \subseteq Messages(conn.offer.comps)
      /\ nice[t].state \in IceStates /\ dtls[t].state \in TransportStates
  BY DEF StateInv, ConnectionInv, Shape, TransportInv, SoundInv, ConnTyped, Sound
<1>2. /\ n.state = nice[t].state /\ n.queue = nice[t].queue
      /\ d.step = dtls[t].step /\ d.keys = dtls[t].keys /\ d.resender = dtls[t].resender
      /\ d.call = dtls[t].call
      /\ net' = net
  BY <1>1 DEF OnGathered, OnIceFailed, NiceLoopEnds, NiceFields, DtlsFields, Built
<1>3. \/ d.state = dtls[t].state
      \/ d.state = "FAILED"
      \/ d.state = "GATHERED" /\ nice[t].call = CandidatesCall
  BY <1>1 DEF OnGathered, OnIceFailed, NiceLoopEnds, CandidatesCall, DtlsFields, Built
<1>4. Here(t)
  BY <1>1 DEF OnGathered, OnIceFailed, NiceLoopEnds, Here, Built
<1>5. {"FAILED", "GATHERED"} \subseteq TransportStates
  BY DEF TransportStates
<1>6. /\ n.state \in IceStates /\ d.state \in TransportStates
      /\ net' \subseteq Messages(conn.offer.comps)
  BY <1>1, <1>2, <1>3, <1>5
<1>7. nice'[t] = n /\ dtls'[t] = d
  OBVIOUS
<1> HIDE DEF n, d
<1>8. QED
  BY <1>2, <1>3, <1>4, <1>6, <1>7, StatesStep

\* Steps of libnice.
LEMMA IceSound ==
    ASSUME StateInv, SoundInv, NEW t \in Built, NEW c, NEW s \in {"READY", "FAILED"},
           \/ nice' = [nice EXCEPT ![t] = GatheringDone(@)]
           \/ nice' = [nice EXCEPT ![t] = UpdateComponentState(@, c, s)],
           dtls' = dtls, net' = net
    PROVE  SoundStep(t)
<1> DEFINE n == nice'[t]
           d == dtls'[t]
<1>1. /\ DOMAIN nice[t] = NiceFields /\ DOMAIN dtls = Built
      /\ net \subseteq Messages(conn.offer.comps)
      /\ nice[t].state \in IceStates /\ dtls[t].state \in TransportStates
  BY DEF StateInv, ConnectionInv, Shape, TransportInv, SoundInv, ConnTyped, Sound
<1>2. n = GatheringDone(nice[t]) \/ n = UpdateComponentState(nice[t], c, s)
  BY DEF Built
<1>3. d = dtls[t] /\ Here(t)
  BY DEF Here, Built
<1>4. s \in IceStates
  BY DEF IceStates
<1> HIDE DEF n
<1>5. n.state \in IceStates /\ n.queue = nice[t].queue
  BY <1>1, <1>2, <1>4, IceStatesStay
<1>6. nice'[t] = n
  BY DEF n
<1>7. QED
  BY <1>1, <1>3, <1>5, <1>6, StatesStep

LEMMA DataLoopEndsSound ==
    ASSUME StateInv, SoundInv, NEW t \in Built, DataLoopEnds(t)
    PROVE  SoundStep(t)
<1> DEFINE d == dtls'[t]
<1>1. /\ DOMAIN dtls[t] = DtlsFields /\ DOMAIN dtls = Built
      /\ net \subseteq Messages(conn.offer.comps)
      /\ nice[t].state \in IceStates /\ dtls[t].state \in TransportStates
  BY DEF StateInv, ConnectionInv, Shape, TransportInv, SoundInv, ConnTyped, Sound
<1>2. /\ d.step = dtls[t].step /\ d.keys = dtls[t].keys /\ d.resender = dtls[t].resender
      /\ d.call = dtls[t].call /\ d.state = dtls[t].state
      /\ net' = net /\ nice' = nice
  BY <1>1 DEF DataLoopEnds, DtlsFields, Built
<1>3. Here(t)
  BY <1>1 DEF DataLoopEnds, Here, Built
<1>4. dtls'[t] = d
  OBVIOUS
<1> HIDE DEF d
<1>5. QED
  BY <1>1, <1>2, <1>3, <1>4, StatesStep

\* The parts that a step of the handshake has to keep.
LEMMA HandshakeStep ==
    ASSUME NEW n, NEW d, NEW comps, Sound(n, d, comps), NEW m, NEW e,
           m.state = n.state, m.queue \in Seq(Packets(comps)), Len(m.queue) <= NiceQueueBound,
           e.state = d.state, e.keys = d.keys, e.step \in [comps -> 0 .. Broken],
           e.resender \subseteq comps, \A c \in e.resender : e.step[c] \in 1 .. Flights,
           \A c \in comps : d.step[c] = Done => e.step[c] = Done,
           e.call = d.call \/ \E c \in comps : e.call = <<"completed", c>> /\ Completed(e, c)
    PROVE  Sound(m, e, comps)
<1>1. \A c \in comps : Completed(d, c) => Completed(e, c)
  BY DEF Completed
<1>2. e.call \in DtlsCalls(e, comps)
  BY <1>1 DEF Sound, DtlsCalls
<1>3. (e.state = "READY" \/ e.call = ReadyCall) => Keyed(e, comps)
  BY CallsDiffer DEF Sound, Keyed
<1>4. \A c \in comps : e.keys[c] # "none" => e.step[c] = Done
  BY DEF Sound
<1>5. QED
  BY <1>2, <1>3, <1>4 DEF Sound

LEMMA ToPeerSends ==
    ASSUME NEW t \in Media, NEW c \in conn.offer.comps, NEW k \in 1 .. Flights
    PROVE  ToPeer(t, c, k) \subseteq Messages(conn.offer.comps)
BY DEF ToPeer, Messages

\* A step of the handshake of t.
LEMMA HandshakeSound ==
    ASSUME StateInv, SoundInv, NEW t \in Built, NEW n, NEW d,
           Here(t), nice'[t] = n, dtls'[t] = d,
           net' \subseteq Messages(conn.offer.comps),
           n.state = nice[t].state, n.queue \in Seq(Packets(conn.offer.comps)),
           Len(n.queue) <= NiceQueueBound,
           d.state = dtls[t].state, d.keys = dtls[t].keys,
           d.step \in [conn.offer.comps -> 0 .. Broken],
           d.resender \subseteq conn.offer.comps,
           \A c \in d.resender : d.step[c] \in 1 .. Flights,
           \A c \in conn.offer.comps : dtls[t].step[c] = Done => d.step[c] = Done,
           \/ d.call = dtls[t].call
           \/ \E c \in conn.offer.comps : d.call = <<"completed", c>> /\ Completed(d, c)
    PROVE  SoundStep(t)
<1>1. Sound(nice[t], dtls[t], conn.offer.comps)
  BY DEF SoundInv
<1>2. Sound(n, d, conn.offer.comps)
  BY <1>1, HandshakeStep
<1>3. Keyed(dtls[t], conn.offer.comps) => Keyed(d, conn.offer.comps)
  BY DEF Keyed
<1>4. d.call # ReadyCall \/ d.call = dtls[t].call
  BY CallsDiffer
<1>5. QED
  BY <1>2, <1>3, <1>4 DEF SoundStep

\* What SoundInv says of one transport, field by field.
LEMMA SoundFields ==
    ASSUME StateInv, SoundInv, NEW t \in Built
    PROVE  /\ DOMAIN nice[t] = NiceFields /\ DOMAIN dtls[t] = DtlsFields
           /\ DOMAIN dtls = Built /\ t \in Media
           /\ net \subseteq Messages(conn.offer.comps)
           /\ nice[t].queue \in Seq(Packets(conn.offer.comps))
           /\ Len(nice[t].queue) <= NiceQueueBound
           /\ dtls[t].step \in [conn.offer.comps -> 0 .. Broken]
           /\ dtls[t].keys \in [conn.offer.comps -> {"none", "set", "bad"}]
           /\ dtls[t].resender \subseteq conn.offer.comps
           /\ \A c \in dtls[t].resender : dtls[t].step[c] \in 1 .. Flights
           /\ \A c \in conn.offer.comps : dtls[t].keys[c] # "none" => dtls[t].step[c] = Done
BY DEF StateInv, ConnectionInv, Shape, TransportInv, SoundInv, ConnTyped, Sound

LEMMA OnIceReadySound ==
    ASSUME StateInv, SoundInv, NEW t \in Built, OnIceReady(t)
    PROVE  SoundStep(t)
<1> DEFINE n == nice'[t]
           d == dtls'[t]
           comps == conn.offer.comps
           step == dtls[t].step
<1>1. /\ DOMAIN nice[t] = NiceFields /\ DOMAIN dtls[t] = DtlsFields
      /\ DOMAIN dtls = Built /\ t \in Media
      /\ step \in [comps -> 0 .. Broken] /\ dtls[t].resender \subseteq comps
      /\ \A c \in dtls[t].resender : step[c] \in 1 .. Flights
  BY SoundFields
<1>2. /\ n.state = nice[t].state /\ n.queue = nice[t].queue
      /\ d.state = dtls[t].state /\ d.keys = dtls[t].keys /\ d.call = dtls[t].call
      /\ d.step = [c \in DOMAIN step |-> IF c \in Starts(t) THEN 1 ELSE step[c]]
      /\ d.resender = dtls[t].resender \cup Starts(t)
      /\ net' = net \cup UNION {ToPeer(t, c, 1) : c \in Starts(t)}
  BY <1>1 DEF OnIceReady, NiceFields, DtlsFields, Built
<1>3. Here(t)
  BY <1>1 DEF OnIceReady, Here, Built
<1>4. Starts(t) \subseteq comps /\ \A c \in Starts(t) : step[c] = 0
  BY <1>1 DEF Starts
<1>5. d.step \in [comps -> 0 .. Broken]
  BY <1>1, <1>2 DEF Broken, Flights
<1>6. \A c \in d.resender : d.step[c] \in 1 .. Flights
  BY <1>1, <1>2, <1>4 DEF Flights
<1>7. \A c \in comps : step[c] = Done => d.step[c] = Done
  BY <1>1, <1>2, <1>4 DEF Done, Flights
<1>8. net' \subseteq Messages(comps)
  <2>1. \A c \in Starts(t) : ToPeer(t, c, 1) \subseteq Messages(comps)
    BY <1>1, <1>4, ToPeerSends DEF Flights
  <2>2. QED
    BY <1>2, <2>1, SoundFields
<1>9. nice'[t] = n /\ dtls'[t] = d /\ d.resender \subseteq comps
  BY <1>1, <1>2, <1>4
<1>10. n.queue \in Seq(Packets(comps)) /\ Len(n.queue) <= NiceQueueBound
  BY <1>2, SoundFields
<1> HIDE DEF n, d
<1>11. QED
  BY <1>2, <1>3, <1>5, <1>6, <1>7, <1>8, <1>9, <1>10, HandshakeSound

LEMMA HeadAndTail ==
    ASSUME NEW comps, NEW q \in Seq(Packets(comps)), q # <<>>, Len(q) <= NiceQueueBound
    PROVE  /\ Head(q).comp \in comps /\ Head(q).flight \in 1 .. Flights
           /\ Tail(q) \in Seq(Packets(comps)) /\ Len(Tail(q)) <= NiceQueueBound
<1>1. Head(q) \in Packets(comps)
  OBVIOUS
<1>2. Tail(q) \in Seq(Packets(comps)) /\ Len(Tail(q)) <= NiceQueueBound
  BY NiceQueueAssumption
<1>3. QED
  BY <1>1, <1>2 DEF Packets

LEMMA OnDtlsPacketSound ==
    ASSUME StateInv, SoundInv, NEW t \in Built, OnDtlsPacket(t)
    PROVE  SoundStep(t)
<1> DEFINE n == nice'[t]
           d == dtls'[t]
           comps == conn.offer.comps
           step == dtls[t].step
           p == Head(nice[t].queue)
           c == p.comp
           due == p.flight = step[c]
           last == due /\ p.flight = Flights
           next == due /\ ~last
<1>1. /\ DOMAIN nice[t] = NiceFields /\ DOMAIN dtls[t] = DtlsFields
      /\ DOMAIN dtls = Built /\ t \in Media
      /\ nice[t].queue \in Seq(Packets(comps)) /\ nice[t].queue # <<>>
      /\ Len(nice[t].queue) <= NiceQueueBound
      /\ step \in [comps -> 0 .. Broken] /\ dtls[t].resender \subseteq comps
      /\ \A x \in dtls[t].resender : step[x] \in 1 .. Flights
  BY SoundFields DEF OnDtlsPacket, Reads
<1>2. /\ c \in comps /\ p.flight \in 1 .. Flights
      /\ Tail(nice[t].queue) \in Seq(Packets(comps)) /\ Len(Tail(nice[t].queue)) <= NiceQueueBound
  BY <1>1, HeadAndTail
<1>3. /\ n.state = nice[t].state /\ n.queue = Tail(nice[t].queue)
      /\ d.state = dtls[t].state /\ d.keys = dtls[t].keys
      /\ d.call = IF last THEN <<"completed", c>> ELSE dtls[t].call
      /\ d.step = [step EXCEPT ![c] = IF due THEN @ + 1 ELSE @]
      /\ d.resender = IF next THEN dtls[t].resender \cup {c} ELSE dtls[t].resender \ {c}
      /\ net' = net \cup (IF next THEN ToPeer(t, c, p.flight + 1) ELSE {})
  BY <1>1 DEF OnDtlsPacket, NiceFields, DtlsFields, Built
<1>4. Here(t)
  BY <1>1 DEF OnDtlsPacket, Here, Built
<1>5. n.queue \in Seq(Packets(comps)) /\ Len(n.queue) <= NiceQueueBound
  BY <1>2, <1>3
<1>6. /\ d.step \in [comps -> 0 .. Broken] /\ d.resender \subseteq comps
      /\ \A x \in d.resender : d.step[x] \in 1 .. Flights
      /\ \A x \in comps : step[x] = Done => d.step[x] = Done
      /\ next => p.flight + 1 \in 1 .. Flights
  <2> DEFINE f == p.flight
             e == dtls[t].resender
             after == d.step
             left == d.resender
  <2>1. /\ f \in 1 .. Flights /\ c \in comps /\ e \subseteq comps
        /\ \A x \in e : step[x] \in 1 .. Flights /\ step \in [comps -> 0 .. Broken]
        /\ after = [step EXCEPT ![c] = IF f = step[c] THEN @ + 1 ELSE @]
        /\ left = IF f = step[c] /\ f # Flights THEN e \cup {c} ELSE e \ {c}
        /\ next => f # Flights
    BY <1>1, <1>2, <1>3
  <2> HIDE DEF f, e, after, left, step, comps, c
  <2>2. step \in [comps -> 0 .. Broken]
    BY <1>1
  <2>3. after \in [comps -> 0 .. Broken] /\ left \subseteq comps
    <3>1. (IF f = step[c] THEN step[c] + 1 ELSE step[c]) \in 0 .. Broken
      BY <2>1, <2>2 DEF Broken, Flights
    <3>2. QED
      BY <2>1, <2>2, <3>1
  <2>4. ASSUME NEW x \in left PROVE after[x] \in 1 .. Flights
    <3>1. CASE x = c
      BY <2>1, <2>2, <2>4, <3>1 DEF Flights
    <3>2. CASE x # c
      BY <2>1, <2>2, <2>4, <3>2
    <3>3. QED
      BY <3>1, <3>2
  <2>5. ASSUME NEW x \in comps, step[x] = Done PROVE after[x] = Done
    BY <2>1, <2>2, <2>5 DEF Done, Flights
  <2>6. next => f + 1 \in 1 .. Flights
    BY <2>1 DEF Flights
  <2>7. QED
    BY <2>3, <2>4, <2>5, <2>6 DEF f, after, left
<1>9. net' \subseteq Messages(comps)
  <2>1. next => ToPeer(t, c, p.flight + 1) \subseteq Messages(comps)
    BY <1>1, <1>2, <1>6, ToPeerSends
  <2>2. QED
    BY <1>3, <2>1, SoundFields
<1>10. last => d.call = <<"completed", c>> /\ Completed(d, c)
  <2>1. last => d.call = <<"completed", c>>
    BY <1>3
  <2>2. \A x \in comps : dtls[t].keys[x] # "none" => step[x] = Done
    BY SoundFields
  <2>3. d.keys = dtls[t].keys /\ d.step = [step EXCEPT ![c] = IF due THEN @ + 1 ELSE @]
    BY <1>3
  <2>4. last => step[c] = Flights /\ due
    BY <1>1
  <2> HIDE DEF d, last, due, step, c, comps
  <2>5. last => d.step[c] = Done /\ step[c] # Done
    BY <1>1, <1>2, <2>3, <2>4 DEF Done, Flights
  <2>6. QED
    BY <1>2, <2>1, <2>2, <2>3, <2>5 DEF Completed
<1>11. /\ nice'[t] = n /\ dtls'[t] = d /\ d.resender \subseteq comps
       /\ d.call = dtls[t].call \/ \E x \in comps : d.call = <<"completed", x>> /\ Completed(d, x)
  BY <1>1, <1>2, <1>3, <1>10
<1> HIDE DEF n, d, p, c, due, last, next
<1>12. QED
  BY <1>3, <1>4, <1>5, <1>6, <1>9, <1>11, HandshakeSound

LEMMA OnDtlsErrorSound ==
    ASSUME StateInv, SoundInv, NEW t \in Built, OnDtlsError(t)
    PROVE  SoundStep(t)
<1> DEFINE n == nice'[t]
           d == dtls'[t]
           comps == conn.offer.comps
           step == dtls[t].step
           c == Head(nice[t].queue).comp
<1>1. /\ DOMAIN nice[t] = NiceFields /\ DOMAIN dtls[t] = DtlsFields
      /\ DOMAIN dtls = Built
      /\ nice[t].queue \in Seq(Packets(comps)) /\ nice[t].queue # <<>>
      /\ Len(nice[t].queue) <= NiceQueueBound
      /\ step \in [comps -> 0 .. Broken] /\ dtls[t].resender \subseteq comps
      /\ \A x \in dtls[t].resender : step[x] \in 1 .. Flights
  BY SoundFields DEF OnDtlsError, Reads
<1>2. /\ c \in comps /\ step[c] < Done
      /\ Tail(nice[t].queue) \in Seq(Packets(comps)) /\ Len(Tail(nice[t].queue)) <= NiceQueueBound
  BY <1>1, HeadAndTail DEF OnDtlsError
<1>3. /\ n.state = nice[t].state /\ n.queue = Tail(nice[t].queue)
      /\ d.state = dtls[t].state /\ d.keys = dtls[t].keys /\ d.call = dtls[t].call
      /\ d.step = [step EXCEPT ![c] = Broken]
      /\ d.resender = dtls[t].resender \ {c}
      /\ net' = net
  BY <1>1 DEF OnDtlsError, NiceFields, DtlsFields, Built
<1>4. Here(t)
  BY <1>1 DEF OnDtlsError, Here, Built
<1>5. n.queue \in Seq(Packets(comps)) /\ Len(n.queue) <= NiceQueueBound
  BY <1>2, <1>3
<1>6. d.step \in [comps -> 0 .. Broken]
  BY <1>1, <1>2, <1>3 DEF Broken, Flights
<1>7. \A x \in d.resender : d.step[x] \in 1 .. Flights
  BY <1>1, <1>2, <1>3
<1>8. \A x \in comps : step[x] = Done => d.step[x] = Done
  BY <1>1, <1>2, <1>3 DEF Done, Flights
<1>9. /\ nice'[t] = n /\ dtls'[t] = d /\ d.resender \subseteq comps
      /\ net' \subseteq Messages(comps)
  BY <1>1, <1>3, SoundFields
<1> HIDE DEF n, d, c
<1>10. QED
  BY <1>3, <1>4, <1>5, <1>6, <1>7, <1>8, <1>9, HandshakeSound

LEMMA ResendSound ==
    ASSUME StateInv, SoundInv, NEW t \in Built, NEW c, Resend(t, c)
    PROVE  SoundStep(t)
<1> DEFINE d == dtls'[t]
           comps == conn.offer.comps
<1>1. /\ DOMAIN dtls[t] = DtlsFields /\ DOMAIN dtls = Built /\ t \in Media
      /\ c \in comps /\ dtls[t].step[c] \in 1 .. Flights
  BY SoundFields DEF Resend
<1>2. /\ nice' = nice
      /\ d.state = dtls[t].state /\ d.keys = dtls[t].keys /\ d.call = dtls[t].call
      /\ d.step = dtls[t].step /\ d.resender = dtls[t].resender \ {c}
      /\ net' = net \cup ToPeer(t, c, dtls[t].step[c])
  BY <1>1 DEF Resend, ResendFlight, DtlsFields, Built
<1>3. Here(t)
  BY <1>1 DEF Resend, Here, Built
<1>4. net' \subseteq Messages(comps)
  BY <1>1, <1>2, SoundFields, ToPeerSends
<1>5. dtls'[t] = d
  OBVIOUS
<1> HIDE DEF d
<1>6. QED
  BY <1>2, <1>3, <1>4, <1>5, SoundFields, HandshakeSound

\* The call of a component whose handshake has ended.
LEMMA CompletedCall ==
    ASSUME StateInv, SoundInv, NEW t \in Built, dtls[t].call # <<>>,
           dtls[t].call[1] = "completed"
    PROVE  dtls[t].call[2] \in conn.offer.comps /\ Completed(dtls[t], dtls[t].call[2])
<1>1. dtls[t].call \in DtlsCalls(dtls[t], conn.offer.comps)
  BY DEF SoundInv, Sound
<1>2. QED
  BY <1>1 DEF DtlsCalls, ReadyCall

LEMMA OnHandshakeCompletedSound ==
    ASSUME StateInv, SoundInv, NEW t \in Built, NEW ok \in BOOLEAN,
           OnHandshakeCompleted(t, ok)
    PROVE  SoundStep(t)
<1> DEFINE d == dtls'[t]
           comps == conn.offer.comps
           c == dtls[t].call[2]
           keys == [dtls[t].keys EXCEPT ![c] = IF ok THEN "set" ELSE "bad"]
           s == IF ~ok THEN "FAILED"
                ELSE IF AllReady(keys, c) THEN "READY" ELSE dtls[t].state
<1>1. /\ DOMAIN dtls[t] = DtlsFields /\ DOMAIN dtls = Built
      /\ Sound(nice[t], dtls[t], comps)
  BY SoundFields DEF SoundInv
<1>2. c \in comps /\ Completed(dtls[t], c)
  BY CompletedCall DEF OnHandshakeCompleted
<1>3. /\ nice' = nice /\ net' = net
      /\ d.state = s /\ d.keys = keys /\ d.call = Told(t, s)
      /\ d.step = dtls[t].step /\ d.resender = dtls[t].resender
  BY <1>1 DEF OnHandshakeCompleted, DtlsFields, Built
<1>4. Here(t)
  BY <1>1 DEF OnHandshakeCompleted, Here, Built
<1>5. ~Keyed(dtls[t], comps) /\ dtls[t].state # "READY"
  BY <1>1, <1>2 DEF Keyed, Completed, Sound
<1>6. /\ keys \in [comps -> {"none", "set", "bad"}]
      /\ \A x \in comps : keys[x] # "none" => dtls[t].step[x] = Done
  BY <1>1, <1>2 DEF Sound, Completed
<1>7. /\ s \in TransportStates /\ s \in {"READY", "FAILED", dtls[t].state}
      /\ s = "READY" => Keyed(d, comps)
  <2>1. s \in TransportStates /\ s \in {"READY", "FAILED", dtls[t].state}
    BY <1>1 DEF Sound, TransportStates
  <2>2. s = "READY" => AllReady(keys, c)
    BY <1>5
  <2>3. QED
    BY <1>3, <1>6, <2>1, <2>2 DEF AllReady, Keyed
<1> HIDE DEF keys, s
<1>8. /\ d.call \in {<<>>, ReadyCall, <<"transport", "FAILED">>}
      /\ d.call = ReadyCall => s = "READY"
  BY <1>3, <1>7 DEF Told, ReadyCall
<1>9. Sound(nice[t], d, comps)
  <2>1. d.call \in DtlsCalls(d, comps)
    BY <1>8 DEF DtlsCalls
  <2>2. QED
    BY <1>1, <1>3, <1>6, <1>7, <1>8, <2>1 DEF Sound
<1>10. QED
  BY <1>3, <1>4, <1>5, <1>7, <1>8, <1>9, SoundFields DEF SoundStep

LEMMA ReceiveSound ==
    ASSUME StateInv, SoundInv, NEW m \in net, m.media \in Built, Receive(m)
    PROVE  SoundStep(m.media)
<1> DEFINE t == m.media
           n == nice'[t]
           q == nice[t].queue
           p == [comp |-> m.comp, flight |-> m.flight]
<1>1. /\ DOMAIN nice[t] = NiceFields /\ m \in Messages(conn.offer.comps)
      /\ q \in Seq(Packets(conn.offer.comps)) /\ Len(q) <= NiceQueueBound
      /\ net' \subseteq Messages(conn.offer.comps)
  BY SoundFields DEF Receive
<1>2. p \in Packets(conn.offer.comps)
  BY <1>1 DEF Messages, Packets
<1>3. n = QueueData(nice[t], p) /\ dtls' = dtls
  BY DEF Receive, Built
<1>4. /\ n.state = nice[t].state
      /\ n.queue = q \/ (Len(q) < NiceQueueBound /\ n.queue = Append(q, p))
  BY <1>1, <1>3 DEF QueueData, NiceFields
<1>5. Here(t)
  BY DEF Receive, Here, Built
<1> HIDE DEF p, n
<1>6. n.queue \in Seq(Packets(conn.offer.comps)) /\ Len(n.queue) <= NiceQueueBound
  <2> DEFINE P == Packets(conn.offer.comps)
  <2>1. q \in Seq(P) /\ Len(q) <= NiceQueueBound /\ p \in P
    BY <1>1, <1>2
  <2> HIDE DEF P, q
  <2>2. Append(q, p) \in Seq(P) /\ Len(Append(q, p)) = Len(q) + 1 /\ Len(q) \in Nat
    BY ONLY <2>1
  <2>3. n.queue \in Seq(P) /\ Len(n.queue) <= NiceQueueBound
    BY <1>4, <2>1, <2>2, NiceQueueAssumption
  <2>4. QED
    BY <2>3 DEF P
<1>7. nice'[t] = n
  BY DEF n
<1>8. QED
  BY <1>1, <1>3, <1>4, <1>5, <1>6, <1>7, SoundFields, HandshakeSound

\* The network, where no transport takes part.
LEMMA NetworkSound ==
    ASSUME StateInv, SoundInv, Same, NEW m \in net,
           Lose(m) \/ (Receive(m) /\ m.media \notin Built)
    PROVE  SoundInv'
<1>1. /\ Built' = Built /\ Used' = Used /\ conn' = conn /\ reported' = reported
      /\ phase' = phase /\ dtls' = dtls /\ net' \subseteq net
      /\ \A t \in Built : nice'[t] = nice[t]
  BY DEF Lose, Receive, Same, Built, Used
<1>2. ConnTyped' /\ ReadyInv'
  BY <1>1 DEF SoundInv, ConnTyped, ReadyInv
<1>3. \A t \in Built : (Sound(nice[t], dtls[t], conn.offer.comps) /\ Stays(t))'
  BY <1>1 DEF SoundInv, Stays
<1>4. QED
  BY <1>1, <1>2, <1>3 DEF SoundInv

LEMMA SameSound ==
    ASSUME StateInv, SoundInv, Next, Same
    PROVE  SoundInv' \/ NodeStep \/ Destroy
           \/ \E t \in Built : NiceUpdatesState(t) \/ ReaderUpdatesState(t)
<1>1. ASSUME NEW t \in Built, NiceThread(t) PROVE SoundInv' \/ NiceUpdatesState(t)
  BY <1>1, NiceThreadSound, OnIceReadySound, SoundStepKeeps DEF NiceThread
<1>2. ASSUME NEW t \in Built, ReadingThread(t) PROVE SoundInv' \/ ReaderUpdatesState(t)
  BY <1>2, OnDtlsPacketSound, DataLoopEndsSound, OnHandshakeCompletedSound, SoundStepKeeps
     DEF ReadingThread
<1>3. ASSUME NEW t \in Built, Ice(t) \/ NiceGathers(t) PROVE SoundInv'
  <2>1. PICK c \in {0} \cup DOMAIN nice[t].comps, s \in {"READY", "FAILED"} :
            /\ \/ nice' = [nice EXCEPT ![t] = GatheringDone(@)]
               \/ nice' = [nice EXCEPT ![t] = UpdateComponentState(@, c, s)]
            /\ dtls' = dtls /\ net' = net
    BY <1>3 DEF Ice, NiceGathers, SelectedPair, ComponentFails
  <2>2. QED
    BY <2>1, IceSound, SoundStepKeeps
<1>4. ASSUME NEW t \in Built, Error(t) PROVE SoundInv'
  BY <1>4, OnDtlsErrorSound, OnHandshakeCompletedSound, SoundStepKeeps DEF Error
<1>5. ASSUME NEW t \in Built, NEW c, Resend(t, c) PROVE SoundInv'
  BY <1>5, ResendSound, SoundStepKeeps
<1>6. ASSUME NEW m \in net, Receive(m) \/ Lose(m) PROVE SoundInv'
  BY <1>6, ReceiveSound, NetworkSound, SoundStepKeeps
<1>7. QED
  BY <1>1, <1>2, <1>3, <1>4, <1>5, <1>6 DEF Next, Network

(* The thread of Node. *)

\* A step that leaves the transports alone.
LEMMA NodeSound ==
    ASSUME StateInv, SoundInv, UNCHANGED transportVars,
           conn'.offer = conn.offer, conn'.trickle = conn.trickle,
           conn'.state \in ConnectionStates, conn'.pc \in PCs, conn'.early \in BOOLEAN,
           conn'.have \subseteq Built, reported' \in ConnectionStates,
           phase' = "open" => phase = "open" /\ conn'.state = conn.state
    PROVE  SoundInv'
<1>1. /\ Built' = Built /\ Used' = Used /\ nice' = nice /\ dtls' = dtls /\ net' = net
  BY DEF transportVars, Built, Used
<1>2. ConnTyped'
  BY <1>1 DEF SoundInv, ConnTyped
<1>3. ReadyInv'
  BY <1>1 DEF SoundInv, ReadyInv
<1>4. \A t \in Built : (Sound(nice[t], dtls[t], conn.offer.comps) /\ Stays(t))'
  BY <1>1 DEF SoundInv, Stays
<1>5. QED
  BY <1>1, <1>2, <1>3, <1>4 DEF SoundInv

LEMMA ShortNodeSteps ==
    ASSUME StateInv, SoundInv,
           \/ SetRemoteSdp \/ AssignTransport \/ SetRemoteSdpReturns
           \/ Destroy \/ Unlisten \/ DestructorReturns
    PROVE  SoundInv'
<1>1. /\ DOMAIN conn = {"state", "offer", "trickle", "todo", "have", "answered", "early", "pc"}
      /\ ConnTyped
      /\ conn.pc = "building" => ToBuild \in Built
  BY DEF StateInv, ConnectionInv, Shape, Building, Open, SoundInv
<1>2. /\ conn'.offer = conn.offer /\ conn'.trickle = conn.trickle
      /\ conn'.state \in {conn.state, "FINISHED"}
      /\ conn'.pc \in PCs /\ conn'.early = conn.early
      /\ conn'.have \subseteq conn.have \cup (IF conn.pc = "building" THEN {ToBuild} ELSE {})
      /\ reported' \in {reported, "FINISHED"}
      /\ phase' = "open" => phase = "open" /\ conn'.state = conn.state
  BY <1>1 DEF SetRemoteSdp, AssignTransport, SetRemoteSdpReturns, Destroy, Unlisten,
     DestructorReturns, PCs
<1>3. UNCHANGED transportVars
  BY DEF SetRemoteSdp, AssignTransport, SetRemoteSdpReturns, Destroy, Unlisten,
     DestructorReturns
<1>4. "FINISHED" \in ConnectionStates
  BY DEF ConnectionStates
<1>5. QED
  BY <1>1, <1>2, <1>3, <1>4, NodeSound DEF ConnTyped

LEMMA NewIsSound ==
    ASSUME NEW comps
    PROVE  Sound(NewNice(comps), NewTransport(comps), comps)
<1> DEFINE n == NewNice(comps)
           d == NewTransport(comps)
<1>1. n.state = "INITIAL" /\ n.queue = <<>>
  BY DEF NewNice
<1>2. /\ d.state = "INITIAL" /\ d.call = <<>> /\ d.resender = {}
      /\ d.step = [c \in comps |-> 0] /\ d.keys = [c \in comps |-> "none"]
  BY DEF NewTransport
<1> HIDE DEF n, d
<1>3. d.step \in [comps -> 0 .. Broken] /\ d.keys \in [comps -> {"none", "set", "bad"}]
  BY <1>2 DEF Broken, Flights
<1>4. n.queue \in Seq(Packets(comps)) /\ Len(n.queue) <= NiceQueueBound
  BY <1>1, NiceQueueAssumption
<1>5. /\ d.call \in DtlsCalls(d, comps) /\ d.call # ReadyCall
      /\ n.state \in IceStates /\ d.state \in TransportStates
  BY <1>1, <1>2 DEF DtlsCalls, ReadyCall, IceStates, TransportStates
<1>6. Sound(n, d, comps)
  BY <1>1, <1>2, <1>3, <1>4, <1>5 DEF Sound
<1>7. QED
  BY <1>6 DEF n, d

LEMMA BuildTransportSound ==
    ASSUME StateInv, SoundInv, NEW t, t = ToBuild, BuildTransport
    PROVE  SoundInv'
<1> DEFINE comps == conn.offer.comps
<1>1. /\ nice' = With(nice, t, NewNice(comps)) /\ dtls' = With(dtls, t, NewTransport(comps))
      /\ conn' = [conn EXCEPT !.pc = "building"] /\ conn.pc = "setRemoteSdp" /\ conn.todo # {}
      /\ reported' = reported /\ phase' = phase /\ net' = net
      /\ DOMAIN conn = {"state", "offer", "trickle", "todo", "have", "answered", "early", "pc"}
      /\ Open /\ DOMAIN dtls = Built
  BY DEF BuildTransport, StateInv, ConnectionInv, Shape, Open
<1>2. t \in conn.todo /\ t \in Media
  BY <1>1, OffersAssumption DEF StateInv, ConnectionInv, Building, Used, ToBuild, Shape
<1>3. t \notin Built /\ Built' = Built \cup {t} /\ Used' = Used
  BY <1>1, <1>2 DEF StateInv, ConnectionInv, Building, Built, With, Used
<1>4. nice'[t] = NewNice(comps) /\ dtls'[t] = NewTransport(comps)
  BY <1>1 DEF With
<1>5. \A u \in Built : nice'[u] = nice[u] /\ dtls'[u] = dtls[u]
  BY <1>1, <1>3 DEF With, Built
<1>6. ConnTyped'
  BY <1>1, <1>2, <1>3 DEF SoundInv, ConnTyped, PCs
<1>7. ReadyInv'
  BY <1>1, <1>3, <1>5 DEF SoundInv, ReadyInv
<1>8. \A u \in Built : (Sound(nice[u], dtls[u], conn.offer.comps) /\ Stays(u))'
  BY <1>1, <1>5 DEF SoundInv, Stays
<1>9. (Sound(nice[t], dtls[t], conn.offer.comps) /\ Stays(t))'
  <2>1. dtls'[t].call = <<>> /\ conn'.offer = conn.offer
    BY <1>1, <1>4 DEF NewTransport
  <2>2. Sound(nice'[t], dtls'[t], conn'.offer.comps)
    BY <1>4, <2>1, NewIsSound
  <2>3. Stays(t)'
    BY <2>1, CallsDiffer DEF Stays
  <2>4. QED
    BY <2>2, <2>3
<1>10. QED
  BY <1>3, <1>6, <1>7, <1>8, <1>9 DEF SoundInv

LEMMA DeleteTransportSound ==
    ASSUME StateInv, SoundInv, NEW t, t = Deleted, DeleteTransport
    PROVE  SoundInv'
<1>1. /\ conn.pc = "deleting" /\ ~Open /\ conn' = [conn EXCEPT !.pc = "joining"]
      /\ dtls' = [dtls EXCEPT ![t].running = FALSE]
      /\ nice' = [nice EXCEPT ![t] = CloseNice(@)]
      /\ reported' = reported /\ phase' = phase /\ net' = net
      /\ DOMAIN conn = {"state", "offer", "trickle", "todo", "have", "answered", "early", "pc"}
      /\ DOMAIN dtls = Built
  BY DEF DeleteTransport, StateInv, ConnectionInv, Shape, Open
<1>2. Built' = Built
  BY <1>1 DEF Built
<1>3. ConnTyped'
  BY <1>1, <1>2 DEF SoundInv, ConnTyped, PCs
<1>4. ASSUME NEW u \in Built PROVE Sound(nice'[u], dtls'[u], conn.offer.comps)
  <2>1. /\ DOMAIN nice[u] = NiceFields /\ DOMAIN dtls[u] = DtlsFields
        /\ Sound(nice[u], dtls[u], conn.offer.comps)
    BY SoundFields DEF SoundInv
  <2>2. /\ nice'[u].queue = nice[u].queue /\ nice'[u].state \in {nice[u].state, "FINISHED"}
        /\ dtls'[u].state = dtls[u].state /\ dtls'[u].step = dtls[u].step
        /\ dtls'[u].keys = dtls[u].keys /\ dtls'[u].resender = dtls[u].resender
        /\ dtls'[u].call = dtls[u].call
    BY <1>1, <2>1 DEF CloseNice, Built, NiceFields, DtlsFields
  <2>3. nice'[u].state \in IceStates
    BY <2>1, <2>2 DEF Sound, IceStates
  <2>4. dtls'[u].state \in TransportStates
    BY <2>1, <2>2 DEF Sound
  <2>5. QED
    BY <2>1, <2>2, <2>3, <2>4, SameHandshake
<1>5. QED
  BY <1>1, <1>2, <1>3, <1>4 DEF SoundInv, ReadyInv, Stays, Open

LEMMA JoinThreadsSound ==
    ASSUME StateInv, SoundInv, NEW t, t = Deleted, JoinThreads
    PROVE  SoundInv'
<1>1. /\ conn.pc = "joining" /\ ~Open
      /\ conn' = [conn EXCEPT !.pc = "deleting", !.have = @ \ {t}]
      /\ dtls' = Without(dtls, t) /\ nice' = Without(nice, t)
      /\ reported' = reported /\ phase' = phase /\ net' \subseteq net
      /\ DOMAIN conn = {"state", "offer", "trickle", "todo", "have", "answered", "early", "pc"}
      /\ DOMAIN dtls = Built
  BY DEF JoinThreads, StateInv, ConnectionInv, Shape, Open
<1>2. Built' = Built \ {t} /\ \A u \in Built \ {t} : nice'[u] = nice[u] /\ dtls'[u] = dtls[u]
  BY <1>1 DEF Built, Without
<1>3. ConnTyped'
  BY <1>1, <1>2 DEF SoundInv, ConnTyped, PCs
<1>4. QED
  BY <1>1, <1>2, <1>3 DEF SoundInv, ReadyInv, Stays, Open

(* updateState: READY is reported with the keys of all components. *)

\* The call of updateState(s) by a thread of t, which is over.
Tells(t, s) ==
    /\ UpdateState(s)
    /\ s \in {"GATHERED", "READY", "FAILED"}
    /\ s = "READY" => dtls[t].call = ReadyCall
    /\ DOMAIN nice' = DOMAIN nice /\ DOMAIN dtls' = DOMAIN dtls /\ net' = net
    /\ \A u \in Built :
          /\ nice'[u].state = nice[u].state /\ nice'[u].queue = nice[u].queue
          /\ dtls'[u].step = dtls[u].step /\ dtls'[u].keys = dtls[u].keys
          /\ dtls'[u].resender = dtls[u].resender /\ dtls'[u].state = dtls[u].state
          /\ dtls'[u].call \in {dtls[u].call, <<>>}

LEMMA NiceTells ==
    ASSUME StateInv, SoundInv, NEW t \in Built, NiceUpdatesState(t)
    PROVE  \E s : Tells(t, s)
<1>1. nice[t].call \in NiceCalls /\ DOMAIN dtls = Built
  BY DEF StateInv, ConnectionInv, Shape, TransportInv
<1>2. nice[t].call[2] \in {"GATHERED", "FAILED"}
  BY <1>1 DEF NiceUpdatesState, Calls, NiceCalls, CandidatesCall, GatheredCall
<1>3. ASSUME NEW u \in Built
      PROVE  nice'[u].state = nice[u].state /\ nice'[u].queue = nice[u].queue
  BY SoundFields DEF NiceUpdatesState, Built, NiceFields
<1>4. QED
  BY <1>1, <1>2, <1>3 DEF NiceUpdatesState, Tells, Built

LEMMA ReaderTells ==
    ASSUME StateInv, SoundInv, NEW t \in Built, ReaderUpdatesState(t)
    PROVE  \E s : Tells(t, s)
<1>1. /\ dtls[t].call \in DtlsCalls(dtls[t], conn.offer.comps) /\ DOMAIN dtls = Built
      /\ dtls[t].call # <<>> /\ dtls[t].call[1] = "transport"
  BY DEF SoundInv, Sound, StateInv, ConnectionInv, Shape, ReaderUpdatesState, Calls
<1>2. dtls[t].call \in {ReadyCall, <<"transport", "FAILED">>}
  BY <1>1 DEF DtlsCalls
<1>3. /\ dtls[t].call[2] \in {"READY", "FAILED"}
      /\ dtls[t].call[2] = "READY" => dtls[t].call = ReadyCall
  BY <1>2 DEF ReadyCall
<1>4. ASSUME NEW u \in Built
      PROVE  /\ dtls'[u].step = dtls[u].step /\ dtls'[u].keys = dtls[u].keys
             /\ dtls'[u].resender = dtls[u].resender /\ dtls'[u].state = dtls[u].state
             /\ dtls'[u].call \in {dtls[u].call, <<>>}
  BY SoundFields DEF ReaderUpdatesState, Built, DtlsFields
<1>5. QED
  BY <1>1, <1>3, <1>4 DEF ReaderUpdatesState, Tells, Built

\* When READY is new, every transport of the offer is built and has its keys.
LEMMA NewReady ==
    ASSUME StateInv, SoundInv, Open, NEW t \in Built, NEW s, Tells(t, s),
           NewState(s) = "READY", conn.state # "READY", NEW u \in Used
    PROVE  /\ u \in Built /\ Keyed(dtls[u], conn.offer.comps)
           /\ conn.trickle \/ dtls[u].state \in {"READY", "FAILED"}
<1>1. s = "READY" /\ AllIn(s) /\ dtls[t].call = ReadyCall /\ conn.have # {}
  BY NewStates DEF Tells
<1>2. Built \subseteq Used /\ conn.have \subseteq Built
  BY OffersAssumption DEF StateInv, ConnectionInv, Shape, Building, Used, ToBuild
<1>3. CASE conn.offer.bundle
  <2>1. u = t
    BY <1>2, <1>3 DEF Used
  <2>2. QED
    BY <1>1, <2>1 DEF SoundInv, Sound, Stays, Open
<1>4. CASE ~conn.offer.bundle
  <2>1. u \in conn.have /\ dtls[u].state = "READY"
    BY <1>1, <1>4 DEF AllIn, Used
  <2>2. QED
    BY <1>2, <2>1 DEF SoundInv, Sound
<1>5. QED
  BY <1>3, <1>4

LEMMA UpdateSound ==
    ASSUME StateInv, SoundInv, NEW t \in Built, NEW s, Tells(t, s)
    PROVE  SoundInv'
<1> DEFINE new == NewState(s)
<1>1. /\ conn'.state = new /\ conn'.offer = conn.offer /\ conn'.trickle = conn.trickle
      /\ conn'.pc = conn.pc /\ conn'.have = conn.have
      /\ conn'.early = (conn.early \/ (conn.pc \in {"setRemoteSdp", "building"}
                                        /\ conn.have # Used))
      /\ reported' \in {reported, new} /\ phase' = phase
  BY DEF Tells, UpdateState, StateInv, ConnectionInv, Shape
<1>2. Built' = Built /\ Used' = Used /\ net' = net
  BY <1>1 DEF Tells, Built, Used
<1>3. new = conn.state \/ new = s
  BY NewStates
<1>4. new \in ConnectionStates
  BY <1>3 DEF Tells, SoundInv, ConnTyped, ConnectionStates
<1>5. ASSUME Open, new = "READY", NEW u \in Used
      PROVE  /\ u \in Built /\ Keyed(dtls[u], conn.offer.comps)
             /\ conn.trickle \/ dtls[u].state \in {"READY", "FAILED"}
  BY <1>5, NewReady DEF SoundInv, ReadyInv, Open
<1> HIDE DEF new
<1>6. ConnTyped'
  BY <1>1, <1>2, <1>4 DEF SoundInv, ConnTyped
<1>7. ReadyInv'
  BY <1>1, <1>2, <1>5 DEF ReadyInv, Open, Keyed, Tells
<1>8. ASSUME NEW u \in Built PROVE (Sound(nice[u], dtls[u], conn.offer.comps) /\ Stays(u))'
  <2>1. /\ Sound(nice[u], dtls[u], conn.offer.comps) /\ Stays(u)
        /\ nice[u].state \in IceStates /\ dtls[u].state \in TransportStates
    BY DEF SoundInv, Sound
  <2>2. Sound(nice'[u], dtls'[u], conn.offer.comps)
    BY <2>1, SameHandshake DEF Tells
  <2>3. Stays(u)'
    BY <1>1, <2>1, CallsDiffer DEF Stays, Tells
  <2>4. QED
    BY <1>1, <2>2, <2>3
<1>9. QED
  BY <1>2, <1>6, <1>7, <1>8 DEF SoundInv

LEMMA InitSound == Init => SoundInv
BY OffersAssumption DEF Init, SoundInv, ConnTyped, ReadyInv, Built, ConnectionStates, PCs

LEMMA NextSound == StateInv /\ SoundInv /\ [Next]_vars => SoundInv'
<1> SUFFICES ASSUME StateInv, SoundInv, [Next]_vars PROVE SoundInv'
  OBVIOUS
<1>1. CASE NodeStep \/ Destroy
  BY <1>1, ShortNodeSteps, BuildTransportSound, DeleteTransportSound, JoinThreadsSound
     DEF NodeStep
<1>2. ASSUME NEW t \in Built, NiceUpdatesState(t) \/ ReaderUpdatesState(t) PROVE SoundInv'
  BY <1>2, NiceTells, ReaderTells, UpdateSound
<1>3. CASE Next /\ Same
  BY <1>1, <1>2, <1>3, SameSound
<1>4. CASE UNCHANGED vars
  BY <1>4, NodeSound DEF vars, SoundInv, ConnTyped
<1>5. QED
  BY <1>1, <1>2, <1>3, <1>4, Steps

\* Whatever the order of its threads, a transport is READY, or about to say so,
\* only with the keys of all its components; and without trickle READY stays.
THEOREM SoundInvariant == Spec => []SoundInv
BY InitSound, NextSound, StateInvariant, PTL DEF Spec

LEMMA SoundConnection == StateInv /\ SoundInv => ConnectionIsSound
<1> SUFFICES ASSUME StateInv, SoundInv PROVE ConnectionIsSound
  OBVIOUS
<1>1. TypeOK
  <2>1. /\ conn.offer \in Offers /\ {conn.trickle, conn.answered} \subseteq BOOLEAN
        /\ phase \in {"open", "finishing", "closed"} /\ DOMAIN dtls = Built /\ ConnTyped
    BY DEF StateInv, ConnectionInv, Shape, SoundInv
  <2>2. ASSUME NEW t \in Built, NEW c \in conn.offer.comps
        PROVE  dtls[t].step[c] \in 0 .. Broken /\ dtls[t].keys[c] \in {"none", "set", "bad"}
    BY SoundFields
  <2>3. ASSUME NEW t \in Built
        PROVE  /\ nice[t].state \in IceStates /\ Len(nice[t].queue) <= NiceQueueBound
               /\ dtls[t].state \in TransportStates
               /\ dtls[t].resender \subseteq conn.offer.comps
    BY DEF SoundInv, Sound
  <2>4. QED
    BY <2>1, <2>2, <2>3 DEF TypeOK, ConnTyped
<1>2. ReadyCanSend
  BY DEF ReadyCanSend, StateInv, ConnectionInv, Reports, Open, SoundInv, ReadyInv, Keyed
<1>3. QED
  BY <1>1, <1>2 DEF ConnectionIsSound

\* While READY is the last state the process heard of, every transport of the
\* offer has the keys of all its components, so that what is sent goes out
\* encrypted; and without trickle its state still allows to send.
THEOREM ReadyIsKept == Spec => []ConnectionIsSound
BY SoundInvariant, StateInvariant, SoundConnection, PTL
=============================================================================
