-------------------------- MODULE WebRtcConnection --------------------------
(***************************************************************************)
(* A connection with a client (liberizo/WebRtcConnection.cpp): the offer   *)
(* builds its transports, the states of the transports are folded into the *)
(* one state the process hears of, and the destructor ends their threads.  *)
(*                                                                         *)
(* Actors: the thread of Node (constructor, setRemoteSdp, destructor), and *)
(* for every transport the thread of libnice, the reading thread and the   *)
(* threads of the Resenders.  updateState runs under a mutex and is one    *)
(* step; the state of the transport it is about was written before.        *)
(* The sending thread and the media are in MediaPath.                      *)
(***************************************************************************)
EXTENDS DtlsTransport, Maps

CONSTANT
    Offers         \* offers a client sends: [bundle, media, comps]

ASSUME OffersAssumption ==
    /\ Media = {"audio", "video"}
    /\ \A offer \in Offers : offer.bundle \in BOOLEAN /\ offer.media \subseteq Media

VARIABLES
    conn,          \* state     globalState_
                   \* offer     remoteSdp_, trickle: trickleEnabled_
                   \* todo      transports setRemoteSdp has yet to build
                   \* have      the transports the connection has a pointer to
                   \* answered  the client has our description
                   \* early     an update came before the pointers were set
                   \* pc        what the thread of Node runs
    reported,      \* the last state given to connEventListener_
    phase          \* "open", "finishing": the destructor has reported the
                   \* end, "closed": there is no listener

vars == <<conn, reported, phase, transportVars>>

ConnectionStates == {"INITIAL", "GATHERED", "READY", "FAILED", "FINISHED"}
PCs == {"new", "setRemoteSdp", "building", "open", "finishing", "deleting", "joining", "freed"}

Init ==
    /\ \E offer \in Offers, trickle \in BOOLEAN :
          conn = [state |-> "INITIAL", offer |-> offer, trickle |-> trickle,
                  todo |-> {}, have |-> {}, answered |-> FALSE, early |-> FALSE,
                  pc |-> "new"]
    /\ reported = "INITIAL" /\ phase = "open"
    /\ nice = <<>> /\ dtls = <<>> /\ net = {}
    /\ faults = NoFaults

Built == DOMAIN nice

\* The transports an offer needs.
Used == IF conn.offer.bundle THEN {"video"} ELSE conn.offer.media

(* The thread of Node. *)

SetRemoteSdp ==
    /\ conn.pc = "new"
    /\ conn' = [conn EXCEPT !.pc = "setRemoteSdp", !.todo = Used]
    /\ UNCHANGED <<reported, phase, transportVars>>

\* The transport that is built: that of video comes first.
ToBuild == IF "video" \in conn.todo THEN "video" ELSE "audio"

\* new DtlsTransport(...): its threads run from here on.
BuildTransport ==
    LET t == ToBuild
    IN  /\ conn.pc = "setRemoteSdp" /\ conn.todo # {}
        /\ nice' = With(nice, t, NewNice(conn.offer.comps))
        /\ dtls' = With(dtls, t, NewTransport(conn.offer.comps))
        /\ conn' = [conn EXCEPT !.pc = "building"]
        /\ UNCHANGED <<reported, phase, net, faults>>

\* videoTransport_ = ..., audioTransport_ = ...
AssignTransport ==
    /\ conn.pc = "building"
    /\ conn' = [conn EXCEPT !.pc = "setRemoteSdp", !.have = @ \cup {ToBuild},
                            !.todo = @ \ {ToBuild}]
    /\ UNCHANGED <<reported, phase, transportVars>>

\* With trickle the description goes out before there are candidates.
SetRemoteSdpReturns ==
    /\ conn.pc = "setRemoteSdp" /\ conn.todo = {}
    /\ conn' = [conn EXCEPT !.pc = "open", !.answered = @ \/ conn.trickle]
    /\ UNCHANGED <<reported, phase, transportVars>>

(* updateState: the thread of libnice or the reading thread of t. *)

\* Mutant: FAILED is left again.
NeverStuck == FALSE

Failed == conn.state = "FAILED"

\* Mutant: the transport of a bundle is not told apart.
AllMedia(s) == \A t \in conn.offer.media : t \in conn.have /\ dtls[t].state = s

\* Every medium of the offer is in state s.
AllIn(s) ==
    \/ conn.offer.bundle
    \/ \A t \in conn.offer.media : t \in conn.have /\ dtls[t].state = s

NewState(s) ==
    IF conn.have = {} \/ Failed THEN conn.state
    ELSE IF s = "FAILED" THEN s
    ELSE IF AllIn(s) /\ ~(s = "GATHERED" /\ conn.trickle) THEN s
    ELSE conn.state

\* The report of GATHERED holds the answer.
UpdateState(s) ==
    LET new == NewState(s)
        told == new # conn.state /\ phase # "closed"
    IN  /\ conn' = [conn EXCEPT
               !.state = new,
               !.answered = @ \/ (told /\ new = "GATHERED"),
               !.early = @ \/ (conn.pc \in {"setRemoteSdp", "building"}
                                  /\ conn.have # Used)]
        /\ reported' = IF told THEN new ELSE reported
        /\ UNCHANGED phase

Calls(r, t) == r[t].call # <<>> /\ r[t].call[1] = "transport"

NiceUpdatesState(t) ==
    /\ Calls(nice, t)
    /\ UpdateState(nice[t].call[2])
    /\ nice' = [nice EXCEPT ![t].call = <<>>]
    /\ UNCHANGED <<dtls, net, faults>>

ReaderUpdatesState(t) ==
    /\ Calls(dtls, t)
    /\ UpdateState(dtls[t].call[2])
    /\ dtls' = [dtls EXCEPT ![t].call = <<>>]
    /\ UNCHANGED <<nice, net, faults>>

(* The destructor, on the thread of Node. *)

Destroy ==
    /\ conn.pc = "open"
    /\ conn' = [conn EXCEPT !.pc = "finishing", !.state = "FINISHED"]
    /\ reported' = "FINISHED" /\ phase' = "finishing"
    /\ UNCHANGED transportVars

Unlisten ==
    /\ conn.pc = "finishing"
    /\ conn' = [conn EXCEPT !.pc = "deleting", !.state = "FINISHED"]
    /\ phase' = "closed"
    /\ UNCHANGED <<reported, transportVars>>

\* The transport that is deleted: video goes first.
Deleted == IF "video" \in conn.have THEN "video" ELSE "audio"

DeleteTransport ==
    LET t == Deleted
    IN  /\ conn.pc = "deleting" /\ conn.have # {}
        /\ conn' = [conn EXCEPT !.pc = "joining"]
        /\ dtls' = [dtls EXCEPT ![t].running = FALSE]
        /\ nice' = [nice EXCEPT ![t] = CloseNice(@)]
        /\ UNCHANGED <<reported, phase, net, faults>>

\* The join of the thread of libnice gives up after 500 ms; that of the reading
\* thread and those of the Resenders wait.
JoinThreads ==
    LET t == Deleted
    IN  /\ conn.pc = "joining"
        /\ ~dtls[t].alive
        /\ conn' = [conn EXCEPT !.pc = "deleting", !.have = @ \ {t}]
        /\ nice' = Without(nice, t)
        /\ dtls' = Without(dtls, t)
        /\ net' = {m \in net : m.media # t}
        /\ UNCHANGED <<reported, phase, faults>>

DestructorReturns ==
    /\ conn.pc = "deleting" /\ conn.have = {}
    /\ conn' = [conn EXCEPT !.pc = "freed"]
    /\ UNCHANGED <<reported, phase, transportVars>>

NodeStep ==
    \/ SetRemoteSdp \/ BuildTransport \/ AssignTransport \/ SetRemoteSdpReturns
    \/ Unlisten \/ DeleteTransport \/ JoinThreads \/ DestructorReturns

Same == UNCHANGED <<conn, reported, phase>>

NiceThread(t) ==
    \/ Same /\ (OnGathered(t) \/ OnIceFailed(t) \/ OnIceReady(t) \/ NiceLoopEnds(t))
    \/ NiceUpdatesState(t)

ReadingThread(t) ==
    \/ Same /\ (OnDtlsPacket(t) \/ DataLoopEnds(t) \/ OnHandshakeCompleted(t, TRUE))
    \/ ReaderUpdatesState(t)

\* The checks of libnice need the answer, with which the client begins its own.
Ice(t) ==
    /\ conn.answered
    /\ \E c \in DOMAIN nice[t].comps : SelectedPair(t, c) \/ ComponentFails(t, c)

\* The error paths of OpenSSL and libsrtp.
Error(t) == OnDtlsError(t) \/ OnHandshakeCompleted(t, FALSE)

Network == \E m \in net : Receive(m)

Next ==
    \/ NodeStep
    \/ Destroy
    \/ \E t \in Built : NiceThread(t) \/ ReadingThread(t)
    \/ Same /\ \E t \in Built :
          \/ \E c \in conn.offer.comps : Resend(t, c)
          \/ NiceGathers(t) \/ Ice(t) \/ Error(t)
    \/ Same /\ (Network \/ \E m \in net : Lose(m))

\* Threads are scheduled, what is sent arrives unless it is lost, and libnice
\* ends its gathering.
Fairness ==
    /\ WF_vars(NodeStep)
    /\ WF_vars(Same /\ Network)
    /\ \A t \in Media :
          /\ WF_vars(t \in Built /\ NiceThread(t))
          /\ WF_vars(t \in Built /\ ReadingThread(t))
          /\ WF_vars(t \in Built /\ Same /\ NiceGathers(t))
          /\ WF_vars(t \in Built /\ Same /\ \E c \in conn.offer.comps : Resend(t, c))

Spec == Init /\ [][Next]_vars /\ Fairness
------------------------------------------------------------------------------
\* Types of the state of a connection, its transports and its network.
TypeOK ==
    /\ conn.state \in ConnectionStates /\ conn.pc \in PCs
    /\ conn.offer \in Offers /\ conn.have \subseteq Built
    /\ {conn.trickle, conn.answered, conn.early} \subseteq BOOLEAN
    /\ reported \in ConnectionStates /\ phase \in {"open", "finishing", "closed"}
    /\ Built \subseteq Media /\ DOMAIN dtls = Built
    /\ \A t \in Built :
          /\ nice[t].state \in IceStates
          /\ Len(nice[t].queue) <= NiceQueueBound
          /\ dtls[t].state \in TransportStates
          /\ dtls[t].resender \subseteq conn.offer.comps
          /\ \A c \in conn.offer.comps :
                /\ dtls[t].step[c] \in 0 .. Broken
                /\ dtls[t].keys[c] \in {"none", "set", "bad"}

\* While READY is what the process last heard, every transport of the offer has
\* the keys of all its components, and without trickle it can send: its state is
\* READY, or FAILED with the report still to come (WebRtcConnection::updateState,
\* DtlsTransport::onHandshakeCompleted, DtlsTransport::write).
ReadyCanSend ==
    (reported = "READY" /\ phase = "open") =>
        \A t \in Used :
            /\ \A c \in conn.offer.comps : dtls[t].keys[c] = "set"
            /\ conn.trickle \/ dtls[t].state \in {"READY", "FAILED"}

\* What a connection, its transports and its process hold of each other.
ConnectionIsSound == TypeOK /\ ReadyCanSend

\* The process hears of states in the order the abstract connection promises.
Promised == INSTANCE ConnectionState WITH reported <- reported, phase <- phase
ReportsInOrder == Promised!Spec

\* Once all transports of an offer without trickle have their candidates, the
\* answer goes out, whatever the order of the two threads in updateState, unless
\* an update came before the pointers were set.
AnswerIsSent ==
    (~conn.trickle /\ Built = Used /\ \A t \in Used : dtls[t].state = "GATHERED")
        ~> (conn.answered \/ conn.early \/ phase # "open")

\* A component of an open connection whose handshake has begun; one whose
\* handshake has ended, or cannot go on for a reason that is not a lost message.
Component(t, c) == t \in Built /\ c \in conn.offer.comps
Begun(t, c) ==
    IF Component(t, c) /\ ~conn.trickle THEN dtls[t].step[c] = 1 ELSE FALSE
Settled(t, c) ==
    IF Component(t, c) /\ conn.pc = "open"
    THEN \/ dtls[t].keys[c] = "set"
         \/ faults["error"] > 0 \/ faults["early"] > 0
    ELSE TRUE

\* A handshake that loses one message ends: the Resender replaces what is lost,
\* unless it fired early, or OpenSSL or ICE gave up. With trickle the gathering
\* may end after READY and take that state away, and with it what is sent then.
HandshakeEnds == \A t \in Media, c \in {1, 2} : Begun(t, c) ~> Settled(t, c)

\* The destructor ends, whatever the threads of the transports were doing.
DestructorEnds == conn.pc = "finishing" ~> conn.pc = "freed"

==============================================================================
