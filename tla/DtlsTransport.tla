--------------------------- MODULE DtlsTransport ---------------------------
(***************************************************************************)
(* The transports of a connection (liberizo/DtlsTransport.cpp, Transport.h *)
(* and dtls/): each has an ICE connection, a DTLS client per component, a  *)
(* thread that reads what ICE received, and a Resender per component.      *)
(*                                                                         *)
(* The thread of libnice and the reading thread both change the state of   *)
(* the transport: state_ is written first, and the connection is told in a *)
(* call of its own, so a thread can be between the two.                    *)
(*                                                                         *)
(* OpenSSL, libsrtp and the peer are external.  Of a handshake only the    *)
(* flights count: ours are numbered, the peer answers flight k with its    *)
(* flight k, and answers again if it gets it again.  A flight and its      *)
(* answer are one message, which the network may lose.                     *)
(***************************************************************************)
EXTENDS NiceConnection, FiniteSets

CONSTANTS
    Media,         \* transports a connection may have: "video", "audio"
    MaxFaults      \* bound, by the number of transports: messages lost,
                   \* Resenders that fire before a slow answer comes,
                   \* components whose checks fail, handshakes that OpenSSL
                   \* gives up and keys that libsrtp refuses

ASSUME BoundsAssumption == MaxFaults \in [1 .. Cardinality(Media) -> Nat]

VARIABLES
    nice,          \* transport -> its NiceConnection
    dtls,          \* transport -> its DtlsTransport:
                   \*   state      state_
                   \*   running    running_, alive: getNice_Thread_ runs
                   \*   call       what that thread is about to run: <<>>,
                   \*              <<"completed", c>> or <<"transport", s>>
                   \*   step       component -> our flights so far, 0 before
                   \*              start(), Done and Broken at the end
                   \*   keys       component -> "none", "set" or "bad"
                   \*   resender   components whose Resender has not fired
    net,           \* the answers of the peer that are on their way, with our
                   \* flight before them: [media, comp, flight]
    faults         \* faults so far

transportVars == <<nice, dtls, net, faults>>

Flights == 2
Done == Flights + 1
Broken == Flights + 2

TransportStates == {"INITIAL", "GATHERED", "READY", "FAILED"}
FaultKinds == {"loss", "error", "early"}

NewTransport(components) ==
    [state |-> "INITIAL", running |-> TRUE, alive |-> TRUE, call |-> <<>>,
     step |-> [c \in components |-> 0], keys |-> [c \in components |-> "none"],
     resender |-> {}]

ToPeer(t, c, k) ==
    IF Sends(nice[t]) THEN {[media |-> t, comp |-> c, flight |-> k]} ELSE {}

NoFaults == [kind \in FaultKinds |-> 0]
Fault(kind) ==
    /\ faults["loss"] + faults["error"] + faults["early"] < MaxFaults[Cardinality(DOMAIN nice)]
    /\ faults' = [faults EXCEPT ![kind] = @ + 1]

\* What a thread runs after updateTransportState(s): nothing if s is not new.
Told(t, s) == IF dtls[t].state = s THEN <<>> ELSE <<"transport", s>>

(* The libnice thread: updateIceState of the listener. *)

OnGathered(t) ==
    /\ nice[t].call = <<"ice", "CANDIDATES_RECEIVED">>
    /\ nice' = [nice EXCEPT ![t].call = Told(t, "GATHERED")]
    /\ dtls' = [dtls EXCEPT ![t].state = "GATHERED"]
    /\ UNCHANGED <<net, faults>>

OnIceFailed(t) ==
    /\ nice[t].call = <<"ice", "FAILED">>
    /\ nice' = [nice EXCEPT ![t].call = Told(t, "FAILED")]
    /\ dtls' = [dtls EXCEPT ![t].state = "FAILED", ![t].running = FALSE]
    /\ UNCHANGED <<net, faults>>

\* Components whose DTLS is started; a handshake that has begun ignores it.
Starts(t) == {c \in DOMAIN dtls[t].step : dtls[t].step[c] = 0}

OnIceReady(t) ==
    /\ nice[t].call = <<"ice", "READY">>
    /\ nice' = [nice EXCEPT ![t].call = <<>>]
    /\ dtls' = [dtls EXCEPT
           ![t].step = [c \in DOMAIN @ |-> IF c \in Starts(t) THEN 1 ELSE @[c]],
           ![t].resender = @ \cup Starts(t)]
    /\ net' = net \cup UNION {ToPeer(t, c, 1) : c \in Starts(t)}
    /\ UNCHANGED faults

NiceLoopEnds(t) ==
    /\ Idle(nice[t]) /\ LoopEnds(nice[t])
    /\ nice' = [nice EXCEPT ![t].alive = FALSE]
    /\ UNCHANGED <<dtls, net, faults>>

(* The reading thread: getNiceDataLoop. *)

Reads(t) ==
    /\ dtls[t].alive /\ dtls[t].call = <<>> /\ dtls[t].running
    /\ ~Ended(nice[t]) /\ nice[t].queue # <<>>

\* onNiceData with a DTLS packet: it stops the Resender, whatever it answers. The
\* flight that is due moves the handshake on, any other changes nothing. Our
\* next flight gets a Resender of its own.
OnDtlsPacket(t) ==
    LET p == Head(nice[t].queue)
        c == p.comp
        due == p.flight = dtls[t].step[c]
        last == due /\ p.flight = Flights
        next == due /\ ~last
    IN  /\ Reads(t)
        /\ nice' = [nice EXCEPT ![t].queue = Tail(@)]
        /\ dtls' = [dtls EXCEPT
               ![t].step[c] = IF due THEN @ + 1 ELSE @,
               ![t].resender = IF next THEN @ \cup {c} ELSE @ \ {c},
               ![t].call = IF last THEN <<"completed", c>> ELSE @]
        /\ net' = net \cup (IF next THEN ToPeer(t, c, p.flight + 1) ELSE {})
        /\ UNCHANGED faults

\* OpenSSL reports an error: it is logged, and the handshake does not go on.
OnDtlsError(t) ==
    LET c == Head(nice[t].queue).comp
    IN  /\ Reads(t)
        /\ dtls[t].step[c] < Done
        /\ Fault("error")
        /\ nice' = [nice EXCEPT ![t].queue = Tail(@)]
        /\ dtls' = [dtls EXCEPT ![t].step[c] = Broken, ![t].resender = @ \ {c}]
        /\ UNCHANGED net

\* Mutant: the last component decides.
ReadyIf(keys, c) == keys[c] = "set"

\* readyRtp_ && readyRtcp_
AllReady(keys, c) == \A d \in DOMAIN keys : keys[d] = "set"

\* onHandshakeCompleted: libsrtp may refuse the keys.
OnHandshakeCompleted(t, ok) ==
    LET c == dtls[t].call[2]
        keys == [dtls[t].keys EXCEPT ![c] = IF ok THEN "set" ELSE "bad"]
        s == IF ~ok THEN "FAILED"
             ELSE IF AllReady(keys, c) THEN "READY" ELSE dtls[t].state
    IN  /\ dtls[t].call # <<>> /\ dtls[t].call[1] = "completed"
        /\ IF ok THEN UNCHANGED faults ELSE Fault("error")
        /\ dtls' = [dtls EXCEPT ![t].keys = keys, ![t].state = s,
                                ![t].call = Told(t, s)]
        /\ UNCHANGED <<nice, net>>

\* Mutant: the state, which another thread may overwrite, is trusted to end it.
DataLoopFinished(t) == nice[t].state = "FINISHED"

DataLoopOver(t) == Ended(nice[t]) \/ ~dtls[t].running

DataLoopEnds(t) ==
    /\ dtls[t].alive /\ dtls[t].call = <<>>
    /\ DataLoopOver(t)
    /\ dtls' = [dtls EXCEPT ![t].alive = FALSE, ![t].running = FALSE]
    /\ UNCHANGED <<nice, net, faults>>

(* The thread of a Resender. *)

\* Mutant: the timer ends without sending.
ResendNothing(t, c) == {}

ResendFlight(t, c) == ToPeer(t, c, dtls[t].step[c])

\* The exchange of a component takes more than three seconds.
Slow(t, c) ==
    \/ \E m \in net : m.media = t /\ m.comp = c
    \/ \E i \in DOMAIN nice[t].queue : nice[t].queue[i].comp = c

\* resend(): once, three seconds after the flight.
Resend(t, c) ==
    /\ c \in dtls[t].resender
    /\ IF Slow(t, c) THEN Fault("early") ELSE UNCHANGED faults
    /\ dtls' = [dtls EXCEPT ![t].resender = @ \ {c}]
    /\ net' = net \cup ResendFlight(t, c)
    /\ UNCHANGED nice

(* libnice, the network and the peer. *)

NiceGathers(t) ==
    /\ Idle(nice[t]) /\ ~nice[t].gathered
    /\ nice' = [nice EXCEPT ![t] = GatheringDone(@)]
    /\ UNCHANGED <<dtls, net, faults>>

\* A pair of candidates works.
SelectedPair(t, c) ==
    /\ Idle(nice[t])
    /\ nice' = [nice EXCEPT ![t] = UpdateComponentState(@, c, "READY")]
    /\ UNCHANGED <<dtls, net, faults>>

\* The checks of a component have failed.
ComponentFails(t, c) ==
    /\ Idle(nice[t])
    /\ Fault("error")
    /\ nice' = [nice EXCEPT ![t] = UpdateComponentState(@, c, "FAILED")]
    /\ UNCHANGED <<dtls, net>>

Receive(m) ==
    /\ Idle(nice[m.media])
    /\ net' = net \ {m}
    /\ nice' = [nice EXCEPT ![m.media] = QueueData(@, [comp |-> m.comp, flight |-> m.flight])]
    /\ UNCHANGED <<dtls, faults>>

Lose(m) ==
    /\ Fault("loss")
    /\ net' = net \ {m}
    /\ UNCHANGED <<nice, dtls>>
=============================================================================
