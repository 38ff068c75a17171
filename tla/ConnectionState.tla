--------------------------- MODULE ConnectionState ---------------------------
(***************************************************************************)
(* What a WebRtcConnection promises to the process that owns it: the order *)
(* of the states it reports (WebRTCEvent in liberizo/WebRtcConnection.h).  *)
(*                                                                         *)
(* While the connection is open its reports only go forward, GATHERED,     *)
(* READY, FAILED, each at most once, and nothing but the end follows       *)
(* FAILED.  Its destructor reports FINISHED; a report that another thread  *)
(* had begun may still follow, until the listener is taken away.           *)
(***************************************************************************)
EXTENDS Naturals

VARIABLES
    reported,      \* the last state reported
    phase          \* "open", "finishing" or "closed"

Order == [INITIAL |-> 0, GATHERED |-> 1, READY |-> 2, FAILED |-> 3, FINISHED |-> 4]

Init == reported = "INITIAL" /\ phase = "open"

Report ==
    /\ phase = "open"
    /\ reported' \in {"GATHERED", "READY", "FAILED"}
    /\ Order[reported'] > Order[reported]
    /\ UNCHANGED phase

Finish ==
    /\ phase = "open" /\ phase' = "finishing"
    /\ reported' = "FINISHED"

Late ==
    /\ phase = "finishing"
    /\ reported' \in {"GATHERED", "READY", "FAILED"}
    /\ UNCHANGED phase

Close ==
    /\ phase = "finishing" /\ phase' = "closed"
    /\ UNCHANGED reported

Next == Report \/ Finish \/ Late \/ Close

Spec == Init /\ [][Next]_<<reported, phase>>
==============================================================================
