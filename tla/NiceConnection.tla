--------------------------- MODULE NiceConnection ---------------------------
(***************************************************************************)
(* An ICE connection over libnice (liberizo/NiceConnection.cpp): the       *)
(* states of its components, the thread that runs libnice and the queue of *)
(* packets the transport reads.                                            *)
(*                                                                         *)
(* A connection is a record, and its methods are operators from records to *)
(* records, because iceState_, running_ and listener_ are plain members    *)
(* that the threads of the transport and of Node write without a lock.     *)
(*   state      iceState_                                                  *)
(*   comps      comp_state_list_: component -> state                       *)
(*   running    running_                                                   *)
(*   listener   listener_ is not NULL                                      *)
(*   gathered   libnice has announced the end of gathering                 *)
(*   alive      the thread of init() has not returned                      *)
(*   call       what that thread is about to run above this class: <<>>,   *)
(*              <<"ice", s>> for listener_->updateIceState(s), and what    *)
(*              the transport leaves there                                 *)
(*   queue      niceQueue_                                                 *)
(***************************************************************************)
EXTENDS Naturals, Sequences

CONSTANT
    NiceQueueBound      \* 1000 in the code

ASSUME NiceQueueAssumption == NiceQueueBound \in Nat \ {0}

IceStates == {"INITIAL", "CANDIDATES_RECEIVED", "READY", "FINISHED", "FAILED"}

NewNice(components) ==
    [state |-> "INITIAL", comps |-> [c \in components |-> "INITIAL"],
     running |-> TRUE, listener |-> TRUE, gathered |-> FALSE, alive |-> TRUE,
     call |-> <<>>, queue |-> <<>>]

\* The thread is in g_main_context_iteration and may run a callback of libnice.
Idle(n) == n.alive /\ n.call = <<>>

\* Only a change is passed on, and FINISHED is not.
UpdateIceState(n, s) ==
    LET told == n.listener /\ s # "FINISHED"
    IN  IF n.state = s THEN n
        ELSE [n EXCEPT !.state = s,
                       !.running = @ /\ s # "FAILED",
                       !.call = IF told THEN <<"ice", s>> ELSE @]

\* The state counts once every component has it.
AllComponents(n, c, s) == \A d \in DOMAIN n.comps : d # c => n.comps[d] = s

UpdateComponentState(n, c, s) ==
    LET m == [n EXCEPT !.comps[c] = s]
    IN  IF AllComponents(n, c, s) THEN UpdateIceState(m, s) ELSE m

GatheringDone(n) == UpdateIceState([n EXCEPT !.gathered = TRUE], "CANDIDATES_RECEIVED")

\* cb_nice_recv: packets that come before READY, after it, or over the bound
\* are dropped.
QueueData(n, p) ==
    IF n.state = "READY" /\ n.running /\ Len(n.queue) < NiceQueueBound
    THEN [n EXCEPT !.queue = Append(@, p)] ELSE n

\* sendData reaches libnice.
Sends(n) == n.state = "READY" /\ n.running

\* getPacket returns length -1 at once, and the reader ends.
Ended(n) == n.state = "FINISHED" \/ ~n.running

\* The loop of init() ends; it looks between two iterations of libnice.
LoopEnds(n) == ~n.running \/ n.state \in {"FINISHED", "FAILED"}

\* close() up to the join of the thread: it stops the loop by running_ and by
\* the state, of which the thread may still overwrite the second. A connection
\* that is FINISHED already is left alone.
CloseNice(n) ==
    IF n.state = "FINISHED" THEN n
    ELSE [n EXCEPT !.running = FALSE, !.state = "FINISHED", !.listener = FALSE]
=============================================================================
