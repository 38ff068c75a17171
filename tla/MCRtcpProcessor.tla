-------------------------- MODULE MCRtcpProcessor --------------------------
(* Periods of half a second to one and a half, as the code draws them, for  *)
(* TLC: shorter than a step, as long and longer.                            *)
EXTENDS RtcpProcessor

MCPeriods == [audio |-> {1000, 2980}, video |-> {500, 1490}]
=============================================================================
