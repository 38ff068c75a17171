------------------------- MODULE MCWebRtcConnection -------------------------
(* Offers for TLC: one transport for all media with and without rtcp-mux,    *)
(* and a transport for each of audio and video.                              *)
EXTENDS WebRtcConnection

MCMaxFaults == <<1, 0>>     \* two transports meet no faults

MCOffers ==
    {[bundle |-> TRUE, media |-> {"audio", "video"}, comps |-> {1}],
     [bundle |-> TRUE, media |-> {"audio", "video"}, comps |-> {1, 2}],
     [bundle |-> FALSE, media |-> {"audio", "video"}, comps |-> {1}]}
=============================================================================
