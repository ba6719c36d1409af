--------------------------- MODULE MCWebRtcMaster ---------------------------
(* Two peers and two sessions: one can be moved to the place of the other  *)
(* and passed over, a peer can come again after its offer has failed, and  *)
(* two candidates of one come before, between and after its offers.        *)
EXTENDS WebRtcMaster
=============================================================================
