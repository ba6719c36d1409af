------------------------------- MODULE MCRtp --------------------------------
(* An empty frame, which makes no packet, one of one packet and one of two *)
(* fragments: with four numbers and a buffer for three packets, numbers    *)
(* wrap and packets are dropped while the retransmitter is at work.        *)
EXTENDS Rtp

AvccFrames == {BigEndian(0), BigEndian(2) \o <<1, 3>>, BigEndian(5) \o <<1, 2, 3, 2, 3>>}
=============================================================================
