------------------------- MODULE MCFrameRingBuffer -------------------------
(***************************************************************************)
(* Three usable slots of four, frames of two lengths and serial numbers    *)
(* below 8: ten frames take the indices around the ring twice and the      *)
(* serial numbers around their range once, with the limit changing and the *)
(* reader looking for any frame at any time.                               *)
(***************************************************************************)
EXTENDS FrameRingBuffer
=============================================================================
