------------------------------ MODULE MCKvsApp ------------------------------
(***************************************************************************)
(* Instances of KvsApp.                                                    *)
(*                                                                         *)
(* MCKvsApp.cfg: three frames of two tracks at two instants, both stream   *)
(* policies.  Three frames are a cluster, a block behind it and one that   *)
(* arrives late, or a full ring buffer and one more frame.  A timecode has *)
(* one bit, so that a block an instant before its cluster can be said and  *)
(* one an instant behind it wraps.  Memory suffices for one stream: of two *)
(* threads that race to create it, one may replace it with NULL.  The      *)
(* application has no audio track information, as when there was no memory *)
(* for it.                                                                 *)
(*                                                                         *)
(* MCKvsAppSessions.cfg: two frames, with audio track information, and two *)
(* streams, so that the second may replace the first.  The liveness        *)
(* property is checked here, under FairSpec.                               *)
(*                                                                         *)
(* Neither bounds how often the application opens a session.               *)
(***************************************************************************)
EXTENDS KvsApp
=============================================================================
