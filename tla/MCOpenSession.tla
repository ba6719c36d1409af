--------------------------- MODULE MCOpenSession ---------------------------
(***************************************************************************)
(* Two calls of KvsApp_open and three of KvsApp_setoption, before, between *)
(* or after them: the least keys that sign are two options, the third      *)
(* changes one that was used.  The second call finds whatever the first    *)
(* has left, wherever it failed.                                           *)
(*                                                                         *)
(* MCOpenSessionReturns.cfg checks the one claim the code does not keep.   *)
(***************************************************************************)
EXTENDS OpenSession
=============================================================================
