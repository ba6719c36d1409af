----------------------------- MODULE MCPutMedia -----------------------------
(***************************************************************************)
(* Three acknowledgements of two bytes in records of any size and a buffer *)
(* that starts with one byte: acknowledgements are cut between records,    *)
(* between mbedtls and the buffer and between calls, two fit into one      *)
(* record, and the buffer has to grow twice.                               *)
(***************************************************************************)
EXTENDS PutMedia
=============================================================================
