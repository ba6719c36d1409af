--------------------------- MODULE MCVideoSource ----------------------------
(* Small files: NALUs of two to four bytes, more than one MTU among them,  *)
(* with every pattern of the bytes a scan for start codes looks at.        *)
EXTENDS VideoSource

OfLength(n) == {<<header>> \o body : header \in {1, 6}, body \in [1..n - 1 -> {0, 1, 3}]}
SmallNalus == {nalu \in UNION {OfLength(n) : n \in 2..4} : Allowed(nalu)}

(* A NALU as long as there are bytes (256 in the code) and one that is not.*)
LongNalus == {[k \in 1..n |-> 1] : n \in {Radix - 1, Radix}}

OtherFrames == UNION {[1..n -> {0, 1}] : n \in 1..7}
NoFrames == {}
=============================================================================
