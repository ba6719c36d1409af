------------------------------ MODULE MCStream ------------------------------
(***************************************************************************)
(* Three frames, three instants and a header field of two bits: enough for *)
(* a frame to be linked before, between and behind two clusters, and for a *)
(* block to be older and further away from its cluster than the field can  *)
(* say.  The header with every kind of track; as many tags as are allowed, *)
(* one too many with the one of endOfStream, and one whose name is too     *)
(* long.                                                                   *)
(***************************************************************************)
EXTENDS MkvStream, TLC

Sps == <<7, 1, 2, 3, 1>>
Pps == <<8, 1>>
Described == [width |-> 640, height |-> 480, sps |-> Sps, pps |-> Pps]
Video(from, frame) == [from |-> from, frame |-> frame] @@ Described
SmallVideos ==
    {Video("AnnexB", StartCode(4) \o Sps \o StartCode(3) \o Pps \o StartCode(4) \o <<5, 1>>),
     Video("AVCC", BigEndian(5) \o Sps \o BigEndian(2) \o Pps \o BigEndian(2) \o <<5, 1>>),
     Video("AVCC", BigEndian(2) \o <<5, 1>>), Video("AVCC", BigEndian(2) \o <<5, 1, 0>>),
     Video("SpsPps", <<>>)}

Audio(codec, type, frequency, channels, bits) ==
    [codec |-> codec, type |-> type, frequency |-> frequency, channels |-> channels, bits |-> bits]
SmallAudios ==
    {Audio("A_AAC", 2, 8000, 1, 0), Audio("A_MS/ACM", 6, 8000, 2, 16), Audio("A_AAC", 2, 8001, 1, 0)}

Tag(key, len, value) == [key |-> [id |-> key, len |-> len], value |-> [id |-> value, len |-> 12]]
SmallTagsLists ==
    {<<>>, <<Tag("test_key_1", 10, "test_value_1")>>, [k \in 1..9 |-> Tag("test_key", 10, "test_value_1")],
     <<Tag("long", 129, "test_value_1")>>}
=============================================================================
