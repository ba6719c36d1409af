-------------------------------- MODULE Nalu --------------------------------
(***************************************************************************)
(* The NALU codec (codec/nalu.c): what it finds in a buffer of NALUs, and  *)
(* the conversion in place from Annex-B, where a start code stands before  *)
(* each NALU, to AVCC, where its length does.                              *)
(*                                                                         *)
(* A buffer is a sequence of bytes; an offset counts from 0 as in C.  Byte *)
(* values are below Radix (256 in the code), so that a length of four      *)
(* bytes has its digits in that base.  The first byte of a NALU is the     *)
(* forbidden bit, nal_ref_idc and the type, from the top.                  *)
(***************************************************************************)
EXTENDS Integers, Sequences, SequencesExt

CONSTANTS
    Radix,          \* the values of a byte
    TypeRadix,      \* the values of a type: 32 in the code
    MaxNalus        \* MAX_NALU_COUNT_IN_A_FRAME

ASSUME NaluAssumption ==
    /\ Radix \in Nat /\ TypeRadix \in Nat \ {0} /\ 2 * TypeRadix <= Radix
    /\ MaxNalus \in Nat \ {0}

StartCode(n) == IF n = 3 THEN <<0, 0, 1>> ELSE <<0, 0, 0, 1>>
BigEndian(n) ==
    <<n \div (Radix * Radix * Radix), (n \div (Radix * Radix)) % Radix, (n \div Radix) % Radix, n % Radix>>

ByteAt(b, i) == b[i + 1]
Bytes(b, i, n) == SubSeq(b, i + 1, Min({i + n, Len(b)}))

nalType(header) == header % TypeRadix
RefIdc(header) == (header % (Radix \div 2)) - nalType(header)
IsOfType(header, type) == header < Radix \div 2 /\ nalType(header) = type

-----------------------------------------------------------------------------
(* The length of the start code at an offset, or 0.                        *)
CodeLength(b, i) ==
    IF Bytes(b, i, 3) = StartCode(3) THEN 3 ELSE IF Bytes(b, i, 4) = StartCode(4) THEN 4 ELSE 0

NALU_isAnnexBFrame(b) == CodeLength(b, 0) > 0

(* Where there is no start code, the scans pass the zeros, at most three,  *)
(* and the byte behind them.                                               *)
Advance_AlwaysFour(b, i) == IF ByteAt(b, i) # 0 THEN 1 ELSE 4
Advance(b, i) ==
    CHOOSE n \in 1..4 : /\ \A k \in 0..n - 2 : ByteAt(b, i + k) = 0
                        /\ n = 4 \/ ByteAt(b, i + n - 1) # 0

(* The start codes a scan finds, each with the offset of the NALU behind   *)
(* it.  The conversion stops at four zeros; the search goes on.            *)
StartCodes(b, stopsAtZeros) ==
    LET found[i \in 0..Len(b)] ==
            CASE i >= Len(b) - 4 -> <<>>
              [] i < Len(b) - 4 /\ CodeLength(b, i) > 0 ->
                    <<[at |-> i, begin |-> i + CodeLength(b, i)]>> \o found[i + CodeLength(b, i)]
              [] i < Len(b) - 4 /\ stopsAtZeros /\ Bytes(b, i, 4) = <<0, 0, 0, 0>> -> <<>>
              [] OTHER -> found[i + Advance(b, i)]
    IN  found[0]

StopsAtZeros(b) ==
    LET met[i \in 0..Len(b)] ==
            /\ i < Len(b) - 4
            /\ IF CodeLength(b, i) > 0 THEN met[i + CodeLength(b, i)]
               ELSE Bytes(b, i, 4) = <<0, 0, 0, 0>> \/ met[i + Advance(b, i)]
    IN  met[0]

-----------------------------------------------------------------------------
(* A search returns the offset and the length of the first NALU of a type; *)
(* "res" is whether it returns KVS_ERRNO_NONE.                             *)

Found(nalu, length) == [res |-> TRUE, nalu |-> nalu, length |-> length]
NotFound == [res |-> FALSE, nalu |-> 0, length |-> 0]

NALU_getNaluFromAnnexBNalus(b, type) ==
    LET codes == StartCodes(b, FALSE)
        Of == {k \in DOMAIN codes : IsOfType(ByteAt(b, codes[k].begin), type)}
    IN  IF Len(b) < 5 \/ Of = {} THEN NotFound
        ELSE LET k == Min(Of)
                 begin == codes[k].begin
                 end == IF k < Len(codes) /\ codes[k + 1].at > begin THEN codes[k + 1].at ELSE Len(b)
             IN  Found(begin, end - begin)

(* Behind the last NALU there must be nothing, or the search succeeds      *)
(* without having found anything.                                          *)
LengthAt(b, i) ==
    FoldLeft(LAMBDA n, byte : n * Radix + byte, 0, Bytes(b, i, 4))
NALU_getNaluFromAvccNalus(b, type) ==
    LET search[i \in Nat] ==
            CASE i >= Len(b) -> NotFound
              [] i < Len(b) /\ i >= Len(b) - 4 -> Found(0, 0)
              [] i < Len(b) - 4 /\ IsOfType(ByteAt(b, i + 4), type) -> Found(i + 4, LengthAt(b, i))
              [] OTHER -> search[i + 4 + LengthAt(b, i)]
    IN  IF Len(b) < 5 \/ type = 0 THEN NotFound ELSE search[0]

NALU_getNalu(b, type) ==
    IF NALU_isAnnexBFrame(b) THEN NALU_getNaluFromAnnexBNalus(b, type)
    ELSE NALU_getNaluFromAvccNalus(b, type)

(* The type of the first NALU, or 0 (NALU_TYPE_UNKNOWN).                   *)
NALU_getNaluType(b) ==
    LET header == IF CodeLength(b, 0) = 3 THEN 3 ELSE 4
    IN  IF Len(b) > header THEN nalType(ByteAt(b, header)) ELSE 0

isKeyFrame(b, iframe) == NALU_getNalu(b, iframe).res

-----------------------------------------------------------------------------
(* NALU_convertAnnexBToAvccInPlace on a buffer whose first uLen bytes are  *)
(* the frame: the buffer and the length after it, and what it returns.  A  *)
(* frame with four zeros is converted up to them and reported invalid.     *)

Overwrite(b, i, bytes) ==
    [k \in DOMAIN b |-> IF k - i \in DOMAIN bytes THEN bytes[k - i] ELSE b[k]]

(* The NALUs are moved from the last to the first, each with its length    *)
(* before it, so that none is overwritten before it is moved.              *)
Moved_LengthFirst(b, nals, total) ==
    FoldRight(LAMBDA nal, m :
                LET to == m.i - nal.length
                    told == Overwrite(m.b, to - 4, BigEndian(nal.length))
                IN  [b |-> Overwrite(told, to, Bytes(told, nal.begin, nal.length)), i |-> to - 4],
              nals, [b |-> b, i |-> total]).b
Moved(b, nals, total) ==
    FoldRight(LAMBDA nal, m :
                LET to == m.i - nal.length
                    moved == Overwrite(m.b, to, Bytes(m.b, nal.begin, nal.length))
                IN  [b |-> Overwrite(moved, to - 4, BigEndian(nal.length)), i |-> to - 4],
              nals, [b |-> b, i |-> total]).b

NALU_convertAnnexBToAvccInPlace(b, uLen) ==
    LET frame == SubSeq(b, 1, uLen)
        codes == StartCodes(frame, TRUE)
        nals == [k \in DOMAIN codes |->
                    [begin |-> codes[k].begin,
                     length |-> (IF k < Len(codes) THEN codes[k + 1].at ELSE uLen) - codes[k].begin]]
        total == 4 * Len(nals) + FoldLeft(LAMBDA n, nal : n + nal.length, 0, nals)
        Unchanged(res) == [res |-> res, b |-> b, uLen |-> uLen]
    IN  CASE uLen <= 4 -> Unchanged(FALSE)
          [] uLen > 4 /\ ~NALU_isAnnexBFrame(frame) -> Unchanged(TRUE)
          [] uLen > 4 /\ NALU_isAnnexBFrame(frame) ->
                CASE codes = <<>> \/ Len(codes) > MaxNalus -> Unchanged(FALSE)
                  [] codes # <<>> /\ total > Len(b) -> [res |-> FALSE, b |-> b, uLen |-> 0]
                  [] OTHER -> [res |-> ~StopsAtZeros(frame), b |-> Moved(b, nals, total), uLen |-> total]
=============================================================================
