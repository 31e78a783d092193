------------------------------- MODULE Crc16 -------------------------------
(***************************************************************************)
(* The CRC codec of libsdi12 (sdi12_crc.c): CRC-16-IBM, reflected        *)
(* polynomial 0xA001, initial value 0, computed LSB first; its encoding   *)
(* into three printable characters; append and verify on text buffers.   *)
(* A buffer is a sequence of byte values; C strings end at their first    *)
(* NUL, which is not part of the sequence.                                *)
(***************************************************************************)
EXTENDS Integers, Sequences, SequencesExt, Bitwise

CR == 13
LF == 10
POLY == 40961   \* 0xA001

\* One of the eight inner steps of sdi12_crc16: shift right, and XOR the
\* polynomial in when the bit shifted out was 1.
ShiftBitNoPoly(crc) == crc \div 2
ShiftBit(crc) == IF crc % 2 = 1 THEN (crc \div 2) ^^ POLY ELSE crc \div 2

RECURSIVE ShiftBits(_, _)
ShiftBits(crc, k) == IF k = 0 THEN crc ELSE ShiftBits(ShiftBit(crc), k - 1)

\* One iteration of the outer loop: XOR the byte into the low byte, then
\* eight shifts.
CrcByteUnmixed(crc, b) == ShiftBits(crc, 8)
CrcByte(crc, b) == ShiftBits(crc ^^ b, 8)

\* sdi12_crc16 over the whole buffer.
Crc16(data) == FoldLeft(CrcByte, 0, data)

\* sdi12_crc_encode_ascii: 0x40 | top 4 bits, 0x40 | middle 6, 0x40 | low 6.
EncodeMask6Wrong(crc) ==
  << 64 | shiftR(crc, 12), 64 | (shiftR(crc, 6) & 31), 64 | (crc & 63) >>
Encode(crc) ==
  << 64 | shiftR(crc, 12), 64 | (shiftR(crc, 6) & 63), 64 | (crc & 63) >>

\* The data part of a text buffer: without a trailing CR LF if it has one.
DataEnd(buf) ==
  IF Len(buf) >= 2 /\ buf[Len(buf) - 1] = CR /\ buf[Len(buf)] = LF
  THEN Len(buf) - 2 ELSE Len(buf)

\* sdi12_crc_append: data, its CRC, CR, LF; buflen counts the NUL.  The
\* result is the error code and the buffer, left as it was on overflow.
CrcAppend(buf, buflen) ==
  LET d == SubSeq(buf, 1, DataEnd(buf))
  IN  IF Len(d) + 3 + 2 + 1 > buflen
        THEN [err |-> "BUFFER_OVERFLOW", buf |-> buf]
        ELSE [err |-> "OK", buf |-> d \o Encode(Crc16(d)) \o <<CR, LF>>]

\* sdi12_crc_verify: at least 6 bytes; strip one LF and then one CR; the
\* three bytes before them must encode the CRC of what precedes them.
CrcVerifyNoCR(buf) ==
  LET end == IF buf # <<>> /\ buf[Len(buf)] = LF THEN Len(buf) - 1 ELSE Len(buf)
  IN  /\ Len(buf) >= 6
      /\ end >= 3
      /\ SubSeq(buf, end - 2, end) = Encode(Crc16(SubSeq(buf, 1, end - 3)))
CrcVerify(buf) ==
  LET e1  == IF buf # <<>> /\ buf[Len(buf)] = LF THEN Len(buf) - 1 ELSE Len(buf)
      end == IF e1 > 0 /\ buf[e1] = CR THEN e1 - 1 ELSE e1
  IN  /\ Len(buf) >= 6
      /\ end >= 3
      /\ SubSeq(buf, end - 2, end) = Encode(Crc16(SubSeq(buf, 1, end - 3)))

-----------------------------------------------------------------------------
(***************************************************************************)
(* Reference: the same CRC as a bit-serial register.  The message is fed   *)
(* one bit at a time, least significant bit of each byte first; the      *)
(* register shifts right and takes the polynomial when the bit leaving it *)
(* differs from the message bit.                                          *)
(***************************************************************************)
Bits(data) == [k \in 1..(8 * Len(data)) |->
                 shiftR(data[(k - 1) \div 8 + 1], (k - 1) % 8) % 2]

RefStep(reg, bit) ==
  IF (reg % 2) # bit THEN (reg \div 2) ^^ POLY ELSE reg \div 2

RefCrc(data) == FoldLeft(RefStep, 0, Bits(data))

\* Decoding of the three characters, the inverse the receiver applies.
Decode(enc) == (enc[1] - 64) * 4096 + (enc[2] - 64) * 64 + (enc[3] - 64)
=============================================================================
