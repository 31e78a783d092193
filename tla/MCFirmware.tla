----------------------------- MODULE MCFirmware -----------------------------
(***************************************************************************)
(* Checks the byte-level code of the sensor firmware in one run: how the  *)
(* example hosts frame commands (SensorHost), the CRC codec (sdi12_crc.c) *)
(* over every text of at most MaxLen bytes drawn from Alphabet, and the   *)
(* data-page walk of format_data_page over every cache of at most MaxVals *)
(* values whose texts are Widths characters long, under both budgets.     *)
(* A behaviour is one of three things, picked by Init: a host on its line *)
(* (the codec inputs empty, themselves an input of each codec), or one    *)
(* CRC input, or one cache and budget (the host then at power-up, with   *)
(* the first firmware); codec inputs never change.                        *)
(***************************************************************************)
EXTENDS MCSensorHost, Crc16, DataPages

CONSTANTS Alphabet, MaxLen, BufLen, Widths, MaxVals

VARIABLES msg, lens, budget
cvars == <<msg, lens, budget>>
vars == <<hvars, cvars>>

NoInput == msg = <<>> /\ lens = <<>> /\ budget = M_VALUES_MAX_CHARS

CrcInput ==
  /\ msg \in BoundedSeq(Alphabet, MaxLen)
  /\ lens = <<>>
  /\ budget = M_VALUES_MAX_CHARS

PageInput ==
  /\ msg = <<>>
  /\ lens \in BoundedSeq(Widths, MaxVals)
  /\ budget \in {M_VALUES_MAX_CHARS, C_VALUES_MAX_CHARS}

Init ==
  /\ HInit
  /\ \/ NoInput
     \/ (CrcInput \/ PageInput) /\ ~NoInput /\ fw = CHOOSE h \in Hosts : TRUE

Next ==
  \/ NoInput /\ HNext /\ UNCHANGED cvars
  \/ ~NoInput /\ UNCHANGED vars

Spec == Init /\ [][Next]_vars

-----------------------------------------------------------------------------
(* Properties of the CRC codec.                                            *)

\* The table-free loop of sdi12_crc16 (XOR a byte into the register, then
\* eight conditional shifts) computes the CRC-16-IBM of spec 4.A: the
\* bit-serial register fed the message LSB first.
CrcMatchesReference == Crc16(msg) = RefCrc(msg)

\* Flipping any one bit of any byte of the text changes what
\* sdi12_crc16 returns, so a single-bit error on the line is detected.
SingleBitDetected ==
  \A i \in 1..Len(msg), k \in 0..7 :
    Crc16([msg EXCEPT ![i] = @ ^^ (2^k)]) # Crc16(msg)

\* A non-empty response that sdi12_crc_append extends without overflow
\* (CR LF already present or not) passes sdi12_crc_verify, which finds the
\* three CRC characters again behind the LF and CR it strips.
VerifyAcceptsAppended ==
  LET r == CrcAppend(msg, BufLen)
  IN  (DataEnd(msg) > 0 /\ r.err = "OK") => CrcVerify(r.buf)

\* The three characters sdi12_crc_append writes are printable (0x40 ..
\* 0x7F) and carry all sixteen bits of the CRC: decoding them, as a master
\* does, gives back the CRC sdi12_crc16 computed over the data.
CrcCharsDecode ==
  LET r == CrcAppend(msg, BufLen)
      e == SubSeq(r.buf, Len(r.buf) - 4, Len(r.buf) - 2)
  IN  r.err = "OK" =>
        /\ \A i \in 1..3 : e[i] \in 64..127
        /\ Decode(e) = Crc16(SubSeq(msg, 1, DataEnd(msg)))

-----------------------------------------------------------------------------
(* Properties of the data-page walk.                                       *)

\* No page format_data_page produces carries more value text than the
\* budget of its measurement type (35 for M/V, 75 for C/R/HA).
PageWithinBudget ==
  \A p \in 0..1 : TextLen(lens, FormatDataPage(lens, p, budget)) <= budget
=============================================================================
