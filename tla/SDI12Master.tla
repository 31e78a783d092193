---------------------------- MODULE SDI12Master ----------------------------
(***************************************************************************)
(* The response side of the master engine (sdi12_master.c): what each     *)
(* operation concludes from the line recv_response returned.  A line is   *)
(* the response record a sensor sent (SDI12Sensor) and `intact`, FALSE    *)
(* when noise changed a character of it on the way; a timeout is a line   *)
(* of kind "timeout" (the recv callback returned 0 bytes).  Every sensor  *)
(* line starts with the sensor's address and ends in CR LF, which         *)
(* trim_crlf removes, so the checks below look at the first character,    *)
(* the digit fields of a header, and the signed values of a data line.    *)
(* Each value's text is VALUE_CHARS characters long.                      *)
(***************************************************************************)
EXTENDS Integers, Sequences

CONSTANT VALUE_CHARS

Timeout == [resp |-> [kind |-> "timeout"], intact |-> TRUE]
IsTimeout(line) == line.resp.kind = "timeout"

\* sdi12_master_acknowledge: a timeout is `present = false`, and so is a
\* line that does not start with the address asked for.
AckPresent(line, a) == ~IsTimeout(line) /\ line.resp.addr = a

\* sdi12_master_wait_service_request: any line that starts with the
\* address is taken for the service request; any other line is a timeout.
WaitServiceRequest(line, a) ==
  IF ~IsTimeout(line) /\ line.resp.addr = a THEN "OK" ELSE "TIMEOUT"

\* Width of the count field parse_meas_response reads for a type.
CountWidth(type) ==
  CASE type \in {"STANDARD", "VERIFICATION"} -> 1
    [] type \in {"CONCURRENT", "CONTINUOUS"} -> 2
    [] OTHER -> 3

\* sdi12_master_start_measurement after its transaction, i.e.
\* parse_meas_response: five characters at least, three ttt digits, then
\* CountWidth(type) count digits.  Of the sensor's lines only a header has
\* digits after the address; a count field wider than the type's is read
\* by its leading digits.  On a timeout the response is left unwritten.
NoMeas == [err |-> "TIMEOUT", wait |-> 0, count |-> 0]
StartMeasurement(line, type) ==
  LET h == line.resp
      w == CountWidth(type)
  IN  IF IsTimeout(line) THEN NoMeas
      ELSE IF h.kind = "hdr" /\ h.digits >= w
        THEN [err |-> "OK", wait |-> h.ttt, count |-> h.n \div 10^(h.digits - w)]
      ELSE [err |-> "INVALID_COMMAND", wait |-> 0, count |-> 0]

\* parse_data_values over the characters after the address.  Every
\* sign-led run is a value.  With verify_crc the last three characters
\* are dropped unchecked (if there are three): the CRC of a line that has
\* one; otherwise the tail of the value text, which keeps the values that
\* still have a sign and a digit, the last of them cut short.  `exact`
\* says the values are the ones the sensor meant.  A line that is not a
\* data reply gives no values here (a header or address line has no sign;
\* the sign inside an identification string is not modelled).
ParseDataValues(line, verify_crc) ==
  LET r == line.resp IN
  IF r.kind # "data" THEN [vals |-> <<>>, exact |-> line.intact]
  ELSE IF verify_crc /\ ~r.crc /\ Len(r.vals) * VALUE_CHARS >= 3
    THEN LET rest == Len(r.vals) * VALUE_CHARS - 3
             cut  == rest % VALUE_CHARS
             kept == rest \div VALUE_CHARS + (IF cut >= 2 THEN 1 ELSE 0)
         IN  [vals |-> SubSeq(r.vals, 1, kept), exact |-> line.intact /\ cut < 2]
  ELSE [vals |-> r.vals, exact |-> line.intact]

\* sdi12_master_get_data and sdi12_master_continuous after the transaction:
\* a timeout is an error, any other line has its values parsed; the parse
\* never fails, so SDI12_ERR_CRC_MISMATCH is never returned.
GetData(line, crc) ==
  IF IsTimeout(line) THEN [err |-> "TIMEOUT", vals |-> <<>>, exact |-> TRUE]
  ELSE LET p == ParseDataValues(line, crc)
       IN  [err |-> "OK", vals |-> p.vals, exact |-> p.exact]
=============================================================================
