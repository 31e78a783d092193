---------------------------- MODULE MCSensorData ----------------------------
(***************************************************************************)
(* Model checking of what aD! serves.  The data logger remembers whether *)
(* the last measurement command asked for a CRC and how many values the   *)
(* last measurement reply since the last break announced; the properties  *)
(* compare each data reply with those and with where its values came from.*)
(***************************************************************************)
EXTENDS SDI12Sensor

\* Whether the last measurement command (aM.., aC.., aH.., aR..) asked for
\* a CRC.
VARIABLE crcAsked

\* crcAsked after command `cmd` got reply `r`.
AfterCmd(c, cmd, r) ==
  CASE r.kind = "hdr" /\ r.start -> cmd.kind \in {"meas", "highvol"} /\ cmd.crc
    [] cmd.kind = "cont" /\ Targeted(cmd) -> cmd.crc
    [] OTHER -> c

\* The number of values the last measurement header (aM!, aC!, aV!, aH..!)
\* announced, or the number of values an aR! reading cached, since the last
\* break or power-up; 0 when there was none.
VARIABLE announced

\* announced after command `cmd` got reply `r`.
AfterMeas(n, cmd, r) ==
  CASE r.kind = "hdr" /\ r.start -> r.n
    [] r.kind = "data" /\ cmd.kind = "cont" -> Len(data_cache')
    [] OTHER -> n

MCInit == Init /\ crcAsked = FALSE /\ announced = 0

MCDone == MeasurementDone /\ UNCHANGED <<crcAsked, announced>>

MCNext ==
  \/ \E cmd \in Cmds :
       /\ Process(cmd)
       /\ crcAsked' = AfterCmd(crcAsked, cmd, out')
       /\ announced' = AfterMeas(announced, cmd, out')
  \/ MCDone
  \/ Break /\ UNCHANGED crcAsked /\ announced' = 0
  \/ \E g \in RegGroups : RegisterParam(g) /\ UNCHANGED <<crcAsked, announced>>
  \/ PowerCycle /\ crcAsked' = FALSE /\ announced' = 0

MCVars == <<vars, crcAsked, announced>>

MCSpec == MCInit /\ [][MCNext]_MCVars /\ WF_MCVars(MCDone)

-----------------------------------------------------------------------------
(* Properties.                                                             *)
\* Values a concurrent measurement acquired after an addressed command
\* aborted it are never served by aD!/aDB! (sdi12_sensor_measurement_done
\* stores them whatever the state).
NoAbortedData ==
  out.kind \in {"data", "bin", "hvbin"} => out.vals = <<>> \/ out.src # "aborted"

\* An aD! reply carries a CRC exactly when the measurement it belongs to
\* was requested with one (crc_requested, which aI.._nnn! also writes).
DataCrcAsRequested ==
  out.kind = "data" => out.crc = crcAsked

\* A data reply (aD!, aDB!) carries no more values than the last
\* measurement header since the last break announced (spec 3: the cache is
\* "consistent with the count reported in the last measurement header" and
\* is "invalidated by break and by the next measurement command").  It is
\* about sdi12_sensor_break, which clears the cache only while measuring,
\* and the empty-group branch of handle_measurement, which returns before
\* touching it.
CacheWithinLastHeader ==
  out.kind \in {"data", "bin", "hvbin"} => Len(out.vals) <= announced
=============================================================================
