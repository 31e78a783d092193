------------------------------ MODULE Recorder ------------------------------
(***************************************************************************)
(* The data recorder of the EasySensor.ino example (the raw-API "Bare"     *)
(* loop) polling one libsdi12 sensor over the line of Bus, which may lose *)
(* or corrupt lines, and (LATE) deliver a reply after the master stopped   *)
(* waiting for it.                                                         *)
(*                                                                         *)
(* Every transaction is one send step and one receive step; the receive    *)
(* step is the whole library call and the code of loop() after it.        *)
(***************************************************************************)
EXTENDS Bus

CONSTANT LATE   \* a reply may come after the 15 ms receive budget

VARIABLES
  rx,     \* the lines in the master's UART receive buffer
  mpc,    \* where loop() is, and its locals mresp, page and total
  shown   \* the last values loop() printed, with the line they came from

rvars == <<busVars, rx, mpc, shown>>

NoLine == [resp |-> Timeout.resp, intact |-> TRUE, to |-> NoCmd]
NoShown == [what |-> "none", vals |-> <<>>, exact |-> TRUE, to |-> NoCmd,
            cmd |-> NoCmd]

Steps == {"idle", "ack", "ident", "meas", "wait", "data", "cont", "mc",
          "mcwait", "mcdata"}
\* The steps that only listen (wait_service_request).
WaitSteps == {"wait", "mcwait"}

\* The command loop() sends at each step.
CmdOf(m) ==
  CASE m.step = "ack"    -> [kind |-> "ack", addr |-> SensorAddr]
    [] m.step = "ident"  -> [kind |-> "ident", addr |-> SensorAddr]
    [] m.step = "meas"   -> [kind |-> "meas", addr |-> SensorAddr,
                             type |-> "STANDARD", group |-> 0, crc |-> FALSE]
    [] m.step = "data"   -> [kind |-> "data", addr |-> SensorAddr, page |-> m.page]
    [] m.step = "cont"   -> [kind |-> "cont", addr |-> SensorAddr, group |-> 0,
                             crc |-> FALSE]
    [] m.step = "mc"     -> [kind |-> "meas", addr |-> SensorAddr,
                             type |-> "STANDARD", group |-> 0, crc |-> TRUE]
    [] m.step = "mcdata" -> [kind |-> "data", addr |-> SensorAddr, page |-> 0]

Goto(m, s) == [m EXCEPT !.step = s, !.phase = IF s \in WaitSteps THEN "recv"
                                                ELSE "send"]

\* for (page = 0; total < mresp.value_count && page < 10; page++)
PageLoopBoundMissing(m) == TRUE
PageLoopBound(m) == m.page < 10
PageLoop(m, total, page) ==
  IF total < m.count /\ PageLoopBound([m EXCEPT !.page = page])
    THEN [Goto(m, "data") EXCEPT !.total = total, !.page = page]
    ELSE Goto(m, "cont")

Shown(what, d, line, m) ==
  [what |-> what, vals |-> d.vals, exact |-> d.exact, to |-> line.to,
   cmd |-> CmdOf(m)]

-----------------------------------------------------------------------------
(* loop() after each library call returns `line`.                          *)

\* 2. acknowledge; return if not present.
AfterAck(line) ==
  mpc' = Goto(mpc, IF AckPresent(line, SensorAddr) THEN "ident" ELSE "idle")

\* 3. identify; the result only decides what is printed.
AfterIdentify(line) == mpc' = Goto(mpc, "meas")

\* 4. aM!: return on error; 5. wait for the service request if ttt > 0.
AfterMeasure(line) ==
  LET r == StartMeasurement(line, "STANDARD")
      m == [mpc EXCEPT !.count = r.count, !.wait = r.wait]
  IN  mpc' = IF r.err # "OK" THEN Goto(mpc, "idle")
             ELSE IF r.wait > 0 THEN Goto(m, "wait")
             ELSE PageLoop(m, 0, 0)

\* 5. return if the service request timed out, else 6. read the pages.
AfterWait(line) ==
  mpc' = IF WaitServiceRequest(line, SensorAddr) = "OK" THEN PageLoop(mpc, 0, 0)
         ELSE Goto(mpc, "idle")

AfterDataNoBreak(line) ==
  LET d == GetData(line, FALSE) IN
  IF d.err # "OK" THEN mpc' = PageLoop(mpc, mpc.total, mpc.page + 1) /\ UNCHANGED shown
  ELSE /\ shown' = Shown("D", d, line, mpc)
       /\ mpc' = PageLoop(mpc, (mpc.total + Len(d.vals)) % 256, mpc.page + 1)

AfterDataRetry(line) ==
  LET d == GetData(line, FALSE) IN
  IF d.err # "OK" THEN mpc' = Goto(mpc, "data") /\ UNCHANGED shown
  ELSE /\ shown' = Shown("D", d, line, mpc)
       /\ mpc' = PageLoop(mpc, (mpc.total + Len(d.vals)) % 256, mpc.page + 1)

\* 6. a page: break on error; print its values, total += value_count.
AfterData(line) ==
  LET d == GetData(line, FALSE) IN
  IF d.err # "OK" THEN mpc' = Goto(mpc, "cont") /\ UNCHANGED shown
  ELSE /\ shown' = Shown("D", d, line, mpc)
       /\ mpc' = PageLoop(mpc, (mpc.total + Len(d.vals)) % 256, mpc.page + 1)

\* 7. aR0!: print the values if OK.
AfterContinuous(line) ==
  LET d == GetData(line, FALSE) IN
  /\ shown' = IF d.err = "OK" THEN Shown("R0", d, line, mpc) ELSE shown
  /\ mpc' = Goto(mpc, "mc")

\* 8. aMC!: on success wait for the service request if ttt > 0 (result
\* ignored), then aD0! with crc = true.
AfterMeasureCrc(line) ==
  LET r == StartMeasurement(line, "STANDARD")
      m == [mpc EXCEPT !.count = r.count, !.wait = r.wait]
  IN  mpc' = IF r.err # "OK" THEN Goto(mpc, "idle")
             ELSE Goto(m, IF r.wait > 0 THEN "mcwait" ELSE "mcdata")

AfterWaitCrc(line) == mpc' = Goto(mpc, "mcdata")

\* "CRC OK, n values verified" when get_data returns SDI12_OK.
AfterDataCrc(line) ==
  LET d == GetData(line, TRUE) IN
  /\ shown' = IF d.err = "OK" THEN Shown("CRC", d, line, mpc) ELSE shown
  /\ mpc' = Goto(mpc, "idle")

\* The code of loop() that follows the library call of the current step.
AfterRecv(line) ==
  CASE mpc.step = "ack"    -> AfterAck(line) /\ UNCHANGED shown
    [] mpc.step = "ident"  -> AfterIdentify(line) /\ UNCHANGED shown
    [] mpc.step = "meas"   -> AfterMeasure(line) /\ UNCHANGED shown
    [] mpc.step = "wait"   -> AfterWait(line) /\ UNCHANGED shown
    [] mpc.step = "data"   -> AfterData(line)
    [] mpc.step = "cont"   -> AfterContinuous(line)
    [] mpc.step = "mc"     -> AfterMeasureCrc(line) /\ UNCHANGED shown
    [] mpc.step = "mcwait" -> AfterWaitCrc(line) /\ UNCHANGED shown
    [] mpc.step = "mcdata" -> AfterDataCrc(line)

-----------------------------------------------------------------------------
(* The master.                                                             *)

MasterBreakKeepsRx ==
  /\ mpc.step = "idle"
  /\ wire = NoCmd /\ air = <<>>
  /\ SensorBreak
  /\ mpc' = Goto(mpc, "ack")
  /\ UNCHANGED <<wire, air, rx, shown>>

\* 1. sdi12_master_send_break.  The next cycle starts SCAN_INTERVAL after
\* the last, when the bus is quiet; cb_send_break restarts the UART, which
\* empties its receive buffer.  The sensor sees the break.
MasterBreak ==
  /\ mpc.step = "idle"
  /\ wire = NoCmd /\ air = <<>>
  /\ SensorBreak
  /\ rx' = <<>>
  /\ mpc' = Goto(mpc, "ack")
  /\ UNCHANGED <<wire, air, shown>>

\* send_command of a transaction.
Send ==
  /\ mpc.phase = "send" /\ mpc.step # "idle"
  /\ wire = NoCmd
  /\ wire' = CmdOf(mpc)
  /\ mpc' = [mpc EXCEPT !.phase = "recv"]
  /\ UNCHANGED <<vars, air, pending, rx, shown>>

\* recv_response (and cb_recv): the next line of the receive buffer, or a
\* timeout.  Without LATE a timeout means nothing more is coming: the
\* sensor answered or the line lost it, and a service request awaited is
\* sent or lost.
Quiet == air = <<>> /\ (mpc.step \in WaitSteps => acq = NoAcq)
Recv ==
  /\ mpc.phase = "recv" /\ wire = NoCmd
  /\ \/ rx # <<>> /\ rx' = Tail(rx) /\ AfterRecv(Head(rx))
     \/ rx = <<>> /\ (LATE \/ Quiet) /\ UNCHANGED rx /\ AfterRecv(NoLine)
  /\ UNCHANGED busVars

-----------------------------------------------------------------------------
(* The sensor and its host (SDI12Sensor), and the line.                    *)

\* A line reaches the master's receive buffer.
Arrive ==
  /\ air # <<>>
  /\ rx' = Append(rx, Head(air))
  /\ air' = Tail(air)
  /\ UNCHANGED <<vars, wire, pending, mpc, shown>>

\* The sensor, its host and the line leave loop() and its UART alone.
SensorStep == SensorHandles /\ UNCHANGED <<rx, mpc, shown>>
HostStep == HostDone /\ UNCHANGED <<rx, mpc, shown>>
LineFault == (LoseCommand \/ LoseReply \/ Corrupt) /\ UNCHANGED <<rx, mpc, shown>>

-----------------------------------------------------------------------------
\* The sensor after its setup(), the recorder before its first loop().
RInit ==
  /\ BusInit
  /\ rx = <<>>
  /\ mpc = [step |-> "idle", phase |-> "send", page |-> 0, total |-> 0,
            count |-> 0, wait |-> 0]
  /\ shown = NoShown

RNext ==
  \/ MasterBreak \/ Send \/ Recv
  \/ SensorStep \/ HostStep \/ Arrive \/ LineFault

\* loop() runs forever; the sensor answers every command it receives, its
\* host finishes every acquisition, and the UART delivers every line.
RSpec ==
  /\ RInit /\ [][RNext]_rvars
  /\ WF_rvars(MasterBreak) /\ WF_rvars(Send) /\ WF_rvars(Recv)
  /\ WF_rvars(SensorStep) /\ WF_rvars(HostStep) /\ WF_rvars(Arrive)

-----------------------------------------------------------------------------
(* Properties.                                                             *)

RTypeOK ==
  /\ BusTypeOK
  /\ rx \in Seq(Lines)
  /\ mpc.step \in Steps /\ mpc.phase \in {"send", "recv"}
  /\ mpc.page \in 0..9 /\ mpc.total \in 0..255
  /\ mpc.count \in 0..9 /\ mpc.wait \in 0..999

\* The values loop() prints as Value[i] in the page loop are the sensor's
\* reply to the aDn! command just sent: a late line never passes for a
\* page, because every failed call before the loop returns from loop()
\* and a failed page ends it.
PagesPrintTheirReply == shown.what = "D" => shown.to = shown.cmd

\* When wait_service_request lets loop() go on to the pages, the line it
\* took for the service request is the sensor's service request, and not
\* a late reply to an earlier command: rx is emptied at every break, and
\* a reply that missed its 15 ms makes loop() return before aM!.
ServiceRequestIsReal ==
  [][mpc.step = "wait" /\ mpc'.step \in {"data", "cont"}
       => rx # <<>> /\ Head(rx).to = ServiceRequestTag]_rvars

\* The values printed as R0[i] are the sensor's reply to aR0!.
ContinuousPrintsItsReply == shown.what = "R0" => shown.to = shown.cmd

\* "CRC OK" is printed only for the intact reply to the aD0! sent after
\* aMC!, with the values the sensor sent.
CrcOkMeansIntact == shown.what = "CRC" => shown.exact /\ shown.to = shown.cmd

\* Every pass of loop() ends and the next scan starts with a break: each
\* call either gets its answer or times out, every failure returns from
\* loop(), and the page loop stops after ten pages, however many lines
\* the bus loses, corrupts or delays.
CycleEnds == []<>(mpc.step = "idle")
=============================================================================
