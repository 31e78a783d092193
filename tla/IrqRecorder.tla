----------------------------- MODULE IrqRecorder -----------------------------
(***************************************************************************)
(* The interrupt-driven data recorders: InterruptMaster of EasySensor.ino  *)
(* and interrupt_master.c of InterruptSensor.ino.  Both run a non-blocking *)
(* state machine in loop() over the sensor and line of Bus, and keep the   *)
(* bytes from the bus in a ring buffer rx_buf that sdi_recv, the library's *)
(* recv callback, drains.  They differ in who fills the ring:              *)
(*   ISR_ANYTIME = FALSE: the Arduino core calls serialEvent1() between    *)
(*     loop() iterations, moving what Serial1 buffered into the ring;      *)
(*   ISR_ANYTIME = TRUE: UART_RX_IRQHandler stores each byte as it comes.  *)
(* One iteration of BREAK_SENT makes two or three blocking library calls   *)
(* (ping, identify if IDENTIFY, measure), each a send and a receive.       *)
(***************************************************************************)
EXTENDS Bus

CONSTANTS
  ISR_ANYTIME,  \* the ring is filled by a true RX interrupt
  IDENTIFY,     \* BREAK_SENT calls SDI12_MASTER_IDENTIFY after the ping
  LATE          \* a reply may come after sdi_recv's 15 ms

VARIABLES
  uart,   \* lines the UART received, not yet in the ring
  ring,   \* lines in rx_buf between rx_tail and rx_head
  st,     \* the static `state` of loop()
  it,     \* the library call of the current loop() iteration, and its phase
  mresp,  \* the static measurement response
  shown   \* the last "Results:" loop() printed, with the line they came from

ivars == <<busVars, uart, ring, st, it, mresp, shown>>

Between == [at |-> "none", phase |-> "none"]
Call(c) == [at |-> c, phase |-> "send"]
NoResults == [what |-> "none", vals |-> <<>>, to |-> NoCmd, cmd |-> NoCmd]

\* The command of each library call.
CmdOf(c) ==
  CASE c = "ping"  -> [kind |-> "ack", addr |-> SensorAddr]
    [] c = "ident" -> [kind |-> "ident", addr |-> SensorAddr]
    [] c = "meas"  -> [kind |-> "meas", addr |-> SensorAddr, type |-> "STANDARD",
                       group |-> 0, crc |-> FALSE]
    [] c = "data"  -> [kind |-> "data", addr |-> SensorAddr, page |-> 0]

\* serialEvent1: after a loop() iteration, every byte of Serial1 goes to
\* the ring.
SerialEvent1 ==
  /\ ~ISR_ANYTIME
  /\ it = Between /\ uart # <<>>
  /\ ring' = ring \o uart
  /\ uart' = <<>>
  /\ UNCHANGED <<busVars, st, it, mresp, shown>>

\* UART_RX_IRQHandler, at any point of loop(): the bytes of the line go to
\* the ring (the ring holds far more than one reply; see README).
UartRxIrq ==
  /\ ISR_ANYTIME /\ uart # <<>>
  /\ ring' = Append(ring, Head(uart))
  /\ uart' = Tail(uart)
  /\ UNCHANGED <<busVars, st, it, mresp, shown>>

\* A line reaches the UART.
Arrive ==
  /\ air # <<>>
  /\ uart' = Append(uart, Head(air))
  /\ air' = Tail(air)
  /\ UNCHANGED <<vars, wire, pending, ring, st, it, mresp, shown>>

-----------------------------------------------------------------------------
(* loop().                                                                 *)

\* STATE_IDLE at next_scan, SCAN_INTERVAL after the last cycle: the bus has
\* long been quiet and serialEvent1 has emptied Serial1.  sdi_break
\* restarts Serial1 but leaves rx_buf as it is.  The sensor sees the break.
LoopIdle ==
  /\ st = "IDLE" /\ it = Between
  /\ wire = NoCmd /\ air = <<>> /\ uart = <<>>
  /\ SensorBreak
  /\ st' = "BREAK_SENT"
  /\ UNCHANGED <<wire, air, uart, ring, it, mresp, shown>>

\* STATE_BREAK_SENT starts with SDI12_MASTER_PING.
LoopBreakSent ==
  /\ st = "BREAK_SENT" /\ it = Between
  /\ it' = Call("ping")
  /\ UNCHANGED <<busVars, uart, ring, st, mresp, shown>>

\* The deadline wait_until = wait_seconds * 1000 + 500 ms after the
\* measurement started passes once the service request had its time: the
\* sensor's host is done and what it sent is in.
Deadline == acq = NoAcq /\ air = <<>> /\ uart = <<>>

\* STATE_WAITING: when rx_available() >= 3 (every sensor line is at least
\* "a\r\n") or the deadline passed, SDI12_MASTER_WAIT.
LoopWaiting ==
  /\ st = "WAITING" /\ it = Between
  /\ ring # <<>> \/ Deadline
  /\ it' = [at |-> "wait", phase |-> "recv"]
  /\ UNCHANGED <<busVars, uart, ring, st, mresp, shown>>

\* STATE_READING: SDI12_MASTER_GET_DATA page 0.
LoopReading ==
  /\ st = "READING" /\ it = Between
  /\ it' = Call("data")
  /\ UNCHANGED <<busVars, uart, ring, st, mresp, shown>>

\* sdi_send of the current call.
Send ==
  /\ it.phase = "send" /\ wire = NoCmd
  /\ wire' = CmdOf(it.at)
  /\ it' = [it EXCEPT !.phase = "recv"]
  /\ UNCHANGED <<vars, air, pending, uart, ring, st, mresp, shown>>

\* The code after each call, given the line sdi_recv returned.
EndIteration(s) == st' = s /\ it' = Between
AfterCall(line) ==
  CASE it.at = "ping" ->
         /\ IF AckPresent(line, SensorAddr)
              THEN it' = Call(IF IDENTIFY THEN "ident" ELSE "meas") /\ UNCHANGED st
            ELSE EndIteration("IDLE")
         /\ UNCHANGED <<mresp, shown>>
    [] it.at = "ident" -> it' = Call("meas") /\ UNCHANGED <<st, mresp, shown>>
    [] it.at = "meas" ->
         \* the error is ignored; a timeout leaves the static mresp as it was
         LET r == StartMeasurement(line, "STANDARD")
             m == IF r.err = "TIMEOUT" THEN mresp ELSE [wait |-> r.wait, count |-> r.count]
         IN  /\ mresp' = m
             /\ EndIteration(IF m.wait > 0 THEN "WAITING" ELSE "READING")
             /\ UNCHANGED shown
    [] it.at = "wait" -> EndIteration("READING") /\ UNCHANGED <<mresp, shown>>
    [] it.at = "data" ->
         \* "Results:" and dresp.value_count values, also when get_data
         \* failed and left dresp unwritten
         LET d == GetData(line, FALSE) IN
         /\ shown' = IF d.err = "OK"
                       THEN [what |-> "results", vals |-> d.vals, to |-> line.to,
                             cmd |-> CmdOf("data")]
                       ELSE [NoResults EXCEPT !.what = "uninitialized"]
         /\ EndIteration("IDLE")
         /\ UNCHANGED mresp

\* sdi_recv: the first line of the ring, or a timeout when the ring stays
\* empty for timeout_ms.  Under serialEvent1 nothing enters the ring
\* during the iteration, so an empty ring times out at once; under the
\* RX interrupt it times out when nothing more is coming (as Quiet of
\* Recorder), or, with LATE, before a reply that is still on its way.
Quiet == air = <<>> /\ uart = <<>> /\ (it.at = "wait" => acq = NoAcq)
Recv ==
  /\ it.phase = "recv" /\ wire = NoCmd
  /\ \/ ring # <<>> /\ ring' = Tail(ring) /\ AfterCall(Head(ring))
     \/ ring = <<>> /\ (~ISR_ANYTIME \/ LATE \/ Quiet) /\ UNCHANGED ring
        /\ AfterCall([resp |-> Timeout.resp, intact |-> TRUE, to |-> NoCmd])
  /\ UNCHANGED <<busVars, uart>>

SensorStep == SensorHandles /\ UNCHANGED <<uart, ring, st, it, mresp, shown>>
HostStep == HostDone /\ UNCHANGED <<uart, ring, st, it, mresp, shown>>
TimerStep == HostTimerDone /\ UNCHANGED <<uart, ring, st, it, mresp, shown>>
LineFault == (LoseCommand \/ LoseReply \/ Corrupt)
             /\ UNCHANGED <<uart, ring, st, it, mresp, shown>>

\* After setup(): everything static is zero, STATE_IDLE, next_scan = now.
IInit ==
  /\ BusInit
  /\ uart = <<>> /\ ring = <<>>
  /\ st = "IDLE" /\ it = Between
  /\ mresp = [wait |-> 0, count |-> 0]
  /\ shown = NoResults

\* The steps both recorders share.
Common ==
  \/ LoopIdle \/ LoopBreakSent \/ LoopWaiting \/ LoopReading
  \/ Send \/ Recv \/ SensorStep \/ Arrive \/ LineFault

\* InterruptMaster (serialEvent1) with the InterruptSensor sensor, whose
\* host has no start hook and runs the 500 ms timer.
ArduinoNext == Common \/ SerialEvent1 \/ TimerStep

\* interrupt_master.c (UART_RX_IRQHandler) with a sensor whose host starts
\* its acquisitions in the start_measurement hook.
BareMetalNext == Common \/ UartRxIrq \/ HostStep

-----------------------------------------------------------------------------
\* When SDI12_MASTER_GET_DATA succeeds, the values loop() prints under
\* "Results:" (or processes, in interrupt_master.c) are the sensor's reply
\* to the aD0! it just sent, not a reply left in the ring from before.
ResultsAnswerGetData == shown.what = "results" => shown.to = shown.cmd
=============================================================================
