----------------------------- MODULE SensorHost -----------------------------
(***************************************************************************)
(* How the example sensor firmwares frame commands before they reach      *)
(* sdi12_sensor_process.  Every host collects the bytes of the line in    *)
(* cmd_buf and hands the buffer over when a '!' or a '?' arrives:          *)
(*   "bare"    BareSensor.ino: loop() polls the UART and processes at once *)
(*             (no break detection);                                       *)
(*   "arduino" InterruptSensor.ino: serialEvent1 fills cmd_buf and sets    *)
(*             cmd_ready, breakISR sets break_flag, loop() handles both;   *)
(*   "isr"     interrupt_sensor.c (in example_crc.c): the same with a true *)
(*             UART_RX_IRQHandler and a pin-change break interrupt;        *)
(*   "easy"    EasySensor.ino: loop() reads up to '!' with readBytesUntil  *)
(*             (1 s Stream timeout) and appends the '!' itself (no break  *)
(*             detection).                                                 *)
(* The sensor at MyAddr runs one of these firmwares (fw, fixed at power-  *)
(* up) on a line on which a data recorder sends commands and breaks and,   *)
(* with FOREIGN, a second sensor at OtherAddr answers the commands         *)
(* addressed to it.  A byte is a one-letter string; a sensor does not      *)
(* receive its own transmissions.                                          *)
(*                                                                         *)
(* Timing that the model keeps: a command takes at least 25 ms at 1200    *)
(* baud and a recorder sends the next command only after the reply or its *)
(* timeout, and a break is followed by >= 8.33 ms of marking, while one    *)
(* loop() iteration takes microseconds.  So the recorder starts a command  *)
(* or a break only when the host has consumed the line, and a host       *)
(* receives no byte while a break it detected is still unhandled.          *)
(***************************************************************************)
EXTENDS Naturals, Sequences, FiniteSets

CONSTANTS
  Hosts,          \* the firmwares: a subset of {"bare", "arduino", "isr", "easy"}
  MyAddr,         \* the address of the sensors that run the hosts
  OtherAddr,      \* the address of the second sensor on the line
  Commands,       \* the commands the recorder sends, as byte sequences
  CMD_BUF_SIZE,   \* size of cmd_buf (80 in the sketches)
  FOREIGN,        \* the second sensor is present and answers
  NOISY           \* a receiver may drop a byte (parity error)

VARIABLES
  fw,       \* the firmware the sensor runs
  uart,     \* uart[h]: the bytes of the line host h has not received yet
  buf,      \* buf[h]: cmd_buf[0 .. cmd_len)
  ready,    \* cmd_ready (always FALSE for "bare")
  brk,      \* break_flag (always FALSE for "bare")
  mcmd,     \* the recorder's current command, <<>> after a break
  first,    \* mcmd is the first command after a break (or power-up)
  damaged,  \* damaged[h]: host h lost a byte of the line since mcmd began
  got,      \* got[h]: host h passed mcmd to sdi12_sensor_process since it
            \* began ("?!" as "?", since the hosts end a command at '?')
  spill     \* EasySensor.ino's loop() wrote past the end of its buf

hvars == <<fw, uart, buf, ready, brk, mcmd, first, damaged, got, spill>>

IrqHosts == {fw} \cap {"arduino", "isr"}
Terminators == {"!", "?"}
Query == <<"?", "!">>

\* The second sensor's reply: its address, value text, CR LF.
OtherReply == <<OtherAddr, "v", "r", "n">>

\* What the line carries for command c.
LineBytes(c) == IF FOREIGN /\ c[1] = OtherAddr THEN c \o OtherReply ELSE c

\* A buffer handed to sdi12_sensor_process is the recorder's command.
IsMcmd(b) == b = mcmd \/ (mcmd = Query /\ b = <<"?">>)

\* Host h has nothing left to do with the bytes of the line.
Idle(h) == uart[h] = <<>> /\ ~ready[h] /\ ~brk[h]

-----------------------------------------------------------------------------
(* The line.                                                               *)

\* send_command of the recorder, and the second sensor's answer.
RecorderSend(c) ==
  /\ Idle(fw)
  /\ uart' = [uart EXCEPT ![fw] = LineBytes(c)]
  /\ mcmd' = c
  /\ first' = (mcmd = <<>>)
  /\ damaged' = [h \in Hosts |-> FALSE]
  /\ got' = [h \in Hosts |-> FALSE]
  /\ UNCHANGED <<buf, ready, brk>>

\* breakISR of InterruptSensor.ino at the falling edge that ends the
\* recorder's >= 12 ms of spacing: break_flag is set.
BreakIsr(h) == h = "arduino"

\* SDI12_LINE_CHANGE_IRQHandler of interrupt_sensor.c: the same test.
\* BareSensor.ino has no break detection.
LineChangeIrq(h) == h = "isr"

\* sdi12_master_send_break on the line.
RecorderBreak ==
  /\ Idle(fw)
  /\ brk' = [brk EXCEPT ![fw] = BreakIsr(fw) \/ LineChangeIrq(fw)]
  /\ mcmd' = <<>>
  /\ UNCHANGED <<uart, buf, ready, first, damaged, got>>

\* A receiver drops the byte it is receiving.
LoseByte(h) ==
  /\ NOISY /\ uart[h] # <<>>
  /\ uart' = [uart EXCEPT ![h] = Tail(@)]
  /\ damaged' = [damaged EXCEPT ![h] = TRUE]
  /\ UNCHANGED <<buf, ready, brk, mcmd, first, got>>

-----------------------------------------------------------------------------
(* The interrupt-driven hosts.                                             *)

\* Mutant of RxByte: a byte is appended without the room check.
RxByteNoBound(h, c) ==
  \/ ready[h] /\ UNCHANGED <<buf, ready>>
  \/ ~ready[h] /\ buf' = [buf EXCEPT ![h] = Append(@, c)]
     /\ ready' = [ready EXCEPT ![h] = c \in Terminators]

\* One byte c into cmd_buf: dropped while the previous command is not yet
\* consumed; '!' or '?' ends the command; other bytes while there is room.
RxByte(h, c) ==
  \/ ready[h] /\ UNCHANGED <<buf, ready>>
  \/ ~ready[h] /\ c \in Terminators
     /\ buf' = [buf EXCEPT ![h] = Append(@, c)]
     /\ ready' = [ready EXCEPT ![h] = TRUE]
  \/ ~ready[h] /\ c \notin Terminators
     /\ buf' = [buf EXCEPT ![h] = IF Len(@) < CMD_BUF_SIZE - 2 THEN Append(@, c)
                                  ELSE @]
     /\ UNCHANGED ready

Receive(h) ==
  /\ uart[h] # <<>> /\ ~brk[h]
  /\ RxByte(h, Head(uart[h]))
  /\ uart' = [uart EXCEPT ![h] = Tail(@)]
  /\ UNCHANGED <<brk, mcmd, first, damaged, got>>

\* serialEvent1, between loop() iterations.
SerialEvent1(h) == h = "arduino" /\ Receive(h)

\* UART_RX_IRQHandler, once per byte.
UartRxIrq(h) == h = "isr" /\ Receive(h)

\* Mutant of LoopStep: the break branch clears cmd_ready but not cmd_len.
LoopStepNoClear(h) ==
  /\ \/ brk[h]
        /\ brk' = [brk EXCEPT ![h] = FALSE]
        /\ ready' = [ready EXCEPT ![h] = FALSE]
        /\ UNCHANGED <<buf, got>>
     \/ ~brk[h] /\ ready[h]
        /\ got' = [got EXCEPT ![h] = @ \/ IsMcmd(buf[h])]
        /\ buf' = [buf EXCEPT ![h] = <<>>]
        /\ ready' = [ready EXCEPT ![h] = FALSE]
        /\ UNCHANGED brk
  /\ UNCHANGED <<uart, mcmd, first, damaged>>

\* One loop() iteration: 1. a break clears cmd_buf and cmd_ready; else
\* 2. a ready command is copied out, cmd_buf emptied, and processed.
LoopStep(h) ==
  /\ \/ brk[h]
        /\ brk' = [brk EXCEPT ![h] = FALSE]
        /\ buf' = [buf EXCEPT ![h] = <<>>]
        /\ ready' = [ready EXCEPT ![h] = FALSE]
        /\ UNCHANGED got
     \/ ~brk[h] /\ ready[h]
        /\ got' = [got EXCEPT ![h] = @ \/ IsMcmd(buf[h])]
        /\ buf' = [buf EXCEPT ![h] = <<>>]
        /\ ready' = [ready EXCEPT ![h] = FALSE]
        /\ UNCHANGED brk
  /\ UNCHANGED <<uart, mcmd, first, damaged>>

Loop(h) == h = "arduino" /\ LoopStep(h)
AppMainLoop(h) == h = "isr" /\ LoopStep(h)

-----------------------------------------------------------------------------
(* BareSensor.ino: loop() reads the UART and processes a command inline.  *)

BareLoop(h) ==
  /\ h = "bare" /\ uart[h] # <<>>
  /\ LET c == Head(uart[h]) IN
       IF c \in Terminators
         THEN /\ got' = [got EXCEPT ![h] = @ \/ IsMcmd(Append(buf[h], c))]
              /\ buf' = [buf EXCEPT ![h] = <<>>]
         ELSE /\ buf' = [buf EXCEPT ![h] = IF Len(@) < CMD_BUF_SIZE - 2
                                          THEN Append(@, c) ELSE @]
              /\ UNCHANGED got
  /\ uart' = [uart EXCEPT ![h] = Tail(@)]
  /\ UNCHANGED <<ready, brk, mcmd, first, damaged>>

-----------------------------------------------------------------------------
(* EasySensor.ino: loop() calls readBytesUntil('!', buf, 79) once a byte  *)
(* is available.  It returns at '!' (not stored), after 79 bytes, or when  *)
(* no byte came for the 1 s Stream timeout; loop() then writes '!' at     *)
(* buf[len] and the NUL at buf[len + 1] of char buf[80] (CMD_BUF_SIZE)     *)
(* and calls SDI12_SENSOR_PROCESS.  buf is local to the iteration.         *)

\* loop() after readBytesUntil returned the bytes b: for len > 0, the two
\* writes (the NUL lands past the array when len = CMD_BUF_SIZE - 1) and
\* SDI12_SENSOR_PROCESS on buf[0 .. len] with the '!'.
EasyProcess(h, b) ==
  /\ got' = [got EXCEPT ![h] = @ \/ (b # <<>> /\ IsMcmd(Append(b, "!")))]
  /\ spill' = (spill \/ (b # <<>> /\ Len(b) + 2 > CMD_BUF_SIZE))
  /\ buf' = [buf EXCEPT ![h] = <<>>]

\* readBytesUntil takes one byte.
EasyRead(h) ==
  /\ h = "easy" /\ uart[h] # <<>>
  /\ LET c == Head(uart[h]) IN
       IF c = "!" THEN EasyProcess(h, buf[h])
       ELSE IF Len(buf[h]) + 1 = CMD_BUF_SIZE - 1 THEN EasyProcess(h, Append(buf[h], c))
       ELSE buf' = [buf EXCEPT ![h] = Append(@, c)] /\ UNCHANGED <<got, spill>>
  /\ uart' = [uart EXCEPT ![h] = Tail(@)]
  /\ UNCHANGED <<ready, brk, mcmd, first, damaged>>

\* readBytesUntil times out with bytes read and no '!'.
EasyTimeout(h) ==
  /\ h = "easy" /\ buf[h] # <<>> /\ uart[h] = <<>>
  /\ EasyProcess(h, buf[h])
  /\ UNCHANGED <<uart, ready, brk, mcmd, first, damaged>>

-----------------------------------------------------------------------------
HInit ==
  /\ fw \in Hosts
  /\ uart = [h \in Hosts |-> <<>>]
  /\ buf = [h \in Hosts |-> <<>>]
  /\ ready = [h \in Hosts |-> FALSE]
  /\ brk = [h \in Hosts |-> FALSE]
  /\ mcmd = <<>> /\ first = TRUE
  /\ damaged = [h \in Hosts |-> FALSE]
  /\ got = [h \in Hosts |-> FALSE]
  /\ spill = FALSE

HNext ==
  /\ \/ /\ \/ \E c \in Commands : RecorderSend(c)
           \/ RecorderBreak
           \/ \E h \in {fw} :
                \/ SerialEvent1(h) \/ UartRxIrq(h) \/ Loop(h) \/ AppMainLoop(h)
                \/ BareLoop(h) \/ LoseByte(h)
        /\ UNCHANGED spill
     \/ \E h \in {fw} : EasyRead(h) \/ EasyTimeout(h)
  /\ UNCHANGED fw

HSpec == HInit /\ [][HNext]_hvars

-----------------------------------------------------------------------------
(* Properties.                                                             *)

Targeted(c) == c # <<>> /\ (c[1] = MyAddr \/ c = Query)

HTypeOK ==
  /\ fw \in Hosts
  /\ Len(buf[fw]) <= CMD_BUF_SIZE - 1
  /\ spill \in BOOLEAN
  /\ mcmd \in Commands \cup {<<>>}

\* Once a host has consumed the line, every command addressed to its sensor
\* that it received without loss was passed to sdi12_sensor_process as the
\* recorder sent it.
CommandReachesEngine ==
  Idle(fw) /\ Targeted(mcmd) /\ ~damaged[fw] => got[fw]

\* The interrupt-driven hosts recover from any garbage a lost byte left in
\* cmd_buf at the next break: the first command after a break, received
\* without loss, reaches the engine intact (loop() clears cmd_buf and
\* cmd_ready when it sees break_flag).
ResyncAfterBreak ==
  \A h \in IrqHosts :
    Idle(h) /\ first /\ Targeted(mcmd) /\ ~damaged[h] => got[h]

\* EasySensor.ino's loop() keeps its two writes, the '!' it appends and the
\* terminating NUL, inside char buf[80]: readBytesUntil('!', buf, 79) may
\* return 79 bytes when a lost '!' joins two commands (or a reply of
\* another sensor precedes one) within the 1 s timeout.
EasyWritesInBounds == ~spill
=============================================================================
