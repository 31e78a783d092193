# TLA+ models of libsdi12

libsdi12 is a C library for the SDI-12 sensor bus. It has two engines and a
shared codec:

* the **sensor engine** (`src/sdi12_sensor.c`). The host passes each complete
  command to `sdi12_sensor_process`. The engine replies through the
  `send_response` hook. It keeps a small state machine
  (READY, MEASURING, MEASURING_C, DATA_READY) and a data cache.
  - Deferred measurements go through the `start_measurement` hook. The host
    reports their values later with `sdi12_sensor_measurement_done`.
  - A break on the line is reported with `sdi12_sensor_break`.
  - The address persists through the `save_address` / `load_address` hooks.
* the **master engine** (`src/unnamed/part_000`, `sdi12_master.c`). It sends
  commands, waits for replies and service requests with timeouts, and parses
  the replies.
* the **CRC-16-IBM codec** (`src/unnamed/part_005`) and the value
  formatter/parser, which both engines use.

The two engines interact only over the bus. The master sends a command and
at most one sensor answers. A deferred `aM!` is followed by a service
request from the sensor. `aC!` lets several sensors measure at once, and any
later command addressed to a sensor aborts its concurrent measurement.

## Modules

| Module | Models | State |
|---|---|---|
| `DataPages` | `format_value` / `format_data_page` (sdi12_sensor.c:48-139) | pure operators |
| `MCDataPages` | checks that every value of the cache is on one of the pages aD0!..aD9! (spec 4.D) | `lens` (the text length of each cached value), `budget` |
| `MCFirmware` | checks the sensor firmware's byte-level code in one run: Init picks a host on its line (`MCSensorHost`), a CRC text or a value cache; the codec inputs never change | the `SensorHost` variables, `msg`, `lens`, `budget` |
| `SDI12Sensor` | the sensor engine and a host that drives it through the start hook | see below |
| `MCSensor` | adds a bus-observer history for the service-request and liveness properties, and the addresses the logger may find the sensor at (the last one confirmed to `aAb!`, plus those of `aAb!` commands whose reply a power failure cut off) | `hist`, `known` |
| `MCSensorData` | adds whether the last measurement command asked for a CRC, and how many values the last measurement reply since the last break announced | `crcAsked`, `announced` |
| `Crc16` | `sdi12_crc16`, `sdi12_crc_encode_ascii`, `sdi12_crc_append`, `sdi12_crc_verify` (`src/unnamed/part_005`) | pure operators over byte sequences |
| `SDI12Master` | what `acknowledge`, `start_measurement` / `parse_meas_response`, `wait_service_request`, `get_data` / `parse_data_values` conclude from a received line (`src/unnamed/part_000`) | pure operators |
| `Bus` | one `SDI12Sensor` with its host on a line that may lose, corrupt or delay lines | `wire`, `air`, `pending` |
| `Recorder` | the raw-API data recorder loop of `EasySensor.ino` (lines 224-338) over `Bus` | `rx`, `mpc`, `shown` |
| `MCRecorder`, `MCIrqRecorder` | model values and the parameters the sensor's setup() registers | none |
| `SensorHost` | how the four example sensor firmwares frame commands from the line into `cmd_buf` before `sdi12_sensor_process` (`InterruptSensor.ino` 78-173, `interrupt_sensor.c` in `example_crc.c` 294-436, `BareSensor.ino` 178-199, `EasySensor.ino` 59-70) | `fw` (the firmware of this behaviour), `uart`, `buf`, `ready`, `brk`, `spill` (EasySensor wrote past its buffer), and the recorder's `mcmd`, `first`, `damaged`, `got` |
| `MCSensorHost` | the four firmwares (or EasySensor alone) and the recorder's commands | none |
| `IrqRecorder` | the interrupt-driven recorders: InterruptMaster of `EasySensor.ino` (378-578) and `interrupt_master.c` in `InterruptSensor.ino` (206-404) | `uart`, `ring`, `st`, `it`, `mresp`, `shown` |

### SDI12Sensor

**Variables.** They are the fields of `sdi12_sensor_ctx_t`: `address`,
`params` (the group of each registered parameter), `state`, `pending_type`,
`crc_requested`, `data_cache` (the indices of the parameters whose readings
are cached) and `data_available`. Three more variables belong to the host:

- `acq`: the host's deferred acquisition. Like the `meas_pending` flag of the
  examples, there is one at a time, and a new start replaces it.
- `nv_addr`: the host's non-volatile address.
- `out`: what the step put on the bus.

**Ghost fields.** Two fields do not exist in the code; the properties use
them to tell fresh data from stale:

- `cache_src` records where the cached values came from.
- `acq.live` records whether the measurement the acquisition serves is still
  alive.

**Commands.** A command is a parsed record (`Cmds`), not a string. Each
family has one action, and that action is the whole of
`sdi12_sensor_process` on such a command:

1. the address test;
2. the concurrent-measurement abort, which happens *before* dispatch and
   also for commands that are then rejected. `state0`, `avail0`, `cache0`
   and `acq0` give the context as the handler sees it after the abort;
3. the handler.

| Action | Code |
|---|---|
| `Acknowledge` | `a!`, `?!` → `handle_acknowledge` |
| `Identify` | `handle_identify` |
| `Measure` / `HandleMeasurement` | `aM!`, `aC!`, `aV!`, `aHA!`, `aHB!` → `handle_measurement`: the empty-group reply, the async hook path (ttt clamped to 999; MEASURING for M/V and MEASURING_C otherwise; ttt = 0 reads synchronously) and the no-hook path |
| `SendData` | `handle_send_data`: the address if there is no data; the binary formatter for HB; otherwise `format_data_page` with a budget of 35 or 75 |
| `SendBinaryData` | `handle_send_binary_data` |
| `Continuous` | `handle_continuous` |
| `ChangeAddress` | `handle_change_address`; `save_address` runs before the reply |
| `ChangeAddressCut` | power fails inside `handle_change_address` after `save_address` (437-440) and before `send_response`: the address is saved, no reply went out, the sensor restarts |
| `HighVolStub` | `aH!` |
| `IdentifyMeasurement`, `IdentifyParam` | `handle_identify_measurement`; the `_nnn` form writes `crc_requested` |
| `Extended` | `handle_extended`. The extended-command table is abstracted to the three outcomes: no prefix matches, the handler succeeds, the handler fails |
| `Rejected` | dispatch errors (no reply, but the abort has already happened) |
| `NotAddressed` | `SDI12_ERR_NOT_ADDRESSED` (nothing changes) |
| `MeasurementDone` | `sdi12_sensor_measurement_done`. It stores the values in every state. Only MEASURING sends the service request |
| `Break` | the host loop of `InterruptSensor.ino` (it drops the pending acquisition) plus `sdi12_sensor_break` |
| `RegisterParam` | `sdi12_sensor_register_param` below `SDI12_MAX_PARAMS` |
| `PowerCycle` / `Restart` | restart: `sdi12_sensor_init` again, loading the saved address |

**Abstractions.**

- A reading is the index of its parameter. Its text enters only through its
  length (`VALUE_LEN`, in `PageOf`).
- Identification strings, SHEF codes and units are left out.
- The CRC is a flag on the reply.
- The paths where `register_param` fails and leave the context unchanged
  (`PARAM_LIMIT`, group ≥ 10) are not actions.
- `pending_meas_group` is written and never read, so it is omitted.
- STANDBY is never entered by the code.

### Crc16

`ShiftBit` is one pass of the inner loop of `sdi12_crc16`, `CrcByte` one
pass of the outer loop, and `Crc16` folds `CrcByte` over the buffer with
`FoldLeft`. The register arithmetic uses the `Bitwise` module; no value
exceeds 16 bits, so no wrap-around is needed. `Encode` is
`sdi12_crc_encode_ascii`. A C string is a sequence of byte values without
its NUL. `CrcAppend` returns the error code and the resulting buffer, and
`CrcVerify` the verdict. `RefCrc` is the reference: the same polynomial as
a bit-serial register fed the message least significant bit first, as
spec 4.A describes it. `Decode` is the inverse of the encoding.

`sdi12_crc_append_n`, the explicit-length variant that spec 4.A names and
that `handle_send_data` calls for binary HB pages (sdi12_sensor.c:367), is
declared in `sdi12.h` but has no definition under `src/`. It is therefore
not modelled.

### SDI12Master

Pure operators on one received line. A line is the response record the
sensor sent (`SDI12Sensor`'s `Responses`), a flag `intact` (FALSE when
noise changed a character), and the command it answers (a ghost field only
the properties read). A timeout is the line of kind `"timeout"`.

| Operator | Code |
|---|---|
| `AckPresent` | `sdi12_master_acknowledge`: present iff a line starting with the address came |
| `WaitServiceRequest` | `sdi12_master_wait_service_request`: any line starting with the address is OK |
| `StartMeasurement`, `CountWidth`, `NoMeas` | `sdi12_master_start_measurement` and `parse_meas_response`: the length check, ttt, and the 1/2/3-digit count by type |
| `ParseDataValues` | `parse_data_values`: the values of a data line; with `crc` the last 3 characters are removed unchecked |
| `GetData` | `sdi12_master_get_data`: on a timeout `resp` is not written, otherwise it is parsed and SDI12_OK returned |

### Bus

One sensor (`SDI12Sensor`, extended) and its host on the line. `wire` holds
the command in flight, `air` the replies in order, `pending` the
`meas_pending` timer of the example sensor's loop().

- `SensorHandles`: the host hands the assembled command to
  `sdi12_sensor_process` (`InterruptSensor.ino` loop, 157-184), and an M or C
  command starts the timer when no start hook is installed.
- `HostDone`: a host with the start hook calls `measurement_done`.
- `HostTimerDone`: the timer of the example sensor expires and the host
  calls `SDI12_SENSOR_MEAS_DONE` (190-199) in whatever state the engine is.
- `SensorBreak`: the break handling of the loop (144-151), which also drops
  the timer.
- `LoseCommand`, `LoseReply`, `Corrupt`: the fault model (below).

**Which sensor.** None of the example sensors installs a start hook:
`SDI12_SENSOR_SETUP` gives only send, direction and read callbacks, so their
`aM!` is answered synchronously with ttt = 0 and the 500 ms timer then
overwrites the cache without a service request, contrary to the comments at
`InterruptSensor.ino`:188 and 198. `START_HOOK = FALSE` is that sensor and
is used by `irq_arduino`. `START_HOOK = TRUE` is a sensor with a deferred
measurement through the hook, as spec 5 describes; `recorder_*` and
`irq_baremetal` use it, since waiting for a service request is otherwise
never exercised.

**Fault model.** `LOSSY`: a command or a reply disappears (a collision or
a sensor that missed the command). `NOISY`: a character of a data line
changes (`intact = FALSE`). `LATE`: a reply reaches the master after the
master stopped waiting. Every transaction receives with
`SDI12_RESPONSE_TIMEOUT_MS` = 15 ms (`sdi12.h`:118) as its whole budget, and
at 1200 baud even a 3-character reply takes about 25 ms, so a late reply is
the normal case on real hardware rather than an exotic fault. Without
`LATE` a timeout is only taken when nothing more is coming (`Quiet`).

### Recorder

The raw-API loop of `EasySensor.ino`. `mpc` is where loop() is (`step`,
and `phase` send or recv) with its locals `mresp` (count, wait), `page` and
`total`. `rx` is the UART receive buffer of `cb_recv`; `shown` the last
values printed, with the command they were printed for.

- `MasterBreak`: `sdi12_master_send_break` at the start of a cycle; the UART
  restart empties `rx`.
- `Send`: `send_command` of the step's transaction.
- `Recv`: `recv_response` takes the next buffered line or a timeout, and
  `AfterRecv` is the code of loop() after that call (`AfterAck` …
  `AfterDataCrc`, one per call in 224-338), with its early returns.
- `Arrive`: a line moves from the air into `rx`.

### IrqRecorder

Both interrupt-driven recorders. `st` is the static state
(IDLE, BREAK_SENT, WAITING, READING); `it` is the library call of the
current loop() iteration and its phase. `uart` holds what the UART received
and `ring` what is in `rx_buf`.

- `SerialEvent1` (`ISR_ANYTIME = FALSE`): the Arduino core moves the UART's
  lines into the ring, but only between iterations (`it = Between`).
- `UartRxIrq` (`ISR_ANYTIME = TRUE`): `UART_RX_IRQHandler` of
  `interrupt_master.c` at any moment.
- `LoopIdle`, `LoopBreakSent`, `LoopWaiting`, `LoopReading`: the four cases of
  the state machine. BREAK_SENT makes its ping, identify (`IDENTIFY`) and
  measure calls in one iteration, each a `Send` and a `Recv`. `Recv` is
  `sdi_recv`: it reads only the ring.
- `EndIteration`: the iteration ends and `serialEvent1` may run.
- `ArduinoNext` and `BareMetalNext` compose these with the sensor: the
  Arduino build with the example sensor's timer host, the bare-metal build
  with the start-hook host.

### SensorHost

Four sensor firmwares are modelled. The sensor at `MyAddr` runs one of
them, `fw`, chosen in the initial state and fixed for the behaviour: the
firmwares never interact (each only reads the line), so checking them one
per behaviour covers every case of running them side by side while keeping
the state space the sum, not the product, of theirs. Each collects the
line's bytes into `cmd_buf` (`buf[fw]`) and hands the buffer to the engine
at a terminator:

- `"arduino"`, `InterruptSensor.ino`: `SerialEvent1` takes one byte
  (`RxByte`): it drops bytes while `cmd_ready` is set, appends a terminator
  and sets `cmd_ready`, and appends other bytes while
  `cmd_len < CMD_BUF_SIZE - 2`. `BreakIsr` sets `break_flag`. `Loop` is one
  loop() iteration: a break clears `cmd_len` and `cmd_ready`; otherwise a
  ready command is copied out, the buffer emptied, and the copy processed.
- `"isr"`, `interrupt_sensor.c`: the same, with `UartRxIrq`,
  `LineChangeIrq` and `AppMainLoop`.
- `"bare"`, `BareSensor.ino`: `BareLoop` reads one byte and, at a
  terminator, processes the buffer at once. It has no break detection.
- `"easy"`, `EasySensor.ino`: loop() calls `readBytesUntil('!', buf, 79)`
  and appends '!'. `EasyRead` takes one byte: '!' ends the read, a full
  buffer ends it too, other bytes are stored; `EasyTimeout` is the 1 s
  timeout of `readBytesUntil` ending a read with bytes but no '!' (the line
  idle). `EasyProcess` is the rest of loop() for a non-empty read: it
  writes '!' at `buf[len]` and the NUL at `buf[len + 1]` (`spill` records
  a write past `char buf[CMD_BUF_SIZE]`) and hands the read, with '!', to
  the engine.

The environment is a recorder (`RecorderSend`, `RecorderBreak`) and, with
`FOREIGN`, a second sensor at `OtherAddr` whose reply to a command for it
follows the command on the line. With `NOISY` a receiver may drop a byte
(`LoseByte`; Arduino's HardwareSerial discards bytes with parity errors).

Timing the model keeps: a command takes at least 25 ms at 1200 baud, a
recorder sends the next command after the reply or its timeout, a break is
followed by at least 8.33 ms of marking, and one loop() iteration takes
microseconds. So the recorder starts a command or a break only when every
host has consumed the line (`Idle`), and a host receives no byte while a
break it detected is unhandled. A sensor does not hear its own replies.
`got[h]` records whether host h handed the recorder's current command to the
engine as sent; the engine itself is `SDI12Sensor`.

## Runs

| Run | Result | What it shows |
|---|---|---|
| `datapages_lost` | violation | `<<9,9,9,9>>` with budget 35: the fourth value is on no page; aD1! is always empty (sdi12_sensor.c:91). A second finding at line 106 rests on the same property (see below). |
| `sensor_main` | pass, ~41k states | With a start-hook host and two addresses: `TypeOK` holds, the service request follows only a deferred aM!/aV! header and at most once per header, every deferred measurement ends, and with the save/load hooks the sensor answers at an address the logger can expect: the one it last confirmed to aAb!, or the one an aAb! asked for whose reply a power failure cut off. This holds across any number of restarts, measurements and failures inside `handle_change_address`. A reply sent before `save_address` would break it. |
| `sensor_aborted` | violation | aC! (ttt > 0), then an addressed command (abort), then the host completes, then aD0! serves the aborted measurement's values. |
| `sensor_stale` | violation | aV! caches one value; aM1! on an empty group replies `00000` (no values) and returns before touching the cache; aD0! serves the old value. |
| `sensor_crc` | violation | aM!, then aIC_001! (which is read as a CRC request), then aD0! carries a CRC that aM! did not ask for. |
| `firmware` | pass, ~126k states | Hosts: on a line that drops bytes, `cmd_buf` of the bare and interrupt-driven hosts stays within `CMD_BUF_SIZE - 1` bytes (EasySensor's read within its limit), and the interrupt-driven hosts hand the first command after a break to the engine exactly as sent (a query "?!" as "?"), whatever a lost '!' left in the buffer before. CRC, every text of up to 3 bytes over {'0', '+', CR, LF, 0x01, 0xFF}: `sdi12_crc16` equals the bit-serial reference, every single-bit flip changes it, a non-empty reply that `crc_append` extends into an 8-byte buffer passes `crc_verify`, and the three CRC characters decode back to the CRC. Pages, every cache of up to 13 values of 2 or 9 characters: pages 0 and 1 stay within the 35/75 budget. |
| `recorder_main` | pass, ~200k states | With lost, corrupted and late lines: the values loop() prints in the page loop are always the reply to the aDn! just sent, and loop() reads pages after wait_service_request only when the line it took is the real service request. Both depend on the UART restart at every break and on the early returns. And every pass of loop() ends and a new scan starts, even if the line fails for ever (`CycleEnds`; a page loop that retried a failed page would spin). |
| `recorder_crc` | violation | aMC!, then aD0! whose reply noise changes: get_data returns SDI12_OK and loop() prints "CRC OK". |
| `irq_arduino` | violation | Perfect line, example sensor: the ping reply reaches the ring only after the iteration, so identify and measure read the previous reply; one cycle later GET_DATA reads a stale line and Results prints it. |
| `irq_baremetal` | violation | The aM! reply is lost; the static mresp still says wait 0, READING starts, and GET_DATA takes the service request as a data reply; the real reply stays in the ring. |
| `host_easy` | violation | EasySensor.ino, a line that drops bytes: the '!' of 0M! is lost, 0D0! follows within the 1 s timeout, `readBytesUntil` returns `CMD_BUF_SIZE - 1` bytes, and loop() writes the NUL one past `buf`. |
| `host_foreign` | violation | Loss-free line, second sensor "1": the recorder sends 1M! and sensor 1 answers "1vrn" (value, CR, LF). BareSensor, having handed 1M! over, keeps the reply in `cmd_buf`, and the next query ?! reaches the engine as "1vrn?", which it takes as a command for sensor 1. The interrupt-driven and easy firmwares keep the reply the same way when their loop() has consumed 1M! first. |

Findings are listed in `PROJECT.json` with their source lines. The spec
and header sentences that the violations disagree with are:

- §5: "the engine ignores [measurement_done] if state is not one of Measuring / MeasuringConcurrent" (sensor_aborted);
- §4.D: values overflowing one page continue on the next, and a value goes on the current page while it fits the budget (datapages_lost);
- §3: the data cache is "consistent with the count reported in the last measurement header" and "invalidated by break and by the next measurement command", and the transition table clears it on a break from any state (sensor_stale).
- `sdi12_master.h`:226: get_data returns "SDI12_ERR_CRC on CRC failure" (recorder_crc);
- §4.C: a command whose leading byte is the sensor's address targets it, and §4 lets a recorder send the next command without a break within `MARKING_TIMEOUT_MS` = 87 ms (host_foreign).

`datapages_lost` reports the page-counter trace (line 91). Its property
also catches the guard at line 106 on its own: with the inputs restricted to
caches whose greedy layout is one page, where line 91 plays no part, TLC
finds `<<2,2,2,2,2,2,9,9,9,9,9,9,9>>` at budget 75. The guard stops at
`pos + vlen >= 76` although `crc_append` needs only `pos <= 76`, so the
value that ends a 75-character page is dropped from page 0. The walks for
later pages skip it as part of page 0, so it is on no page.

`sensor_stale` reports the empty-group trace (sdi12_sensor.c:205): it is
the shortest. The same property also catches two other paths, seen when
that return is made to clear the cache: a break in DATA_READY keeps the
cache (928), and a deferred aM! still running under the empty aM1! fills
the cache through `measurement_done`. Both are listed as findings.
Other results are not kept as runs, to stay within the run budget. These
are: the empty-group branch answers aHA! with a 2-digit count (210); the
buffer guard at 106 drops a value that fills the 75-character page
exactly (now a finding of `datapages_lost`, below); and `crc_append` of an empty buffer gives 5 bytes that
`crc_verify` rejects.
A former run `recorder_stale` showed that a reply to aD0! later than the 15 ms
receive budget stays in the receiver, and the raw-API loop of
`EasySensor.ino` prints it as the values of the next aR0! (`part_000`:357);
`Recorder.tla` keeps its property `ContinuousPrintsItsReply`, and
`PagesPrintTheirReply` of `recorder_main` still covers the same stale-reply
hazard for the page loop.
`PROJECT.json` lists these as hazards.

## Bounds

The bounds are set so that every interesting case happens.

**Sensor runs:**

- two sensor addresses plus the wildcard and an invalid byte, so `aAb!`
  really moves the sensor and commands for the other address are seen.
  `MCSensor` leaves out the wildcard forms of all commands but "?!":
  sdi12_sensor_process (748-749) accepts '?' only as the query, so they act
  exactly like commands for the other address (the state count is the same
  with and without them). For the same reason `StepCmds` offers, in each
  state, the targeted commands and one command for the other address: every
  untargeted command is the same `NotAddressed` step;
- commands name groups 0 and 1, so one group can be empty while the other
  is not. The main run registers parameters in group 0 only, so group 1 is
  always the empty one; the other runs register in both groups;
- one parameter slot in `sensor_main` (its properties are about states and replies, not about how many values a group holds), two in the other runs, so a group there can hold 0, 1 or 2 values;
- the hook returns ttt ∈ {0, 1000}: the synchronous path and the clamp;
- page 0 (`sensor_main`), pages 0 and 1 in the other runs.

**Recorder runs:** one sensor at the recorders' `SENSOR_ADDR` "0" with the
two group-0 parameters of the example sensors, ttt ∈ {0, 1}, so both the
synchronous and the service-request path of aM! and aMC! occur. The loops
themselves are bounded by the code (at most 10 pages); the line's queues are
bounded by the protocol, since the master sends one command at a time and
the sensor sends at most a reply and a service request for it, plus what
a late line leaves behind.

**Hosts:** each of the four firmwares (EasySensor alone in `host_easy`), `CMD_BUF_SIZE` = 6 (room for four
bytes and the terminator, against 80 in the sketches), and the commands
0M!, 1M!, ?! and 0D0!. A lost '!' of 0M! followed by 1M! fills the buffer
to its bound, so the room check is exercised; 1M! is a command for another
sensor, ?! ends at '?' with its '!' dropped or handed over alone, and 0D0!
is the longest command, which must fit whole. A read of 0M (a lost
'!') and 0D0 is five bytes, the `readBytesUntil` limit, so EasySensor's
full read, and its write past the buffer, occur. The foreign reply "1vrn"
fits the room, so the foreign bytes reach the engine in front of the next
command.

The host behaviours and the codec inputs share the run `firmware` but
not a behaviour: a host runs only while the codec inputs are empty, and a
codec input is checked with the host at power-up.

**CRC:** texts of up to 3 bytes over six symbols. The symbols include CR
and LF, so there are buffers with and without a trailing CR LF, and stray
CR or LF bytes in the data. A buffer length of 8 makes the 3-byte data
overflow while shorter data fits.

**Pagination:** values of width 2 and 9, up to 13 of them. That is enough
to fill a 75-character page exactly and to overflow a 35-character one.

## Fairness

There are two liveness properties.

`MeasurementCompletes` (sensor_main) rests on weak fairness of
`MeasurementDone`. A host that started an acquisition reports it once its
timer expires: the example loop calls `measurement_done` when
`millis() >= meas_done_at`. Commands, breaks and restarts come from the
environment, which need not send any.

`CycleEnds` (recorder_main) rests on `RSpec`. It gives weak fairness to:
- the recorder's steps (`MasterBreak`, `Send`, `Recv`): loop() runs
  forever, and each library call returns, by a line or by its timeout;
- the sensor's handling of a command on the wire and its host's
  `measurement_done`;
- the UART delivering a line on the air.

Loss, corruption and late delivery (`LineFault`, and `LATE` timeouts) get
no fairness: the line may fail for ever, and the property still holds.

## Not modelled, and the plan

- `sdi12_master_change_address`, query, verify, identify parsing, metadata,
  extended and high-volume/binary commands of the master, and address
  collisions of several sensors on one bus (the Bus has one sensor).
- Sub-line timing: a line arrives whole. A reply cut by the 15 ms budget,
  with its rest read by the next call, and the ring buffer's silent drop
  when full, are therefore not represented.
- `easy_master.c` (`read_sensor`, blocking calls with uninitialised
  locals) and `easy_sensor.c`.
- `EasyMaster.ino` (in `example_crc.c`, 470-595) and `example_sensor.c`
  (69-258).
  - EasyMaster's `setup()` runs the same calls as the raw-API loop once, in
    a straight line. It prints `mresp` and `dresp` whatever the calls
    returned, so after a failed call it prints uninitialised structs.
  - Showing that needs a violation run of its own. The project keeps its
    runs to 12, and those go to the findings above.
  - `example_sensor.c` is one more host of the same engine calls already
    modelled (setup, process, measurement_done, break).
- The demo `main()` of `example_crc.c` (17-65) runs on an 18-byte reply.
  TLC evaluates `Crc16` lazily, through a chain of recursive operators as
  long as the data, and a 23-byte buffer exceeds its evaluation stack. The
  codec's properties are checked over every buffer of up to 3 bytes
  instead.
- The register_xcmd table and multi-line extended replies.
- The break ISRs' millisecond arithmetic (`break_start > 0` as 'no edge',
  the 12 ms test): a recorder break is detected. SensorHost is not composed
  with the engine: it records what it hands over, and `SDI12Sensor` is what
  the engine does with a command.
- An abstract measurement lifecycle (announce → values → read) that the
  sensor refines through a mapping from `state`, `data_available` and the
  cache, checked as a PROPERTY with INSTANCE ... WITH.
