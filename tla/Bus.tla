-------------------------------- MODULE Bus --------------------------------
(***************************************************************************)
(* One libsdi12 sensor (SDI12Sensor) and its host on an SDI-12 line, as a  *)
(* data recorder sees them.  The recorder puts a command on the wire; the  *)
(* sensor's UART hands it to sdi12_sensor_process and the reply goes on    *)
(* the air, followed by the service request of a deferred measurement     *)
(* when its host calls measurement_done.  Where a line reaches the         *)
(* recorder is the recorder's business (its UART, ring buffer or ISR).    *)
(* The line may lose a command or a reply (LOSSY) and change characters   *)
(* of a data line (NOISY).                                                 *)
(*                                                                         *)
(* Every action here leaves the recorder's variables to the module that    *)
(* composes it with a recorder.                                            *)
(***************************************************************************)
EXTENDS SDI12Sensor
INSTANCE SDI12Master WITH VALUE_CHARS <- VALUE_LEN

CONSTANTS
  SensorAddr,   \* SENSOR_ADDR of the recorder sketches
  SetupParams,  \* groups of the parameters the sensor's setup() registers
  LOSSY,        \* commands and replies may be lost
  NOISY         \* characters of a data line may be corrupted

ASSUME SensorAddr = DefaultAddr /\ SetupParams \in Seq(RegGroups)

VARIABLES
  wire,     \* the command on the bus, until the sensor has handled it
  air,      \* the replies on their way to the recorder, in order
  pending   \* meas_pending: the timer the host's loop starts after aM!/aC!

busVars == <<vars, wire, air, pending>>

NoCmd == [kind |-> "none"]
\* A line on the bus: the reply, whether it is as sent, and what it answers.
SensorLine(r, to) == [resp |-> r, intact |-> TRUE, to |-> to]
ServiceRequestTag == [kind |-> "done"]
Lines == [resp : Responses, intact : BOOLEAN, to : Cmds \cup {ServiceRequestTag}]

Emit(to) == air' = IF out' = NoResponse THEN air
                   ELSE Append(air, SensorLine(out', to))

(***************************************************************************)
(* The sensor's host.  With START_HOOK the acquisition starts in the       *)
(* start_measurement hook (acq of SDI12Sensor).  The example sensors       *)
(* install no hook: aM! is answered synchronously, and their loop() starts *)
(* a 500 ms timer after every command whose second character is M or C,   *)
(* then calls measurement_done with the two values of its parameters.     *)
(***************************************************************************)
StartsTimer(cmd) == ~START_HOOK /\ cmd.kind = "meas"

\* loop() step 2: the command serialEvent1 assembled goes to
\* sdi12_sensor_process, and an M or C command starts the timer.
SensorHandles ==
  /\ wire # NoCmd
  /\ Process(wire)
  /\ Emit(wire)
  /\ wire' = NoCmd
  /\ pending' = (pending \/ StartsTimer(wire))

\* A host with the start hook finishes the acquisition: measurement_done.
HostDone ==
  /\ MeasurementDone
  /\ Emit(ServiceRequestTag)
  /\ UNCHANGED <<wire, pending>>

\* loop() step 3: the timer expires and SDI12_SENSOR_MEAS_DONE passes the
\* values of the parameters setup() registered, whatever the state.
HostTimerDone ==
  /\ pending
  /\ StoreDone(CollectGroup(0), "async")
  /\ Emit(ServiceRequestTag)
  /\ pending' = FALSE
  /\ UNCHANGED <<acq, wire>>

\* loop() step 1: breakISR saw the break; the timer is dropped and
\* SDI12_SENSOR_BREAK called.
SensorBreak == Break /\ pending' = FALSE

LoseCommand ==
  /\ LOSSY /\ wire # NoCmd
  /\ wire' = NoCmd
  /\ UNCHANGED <<vars, air, pending>>

LoseReply ==
  /\ LOSSY /\ air # <<>>
  /\ air' = Tail(air)
  /\ UNCHANGED <<vars, wire, pending>>

\* Noise on a data line: a digit changes, or a sign does and the value
\* is no longer found (parse_data_values skips characters until a sign).
Corrupt ==
  /\ NOISY /\ air # <<>>
  /\ Head(air).resp.kind = "data" /\ Head(air).intact
  /\ LET l == Head(air)
         n == Len(l.resp.vals)
     IN  \E k \in {n, n - 1} \cap Nat :
           air' = <<[l EXCEPT !.intact = FALSE,
                              !.resp.vals = SubSeq(l.resp.vals, 1, k)]>>
                  \o Tail(air)
  /\ UNCHANGED <<vars, wire, pending>>

\* The sensor after its setup(): sdi12_sensor_init, then the parameters.
BusInit ==
  /\ nv_addr = NoAddr
  /\ SensorInit(address, <<>>, state, pending_type, crc_requested,
                data_cache, cache_src, data_available, nv_addr)
  /\ params = SetupParams
  /\ acq = NoAcq /\ out = NoResponse
  /\ wire = NoCmd /\ air = <<>> /\ pending = FALSE

BusTypeOK ==
  /\ TypeOK
  /\ wire \in Cmds \cup {NoCmd}
  /\ air \in Seq(Lines)
  /\ pending \in BOOLEAN
=============================================================================
