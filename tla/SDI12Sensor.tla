---------------------------- MODULE SDI12Sensor ----------------------------
(***************************************************************************)
(* The sensor engine of libsdi12 (sdi12_sensor.c) together with the host   *)
(* that drives it: the host feeds complete commands to                     *)
(* sdi12_sensor_process, signals a break with sdi12_sensor_break, runs     *)
(* deferred acquisitions that it reports with                              *)
(* sdi12_sensor_measurement_done, registers parameters, and may lose power *)
(* (the context is rebuilt by sdi12_sensor_init).                          *)
(*                                                                         *)
(* A command is a record naming its family and its parsed fields; the     *)
(* response is a record of what reaches the bus.  A measured value is     *)
(* the index of the parameter it was read from; its text enters only by   *)
(* its length (DataPages).                                                *)
(***************************************************************************)
EXTENDS Integers, Sequences, SequencesExt, FiniteSets, DataPages

CONSTANTS
  Addresses,     \* valid addresses the model uses ('0'-'9', 'A'-'Z', 'a'-'z')
  DefaultAddr,   \* address passed to sdi12_sensor_init
  Wildcard,      \* '?'
  BadAddr,       \* a printable character that is not a valid address
  NoAddr,        \* what load_address returns before anything was saved
  Groups,        \* measurement groups the commands name
  RegGroups,     \* groups the host registers parameters in
  MAX_PARAMS,    \* SDI12_MAX_PARAMS (bound of the parameter table)
  TTTs,          \* values the start_measurement hook may return
  Pages,         \* page numbers of aDn! and aDBn!
  VALUE_LEN,     \* length of the text format_value makes of a reading
  START_HOOK,    \* cb.start_measurement installed
  BINARY_HOOK,   \* cb.format_binary_page installed
  NV_HOOKS       \* cb.save_address and cb.load_address installed

ASSUME DefaultAddr \in Addresses /\ Wildcard \notin Addresses
ASSUME BadAddr \notin Addresses \cup {Wildcard} /\ NoAddr \notin Addresses
ASSUME RegGroups \subseteq Groups /\ Groups \subseteq 0..9
ASSUME VALUE_LEN \in ValueLens

States == {"READY", "MEASURING", "MEASURING_C", "DATA_READY"}
MeasTypes == {"STANDARD", "CONCURRENT", "HIGHVOL_ASCII", "HIGHVOL_BINARY",
              "VERIFICATION", "CONTINUOUS"}
\* Where the values in the data cache came from: nothing yet, a synchronous
\* read_param pass, a deferred acquisition reported by measurement_done,
\* or a deferred acquisition whose measurement had been aborted.
Sources == {"none", "sync", "async", "aborted"}

VARIABLES
  address,        \* ctx->address
  params,         \* ctx->params[0 .. param_count-1]: the group of each
  state,          \* ctx->state
  pending_type,   \* ctx->pending_meas_type
  crc_requested,  \* ctx->crc_requested
  data_cache,     \* ctx->data_cache[0 .. data_cache_count-1]: parameter indices
  cache_src,      \* where the cached values came from (not in the code)
  data_available, \* ctx->data_available
  acq,            \* host: the deferred acquisition in progress, or NoAcq
  nv_addr,        \* host: the address in non-volatile storage
  out             \* what the step put on the bus

ctxVars == <<address, params, state, pending_type, crc_requested,
             data_cache, cache_src, data_available>>
vars == <<ctxVars, acq, nv_addr, out>>

\* A deferred acquisition: its group, and whether the measurement it serves
\* is still alive on the sensor (not aborted).  The host runs one at a
\* time; starting another replaces it (the meas_pending flag and timer of
\* the examples).
Acq == [group : Groups, live : BOOLEAN]
NoAcq == [group |-> -1, live |-> FALSE]

-----------------------------------------------------------------------------
(* Commands, as sdi12_sensor_process parses them.                          *)

CmdAddrs == Addresses \cup {Wildcard}
Cmds ==
  [kind : {"ack", "ident", "verify", "hstub", "xcmd", "bad"}, addr : CmdAddrs]
  \cup [kind : {"meas"}, addr : CmdAddrs, type : {"STANDARD", "CONCURRENT"},
        group : Groups, crc : BOOLEAN]
  \cup [kind : {"highvol"}, addr : CmdAddrs,
        type : {"HIGHVOL_ASCII", "HIGHVOL_BINARY"}, crc : BOOLEAN]
  \cup [kind : {"data", "dbin"}, addr : CmdAddrs, page : Pages]
  \cup [kind : {"cont"}, addr : CmdAddrs, group : Groups, crc : BOOLEAN]
  \cup [kind : {"chaddr"}, addr : CmdAddrs, new : Addresses \cup {BadAddr}]
  \cup [kind : {"imeas"}, addr : CmdAddrs,
        type : {"STANDARD", "CONCURRENT", "VERIFICATION", "HIGHVOL_ASCII",
                "CONTINUOUS"}, group : Groups]
  \cup [kind : {"iparam"}, addr : CmdAddrs, sub : {"M", "MC", "C"},
        group : Groups, nnn : 1..2]

(* Responses.                                                              *)
NoResponse == [kind |-> "none"]
AddrResp(a, crc) == [kind |-> "addr", addr |-> a, crc |-> crc]
\* A measurement header atttn / atttnn / atttnnn: `digits` is the width of
\* the count field, `start` tells a measurement command's reply from an
\* identify-measurement reply of the same shape.
Header(a, type, ttt, n, digits, start) ==
  [kind |-> "hdr", addr |-> a, type |-> type, ttt |-> ttt, n |-> n,
   digits |-> digits, start |-> start]
DataResp(a, vals, src, crc) ==
  [kind |-> "data", addr |-> a, vals |-> vals, src |-> src, crc |-> crc]
BinResp(a, vals, src) == [kind |-> "bin", addr |-> a, vals |-> vals, src |-> src]
Responses ==
  {NoResponse}
  \cup [kind : {"addr"}, addr : Addresses, crc : BOOLEAN]
  \cup [kind : {"ident", "sr", "xresp"}, addr : Addresses]
  \cup [kind : {"hdr"}, addr : Addresses, type : MeasTypes, ttt : 0..999,
        n : 0..999, digits : 1..3, start : BOOLEAN]
  \cup [kind : {"data"}, addr : Addresses, vals : Seq(1..MAX_PARAMS),
        src : Sources, crc : BOOLEAN]
  \cup [kind : {"bin", "hvbin"}, addr : Addresses, vals : Seq(1..MAX_PARAMS),
        src : Sources]
  \cup [kind : {"meta"}, addr : Addresses, param : 1..MAX_PARAMS, crc : BOOLEAN]

-----------------------------------------------------------------------------
(* Helpers of sdi12_sensor.c.                                              *)

\* sdi12_valid_address
ValidAddress(c) == c \in Addresses

\* count_group: registered parameters in a group.
CountGroup(g) == Cardinality({i \in DOMAIN params : params[i] = g})

\* collect_group_indices: the indices of a group, in registration order.
CollectGroup(g) == SelectSeq([i \in DOMAIN params |-> i], LAMBDA i : params[i] = g)

\* Count field of a measurement header: saturated width by type.
CountDigits(type) ==
  IF type \in {"STANDARD", "VERIFICATION"} THEN 1
  ELSE IF type \in {"CONCURRENT", "CONTINUOUS"} THEN 2 ELSE 3
Saturate(n, digits) == IF digits = 1 THEN Min({n, 9})
                       ELSE IF digits = 2 THEN Min({n, 99}) ELSE n

\* The per-page value budget handle_send_data picks for the pending type.
PageBudget(type) ==
  IF type \in {"CONCURRENT", "CONTINUOUS", "HIGHVOL_ASCII"}
  THEN C_VALUES_MAX_CHARS ELSE M_VALUES_MAX_CHARS

\* format_data_page over the cache: the parameters on the requested page.
PageOf(cache, page, budget) ==
  LET idx == FormatDataPage([k \in DOMAIN cache |-> VALUE_LEN], page, budget)
  IN  [k \in DOMAIN idx |-> cache[idx[k]]]

-----------------------------------------------------------------------------
(* Addressing (sdi12_sensor_process, before dispatch).                    *)

\* is_query: exactly "?!"; is_addressed: the first byte is our address.
IsQuery(cmd) == cmd.kind = "ack" /\ cmd.addr = Wildcard
IsAddressed(cmd) == cmd.addr = address
Targeted(cmd) == IsQuery(cmd) \/ IsAddressed(cmd)

\* A command addressed to us during a concurrent measurement aborts it:
\* state READY, data_available cleared, cache emptied.  The three values
\* below are the context as the handler then sees it.
Aborts(cmd) == IsAddressed(cmd) /\ state = "MEASURING_C"
state0(cmd) == IF Aborts(cmd) THEN "READY" ELSE state
avail0(cmd) == IF Aborts(cmd) THEN FALSE ELSE data_available
cache0(cmd) == IF Aborts(cmd) THEN <<>> ELSE data_cache
\* The host is not told of the abort; its acquisition for the aborted
\* measurement runs on, and is marked dead here for the properties.
acq0(cmd) == IF Aborts(cmd) /\ acq # NoAcq THEN [acq EXCEPT !.live = FALSE]
             ELSE acq
src0(cmd) == IF Aborts(cmd) THEN "none" ELSE cache_src

\* The context as the abort left it, for a handler that does not touch the
\* measurement state, the cache or the host.
AfterAbort(cmd) ==
  /\ state' = state0(cmd)
  /\ data_available' = avail0(cmd)
  /\ data_cache' = cache0(cmd)
  /\ cache_src' = src0(cmd)
  /\ acq' = acq0(cmd)

\* read_group_sync: read every parameter of the group now.
ReadGroupSync(g) ==
  /\ data_cache' = CollectGroup(g)
  /\ cache_src' = "sync"
  /\ data_available' = TRUE

\* The hook's ttt, clamped to the three digits of the header.
ClampTTTMissing(ret) == ret
ClampTTT(ret) == Min({ret, 999})

\* The state a deferred measurement (ttt > 0) enters: the service-request
\* kind for aM!/aV!, the concurrent kind for aC!/aHA!/aHB!.
DeferredStateAll(type) == "MEASURING"
DeferredState(type) ==
  IF type \in {"STANDARD", "VERIFICATION"} THEN "MEASURING" ELSE "MEASURING_C"

\* What format_binary_page may return: nothing, or the cached values.
HookResults(cache) == {<<>>, cache}

-----------------------------------------------------------------------------
(* Command handlers.  Each action is sdi12_sensor_process on one command  *)
(* addressed to the sensor: the abort, then the handler it dispatches to. *)

\* handle_measurement, for aM!, aC!, aV!, aHA!, aHB! and their CRC forms.
HandleMeasurement(cmd, group, crc, type) ==
  LET n == CountGroup(group)
      d == CountDigits(type)
  IN  /\ crc_requested' = crc
      /\ pending_type' = type
      /\ UNCHANGED <<address, params, nv_addr>>
      /\ \/ /\ n = 0
            /\ out' = Header(address, type, 0, 0,
                             IF type \in {"STANDARD", "VERIFICATION"} THEN 1 ELSE 2,
                             TRUE)
            /\ AfterAbort(cmd)
         \/ /\ n > 0
            /\ START_HOOK
            /\ \E ret \in TTTs :
                 LET ttt == ClampTTT(ret) IN
                 /\ out' = Header(address, type, ttt, Saturate(n, d), d, TRUE)
                 /\ state' = IF ttt = 0 THEN "DATA_READY" ELSE DeferredState(type)
                 /\ IF ttt = 0
                      THEN ReadGroupSync(group) /\ acq' = acq0(cmd)
                      ELSE /\ data_available' = FALSE
                           /\ data_cache' = cache0(cmd)
                           /\ cache_src' = src0(cmd)
                           /\ acq' = [group |-> group, live |-> TRUE]
         \/ /\ n > 0
            /\ ~START_HOOK
            /\ ReadGroupSync(group)
            /\ out' = Header(address, type, 0, Saturate(n, d), d, TRUE)
            /\ state' = "DATA_READY"
            /\ acq' = acq0(cmd)

Measure(cmd) ==
  /\ IsAddressed(cmd)
  /\ \/ cmd.kind = "meas" /\ HandleMeasurement(cmd, cmd.group, cmd.crc, cmd.type)
     \/ cmd.kind = "verify" /\ HandleMeasurement(cmd, 0, FALSE, "VERIFICATION")
     \/ cmd.kind = "highvol" /\ HandleMeasurement(cmd, 0, cmd.crc, cmd.type)

\* handle_acknowledge: a! and ?!.
Acknowledge(cmd) ==
  /\ cmd.kind = "ack" /\ Targeted(cmd)
  /\ out' = AddrResp(address, FALSE)
  /\ AfterAbort(cmd)
  /\ UNCHANGED <<address, params, pending_type, crc_requested, nv_addr>>

\* handle_identify: aI!.
Identify(cmd) ==
  /\ cmd.kind = "ident" /\ IsAddressed(cmd)
  /\ out' = [kind |-> "ident", addr |-> address]
  /\ AfterAbort(cmd)
  /\ UNCHANGED <<address, params, pending_type, crc_requested, nv_addr>>

\* handle_send_data: aD0! .. aD9!.
SendData(cmd) ==
  /\ cmd.kind = "data" /\ IsAddressed(cmd)
  /\ IF ~avail0(cmd)
       THEN out' = AddrResp(address, crc_requested)
     ELSE IF pending_type = "HIGHVOL_BINARY" /\ BINARY_HOOK
       THEN \E v \in HookResults(cache0(cmd)) :
              out' = [kind |-> "hvbin", addr |-> address, vals |-> v,
                      src |-> src0(cmd)]
     ELSE out' = DataResp(address,
                          PageOf(cache0(cmd), cmd.page, PageBudget(pending_type)),
                          src0(cmd), crc_requested)
  /\ AfterAbort(cmd)
  /\ UNCHANGED <<address, params, pending_type, crc_requested, nv_addr>>

\* handle_send_binary_data: aDB0! ..; an empty packet without data or hook.
SendBinaryData(cmd) ==
  /\ cmd.kind = "dbin" /\ IsAddressed(cmd)
  /\ IF ~avail0(cmd) \/ ~BINARY_HOOK
       THEN out' = BinResp(address, <<>>, src0(cmd))
       ELSE \E v \in HookResults(cache0(cmd)) : out' = BinResp(address, v, src0(cmd))
  /\ AfterAbort(cmd)
  /\ UNCHANGED <<address, params, pending_type, crc_requested, nv_addr>>

\* handle_continuous: aR0! .. aR9!, aRC0! .. aRC9!.
Continuous(cmd) ==
  /\ cmd.kind = "cont" /\ IsAddressed(cmd)
  /\ crc_requested' = cmd.crc
  /\ pending_type' = "CONTINUOUS"
  /\ state' = state0(cmd)
  /\ acq' = acq0(cmd)
  /\ IF CountGroup(cmd.group) = 0
       THEN /\ out' = AddrResp(address, cmd.crc)
            /\ data_available' = avail0(cmd)
            /\ data_cache' = cache0(cmd)
            /\ cache_src' = src0(cmd)
       ELSE /\ ReadGroupSync(cmd.group)
            /\ out' = DataResp(address,
                         PageOf(CollectGroup(cmd.group), 0, C_VALUES_MAX_CHARS),
                         "sync", cmd.crc)
  /\ UNCHANGED <<address, params, nv_addr>>

\* handle_change_address: aAb!.  An invalid b is an error with no reply.
ChangeAddress(cmd) ==
  /\ cmd.kind = "chaddr" /\ IsAddressed(cmd)
  /\ IF ValidAddress(cmd.new)
       THEN /\ address' = cmd.new
            /\ nv_addr' = IF NV_HOOKS THEN cmd.new ELSE nv_addr
            /\ out' = AddrResp(cmd.new, FALSE)
       ELSE /\ out' = NoResponse
            /\ UNCHANGED <<address, nv_addr>>
  /\ AfterAbort(cmd)
  /\ UNCHANGED <<params, pending_type, crc_requested>>

\* handle_highvol_stub: aH! and aH followed by neither A nor B.
HighVolStub(cmd) ==
  /\ cmd.kind = "hstub" /\ IsAddressed(cmd)
  /\ out' = Header(address, "HIGHVOL_ASCII", 0, 0, 3, FALSE)
  /\ AfterAbort(cmd)
  /\ UNCHANGED <<address, params, pending_type, crc_requested, nv_addr>>

\* handle_identify_measurement without '_': the header the measurement
\* command would give, with ttt 000.  aIV! and aIHA! describe group 0.
IdentifyMeasurement(cmd) ==
  LET g == IF cmd.type \in {"VERIFICATION", "HIGHVOL_ASCII"} THEN 0 ELSE cmd.group
      d == CountDigits(cmd.type)
  IN  /\ cmd.kind = "imeas" /\ IsAddressed(cmd)
      /\ out' = Header(address, cmd.type, 0, Saturate(CountGroup(g), d), d, FALSE)
      /\ AfterAbort(cmd)
      /\ UNCHANGED <<address, params, pending_type, crc_requested, nv_addr>>

\* handle_identify_measurement with '_nnn': parameter metadata.  The CRC
\* form is recognised by any 'C' before the '_', so aIC_nnn! counts as one;
\* a parameter in range stores that flag in crc_requested.
IdentifyParam(cmd) ==
  LET crc == cmd.sub \in {"MC", "C"}
      idx == CollectGroup(cmd.group)
  IN  /\ cmd.kind = "iparam" /\ IsAddressed(cmd)
      /\ IF cmd.nnn <= Len(idx)
           THEN /\ crc_requested' = crc
                /\ out' = [kind |-> "meta", addr |-> address,
                           param |-> idx[cmd.nnn], crc |-> crc]
           ELSE /\ out' = AddrResp(address, crc)
                /\ UNCHANGED crc_requested
      /\ AfterAbort(cmd)
      /\ UNCHANGED <<address, params, pending_type, nv_addr>>

\* handle_extended: the first registered prefix that matches runs its
\* handler; nothing is sent if it fails, the address if none matches.
Extended(cmd) ==
  /\ cmd.kind = "xcmd" /\ IsAddressed(cmd)
  /\ \/ out' = AddrResp(address, FALSE)
     \/ out' = [kind |-> "xresp", addr |-> address]
     \/ out' = NoResponse
  /\ AfterAbort(cmd)
  /\ UNCHANGED <<address, params, pending_type, crc_requested, nv_addr>>

\* An addressed command the dispatch rejects (unknown letter, aD without a
\* page, aA with an unprintable byte): no reply, but the abort has happened.
Rejected(cmd) ==
  /\ cmd.kind = "bad" /\ IsAddressed(cmd)
  /\ out' = NoResponse
  /\ AfterAbort(cmd)
  /\ UNCHANGED <<address, params, pending_type, crc_requested, nv_addr>>

\* A command for another sensor: SDI12_ERR_NOT_ADDRESSED, nothing changes.
NotAddressed(cmd) ==
  /\ ~Targeted(cmd)
  /\ out' = NoResponse
  /\ UNCHANGED <<ctxVars, acq, nv_addr>>

Process(cmd) ==
  \/ Acknowledge(cmd) \/ Identify(cmd) \/ Measure(cmd) \/ SendData(cmd)
  \/ SendBinaryData(cmd) \/ Continuous(cmd) \/ ChangeAddress(cmd)
  \/ HighVolStub(cmd) \/ IdentifyMeasurement(cmd) \/ IdentifyParam(cmd)
  \/ Extended(cmd) \/ Rejected(cmd) \/ NotAddressed(cmd)

-----------------------------------------------------------------------------
(* The host.                                                               *)

\* The state measurement_done leaves: a measurement in progress ends in
\* DATA_READY, any other state is kept.
DoneStateOnlyM(s) == IF s = "MEASURING" THEN "DATA_READY" ELSE s
DoneState(s) == IF s \in {"MEASURING", "MEASURING_C"} THEN "DATA_READY" ELSE s

\* sdi12_sensor_measurement_done(ctx, values, n): the values are stored
\* whatever the state; only MEASURING sends the service request (by the
\* hook or send_response, same bytes).
StoreDone(vals, src) ==
  /\ data_cache' = vals
  /\ cache_src' = src
  /\ data_available' = TRUE
  /\ out' = IF state = "MEASURING" THEN [kind |-> "sr", addr |-> address]
            ELSE NoResponse
  /\ state' = DoneState(state)
  /\ UNCHANGED <<address, params, pending_type, crc_requested, nv_addr>>

\* The host calls it with the values of the finished acquisition.
MeasurementDone ==
  /\ acq # NoAcq
  /\ StoreDone(CollectGroup(acq.group), IF acq.live THEN "async" ELSE "aborted")
  /\ acq' = NoAcq

\* A break on the bus: the host drops its pending acquisition (the loop of
\* the InterruptSensor example) and calls sdi12_sensor_break, which clears
\* the data only if a measurement was in progress.
Break ==
  /\ acq' = NoAcq
  /\ IF state \in {"MEASURING", "MEASURING_C"}
       THEN data_available' = FALSE /\ data_cache' = <<>> /\ cache_src' = "none"
       ELSE UNCHANGED <<data_available, data_cache, cache_src>>
  /\ state' = "READY"
  /\ out' = NoResponse
  /\ UNCHANGED <<address, params, pending_type, crc_requested, nv_addr>>

\* sdi12_sensor_register_param, below SDI12_MAX_PARAMS.
RegisterParam(g) ==
  /\ Len(params) < MAX_PARAMS
  /\ params' = Append(params, g)
  /\ out' = NoResponse
  /\ UNCHANGED <<address, state, pending_type, crc_requested, data_cache,
                 cache_src, data_available, acq, nv_addr>>

\* sdi12_sensor_init: the address loaded from non-volatile storage if a
\* valid one is there, else the default; the rest of the context zeroed by
\* memset, and READY.
BootAddress(nv) == IF NV_HOOKS /\ ValidAddress(nv) THEN nv ELSE DefaultAddr
SensorInit(a, p, s, t, c, dc, src, av, nv) ==
  /\ a = BootAddress(nv)
  /\ p = <<>>
  /\ s = "READY"
  /\ t = "STANDARD"
  /\ c = FALSE
  /\ dc = <<>>
  /\ src = "none"
  /\ av = FALSE

Init ==
  /\ nv_addr = NoAddr
  /\ SensorInit(address, params, state, pending_type, crc_requested,
                data_cache, cache_src, data_available, nv_addr)
  /\ acq = NoAcq
  /\ out = NoResponse

\* sdi12_sensor_init after a power loss: the host loses its acquisitions
\* and the sensor comes back with non-volatile address nv.
Restart(nv) ==
  /\ SensorInit(address', params', state', pending_type', crc_requested',
                data_cache', cache_src', data_available', nv)
  /\ nv_addr' = nv
  /\ acq' = NoAcq

\* Power loss and restart: the non-volatile address survives.
PowerCycle ==
  /\ out' = NoResponse
  /\ Restart(nv_addr)

\* Mutant of ChangeAddressCut: send_response comes before save_address, so
\* the reply is out and the new address not yet saved when power fails.
ChangeAddressCutReplyFirst(cmd) ==
  /\ cmd.kind = "chaddr" /\ IsAddressed(cmd) /\ ValidAddress(cmd.new)
  /\ out' = AddrResp(cmd.new, FALSE)
  /\ Restart(nv_addr)

\* Power fails inside handle_change_address after save_address and before
\* send_response: the new address is saved, no reply went out, and the
\* sensor restarts.  (A failure before the save is a PowerCycle before
\* the command.)
ChangeAddressCut(cmd) ==
  /\ cmd.kind = "chaddr" /\ IsAddressed(cmd) /\ ValidAddress(cmd.new)
  /\ out' = NoResponse
  /\ Restart(IF NV_HOOKS THEN cmd.new ELSE nv_addr)

Next ==
  \/ \E cmd \in Cmds : Process(cmd)
  \/ MeasurementDone
  \/ Break
  \/ \E g \in RegGroups : RegisterParam(g)
  \/ PowerCycle
  \/ \E cmd \in Cmds : ChangeAddressCut(cmd)

\* The host reports every acquisition it started, unless a break or a
\* restart cancels it (the example loop calls measurement_done once its
\* timer expires).
Fairness == WF_vars(MeasurementDone)

Spec == Init /\ [][Next]_vars /\ Fairness

TypeOK ==
  /\ address \in Addresses
  /\ params \in Seq(RegGroups) /\ Len(params) <= MAX_PARAMS
  /\ state \in States
  /\ pending_type \in MeasTypes
  /\ crc_requested \in BOOLEAN
  /\ data_cache \in Seq(1..MAX_PARAMS)
  /\ cache_src \in Sources
  /\ data_available \in BOOLEAN
  /\ acq \in Acq \cup {NoAcq}
  /\ nv_addr \in Addresses \cup {NoAddr}
  /\ out \in Responses
=============================================================================
