------------------------------ MODULE MCSensor ------------------------------
(***************************************************************************)
(* Model checking of the sensor engine.  A data logger on the bus watches *)
(* the commands it sends and the replies it gets; `hist` is what it has   *)
(* seen, and the properties compare each reply with that history;       *)
(* `known` is the set of addresses it may find the sensor at: the one    *)
(* the sensor last confirmed to aAb! (the default before any change), and *)
(* those of aAb! commands cut short by a power failure before the reply. *)
(***************************************************************************)
EXTENDS SDI12Sensor, FiniteSets

VARIABLES hist, known

\* start:  the last measurement header with a non-zero count since the last
\*         break or restart, as [type, ttt] (NoStart if none);
\* sr:     a service request has been seen since that header;
NoStart == [type |-> "none", ttt |-> 0]
NoHist == [start |-> NoStart, sr |-> FALSE]

\* The history after a reply `r` to a command.
AfterCmd(h, r) ==
  IF r.kind = "hdr" /\ r.start /\ r.n > 0
    THEN [start |-> [type |-> r.type, ttt |-> r.ttt], sr |-> FALSE]
    ELSE h

\* The addresses the logger expects after command `cmd` got reply `r`.
AfterChaddr(k, cmd, r) == IF cmd.kind = "chaddr" /\ r.kind = "addr" THEN {r.addr} ELSE k

AfterDone(h, r) == IF r.kind = "sr" THEN [h EXCEPT !.sr = TRUE] ELSE h

\* sdi12_sensor_process accepts '?' only as the query "?!" (is_query);
\* any other command with '?' is not addressed, exactly like one for the
\* other address, so with two addresses those commands add no behaviour.
ASSUME Cardinality(Addresses) >= 2
MCCmds == {cmd \in Cmds : cmd.addr # Wildcard \/ IsQuery(cmd)}

\* A command that is not targeted is NotAddressed whatever it is: the same
\* step (no reply, nothing changes).  The acknowledge of another address
\* stands for all of them.
StepCmds ==
  {cmd \in MCCmds : Targeted(cmd)}
    \cup {[kind |-> "ack", addr |-> a] : a \in Addresses \ {address}}

MCInit == Init /\ hist = NoHist /\ known = {DefaultAddr}

MCDone == MeasurementDone /\ hist' = AfterDone(hist, out') /\ UNCHANGED known

MCNext ==
  \/ \E cmd \in StepCmds :
       /\ Process(cmd)
       /\ hist' = AfterCmd(hist, out')
       /\ known' = AfterChaddr(known, cmd, out')
  \/ MCDone
  \/ Break /\ hist' = NoHist /\ UNCHANGED known
  \/ \E g \in RegGroups : RegisterParam(g) /\ UNCHANGED <<hist, known>>
  \/ PowerCycle /\ hist' = NoHist /\ UNCHANGED known
  \/ \E cmd \in StepCmds :
       /\ ChangeAddressCut(cmd)
       /\ hist' = NoHist
       /\ known' = AfterChaddr(known \cup {cmd.new}, cmd, out')

MCVars == <<vars, hist, known>>

MCSpec == MCInit /\ [][MCNext]_MCVars /\ WF_MCVars(MCDone)

-----------------------------------------------------------------------------
(* Properties.                                                             *)

\* A service request (sdi12_sensor_measurement_done in MEASURING) comes
\* only after an aM!/aV! header that announced ttt > 0, and at most once
\* per such header: never for aC!/aHA!/aHB!, never for a synchronous
\* measurement, never twice.
ServiceRequestOnlyAfterDeferredM ==
  [][out'.kind = "sr" =>
       /\ hist.start.type \in {"STANDARD", "VERIFICATION"}
       /\ hist.start.ttt > 0
       /\ ~hist.sr]_MCVars

\* A deferred measurement (MEASURING or MEASURING_C) always ends: the
\* host's measurement_done, an abort, a break or a restart brings the
\* engine to DATA_READY or READY.
MeasurementCompletes ==
  state \in {"MEASURING", "MEASURING_C"} ~> state \in {"DATA_READY", "READY"}


\* With the save/load hooks installed, the sensor answers at an address
\* the logger can expect: the one it last confirmed to aAb!, or the one an
\* aAb! asked for whose reply a power failure cut off; also after any
\* number of restarts and while measurements run.  It is about the order
\* in handle_change_address (save_address before send_response) and the
\* load in sdi12_sensor_init.
AddressPersists == address \in known
=============================================================================
