---------------------------- MODULE MCSensorHost ----------------------------
(* The sensor firmwares at address "0" on one line with a recorder   *)
(* that pings, measures and queries, and talks to a sensor at "1".         *)
EXTENDS SensorHost

MCHosts == {"bare", "arduino", "isr", "easy"}
MCEasyHost == {"easy"}
MCCommands == {<<"0", "M", "!">>, <<"1", "M", "!">>, <<"?", "!">>, <<"0", "D", "0", "!">>}
=============================================================================
