---------------------------- MODULE MCIrqRecorder ----------------------------
(* The InterruptMaster sketch polling the InterruptSensor sketch's sensor   *)
(* (two parameters in group 0) over a line that loses and corrupts nothing. *)
EXTENDS IrqRecorder

MCSetupParams == <<0, 0>>
MCPages == {0}
=============================================================================
