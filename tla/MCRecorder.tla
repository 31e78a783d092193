----------------------------- MODULE MCRecorder -----------------------------
(* The recorder of EasySensor.ino polling a sensor with two parameters in  *)
(* group 0, as the examples' sensors register them.                        *)
EXTENDS Recorder

MCSetupParams == <<0, 0>>
MCPages == 0..9
=============================================================================
