------------------------------ MODULE MCTelemetry ------------------------------
(* Instance of Telemetry: every content of NVS and two restarts, so that a *)
(* power cut meets a clock that was set, and one that was lost before.     *)
EXTENDS Telemetry
=============================================================================
