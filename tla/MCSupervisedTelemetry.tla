---------------------- MODULE MCSupervisedTelemetry ----------------------
(***************************************************************************)
(* An instance of SupervisedTelemetry for TLC: an upright and a fallen     *)
(* pitch.                                                                  *)
(***************************************************************************)
EXTENDS SupervisedTelemetry

MCPitches == {0, -3}

=============================================================================
