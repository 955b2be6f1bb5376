----------------------- MODULE MCEffortSaturation -----------------------
(***************************************************************************)
(* An instance of EffortSaturation for TLC, with gains that saturate the   *)
(* effort within a few iterations.                                         *)
(***************************************************************************)
EXTENDS EffortSaturation

MCPitchLoop == [kp |-> 1, ki |-> 1]
MCOuterLoop == [kp |-> 1, ki |-> 1]
MCSetpoints == {[velocity |-> 0, yawRate |-> 0], [velocity |-> 1, yawRate |-> 1]}
MCPitches == {-1, 0, 2}
MCSpeeds == {-1, 0, 1}
MCMinusOne == -1

=============================================================================
