--------------------------- MODULE LqrStrategy ---------------------------
(***************************************************************************)
(* The full-state feedback strategy.  What it remembers are the deviations *)
(* from the operator's command, held between outer iterations, a yaw loop, *)
(* and that an effort saturated.                                           *)
(***************************************************************************)
EXTENDS Integers, IncrementalPid

CONSTANTS
  PitchGain, PitchRateGain, PositionGain, VelocityGain,  \* of the regulator
  LqrYaw,                                                \* gains of the yaw loop
  MaximumPositionDeviation, MaximumDifferential

Cleared ==
  [yaw |-> Rested, position |-> 0, velocity |-> 0, differential |-> 0,
   saturated |-> FALSE]

----------------------------------------------------------------------------
(***************************************************************************)
(* Mutated forms, no part of the specification.                            *)
(***************************************************************************)
MutBalancedNotesTheLast(lqr) == [lqr EXCEPT !.saturated = FALSE]

----------------------------------------------------------------------------
\* The position deviation accumulates, unless an effort since the last outer
\* iteration saturated.
HeldPosition(lqr, deviation, interval) ==
  IF lqr.saturated THEN lqr.position
  ELSE Clamp(lqr.position + deviation * interval, MaximumPositionDeviation)

Steered(lqr, setpoints, chassis, interval) ==
  LET deviation == chassis.velocity - setpoints.velocity
      yaw == Process(lqr.yaw, setpoints.yawRate - chassis.yawRate, LqrYaw, interval,
                     MaximumDifferential)
  IN [yaw |-> yaw, differential |-> yaw.output, velocity |-> deviation,
      position |-> HeldPosition(lqr, deviation, interval), saturated |-> FALSE]

\* An iteration only reads.
Balanced(lqr) == lqr

Common(lqr, estimate) ==
  -(PitchGain * estimate.pitch + PitchRateGain * estimate.pitchRate
    + PositionGain * lqr.position + VelocityGain * lqr.velocity)

Saturated(lqr) == [lqr EXCEPT !.saturated = TRUE]

=============================================================================
