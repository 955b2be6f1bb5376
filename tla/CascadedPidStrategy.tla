----------------------- MODULE CascadedPidStrategy -----------------------
(***************************************************************************)
(* The cascaded strategy: at outer iterations a velocity loop requests a   *)
(* lean and a yaw loop a differential effort, at balance iterations the    *)
(* pitch loop, damped by the pitch rate, makes the common effort.          *)
(***************************************************************************)
EXTENDS Integers, IncrementalPid

CONSTANTS
  PitchLoop, VelocityLoop, YawLoop,  \* gains of the loops
  PitchDamping,
  EffortLimit, MaximumLean, MaximumDifferential

Cleared ==
  [pitch |-> Rested, setPoint |-> 0, velocity |-> Rested, yaw |-> Rested,
   differential |-> 0, damping |-> 0]

----------------------------------------------------------------------------
\* A mutated form, no part of the specification: the effort that was applied is
\* ignored.
MutSaturatedIgnored(pid, effort) == pid

----------------------------------------------------------------------------
Steered(pid, setpoints, chassis, interval) ==
  LET velocity == Process(pid.velocity, setpoints.velocity - chassis.velocity,
                          VelocityLoop, interval, MaximumLean)
      yaw == Process(pid.yaw, setpoints.yawRate - chassis.yawRate, YawLoop, interval,
                     MaximumDifferential)
  IN [pid EXCEPT !.velocity = velocity, !.setPoint = -velocity.output,
                 !.yaw = yaw, !.differential = yaw.output]

Balanced(pid, estimate, interval) ==
  [pid EXCEPT
     !.pitch = Process(@, pid.setPoint - estimate.pitch, PitchLoop, interval,
                       EffortLimit),
     !.damping = PitchDamping * estimate.pitchRate]

Common(pid) == pid.pitch.output - pid.damping

\* Accumulation restarts from the common effort that was applied.
Saturated(pid, effort) ==
  LET common == (effort.left + effort.right) \div 2
  IN [pid EXCEPT !.pitch = SetPreviousOutput(@, Clamp(common + pid.damping, EffortLimit))]

=============================================================================
