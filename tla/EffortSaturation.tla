------------------------ MODULE EffortSaturation ------------------------
(***************************************************************************)
(* The control strategies while balance control runs them: sessions that   *)
(* begin and end, iterations and outer iterations in any order and over    *)
(* intervals of any length, with any motion of the robot.  The effort a    *)
(* strategy requests is limited wheel by wheel, and a strategy whose       *)
(* effort was is told so.                                                  *)
(*                                                                         *)
(* Angles, speeds and efforts are counted in units of their own, and only  *)
(* the setpoints that matter are left: the command of a session may change *)
(* at every outer iteration.                                               *)
(***************************************************************************)
EXTENDS Integers

CONSTANTS
  PitchGain, PitchRateGain, PositionGain, VelocityGain, LqrYaw,
  MaximumPositionDeviation,                              \* LqrStrategy
  PitchLoop, VelocityLoop, YawLoop, PitchDamping, MaximumLean,
                                                         \* CascadedPidStrategy
  EffortLimit, MaximumDifferential,
  Pitches, PitchRates, Velocities, YawRates,  \* what is estimated and measured
  Setpoints, Intervals

Gains == [kp : Nat, ki : Nat]
ASSUME RegulatorAssumption ==
  {PitchGain, PitchRateGain, PositionGain, VelocityGain} \subseteq Int
ASSUME LoopAssumption ==
  /\ LqrYaw \in Gains /\ PitchLoop \in Gains
  /\ VelocityLoop \in Gains /\ YawLoop \in Gains
  /\ PitchDamping \in Nat
ASSUME LimitAssumption ==
  {EffortLimit, MaximumDifferential, MaximumLean, MaximumPositionDeviation}
    \subseteq Nat
ASSUME InputAssumption ==
  /\ Pitches \cup PitchRates \cup Velocities \cup YawRates \subseteq Int
  /\ Setpoints \subseteq [velocity : Int, yawRate : Int]
  /\ Intervals \subseteq Nat \ {0}

VARIABLES
  active, engaged,
  pid, lqr,     \* what the strategies remember
  applied,      \* the effort applied last
  \* For stating properties only:
  requested,    \* the effort the strategy asked for last
  clipped       \* an effort since the last outer iteration was limited

Pid == INSTANCE CascadedPidStrategy
Lqr == INSTANCE LqrStrategy

strategyVars == <<pid, lqr>>
vars == <<active, engaged, strategyVars, applied, requested, clipped>>

Efforts == [left : Int, right : Int]
Zero == [left |-> 0, right |-> 0]
Limited == [left : -EffortLimit..EffortLimit, right : -EffortLimit..EffortLimit]

PidStates ==
  [pitch : Pid!Loops(Int, EffortLimit), setPoint : -MaximumLean..MaximumLean,
   velocity : Pid!Loops(Int, MaximumLean), yaw : Pid!Loops(Int, MaximumDifferential),
   differential : -MaximumDifferential..MaximumDifferential, damping : Int]
LqrStates ==
  [yaw : Lqr!Loops(Int, MaximumDifferential), velocity : Int, saturated : BOOLEAN,
   position : -MaximumPositionDeviation..MaximumPositionDeviation,
   differential : -MaximumDifferential..MaximumDifferential]

TypeOK ==
  /\ active \in {"pid", "lqr"}
  /\ engaged \in BOOLEAN
  /\ pid \in PidStates
  /\ lqr \in LqrStates
  /\ applied \in Limited
  /\ requested \in Efforts
  /\ clipped \in BOOLEAN

Init ==
  /\ active \in {"pid", "lqr"}
  /\ engaged = FALSE
  /\ pid = Pid!Cleared /\ lqr = Lqr!Cleared
  /\ applied = Zero /\ requested = Zero
  /\ clipped = FALSE

----------------------------------------------------------------------------
\* A mutated form, no part of the specification: both wheels are scaled down, so
\* that the robot turns as asked but is held up less.
MutSaturateKeepsRatio(effort) ==
  LET Abs(x) == IF x < 0 THEN -x ELSE x
      largest == IF Abs(effort.left) > Abs(effort.right) THEN Abs(effort.left)
                 ELSE Abs(effort.right)
  IN IF largest <= EffortLimit THEN effort
     ELSE [left |-> (effort.left * EffortLimit) \div largest,
           right |-> (effort.right * EffortLimit) \div largest]

Saturate(effort) ==
  [left  |-> Pid!Clamp(effort.left, EffortLimit),
   right |-> Pid!Clamp(effort.right, EffortLimit)]

Split(common, differential) ==
  [left |-> common - differential, right |-> common + differential]

\* Every session begins with the active strategy reset.
Engage ==
  /\ ~engaged
  /\ engaged' = TRUE
  /\ IF active = "pid" THEN pid' = Pid!Cleared /\ UNCHANGED lqr
     ELSE lqr' = Lqr!Cleared /\ UNCHANGED pid
  /\ requested' = Zero /\ clipped' = FALSE
  /\ UNCHANGED <<active, applied>>

Disengage ==
  /\ engaged
  /\ engaged' = FALSE
  /\ applied' = Zero /\ requested' = Zero /\ clipped' = FALSE
  /\ UNCHANGED <<active, strategyVars>>

Steer(setpoints, chassis, interval) ==
  /\ engaged
  /\ IF active = "pid"
       THEN pid' = Pid!Steered(pid, setpoints, chassis, interval) /\ UNCHANGED lqr
       ELSE lqr' = Lqr!Steered(lqr, setpoints, chassis, interval) /\ UNCHANGED pid
  /\ clipped' = FALSE
  /\ UNCHANGED <<active, engaged, applied, requested>>

BalancePid(estimate, interval) ==
  LET balanced == Pid!Balanced(pid, estimate, interval)
      effort == Split(Pid!Common(balanced), balanced.differential)
  IN /\ requested' = effort
     /\ pid' = IF Saturate(effort) = effort THEN balanced
               ELSE Pid!Saturated(balanced, Saturate(effort))
     /\ UNCHANGED lqr

BalanceLqr(estimate) ==
  LET balanced == Lqr!Balanced(lqr)
      effort == Split(Lqr!Common(balanced, estimate), balanced.differential)
  IN /\ requested' = effort
     /\ lqr' = IF Saturate(effort) = effort THEN balanced ELSE Lqr!Saturated(balanced)
     /\ UNCHANGED pid

\* Of valid estimates; an invalid one applies no effort and runs no strategy.
Balance(estimate, interval) ==
  /\ engaged
  /\ IF active = "pid" THEN BalancePid(estimate, interval) ELSE BalanceLqr(estimate)
  /\ applied' = Saturate(requested')
  /\ clipped' = (clipped \/ applied' # requested')
  /\ UNCHANGED <<active, engaged>>

BalanceInvalid ==
  /\ engaged
  /\ applied' = Zero /\ requested' = Zero
  /\ UNCHANGED <<active, engaged, strategyVars, clipped>>

----------------------------------------------------------------------------
Estimates == [pitch : Pitches, pitchRate : PitchRates]
Motions == [velocity : Velocities, yawRate : YawRates]

Next ==
  \/ Engage
  \/ Disengage
  \/ \E setpoints \in Setpoints, chassis \in Motions, interval \in Intervals :
       Steer(setpoints, chassis, interval)
  \/ \E estimate \in Estimates, interval \in Intervals : Balance(estimate, interval)
  \/ BalanceInvalid

Spec == Init /\ [][Next]_vars

----------------------------------------------------------------------------
(***************************************************************************)
(* Properties.                                                             *)
(***************************************************************************)
Sum(effort) == effort.left + effort.right
Larger(a, b) == IF a > b THEN a ELSE b
Smaller(a, b) == IF a < b THEN a ELSE b

\* The cascaded strategy leaves saturation at once: an iteration whose pitch error
\* has turned away corrects no harder than what was applied before it, however
\* long the effort had been limited.  Nothing has been stored up that would have to
\* be unwound first, not even by a differential effort that limits one wheel only.
\* (The halving of the sum may lose a unit.)
CorrectionFollowsError ==
  [][\A estimate \in Estimates, interval \in Intervals :
       Balance(estimate, interval) /\ active = "pid" /\ applied # Zero =>
         LET error == pid'.pitch.error
             before == Sum(applied) + 2 * pid.damping
             now == Sum(requested') + 2 * pid'.damping
         IN /\ error <= 0 /\ error <= pid.pitch.error
                 => now <= Larger(before, -(2 * EffortLimit))
            /\ error >= 0 /\ error >= pid.pitch.error
                 => now >= Smaller(before, 2 * EffortLimit) - 1]_vars

\* The regulator's position deviation does not grow through an outer interval in
\* which any effort was limited, the first as well as the last one.
PositionHeldWhileSaturated ==
  [][engaged /\ engaged' /\ active = "lqr" /\ clipped
       => lqr'.position = lqr.position]_vars

\* Turning takes little from balancing: limiting the wheels one by one takes no
\* more from the sum of the efforts than the differential allows, beyond what the
\* limit of each wheel takes anyway.
YawTakesLittle ==
  LET common == Sum(requested) \div 2
      lost == Sum(applied) - 2 * Pid!Clamp(common, EffortLimit)
  IN Larger(lost, -lost) <= MaximumDifferential

=============================================================================
