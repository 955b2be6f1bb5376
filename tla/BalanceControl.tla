------------------------- MODULE BalanceControl -------------------------
(***************************************************************************)
(* Balance control: the host of the control strategies.  It keeps the      *)
(* operator's setpoints and lets them fade when nobody commands, chooses   *)
(* and tunes a strategy while disengaged, and runs it while engaged.       *)
(*                                                                         *)
(* Time is counted in ticks.  A velocity, and likewise a yaw rate, is      *)
(* counted in what one tick of its own deceleration takes away.  Of a      *)
(* strategy's internal state the module keeps whether a run may have left  *)
(* a trace in it, and one gain that stands for all its parameters; the     *)
(* control laws, hence the efforts, are left open.                         *)
(***************************************************************************)
EXTENDS Integers

CONSTANTS
  Strategies,       \* the compiled-in control strategies
  MaximumVelocity, MaximumYawRate,  \* largest setpoints accepted
  CommandTimeout,   \* ticks after which a command no longer holds
  MaximumGain,      \* upper end of the range of a gain, the lower is 0
  NaN               \* the float that compares with nothing

VARIABLES
  active,             \* the chosen strategy
  engaged,
  velocity, yawRate,  \* the setpoints in force
  commandedAge,       \* ticks since the last accepted motion command
  cancelled,          \* the last command was withdrawn
  applied,            \* the effort last applied
  used,               \* strategies whose state a run may have left its trace in
  gains               \* the gain of each strategy

motionVars == <<velocity, yawRate, commandedAge, cancelled>>
strategyVars == <<used, gains>>
controlVars == <<active, engaged, motionVars, applied, strategyVars>>

CommandedAgeCap == CommandTimeout + 1
Efforts == {"zero", "nonzero"}

Abs(x) == IF x < 0 THEN -x ELSE x

TypeOK ==
  /\ active \in Strategies
  /\ engaged \in BOOLEAN
  /\ velocity \in -MaximumVelocity..MaximumVelocity
  /\ yawRate \in -MaximumYawRate..MaximumYawRate
  /\ commandedAge \in 0..CommandedAgeCap
  /\ cancelled \in BOOLEAN
  /\ applied \in Efforts
  /\ used \subseteq Strategies
  /\ gains \in [Strategies -> 0..MaximumGain]

Init ==
  /\ active \in Strategies
  /\ engaged = FALSE
  /\ velocity = 0 /\ yawRate = 0
  /\ commandedAge = CommandedAgeCap
  /\ cancelled = TRUE
  /\ applied = "zero"
  /\ used = {}
  /\ gains \in [Strategies -> 0..MaximumGain]

----------------------------------------------------------------------------
(***************************************************************************)
(* Mutated forms, no part of the specification.                            *)
(***************************************************************************)
MutWithinUnlessAbove(value, limit) == ~(value # NaN /\ Abs(value) > limit)

MutCommandHoldsUntilCancelled == ~cancelled

MutTowardsZeroOvershoots(value, step) ==
  IF value = 0 THEN 0
  ELSE IF value > 0 THEN value - step ELSE value + step

MutSelectWhileEngaged(strategy) ==
  /\ active' = strategy
  /\ UNCHANGED <<engaged, motionVars, applied, strategyVars>>

MutDisengageKeepsSetpoints ==
  /\ engaged' = FALSE
  /\ cancelled' = TRUE
  /\ applied' = "zero"
  /\ UNCHANGED <<active, velocity, yawRate, commandedAge, strategyVars>>

MutCancelMotionForgotten == UNCHANGED controlVars

----------------------------------------------------------------------------
\* A comparison with NaN fails, so a range is checked by what lies within it.
Within(value, limit) == value # NaN /\ Abs(value) <= limit

CommandHolds == ~cancelled /\ commandedAge <= CommandTimeout

TowardsZero(value, step) ==
  IF Abs(value) <= step THEN 0
  ELSE IF value > 0 THEN value - step ELSE value + step

----------------------------------------------------------------------------
(***************************************************************************)
(* What a strategy's calls do to its state: its parameters, the loops, the *)
(* deviations and the note that the effort saturated.                      *)
(***************************************************************************)
ParameterCount == 1
InRange(value) == value # NaN /\ 0 <= value /\ value <= MaximumGain
StrategySetParameter(value) == gains' = [gains EXCEPT ![active] = value]
StrategyReset == used' = used \ {active}
StrategySteers == used' = used \cup {active}
\* Not every law remembers every iteration.
StrategyBalances == used' \in {used, used \cup {active}}

----------------------------------------------------------------------------
(***************************************************************************)
(* The operator's requests; a refused one changes nothing and is no step.  *)
(***************************************************************************)
Select(strategy) ==
  /\ ~engaged
  /\ active' = strategy
  /\ UNCHANGED <<engaged, motionVars, applied, strategyVars>>

\* The value is checked against the range of the active strategy's parameter.
SetParameter(index, value) ==
  /\ ~engaged
  /\ index < ParameterCount /\ InRange(value)
  /\ StrategySetParameter(value)
  /\ UNCHANGED <<active, engaged, motionVars, applied, used>>

Move(newVelocity, newYawRate) ==
  /\ engaged
  /\ Within(newVelocity, MaximumVelocity) /\ Within(newYawRate, MaximumYawRate)
  /\ velocity' = newVelocity /\ yawRate' = newYawRate
  /\ commandedAge' = 0
  /\ cancelled' = FALSE
  /\ UNCHANGED <<active, engaged, applied, strategyVars>>

CancelMotion ==
  /\ cancelled' = TRUE
  /\ UNCHANGED <<active, engaged, velocity, yawRate, commandedAge, applied,
                 strategyVars>>

----------------------------------------------------------------------------
(***************************************************************************)
(* The supervisor's calls, and the two stages of the control loop.         *)
(***************************************************************************)
Engage ==
  /\ velocity' = 0 /\ yawRate' = 0
  /\ cancelled' = TRUE
  /\ StrategyReset
  /\ engaged' = TRUE
  /\ UNCHANGED <<active, commandedAge, applied, gains>>

Disengage ==
  /\ engaged' = FALSE
  /\ velocity' = 0 /\ yawRate' = 0
  /\ cancelled' = TRUE
  /\ applied' = "zero"
  /\ UNCHANGED <<active, commandedAge, strategyVars>>

\* An invalid estimate makes zero effort without running the strategy; the law
\* may answer a valid one with any effort.
Balance(valid) ==
  /\ engaged
  /\ \/ valid /\ StrategyBalances /\ applied' \in Efforts
     \/ ~valid /\ applied' = "zero" /\ UNCHANGED used
  /\ UNCHANGED <<active, engaged, motionVars, gains>>

\* A setpoint that is no longer commanded fades over the interval measured,
\* then the strategy runs on it.
Steer(interval) ==
  /\ engaged
  /\ velocity' = IF CommandHolds THEN velocity ELSE TowardsZero(velocity, interval)
  /\ yawRate' = IF CommandHolds THEN yawRate ELSE TowardsZero(yawRate, interval)
  /\ StrategySteers
  /\ UNCHANGED <<active, engaged, commandedAge, cancelled, applied, gains>>

TimePasses ==
  /\ commandedAge' = IF commandedAge < CommandedAgeCap THEN commandedAge + 1
                     ELSE commandedAge
  /\ UNCHANGED <<active, engaged, velocity, yawRate, cancelled, applied,
                 strategyVars>>

=============================================================================
