--------------------- MODULE EffortSaturationProofs ---------------------
(***************************************************************************)
(* Proofs about the strategies under saturation, for all gains, limits and *)
(* intervals, and for any motion of the robot.                             *)
(***************************************************************************)
EXTENDS EffortSaturation, TLAPS

\* What the pitch loop accumulates from is the common effort that was applied, up
\* to the damping, the loop's own limit and the halving of the sum.
RestartsFromApplied ==
  active = "pid" /\ applied # Zero =>
    LET before == Sum(applied) + 2 * pid.damping
    IN /\ 2 * pid.pitch.output <= Larger(before, -(2 * EffortLimit))
       /\ 2 * pid.pitch.output >= Smaller(before, 2 * EffortLimit) - 1

\* The regulator has taken note of every limited effort.
ClippingIsNoted == active = "lqr" /\ clipped => lqr.saturated

IInv ==
  /\ TypeOK
  /\ ~engaged => applied = Zero
  /\ RestartsFromApplied
  /\ ClippingIsNoted
  /\ YawTakesLittle

----------------------------------------------------------------------------
(***************************************************************************)
(* Arithmetic.                                                             *)
(***************************************************************************)
LEMMA ClampInRange ==
  ASSUME NEW limit \in Nat, NEW x \in Int
  PROVE  /\ Pid!Clamp(x, limit) \in -limit..limit
         /\ Lqr!Clamp(x, limit) \in -limit..limit
BY DEF Pid!Clamp, Lqr!Clamp

LEMMA ProcessTyped ==
  ASSUME NEW limit \in Nat, NEW loop \in Pid!Loops(Int, limit),
         NEW error \in Int, NEW gains \in Gains, NEW interval \in Nat
  PROVE  /\ Pid!Process(loop, error, gains, interval, limit) \in Pid!Loops(Int, limit)
         /\ Lqr!Process(loop, error, gains, interval, limit) \in Lqr!Loops(Int, limit)
<1> DEFINE next == loop.output + gains.kp * (error - loop.error)
                     + (gains.ki * interval) * error
<1>1. gains.kp \in Nat /\ gains.ki \in Nat /\ loop.output \in Int /\ loop.error \in Int
  BY DEF Gains, Pid!Loops
<1>2. gains.kp * (error - loop.error) \in Int /\ (gains.ki * interval) * error \in Int
  BY <1>1
<1>3. next \in Int
  BY <1>1, <1>2
<1>4. Pid!Clamp(next, limit) \in -limit..limit /\ Lqr!Clamp(next, limit) \in -limit..limit
  BY <1>3, ClampInRange
<1> QED
  BY <1>4 DEF Pid!Process, Lqr!Process, Pid!Loops, Lqr!Loops

\* An error that has turned away takes the output back, whatever the gains.
LEMMA GainsKeepSigns ==
  ASSUME NEW a \in Nat, NEW x \in Int
  PROVE  /\ a * x \in Int
         /\ x <= 0 => a * x <= 0
         /\ x >= 0 => a * x >= 0
OBVIOUS

\* Limiting the wheels one by one takes little more from the sum than limiting the
\* common effort would.
LEMMA LimitingTakesLittle ==
  ASSUME NEW limit \in Nat, NEW most \in Nat,
         NEW common \in Int, NEW differential \in -most..most
  PROVE  LET lost == Pid!Clamp(common - differential, limit)
                       + Pid!Clamp(common + differential, limit)
                       - 2 * Pid!Clamp(common, limit)
         IN lost <= most /\ -lost <= most
BY DEF Pid!Clamp

----------------------------------------------------------------------------
(***************************************************************************)
(* What the strategies remember keeps its type.                            *)
(***************************************************************************)
Commands == [velocity : Int, yawRate : Int]

LEMMA LimitsTyped ==
  /\ EffortLimit \in Nat /\ MaximumDifferential \in Nat
  /\ MaximumLean \in Nat /\ MaximumPositionDeviation \in Nat
BY LimitAssumption

LEMMA ClearedTyped == Pid!Cleared \in PidStates /\ Lqr!Cleared \in LqrStates
BY LimitsTyped DEF Pid!Cleared, Lqr!Cleared, PidStates, LqrStates, Pid!Rested, Lqr!Rested,
                   Pid!Loops, Lqr!Loops

\* Steering leaves the pitch loop and the damping of the cascaded strategy alone.
LEMMA PidSteeredTyped ==
  ASSUME NEW p \in PidStates, NEW setpoints \in Commands, NEW chassis \in Commands,
         NEW interval \in Nat
  PROVE  LET steered == Pid!Steered(p, setpoints, chassis, interval)
         IN /\ steered \in PidStates
            /\ steered.pitch = p.pitch /\ steered.damping = p.damping
<1> DEFINE velocity == Pid!Process(p.velocity, setpoints.velocity - chassis.velocity,
                                   VelocityLoop, interval, MaximumLean)
           yaw == Pid!Process(p.yaw, setpoints.yawRate - chassis.yawRate, YawLoop,
                              interval, MaximumDifferential)
<1>1. /\ setpoints.velocity - chassis.velocity \in Int
      /\ setpoints.yawRate - chassis.yawRate \in Int
  BY DEF Commands
<1>2. p.velocity \in Pid!Loops(Int, MaximumLean) /\ p.yaw \in Pid!Loops(Int, MaximumDifferential)
  BY DEF PidStates
<1>3. velocity \in Pid!Loops(Int, MaximumLean)
  BY <1>1, <1>2, ProcessTyped, LimitsTyped, LoopAssumption
<1>4. yaw \in Pid!Loops(Int, MaximumDifferential)
  BY <1>1, <1>2, ProcessTyped, LimitsTyped, LoopAssumption
<1>5. /\ -velocity.output \in -MaximumLean..MaximumLean
      /\ yaw.output \in -MaximumDifferential..MaximumDifferential
  <2> HIDE DEF velocity, yaw
  <2> QED
    BY <1>3, <1>4, LimitsTyped DEF Pid!Loops
<1>6. Pid!Steered(p, setpoints, chassis, interval)
        = [p EXCEPT !.velocity = velocity, !.setPoint = -velocity.output,
                    !.yaw = yaw, !.differential = yaw.output]
  BY DEF Pid!Steered
<1> HIDE DEF velocity, yaw
<1> QED
  BY <1>3, <1>4, <1>5, <1>6 DEF PidStates

LEMMA LqrSteeredTyped ==
  ASSUME NEW l \in LqrStates, NEW setpoints \in Commands, NEW chassis \in Commands,
         NEW interval \in Nat
  PROVE  Lqr!Steered(l, setpoints, chassis, interval) \in LqrStates
<1> DEFINE deviation == chassis.velocity - setpoints.velocity
           yaw == Lqr!Process(l.yaw, setpoints.yawRate - chassis.yawRate, LqrYaw,
                              interval, MaximumDifferential)
           position == Lqr!HeldPosition(l, deviation, interval)
<1>1. deviation \in Int /\ setpoints.yawRate - chassis.yawRate \in Int
  BY DEF Commands
<1>2. l.yaw \in Pid!Loops(Int, MaximumDifferential)
  BY DEF LqrStates, Lqr!Loops, Pid!Loops
<1>3. yaw \in Lqr!Loops(Int, MaximumDifferential)
  BY <1>1, <1>2, ProcessTyped, LimitsTyped, LoopAssumption
<1>4. yaw.output \in -MaximumDifferential..MaximumDifferential
  <2> HIDE DEF yaw
  <2> QED
    BY <1>3 DEF Lqr!Loops
<1>5. position \in -MaximumPositionDeviation..MaximumPositionDeviation
  <2>1. l.position \in -MaximumPositionDeviation..MaximumPositionDeviation
    BY DEF LqrStates
  <2>2. l.position + deviation * interval \in Int
    <3> HIDE DEF deviation
    <3> QED
      BY <1>1, <2>1, LimitsTyped
  <2> QED
    BY <2>1, <2>2, ClampInRange, LimitsTyped DEF Lqr!HeldPosition
<1>6. Lqr!Steered(l, setpoints, chassis, interval)
        = [yaw |-> yaw, differential |-> yaw.output, velocity |-> deviation,
           position |-> position, saturated |-> FALSE]
  BY DEF Lqr!Steered
<1> HIDE DEF deviation, yaw, position
<1> QED
  BY <1>1, <1>3, <1>4, <1>5, <1>6 DEF LqrStates

\* A balance iteration replaces the pitch loop and the damping, and nothing else.
LEMMA PidBalancedTyped ==
  ASSUME NEW p \in PidStates, NEW estimate \in [pitch : Int, pitchRate : Int],
         NEW interval \in Nat
  PROVE  LET balanced == Pid!Balanced(p, estimate, interval)
         IN /\ balanced \in PidStates
            /\ balanced.pitch = Pid!Process(p.pitch, p.setPoint - estimate.pitch,
                                            PitchLoop, interval, EffortLimit)
            /\ balanced.differential = p.differential
<1> DEFINE pitch == Pid!Process(p.pitch, p.setPoint - estimate.pitch, PitchLoop,
                                interval, EffortLimit)
           damping == PitchDamping * estimate.pitchRate
<1>1. p.setPoint - estimate.pitch \in Int /\ p.pitch \in Pid!Loops(Int, EffortLimit)
  BY LimitsTyped DEF PidStates
<1>2. pitch \in Pid!Loops(Int, EffortLimit)
  BY <1>1, ProcessTyped, LimitsTyped, LoopAssumption
<1>3. damping \in Int
  BY LoopAssumption
<1>4. Pid!Balanced(p, estimate, interval)
        = [p EXCEPT !.pitch = pitch, !.damping = damping]
  BY DEF Pid!Balanced, PidStates
<1> HIDE DEF pitch, damping
<1>5. /\ Pid!Balanced(p, estimate, interval) \in PidStates
      /\ Pid!Balanced(p, estimate, interval).pitch = pitch
      /\ Pid!Balanced(p, estimate, interval).differential = p.differential
  BY <1>2, <1>3, <1>4 DEF PidStates
<1> QED
  BY <1>5 DEF pitch

LEMMA PidSaturatedTyped ==
  ASSUME NEW p \in PidStates, NEW effort \in Efforts
  PROVE  LET common == (effort.left + effort.right) \div 2
             saturated == Pid!Saturated(p, effort)
         IN /\ saturated \in PidStates
            /\ saturated.pitch.output = Pid!Clamp(common + p.damping, EffortLimit)
            /\ saturated.pitch.error = p.pitch.error
            /\ saturated.damping = p.damping
<1> DEFINE common == (effort.left + effort.right) \div 2
           output == Pid!Clamp(common + p.damping, EffortLimit)
<1>1. common \in Int /\ p.damping \in Int
  BY DEF Efforts, PidStates
<1>2. output \in -EffortLimit..EffortLimit
  <2> HIDE DEF common
  <2> QED
    BY <1>1, ClampInRange, LimitsTyped
<1>3. Pid!Saturated(p, effort) = [p EXCEPT !.pitch = [@ EXCEPT !.output = output]]
  BY DEF Pid!Saturated, Pid!SetPreviousOutput
<1> HIDE DEF output
<1>4. /\ Pid!Saturated(p, effort) \in PidStates
      /\ Pid!Saturated(p, effort).pitch.output = output
      /\ Pid!Saturated(p, effort).pitch.error = p.pitch.error
      /\ Pid!Saturated(p, effort).damping = p.damping
  BY <1>2, <1>3 DEF PidStates, Pid!Loops
<1> QED
  BY <1>4 DEF output

LEMMA LqrSaturatedTyped ==
  ASSUME NEW l \in LqrStates
  PROVE  Lqr!Saturated(l) \in LqrStates /\ Lqr!Saturated(l).saturated
BY DEF Lqr!Saturated, LqrStates

----------------------------------------------------------------------------
(***************************************************************************)
(* The effort of an iteration.                                             *)
(***************************************************************************)
LEMMA InputsTyped ==
  /\ Estimates \subseteq [pitch : Int, pitchRate : Int]
  /\ Motions \subseteq Commands /\ Setpoints \subseteq Commands
  /\ Intervals \subseteq Nat
BY InputAssumption DEF Estimates, Motions, Commands

LEMMA SplitTyped ==
  ASSUME NEW common \in Int, NEW differential \in Int
  PROVE  /\ Split(common, differential) \in Efforts
         /\ Sum(Split(common, differential)) = 2 * common
BY DEF Split, Efforts, Sum

LEMMA SaturateTyped ==
  ASSUME NEW effort \in Efforts
  PROVE  Saturate(effort) \in Limited
<1>1. effort.left \in Int /\ effort.right \in Int
  BY DEF Efforts
<1>2. /\ Pid!Clamp(effort.left, EffortLimit) \in -EffortLimit..EffortLimit
      /\ Pid!Clamp(effort.right, EffortLimit) \in -EffortLimit..EffortLimit
  BY <1>1, ClampInRange, LimitsTyped
<1> QED
  BY <1>2 DEF Saturate, Limited

\* Whatever the strategy, what is applied is close to the common effort.
LEMMA AppliedIsClose ==
  ASSUME NEW common \in Int,
         NEW differential \in -MaximumDifferential..MaximumDifferential,
         requested' = Split(common, differential),
         applied' = Saturate(requested')
  PROVE  YawTakesLittle'
<1> DEFINE lost == Pid!Clamp(common - differential, EffortLimit)
                     + Pid!Clamp(common + differential, EffortLimit)
                     - 2 * Pid!Clamp(common, EffortLimit)
<1>1. Sum(requested') = 2 * common
  BY SplitTyped, LimitsTyped
<1>2. Sum(requested') \div 2 = common
  BY <1>1
<1>3. Sum(applied') = Pid!Clamp(common - differential, EffortLimit)
                        + Pid!Clamp(common + differential, EffortLimit)
  BY DEF Sum, Saturate, Split
<1>4. lost <= MaximumDifferential /\ -lost <= MaximumDifferential
  BY LimitingTakesLittle, LimitsTyped
<1>5. Sum(applied') - 2 * Pid!Clamp(Sum(requested') \div 2, EffortLimit) = lost
  <2>1. common - differential \in Int /\ common + differential \in Int
    BY LimitsTyped
  <2>2. /\ Pid!Clamp(common - differential, EffortLimit) \in Int
        /\ Pid!Clamp(common + differential, EffortLimit) \in Int
        /\ Pid!Clamp(common, EffortLimit) \in Int
    BY <2>1, ClampInRange, LimitsTyped
  <2> QED
    BY <1>2, <1>3, <2>2
<1> HIDE DEF lost
<1> QED
  BY <1>4, <1>5 DEF YawTakesLittle, Larger

\* Told what was applied, the pitch loop restarts from there.
LEMMA SaturatedRestarts ==
  ASSUME NEW p \in PidStates, NEW effort \in Efforts
  PROVE  LET saturated == Pid!Saturated(p, effort)
             before == Sum(effort) + 2 * p.damping
         IN /\ 2 * saturated.pitch.output <= Larger(before, -(2 * EffortLimit))
            /\ 2 * saturated.pitch.output >= Smaller(before, 2 * EffortLimit) - 1
<1> DEFINE sum == effort.left + effort.right
           common == sum \div 2
<1>1. sum \in Int /\ p.damping \in Int /\ EffortLimit \in Nat
  BY LimitsTyped DEF Efforts, PidStates
<1>2. common \in Int /\ 2 * common <= sum /\ sum - 1 <= 2 * common
  <2> HIDE DEF sum
  <2> QED
    BY <1>1
<1>3. Pid!Saturated(p, effort).pitch.output = Pid!Clamp(common + p.damping, EffortLimit)
  BY PidSaturatedTyped
<1>4. Sum(effort) = sum
  BY DEF Sum
<1> HIDE DEF sum, common
<1> QED
  BY <1>1, <1>2, <1>3, <1>4 DEF Pid!Clamp, Larger, Smaller

\* An iteration of the cascaded strategy: what is requested is what the pitch loop
\* put out, and what it accumulates from then is what was applied.
LEMMA PidIteration ==
  ASSUME TypeOK, active = "pid", NEW estimate \in Estimates, NEW interval \in Intervals,
         Balance(estimate, interval)
  PROVE  LET balanced == Pid!Balanced(pid, estimate, interval)
         IN /\ TypeOK' /\ RestartsFromApplied' /\ YawTakesLittle'
            /\ Sum(requested') + 2 * pid'.damping = 2 * balanced.pitch.output
            /\ pid'.pitch.error = balanced.pitch.error
<1> DEFINE balanced == Pid!Balanced(pid, estimate, interval)
           common == Pid!Common(balanced)
           effort == Split(common, balanced.differential)
<1>1. /\ engaged /\ engaged' = engaged /\ active' = active /\ lqr' = lqr
      /\ requested' = effort /\ applied' = Saturate(requested')
      /\ clipped' \in BOOLEAN
      /\ pid' = IF Saturate(effort) = effort THEN balanced
                ELSE Pid!Saturated(balanced, Saturate(effort))
  BY DEF Balance, BalancePid, TypeOK
<1>2. balanced \in PidStates
  BY PidBalancedTyped, InputsTyped DEF TypeOK
<1> HIDE DEF balanced
<1>3. /\ common = balanced.pitch.output - balanced.damping
      /\ common \in Int /\ balanced.pitch.output \in Int /\ balanced.damping \in Int
      /\ balanced.differential \in -MaximumDifferential..MaximumDifferential
  BY <1>2, LimitsTyped DEF Pid!Common, PidStates, Pid!Loops
<1> HIDE DEF common
<1>4. effort \in Efforts /\ Sum(effort) = 2 * common
  BY <1>3, SplitTyped, LimitsTyped
<1>5. YawTakesLittle'
  BY <1>1, <1>3, AppliedIsClose
<1> HIDE DEF effort
<1>6. Saturate(effort) \in Limited /\ Limited \subseteq Efforts
  BY <1>4, SaturateTyped, LimitsTyped DEF Limited, Efforts
<1>7. /\ pid' \in PidStates
      /\ pid'.damping = balanced.damping /\ pid'.pitch.error = balanced.pitch.error
  BY <1>1, <1>2, <1>6, PidSaturatedTyped
<1>8. TypeOK'
  BY <1>1, <1>4, <1>6, <1>7 DEF TypeOK
<1>9. Sum(requested') + 2 * pid'.damping = 2 * balanced.pitch.output
  BY <1>1, <1>3, <1>4, <1>7
<1>10. RestartsFromApplied'
  <2>1. CASE Saturate(effort) = effort
    <3>1. pid' = balanced /\ applied' = effort
      BY <1>1, <2>1
    <3>2. Sum(applied') + 2 * pid'.damping = 2 * pid'.pitch.output
      BY <1>3, <1>4, <3>1
    <3> QED
      BY <1>3, <3>1, <3>2, LimitsTyped DEF RestartsFromApplied, Larger, Smaller
  <2>2. CASE Saturate(effort) # effort
    <3>1. pid' = Pid!Saturated(balanced, applied')
      BY <1>1, <2>2
    <3>2. applied' \in Efforts
      BY <1>1, <1>6
    <3>3. LET before == Sum(applied') + 2 * balanced.damping
          IN /\ 2 * pid'.pitch.output <= Larger(before, -(2 * EffortLimit))
             /\ 2 * pid'.pitch.output >= Smaller(before, 2 * EffortLimit) - 1
      BY <1>2, <3>1, <3>2, SaturatedRestarts
    <3> QED
      BY <1>7, <3>3 DEF RestartsFromApplied
  <2> QED
    BY <2>1, <2>2
<1> QED
  BY <1>5, <1>7, <1>8, <1>9, <1>10 DEF balanced

\* An iteration of the regulator only takes note of a limited effort.
LEMMA LqrIteration ==
  ASSUME TypeOK, ClippingIsNoted, active = "lqr",
         NEW estimate \in Estimates, NEW interval \in Intervals,
         Balance(estimate, interval)
  PROVE  TypeOK' /\ ClippingIsNoted' /\ YawTakesLittle'
<1> DEFINE common == Lqr!Common(lqr, estimate)
           effort == Split(common, lqr.differential)
<1>1. /\ engaged' = engaged /\ active' = active /\ pid' = pid
      /\ requested' = effort /\ applied' = Saturate(requested')
      /\ clipped' = (clipped \/ applied' # requested')
      /\ lqr' = IF Saturate(effort) = effort THEN lqr ELSE Lqr!Saturated(lqr)
  BY DEF Balance, BalanceLqr, Lqr!Balanced
<1>2. common \in Int
  <2>1. /\ estimate.pitch \in Int /\ estimate.pitchRate \in Int
        /\ lqr.position \in Int /\ lqr.velocity \in Int
    BY InputsTyped, LimitsTyped DEF TypeOK, LqrStates
  <2>2. /\ PitchGain \in Int /\ PitchRateGain \in Int
        /\ PositionGain \in Int /\ VelocityGain \in Int
    BY RegulatorAssumption
  <2>3. /\ PitchGain * estimate.pitch \in Int
        /\ PitchRateGain * estimate.pitchRate \in Int
        /\ PositionGain * lqr.position \in Int /\ VelocityGain * lqr.velocity \in Int
    BY <2>1, <2>2
  <2> QED
    BY <2>3 DEF Lqr!Common
<1>3. lqr.differential \in -MaximumDifferential..MaximumDifferential
  BY DEF TypeOK, LqrStates
<1> HIDE DEF common
<1>4. effort \in Efforts
  BY <1>2, <1>3, SplitTyped, LimitsTyped
<1>5. YawTakesLittle'
  BY <1>1, <1>2, <1>3, AppliedIsClose
<1> HIDE DEF effort
<1>6. Saturate(effort) \in Limited
  BY <1>4, SaturateTyped
<1>7. lqr' \in LqrStates
  BY <1>1, LqrSaturatedTyped DEF TypeOK
<1>8. TypeOK'
  BY <1>1, <1>4, <1>6, <1>7 DEF TypeOK
<1>9. ClippingIsNoted'
  <2>1. CASE Saturate(effort) = effort
    BY <1>1, <2>1 DEF ClippingIsNoted
  <2>2. CASE Saturate(effort) # effort
    BY <1>1, <2>2, LqrSaturatedTyped DEF ClippingIsNoted, TypeOK
  <2> QED
    BY <2>1, <2>2
<1> QED
  BY <1>5, <1>8, <1>9

----------------------------------------------------------------------------
(***************************************************************************)
(* The invariant.                                                          *)
(***************************************************************************)
LEMMA ZeroTyped == Zero \in Limited /\ Zero \in Efforts
BY LimitsTyped DEF Zero, Limited, Efforts

LEMMA InitInvariant == Init => IInv
<1> SUFFICES ASSUME Init PROVE IInv
  OBVIOUS
<1>1. TypeOK
  BY ClearedTyped, ZeroTyped DEF Init, TypeOK
<1>2. YawTakesLittle
  <2>1. Sum(applied) = 0 /\ Sum(requested) \div 2 = 0
    BY DEF Init, Zero, Sum
  <2>2. Pid!Clamp(0, EffortLimit) = 0
    BY LimitsTyped DEF Pid!Clamp
  <2> QED
    BY <2>1, <2>2, LimitsTyped DEF YawTakesLittle, Larger
<1> QED
  BY <1>1, <1>2 DEF IInv, Init, RestartsFromApplied, ClippingIsNoted

\* Without an effort nothing is taken from the sum.
LEMMA NoEffortTakesNothing ==
  ASSUME applied' = Zero, requested' = Zero
  PROVE  YawTakesLittle'
<1>1. Sum(applied') = 0 /\ Sum(requested') \div 2 = 0
  BY DEF Zero, Sum
<1>2. Pid!Clamp(0, EffortLimit) = 0
  BY LimitsTyped DEF Pid!Clamp
<1> QED
  BY <1>1, <1>2, LimitsTyped DEF YawTakesLittle, Larger

LEMMA EngageInvariant ==
  ASSUME IInv, Engage
  PROVE  IInv'
<1>1. active' = active /\ applied' = Zero /\ requested' = Zero /\ clipped' = FALSE
  BY DEF Engage, IInv
<1>2. TypeOK'
  BY <1>1, ClearedTyped, ZeroTyped DEF Engage, IInv, TypeOK
<1>3. YawTakesLittle'
  BY <1>1, NoEffortTakesNothing
<1> QED
  BY <1>1, <1>2, <1>3 DEF IInv, RestartsFromApplied, ClippingIsNoted

LEMMA DisengageInvariant ==
  ASSUME IInv, Disengage
  PROVE  IInv'
<1>1. applied' = Zero /\ requested' = Zero /\ clipped' = FALSE
  BY DEF Disengage
<1>2. TypeOK'
  BY ZeroTyped DEF Disengage, strategyVars, IInv, TypeOK
<1>3. YawTakesLittle'
  BY <1>1, NoEffortTakesNothing
<1> QED
  BY <1>1, <1>2, <1>3 DEF IInv, RestartsFromApplied, ClippingIsNoted

\* Steering leaves the pitch loop to what was applied, and starts a new outer
\* interval, of which no effort has been limited yet.
LEMMA SteerInvariant ==
  ASSUME IInv, NEW setpoints \in Setpoints, NEW chassis \in Motions,
         NEW interval \in Intervals, Steer(setpoints, chassis, interval)
  PROVE  IInv'
<1>1. /\ active' = active /\ engaged' = engaged /\ engaged
      /\ applied' = applied /\ requested' = requested /\ clipped' = FALSE
  BY DEF Steer
<1>2. setpoints \in Commands /\ chassis \in Commands /\ interval \in Nat
  BY InputsTyped
<1>3. YawTakesLittle'
  BY <1>1 DEF IInv, YawTakesLittle
<1>4. CASE active = "pid"
  <2>1. /\ pid' \in PidStates /\ lqr' = lqr
        /\ pid'.pitch = pid.pitch /\ pid'.damping = pid.damping
    BY <1>2, <1>4, PidSteeredTyped DEF Steer, IInv, TypeOK
  <2>2. TypeOK'
    BY <1>1, <2>1 DEF IInv, TypeOK
  <2>3. RestartsFromApplied'
    BY <1>1, <2>1 DEF IInv, RestartsFromApplied
  <2> QED
    BY <1>1, <1>3, <1>4, <2>2, <2>3 DEF IInv, ClippingIsNoted
<1>5. CASE active # "pid"
  <2>1. lqr' \in LqrStates /\ pid' = pid
    BY <1>2, <1>5, LqrSteeredTyped DEF Steer, IInv, TypeOK
  <2>2. TypeOK'
    BY <1>1, <2>1 DEF IInv, TypeOK
  <2> QED
    BY <1>1, <1>3, <1>5, <2>2 DEF IInv, RestartsFromApplied, ClippingIsNoted
<1> QED
  BY <1>4, <1>5

LEMMA BalanceInvariant ==
  ASSUME IInv, NEW estimate \in Estimates, NEW interval \in Intervals,
         Balance(estimate, interval)
  PROVE  IInv'
<1>1. engaged' /\ active' = active
  BY DEF Balance
<1>2. CASE active = "pid"
  BY <1>1, <1>2, PidIteration DEF IInv, ClippingIsNoted
<1>3. CASE active = "lqr"
  BY <1>1, <1>3, LqrIteration DEF IInv, RestartsFromApplied
<1> QED
  BY <1>2, <1>3 DEF IInv, TypeOK

LEMMA BalanceInvalidInvariant ==
  ASSUME IInv, BalanceInvalid
  PROVE  IInv'
<1>1. applied' = Zero /\ requested' = Zero
  BY DEF BalanceInvalid
<1>2. TypeOK'
  BY ZeroTyped DEF BalanceInvalid, strategyVars, IInv, TypeOK
<1>3. YawTakesLittle'
  BY <1>1, NoEffortTakesNothing
<1>4. ClippingIsNoted'
  BY DEF BalanceInvalid, strategyVars, IInv, ClippingIsNoted
<1> QED
  BY <1>1, <1>2, <1>3, <1>4 DEF IInv, RestartsFromApplied

LEMMA NextInvariant == IInv /\ [Next]_vars => IInv'
<1> SUFFICES ASSUME IInv, [Next]_vars PROVE IInv'
  OBVIOUS
<1>1. CASE Engage
  BY <1>1, EngageInvariant
<1>2. CASE Disengage
  BY <1>2, DisengageInvariant
<1>3. CASE \E setpoints \in Setpoints, chassis \in Motions, interval \in Intervals :
             Steer(setpoints, chassis, interval)
  BY <1>3, SteerInvariant
<1>4. CASE \E estimate \in Estimates, interval \in Intervals : Balance(estimate, interval)
  BY <1>4, BalanceInvariant
<1>5. CASE BalanceInvalid
  BY <1>5, BalanceInvalidInvariant
<1>6. CASE UNCHANGED vars
  BY <1>6 DEF vars, strategyVars, IInv, TypeOK, RestartsFromApplied, ClippingIsNoted,
              YawTakesLittle
<1> QED
  BY <1>1, <1>2, <1>3, <1>4, <1>5, <1>6 DEF Next

LEMMA Invariant == Spec => []IInv
BY InitInvariant, NextInvariant, PTL DEF Spec

----------------------------------------------------------------------------
(***************************************************************************)
(* The theorems.                                                           *)
(***************************************************************************)
\* What the strategies remember and what is applied stay within their limits.
THEOREM TypeCorrect == Spec => []TypeOK
<1>1. IInv => TypeOK
  BY DEF IInv
<1> QED
  BY <1>1, Invariant, PTL

\* Limiting the wheels one by one takes no more from balancing than the differential
\* effort allows, for every strategy, gain and motion.
THEOREM YawTakesLittleAlways == Spec => []YawTakesLittle
<1>1. IInv => YawTakesLittle
  BY DEF IInv
<1> QED
  BY <1>1, Invariant, PTL

\* The regulator's position deviation does not grow through an outer interval in
\* which any effort was limited.
THEOREM PositionHeldWhileSaturatedAlways == Spec => PositionHeldWhileSaturated
<1>1. ASSUME IInv, [Next]_vars
      PROVE  [engaged /\ engaged' /\ active = "lqr" /\ clipped
                => lqr'.position = lqr.position]_vars
  <2> SUFFICES ASSUME Next, engaged, engaged', active = "lqr", clipped
               PROVE  lqr'.position = lqr.position
    BY <1>1
  <2>1. lqr.saturated
    BY <1>1 DEF IInv, ClippingIsNoted
  <2>2. CASE Engage \/ Disengage
    BY <2>2 DEF Engage, Disengage
  <2>3. ASSUME NEW setpoints \in Setpoints, NEW chassis \in Motions,
               NEW interval \in Intervals, Steer(setpoints, chassis, interval)
        PROVE  lqr'.position = lqr.position
    BY <2>1, <2>3 DEF Steer, Lqr!Steered, Lqr!HeldPosition
  <2>4. ASSUME NEW estimate \in Estimates, NEW interval \in Intervals,
               Balance(estimate, interval)
        PROVE  lqr'.position = lqr.position
    BY <1>1, <2>4 DEF Balance, BalanceLqr, Lqr!Balanced, Lqr!Saturated, IInv, TypeOK,
                      LqrStates
  <2>5. CASE BalanceInvalid
    BY <2>5 DEF BalanceInvalid, strategyVars
  <2> QED
    BY <2>2, <2>3, <2>4, <2>5 DEF Next
<1> QED
  BY <1>1, Invariant, PTL DEF Spec, PositionHeldWhileSaturated

\* The output of the pitch loop never moves away from an error that has turned.
LEMMA PitchLoopFollowsError ==
  ASSUME TypeOK, NEW estimate \in Estimates, NEW interval \in Intervals
  PROVE  LET loop == Pid!Balanced(pid, estimate, interval).pitch
         IN /\ loop.output \in Int /\ loop.error \in Int
            /\ loop.error <= 0 /\ loop.error <= pid.pitch.error
                 => loop.output <= pid.pitch.output
            /\ loop.error >= 0 /\ loop.error >= pid.pitch.error
                 => loop.output >= pid.pitch.output
<1> DEFINE error == pid.setPoint - estimate.pitch
           change == PitchLoop.kp * (error - pid.pitch.error)
           more == (PitchLoop.ki * interval) * error
<1>1. /\ pid.pitch.output \in -EffortLimit..EffortLimit /\ pid.pitch.error \in Int
      /\ error \in Int /\ EffortLimit \in Nat
  BY InputsTyped, LimitsTyped DEF TypeOK, PidStates, Pid!Loops
<1> HIDE DEF error
<1>2. PitchLoop.kp \in Nat /\ PitchLoop.ki * interval \in Nat
  BY LoopAssumption, InputsTyped DEF Gains
<1>3. /\ change \in Int
      /\ error <= pid.pitch.error => change <= 0
      /\ error >= pid.pitch.error => change >= 0
  <2>1. /\ error - pid.pitch.error \in Int
        /\ error <= pid.pitch.error <=> error - pid.pitch.error <= 0
        /\ error >= pid.pitch.error <=> error - pid.pitch.error >= 0
    BY <1>1
  <2> QED
    BY <1>2, <2>1, GainsKeepSigns
<1>4. more \in Int /\ (error <= 0 => more <= 0) /\ (error >= 0 => more >= 0)
  BY <1>1, <1>2, GainsKeepSigns
<1>5. Pid!Balanced(pid, estimate, interval).pitch
        = [output |-> Pid!Clamp(pid.pitch.output + change + more, EffortLimit),
           error |-> error]
  BY PidBalancedTyped, InputsTyped DEF TypeOK, Pid!Process, error
<1> HIDE DEF change, more
<1> QED
  BY <1>1, <1>3, <1>4, <1>5 DEF Pid!Clamp

\* The cascaded strategy leaves saturation at once, for every gain, limit and
\* interval.
THEOREM CorrectionFollowsErrorAlways == Spec => CorrectionFollowsError
<1> DEFINE Follows(estimate, interval) ==
             Balance(estimate, interval) /\ active = "pid" /\ applied # Zero =>
               LET error == pid'.pitch.error
                   before == Sum(applied) + 2 * pid.damping
                   now == Sum(requested') + 2 * pid'.damping
               IN /\ error <= 0 /\ error <= pid.pitch.error
                       => now <= Larger(before, -(2 * EffortLimit))
                  /\ error >= 0 /\ error >= pid.pitch.error
                       => now >= Smaller(before, 2 * EffortLimit) - 1
<1>1. ASSUME IInv, NEW estimate \in Estimates, NEW interval \in Intervals
      PROVE  Follows(estimate, interval)
  <2> SUFFICES ASSUME Balance(estimate, interval), active = "pid", applied # Zero
               PROVE  Follows(estimate, interval)
    OBVIOUS
  <2> DEFINE loop == Pid!Balanced(pid, estimate, interval).pitch
             before == Sum(applied) + 2 * pid.damping
             now == Sum(requested') + 2 * pid'.damping
  <2>1. now = 2 * loop.output /\ pid'.pitch.error = loop.error
    BY <1>1, PidIteration DEF IInv
  <2>2. /\ 2 * pid.pitch.output <= Larger(before, -(2 * EffortLimit))
        /\ 2 * pid.pitch.output >= Smaller(before, 2 * EffortLimit) - 1
    BY <1>1 DEF IInv, RestartsFromApplied
  <2>3. /\ loop.output \in Int
        /\ loop.error <= 0 /\ loop.error <= pid.pitch.error
             => loop.output <= pid.pitch.output
        /\ loop.error >= 0 /\ loop.error >= pid.pitch.error
             => loop.output >= pid.pitch.output
    BY <1>1, PitchLoopFollowsError DEF IInv
  <2>4. /\ pid.pitch.output \in Int
        /\ Larger(before, -(2 * EffortLimit)) \in Int
        /\ Smaller(before, 2 * EffortLimit) \in Int
    BY <1>1, LimitsTyped
    DEF IInv, TypeOK, PidStates, Pid!Loops, Limited, Sum, Larger, Smaller
  <2> HIDE DEF loop, before, now
  <2>5. /\ loop.error <= 0 /\ loop.error <= pid.pitch.error
             => now <= Larger(before, -(2 * EffortLimit))
        /\ loop.error >= 0 /\ loop.error >= pid.pitch.error
             => now >= Smaller(before, 2 * EffortLimit) - 1
    BY <2>1, <2>2, <2>3, <2>4
  <2> QED
    BY <2>1, <2>5 DEF before, now
<1>2. IInv /\ [Next]_vars
        => [\A estimate \in Estimates, interval \in Intervals :
              Follows(estimate, interval)]_vars
  BY <1>1
<1> QED
  BY <1>2, Invariant, PTL DEF Spec, CorrectionFollowsError

=============================================================================
