----------------------- MODULE MotionSessionProofs -----------------------
(***************************************************************************)
(* Proofs about MotionSession, for every strategy, limit and timeout.      *)
(*                                                                         *)
(* The setpoints fade only because what the operator did (unattended) and  *)
(* what balance control goes by (cancelled, the command's age) agree:      *)
(* LettingGo.  It and UncommandedMotionFades are inductive together; what  *)
(* belongs to the session is proved apart from the numbers.                *)
(***************************************************************************)
EXTENDS MotionSession, TLAPS

LettingGo ==
  /\ unattended = 0 => cancelled \/ commandedAge >= CommandTimeout
  /\ unattended > 0 => ~Control!CommandHolds

\* The parts of TypeOK.
Setpoints ==
  /\ velocity \in -MaximumVelocity..MaximumVelocity
  /\ yawRate \in -MaximumYawRate..MaximumYawRate
Ages ==
  /\ commandedAge \in 0..Control!CommandedAgeCap
  /\ outerAge \in 0..OuterAgeCap
  /\ unattended \in Attended..UnattendedCap
Session ==
  /\ active \in Strategies /\ used \subseteq Strategies /\ ran \subseteq Strategies
  /\ gains \in [Strategies -> 0..MaximumGain]
  /\ engagedWith \in [strategy : Strategies, gain : 0..MaximumGain]
Flags ==
  /\ engaged \in BOOLEAN /\ cancelled \in BOOLEAN /\ commanded \in BOOLEAN
  /\ applied \in Control!Efforts

IInv ==
  /\ Setpoints /\ Ages /\ Session /\ Flags
  /\ LettingGo
  /\ UncommandedMotionFades
  /\ MotionIsThisSessions
  /\ SessionIsItsOwn

----------------------------------------------------------------------------
LEMMA Typed == Setpoints /\ Ages /\ Session /\ Flags => TypeOK
BY DEF Setpoints, Ages, Session, Flags, TypeOK, Control!TypeOK

\* What is typed and understood is a request like one from the link.
LEMMA TypedIsRequested ==
  /\ \A line \in ParameterLines : Param(line) =>
       \E index \in Indices, value \in Requests(MaximumGain) : SetParameter(index, value)
  /\ \A line \in MotionLines : TypedMove(line) =>
       \E v \in Requests(MaximumVelocity), w \in Requests(MaximumYawRate) : Move(v, w)
<1>1. ASSUME NEW limit, NEW word \in Decimals(limit) \cup Whole({0}) \cup Misspelt,
             NEW value \in ParseDecimal(word)
      PROVE  value \in Requests(limit)
  BY <1>1 DEF Decimals, Whole, Misspelt, Word, ParseDecimal, Requests, MaximumLength
<1>2. ASSUME NEW word \in Whole(Indices) \cup Misspelt, NEW value \in ParseIndex(word)
      PROVE  value \in Indices
  BY <1>2 DEF Whole, Misspelt, Word, ParseIndex
<1>3. ASSUME NEW first, NEW second, NEW line \in Lines(first, second), Len(line) = 2
      PROVE  line[1] \in first \cup Misspelt /\ line[2] \in second \cup Misspelt
  BY <1>3 DEF Lines
<1>4. ASSUME NEW line \in ParameterLines, Param(line)
      PROVE  \E index \in Indices, value \in Requests(MaximumGain) :
               SetParameter(index, value)
  <2>1. line[1] \in Whole(Indices) \cup Misspelt
        /\ line[2] \in Decimals(MaximumGain) \cup Misspelt
    BY <1>3, <1>4 DEF Param, ParameterLines
  <2>2. QED
    BY <1>1, <1>2, <1>4, <2>1 DEF Param
<1>5. ASSUME NEW line \in MotionLines, TypedMove(line)
      PROVE  \E v \in Requests(MaximumVelocity), w \in Requests(MaximumYawRate) :
               Move(v, w)
  <2>1. line[1] \in Decimals(MaximumVelocity) \cup Misspelt
        /\ line[2] \in Decimals(MaximumYawRate) \cup Whole({0}) \cup Misspelt
    BY <1>3, <1>5 DEF TypedMove, MotionLines
  <2>2. QED
    BY <1>1, <1>5, <2>1 DEF TypedMove
<1>6. QED
  BY <1>4, <1>5

LEMMA Caps ==
  /\ OuterAgeCap \in Nat /\ UnattendedCap = OuterAgeCap + 1
  /\ MaximumVelocity + MaxHold <= OuterAgeCap
  /\ MaximumYawRate + MaxHold <= OuterAgeCap
  /\ Control!CommandedAgeCap = CommandTimeout + 1
BY SetpointAssumption, HoldAssumption
   DEF OuterAgeCap, UnattendedCap, Larger, Control!CommandedAgeCap

\* What one fading step leaves of a setpoint.
LEMMA TowardsZeroFades ==
  ASSUME NEW setpoint \in Int, NEW step \in Nat,
         NEW next, next = Control!TowardsZero(setpoint, step)
  PROVE  /\ next \in Int
         /\ next # 0 => Control!Abs(next) = Control!Abs(setpoint) - step
         /\ Control!Abs(setpoint) <= step => next = 0
         /\ FadesTo(setpoint, next)
BY DEF Control!TowardsZero, Control!Abs, FadesTo

\* An outer iteration takes from a setpoint what has passed since the last one,
\* be it longer than the setpoint lasts.
LEMMA OuterFades ==
  ASSUME Ages, LettingGo,
         NEW maximum \in Nat, maximum + MaxHold <= OuterAgeCap,
         NEW setpoint \in -maximum..maximum, Faded(setpoint, maximum),
         NEW age \in 0..MaxHold, age < outerAge,
         NEW next,
         next = IF Control!CommandHolds THEN setpoint
                ELSE Control!TowardsZero(setpoint, outerAge - age)
  PROVE  /\ next \in -maximum..maximum
         /\ next # 0 => Control!Abs(next) <= maximum - (unattended - age)
         /\ FadesTo(setpoint, next)
<1>1. /\ outerAge \in Int /\ age \in Int /\ unattended \in Int /\ age >= 0
      /\ outerAge <= OuterAgeCap /\ age <= MaxHold /\ unattended >= -1
      /\ outerAge - age \in Nat /\ MaxHold \in Nat /\ OuterAgeCap \in Nat
  BY Caps, HoldAssumption DEF Ages, Attended
<1>2. CASE Control!CommandHolds
  <2>1. unattended <= 0 /\ next = setpoint
    BY <1>1, <1>2 DEF LettingGo
  <2>2. QED
    BY <1>1, <2>1 DEF Control!Abs, FadesTo
<1>3. CASE ~Control!CommandHolds
  <2>1. /\ next \in Int
        /\ next # 0 => Control!Abs(next) = Control!Abs(setpoint) - (outerAge - age)
        /\ Control!Abs(setpoint) <= outerAge - age => next = 0
        /\ FadesTo(setpoint, next)
    <3>1. next = Control!TowardsZero(setpoint, outerAge - age)
      BY <1>3
    <3>2. QED
      BY <1>1, <3>1, TowardsZeroFades
  <2>2. next \in -maximum..maximum
    BY <2>1 DEF FadesTo
  <2>3. CASE outerAge < OuterAgeCap
    <3>1. next # 0 => setpoint # 0
      BY <2>1, <1>1 DEF Control!Abs
    <3>2. setpoint # 0 => Control!Abs(setpoint) <= maximum - (unattended - outerAge)
      BY <2>3 DEF Faded
    <3>3. QED
      BY <1>1, <2>1, <2>2, <3>1, <3>2 DEF Control!Abs
  <2>4. CASE outerAge = OuterAgeCap
    <3>1. Control!Abs(setpoint) <= outerAge - age
      BY <1>1, <2>4 DEF Control!Abs
    <3>2. QED
      BY <2>1, <2>2, <3>1
  <2>5. QED
    BY <1>1, <2>3, <2>4
<1>4. QED
  BY <1>2, <1>3

----------------------------------------------------------------------------
LEMMA SessionInit == Init => IInv
<1> SUFFICES ASSUME Init PROVE IInv
  OBVIOUS
<1>1. Setpoints /\ Ages
  BY Caps, SetpointAssumption, HoldAssumption, TimeoutAssumption
     DEF Init, Control!Init, Setpoints, Ages, Attended
<1>2. Session
  BY DEF Init, Control!Init, Session
<1>3. Flags
  BY DEF Init, Control!Init, Flags, Control!Efforts
<1>4. LettingGo
  BY DEF Init, Control!Init, LettingGo
<1>5. UncommandedMotionFades /\ MotionIsThisSessions /\ SessionIsItsOwn
  BY DEF Init, Control!Init, UncommandedMotionFades, Faded, MotionIsThisSessions,
     SessionIsItsOwn
<1>6. QED
  BY <1>1, <1>2, <1>3, <1>4, <1>5 DEF IInv

\* The part of a session that has no numbers in it.
LEMMA SessionKeeps ==
  ASSUME Session, Flags, SessionIsItsOwn, [Next]_vars
  PROVE  Session' /\ Flags' /\ SessionIsItsOwn'
<1> USE DEF Session, Flags, SessionIsItsOwn
<1>1. ASSUME NEW strategy \in Strategies, Select(strategy)
      PROVE  Session' /\ Flags' /\ SessionIsItsOwn'
  BY <1>1 DEF Select, Control!Select, Control!motionVars, Control!strategyVars,
     historyVars
<1>2. ASSUME NEW index \in Indices, NEW value \in Requests(MaximumGain),
             SetParameter(index, value)
      PROVE  Session' /\ Flags' /\ SessionIsItsOwn'
  <2>1. value \in 0..MaximumGain
    BY <1>2, GainAssumption DEF SetParameter, Control!SetParameter, Control!InRange,
       Requests
  <2>2. gains' \in [Strategies -> 0..MaximumGain]
    BY <1>2, <2>1 DEF SetParameter, Control!SetParameter, Control!StrategySetParameter
  <2>3. QED
    BY <1>2, <2>2 DEF SetParameter, Control!SetParameter, Control!motionVars,
       historyVars
<1>3. ASSUME NEW v, NEW w, Move(v, w)
      PROVE  Session' /\ Flags' /\ SessionIsItsOwn'
  BY <1>3 DEF Move, Control!Move, Control!strategyVars
<1>4. CASE Disconnected
  BY <1>4 DEF Disconnected, Control!CancelMotion, Control!strategyVars
<1>5. CASE Engage
  BY <1>5 DEF Engage, Control!Engage, Control!StrategyReset
<1>6. CASE Disengage
  BY <1>6 DEF Disengage, Control!Disengage, Control!strategyVars, historyVars,
     Control!Efforts
<1>7. ASSUME NEW valid \in BOOLEAN, Balance(valid)
      PROVE  Session' /\ Flags' /\ SessionIsItsOwn'
  BY <1>7 DEF Balance, Control!Balance, Control!motionVars, Control!Efforts,
     Control!StrategyBalances
<1>8. ASSUME NEW age \in 0..MaxHold, Outer(age)
      PROVE  Session' /\ Flags' /\ SessionIsItsOwn'
  <2>1. CASE engaged
    BY <1>8, <2>1 DEF Outer, Control!Steer, Control!StrategySteers
  <2>2. CASE ~engaged
    BY <1>8, <2>2 DEF Outer, controlVars, motionVars
  <2>3. QED
    BY <2>1, <2>2
<1>9. CASE TimePasses
  BY <1>9 DEF TimePasses, Control!TimePasses, Control!strategyVars
<1>10. CASE UNCHANGED vars
  BY <1>10 DEF vars, controlVars, motionVars, historyVars
<1>11. QED
  BY <1>1, <1>2, <1>3, <1>4, <1>5, <1>6, <1>7, <1>8, <1>9, <1>10,
     TypedIsRequested DEF Next

\* The setpoints and the ages they fade with.
Motion == Setpoints /\ Ages /\ LettingGo /\ UncommandedMotionFades

LEMMA OuterKeepsMotion ==
  ASSUME Motion, MotionIsThisSessions, NEW age \in 0..MaxHold, Outer(age)
  PROVE  Motion'
<1>1. /\ outerAge' = age /\ age < outerAge
      /\ UNCHANGED <<unattended, commandedAge, cancelled>>
  BY DEF Outer, Control!Steer, controlVars, motionVars
<1>2. Ages' /\ LettingGo'
  BY <1>1, Caps, HoldAssumption
     DEF Motion, Ages, LettingGo, Control!CommandHolds, Control!CommandedAgeCap,
     OuterAgeCap, UnattendedCap
<1>3. CASE engaged
  <2>1. /\ velocity' \in -MaximumVelocity..MaximumVelocity
        /\ velocity' # 0 =>
             Control!Abs(velocity') <= MaximumVelocity - (unattended - age)
    <3>1. velocity' = IF Control!CommandHolds THEN velocity
                      ELSE Control!TowardsZero(velocity, outerAge - age)
      BY <1>3 DEF Outer, Control!Steer
    <3>2. Ages /\ LettingGo /\ Faded(velocity, MaximumVelocity)
          /\ velocity \in -MaximumVelocity..MaximumVelocity
      BY DEF Motion, Setpoints, UncommandedMotionFades
    <3>3. QED
      BY <1>1, <3>1, <3>2, OuterFades, Caps, SetpointAssumption
  <2>2. /\ yawRate' \in -MaximumYawRate..MaximumYawRate
        /\ yawRate' # 0 =>
             Control!Abs(yawRate') <= MaximumYawRate - (unattended - age)
    <3>1. yawRate' = IF Control!CommandHolds THEN yawRate
                     ELSE Control!TowardsZero(yawRate, outerAge - age)
      BY <1>3 DEF Outer, Control!Steer
    <3>2. Ages /\ LettingGo /\ Faded(yawRate, MaximumYawRate)
          /\ yawRate \in -MaximumYawRate..MaximumYawRate
      BY DEF Motion, Setpoints, UncommandedMotionFades
    <3>3. QED
      BY <1>1, <3>1, <3>2, OuterFades, Caps, SetpointAssumption
  <2>3. QED
    BY <1>1, <1>2, <2>1, <2>2
       DEF Motion, Setpoints, UncommandedMotionFades, Faded, OuterAgeCap
<1>4. CASE ~engaged
  <2>1. velocity' = 0 /\ yawRate' = 0
    BY <1>4 DEF Outer, controlVars, motionVars, MotionIsThisSessions
  <2>2. Setpoints'
    BY <2>1, SetpointAssumption DEF Setpoints
  <2>3. UncommandedMotionFades'
    BY <2>1 DEF UncommandedMotionFades, Faded
  <2>4. QED
    BY <1>2, <2>2, <2>3 DEF Motion
<1>5. QED
  BY <1>3, <1>4

LEMMA TimePassesKeepsMotion ==
  ASSUME Motion, TimePasses
  PROVE  Motion'
<1>1. /\ UNCHANGED <<velocity, yawRate, cancelled>>
      /\ commandedAge' = IF commandedAge < Control!CommandedAgeCap
                           THEN commandedAge + 1 ELSE commandedAge
      /\ outerAge' = IF outerAge < OuterAgeCap THEN outerAge + 1 ELSE OuterAgeCap
      /\ unattended' =
           IF unattended # Attended
             THEN IF unattended < UnattendedCap THEN unattended + 1 ELSE UnattendedCap
             ELSE IF commandedAge + 1 >= CommandTimeout THEN 0 ELSE Attended
  BY DEF TimePasses, Control!TimePasses, Older
<1>2. /\ OuterAgeCap \in Nat /\ UnattendedCap = OuterAgeCap + 1
      /\ Control!CommandedAgeCap = CommandTimeout + 1
      /\ CommandTimeout \in Nat \ {0} /\ Attended = -1
  BY Caps, TimeoutAssumption DEF Attended
<1>3. Ages'
  <2>1. commandedAge' \in 0..Control!CommandedAgeCap
    BY <1>1, <1>2 DEF Motion, Ages
  <2>2. outerAge' \in 0..OuterAgeCap
    BY <1>1, <1>2 DEF Motion, Ages
  <2>3. unattended' \in Attended..UnattendedCap
    BY <1>1, <1>2 DEF Motion, Ages
  <2>4. QED
    BY <2>1, <2>2, <2>3 DEF Ages, Control!CommandedAgeCap, OuterAgeCap,
       UnattendedCap, Attended
<1>4. LettingGo'
  <2>1. commandedAge \in 0..Control!CommandedAgeCap /\ unattended \in -1..UnattendedCap
    BY <1>2 DEF Motion, Ages
  <2>2. unattended' = 0 => cancelled \/ commandedAge' >= CommandTimeout
    BY <1>1, <1>2, <2>1 DEF Motion
  <2>3. unattended' > 0 => cancelled \/ commandedAge' > CommandTimeout
    <3>1. CASE unattended = 0
      BY <1>1, <1>2, <2>1, <3>1 DEF Motion, LettingGo
    <3>2. CASE unattended > 0
      BY <1>1, <1>2, <2>1, <3>2 DEF Motion, LettingGo, Control!CommandHolds
    <3>3. CASE unattended = Attended
      BY <1>1, <1>2, <3>3
    <3>4. QED
      BY <1>2, <2>1, <3>1, <3>2, <3>3
  <2>4. commandedAge' \in Int
    BY <1>1, <1>2, <2>1
  <2>5. QED
    BY <1>1, <1>2, <2>2, <2>3, <2>4 DEF LettingGo, Control!CommandHolds
<1>5. UncommandedMotionFades'
  <2>1. ASSUME NEW setpoint, NEW maximum \in Nat, setpoint \in -maximum..maximum,
               Faded(setpoint, maximum), setpoint # 0, outerAge' < OuterAgeCap
        PROVE  Control!Abs(setpoint) <= maximum - (unattended' - outerAge')
    <3>1. outerAge \in 0..OuterAgeCap /\ unattended \in -1..UnattendedCap
      BY <1>2 DEF Motion, Ages
    <3>2. outerAge < OuterAgeCap /\ outerAge' = outerAge + 1
      BY <1>1, <1>2, <2>1, <3>1
    <3>3. Control!Abs(setpoint) <= maximum - (unattended - outerAge)
      BY <2>1, <3>2 DEF Faded
    <3>4. unattended' \in Int /\ (unattended' <= unattended + 1 \/ unattended' = 0)
      BY <1>1, <1>2, <3>1
    <3>5. Control!Abs(setpoint) \in 0..maximum
      BY <2>1 DEF Control!Abs
    <3>6. QED
      BY <2>1, <3>1, <3>2, <3>3, <3>4, <3>5
  <2>2. Faded(velocity, MaximumVelocity)'
    BY <1>1, <2>1, SetpointAssumption
       DEF Motion, Setpoints, UncommandedMotionFades, Faded, OuterAgeCap
  <2>3. Faded(yawRate, MaximumYawRate)'
    BY <1>1, <2>1, SetpointAssumption
       DEF Motion, Setpoints, UncommandedMotionFades, Faded, OuterAgeCap
  <2>4. QED
    BY <2>2, <2>3 DEF UncommandedMotionFades
<1>6. Setpoints'
  BY <1>1 DEF Motion, Setpoints
<1>7. QED
  BY <1>3, <1>4, <1>5, <1>6 DEF Motion

\* The steps in which no time passes and no outer iteration runs.
LEMMA CallsKeepMotion ==
  ASSUME Motion, Flags, Next,
         \A age \in 0..MaxHold : ~Outer(age), ~TimePasses
  PROVE  Motion'
<1>1. /\ Control!CommandedAgeCap = CommandTimeout + 1 /\ CommandTimeout \in Nat \ {0}
      /\ OuterAgeCap \in Nat /\ UnattendedCap = OuterAgeCap + 1 /\ Attended = -1
  BY Caps, TimeoutAssumption DEF Attended
<1> USE DEF Motion, Setpoints, Ages, LettingGo, UncommandedMotionFades, Faded,
        Control!CommandHolds
<1>2. ASSUME UNCHANGED <<motionVars, outerAge, unattended>>
      PROVE  Motion'
  BY <1>2 DEF motionVars, OuterAgeCap, UnattendedCap, Attended,
     Control!CommandedAgeCap
<1>3. ASSUME NEW strategy \in Strategies, Select(strategy)
      PROVE  Motion'
  BY <1>2, <1>3 DEF Select, Control!Select, Control!motionVars, motionVars, historyVars
<1>4. ASSUME NEW index, NEW value, SetParameter(index, value)
      PROVE  Motion'
  BY <1>2, <1>4 DEF SetParameter, Control!SetParameter, Control!motionVars,
     motionVars, historyVars
<1>5. ASSUME NEW v \in Requests(MaximumVelocity), NEW w \in Requests(MaximumYawRate),
             Move(v, w)
      PROVE  Motion'
  <2>1. /\ velocity' = v /\ v \in -MaximumVelocity..MaximumVelocity
        /\ Control!Abs(v) <= MaximumVelocity
    BY <1>5, SetpointAssumption
       DEF Move, Control!Move, Control!Within, Control!Abs, Requests
  <2>2. /\ yawRate' = w /\ w \in -MaximumYawRate..MaximumYawRate
        /\ Control!Abs(w) <= MaximumYawRate
    BY <1>5, SetpointAssumption
       DEF Move, Control!Move, Control!Within, Control!Abs, Requests
  <2>3. commandedAge' = 0 /\ unattended' = -1 /\ outerAge' = outerAge
    BY <1>1, <1>5 DEF Move, Control!Move
  <2>4. Setpoints'
    BY <2>1, <2>2
  <2>5. Ages'
    BY <1>1, <2>3 DEF OuterAgeCap, UnattendedCap, Control!CommandedAgeCap, Attended
  <2>6. LettingGo'
    BY <2>3
  <2>7. ASSUME NEW maximum \in Nat, NEW setpoint \in -maximum..maximum
        PROVE  Control!Abs(setpoint) <= maximum - (-1 - outerAge)
    BY <1>1, <2>7 DEF Control!Abs
  <2>8. UncommandedMotionFades'
    BY <2>1, <2>2, <2>3, <2>7, SetpointAssumption
  <2>9. QED
    BY <2>4, <2>5, <2>6, <2>8
<1>6. CASE Disconnected
  <2>1. /\ UNCHANGED <<velocity, yawRate, commandedAge, outerAge>> /\ cancelled'
        /\ unattended' = IF unattended = -1 THEN 0 ELSE unattended
    BY <1>1, <1>6 DEF Disconnected, Control!CancelMotion
  <2>2. Setpoints' /\ LettingGo'
    BY <2>1
  <2>3. Ages'
    BY <1>1, <2>1 DEF OuterAgeCap, UnattendedCap, Control!CommandedAgeCap, Attended
  <2>4. ASSUME NEW maximum \in Nat, NEW setpoint \in -maximum..maximum,
               Faded(setpoint, maximum)
        PROVE  Faded(setpoint, maximum)'
    <3>1. CASE unattended = -1
      BY <1>1, <2>1, <2>4, <3>1 DEF Control!Abs, OuterAgeCap
    <3>2. CASE unattended # -1
      BY <2>1, <2>4, <3>2 DEF OuterAgeCap
    <3>3. QED
      BY <3>1, <3>2
  <2>5. UncommandedMotionFades'
    BY <2>1, <2>4, SetpointAssumption
  <2>6. QED
    BY <2>2, <2>3, <2>5
<1>7. ASSUME /\ velocity' = 0 /\ yawRate' = 0 /\ cancelled'
             /\ UNCHANGED <<commandedAge, outerAge>>
             /\ unattended' \in {0, unattended}
      PROVE  Motion'
  <2>1. Setpoints' /\ LettingGo' /\ UncommandedMotionFades'
    BY <1>7, SetpointAssumption
  <2>2. Ages'
    BY <1>1, <1>7 DEF OuterAgeCap, UnattendedCap, Control!CommandedAgeCap, Attended
  <2>3. QED
    BY <2>1, <2>2
<1>8. CASE Engage
  BY <1>7, <1>8 DEF Engage, Control!Engage
<1>9. CASE Disengage
  BY <1>7, <1>9 DEF Disengage, Control!Disengage, historyVars
<1>10. ASSUME NEW valid \in BOOLEAN, Balance(valid)
       PROVE  Motion'
  BY <1>2, <1>10 DEF Balance, Control!Balance, Control!motionVars, motionVars
<1>11. QED
  BY <1>3, <1>4, <1>5, <1>6, <1>8, <1>9, <1>10,
     TypedIsRequested DEF Next

LEMMA MotionKeeps ==
  ASSUME Motion, Flags, MotionIsThisSessions, [Next]_vars
  PROVE  Motion'
<1>1. CASE UNCHANGED vars
  BY <1>1 DEF vars, controlVars, motionVars, historyVars, Motion, Setpoints, Ages,
     LettingGo, UncommandedMotionFades, Faded, Control!CommandHolds,
     OuterAgeCap, UnattendedCap, Control!CommandedAgeCap, Attended
<1>2. QED
  BY <1>1, OuterKeepsMotion, TimePassesKeepsMotion, CallsKeepMotion DEF Next

\* A fading setpoint that is zero stays zero.
LEMMA RestStays ==
  ASSUME Setpoints, Ages, NEW age \in 0..MaxHold, age < outerAge
  PROVE  /\ velocity = 0 => Control!TowardsZero(velocity, outerAge - age) = 0
         /\ yawRate = 0 => Control!TowardsZero(yawRate, outerAge - age) = 0
BY Caps, HoldAssumption DEF Ages, Control!TowardsZero, Control!Abs

LEMMA SessionMotionKeeps ==
  ASSUME Setpoints, Ages, Flags, MotionIsThisSessions, [Next]_vars
  PROVE  MotionIsThisSessions'
<1> USE DEF MotionIsThisSessions
<1>1. ASSUME NEW strategy \in Strategies, Select(strategy)
      PROVE  MotionIsThisSessions'
  BY <1>1 DEF Select, Control!Select, Control!motionVars, historyVars
<1>2. ASSUME NEW index, NEW value, SetParameter(index, value)
      PROVE  MotionIsThisSessions'
  BY <1>2 DEF SetParameter, Control!SetParameter, Control!motionVars, historyVars
<1>3. ASSUME NEW v, NEW w, Move(v, w)
      PROVE  MotionIsThisSessions'
  BY <1>3 DEF Move, Control!Move
<1>4. CASE Disconnected
  BY <1>4 DEF Disconnected, Control!CancelMotion
<1>5. CASE Engage
  BY <1>5 DEF Engage, Control!Engage
<1>6. CASE Disengage
  BY <1>6 DEF Disengage, Control!Disengage
<1>7. ASSUME NEW valid \in BOOLEAN, Balance(valid)
      PROVE  MotionIsThisSessions'
  BY <1>7 DEF Balance, Control!Balance, Control!motionVars
<1>8. ASSUME NEW age \in 0..MaxHold, Outer(age)
      PROVE  MotionIsThisSessions'
  <2>1. CASE engaged
    BY <1>8, <2>1, RestStays DEF Outer, Control!Steer
  <2>2. CASE ~engaged
    BY <1>8, <2>2 DEF Outer, controlVars, motionVars
  <2>3. QED
    BY <2>1, <2>2
<1>9. CASE TimePasses
  BY <1>9 DEF TimePasses, Control!TimePasses
<1>10. CASE UNCHANGED vars
  BY <1>10 DEF vars, controlVars, motionVars, historyVars
<1>11. QED
  BY <1>1, <1>2, <1>3, <1>4, <1>5, <1>6, <1>7, <1>8, <1>9, <1>10,
     TypedIsRequested DEF Next

LEMMA Inductive == Spec => []IInv
<1>1. IInv /\ [Next]_vars => IInv'
  BY SessionKeeps, MotionKeeps, SessionMotionKeeps DEF IInv, Motion
<1>2. QED
  BY <1>1, SessionInit, PTL DEF Spec

----------------------------------------------------------------------------
\* No setpoint is ever out of range or no number, and no age out of its bounds.
THEOREM TypeCorrect == Spec => []TypeOK
<1>1. IInv => TypeOK
  BY Typed DEF IInv
<1>2. QED
  BY <1>1, Inductive, PTL

\* Whichever way the commands, the sessions and the loss of the link interleave,
\* the robot moves and spends effort only as commanded in the session it is in.
THEOREM MotionIsThisSessionsAlways == Spec => []MotionIsThisSessions
<1>1. IInv => MotionIsThisSessions
  BY DEF IInv
<1>2. QED
  BY <1>1, Inductive, PTL

\* For every limit and timeout, a setpoint loses a tick's deceleration for every
\* tick since the operator let go, up to the last outer iteration's sample.
THEOREM UncommandedMotionFadesAlways == Spec => []UncommandedMotionFades
<1>1. IInv => UncommandedMotionFades
  BY DEF IInv
<1>2. QED
  BY <1>1, Inductive, PTL

\* The robot is at rest once outer iterations have covered as many ticks, since
\* the operator let go, as the larger setpoint lives.
RestedInTime ==
  /\ outerAge < OuterAgeCap
  /\ unattended - outerAge >= Larger(MaximumVelocity, MaximumYawRate)
  => velocity = 0 /\ yawRate = 0

\* The bound behind coming to rest: an operator who stops commanding, or loses the
\* link, need not wait longer than the setpoints' deceleration takes, plus the
\* age of the last outer iteration.
THEOREM RestedInTimeAlways == Spec => []RestedInTime
<1>1. ASSUME IInv PROVE RestedInTime
  <2> SUFFICES ASSUME outerAge < OuterAgeCap,
                      unattended - outerAge >= Larger(MaximumVelocity, MaximumYawRate)
               PROVE  velocity = 0 /\ yawRate = 0
    BY DEF RestedInTime
  <2>1. /\ outerAge \in Int /\ unattended \in Int
        /\ velocity \in Int /\ yawRate \in Int
    BY <1>1, Caps DEF IInv, Ages, Setpoints, Attended
  <2>2. /\ unattended - outerAge >= MaximumVelocity
        /\ unattended - outerAge >= MaximumYawRate
    BY <2>1, SetpointAssumption DEF Larger
  <2>3. Faded(velocity, MaximumVelocity) /\ Faded(yawRate, MaximumYawRate)
    BY <1>1 DEF IInv, UncommandedMotionFades
  <2>4. velocity = 0
    BY <2>1, <2>2, <2>3, SetpointAssumption DEF Faded, Control!Abs
  <2>5. yawRate = 0
    BY <2>1, <2>2, <2>3, SetpointAssumption DEF Faded, Control!Abs
  <2>6. QED
    BY <2>4, <2>5
<1>2. QED
  BY <1>1, Inductive, PTL

\* A strategy in control remembers nothing from before the session, and neither
\* it nor its gains were changed in it.
THEOREM SessionIsItsOwnAlways == Spec => []SessionIsItsOwn
<1>1. IInv => SessionIsItsOwn
  BY DEF IInv
<1>2. QED
  BY <1>1, Inductive, PTL

\* Without a fresh command no setpoint grows or changes its sign.
THEOREM NeverReversesAlways == Spec => NeverReverses
<1>1. ASSUME IInv, [Next]_vars, cancelled' \/ commandedAge' # 0
      PROVE  FadesTo(velocity, velocity') /\ FadesTo(yawRate, yawRate')
  <2>1. velocity \in Int /\ yawRate \in Int
    BY <1>1, SetpointAssumption DEF IInv, Setpoints
  <2>2. ASSUME UNCHANGED <<velocity, yawRate>> \/ (velocity' = 0 /\ yawRate' = 0)
        PROVE  FadesTo(velocity, velocity') /\ FadesTo(yawRate, yawRate')
    BY <2>1, <2>2 DEF FadesTo
  <2>3. ASSUME NEW age \in 0..MaxHold, Outer(age), engaged
        PROVE  FadesTo(velocity, velocity') /\ FadesTo(yawRate, yawRate')
    <3>1. /\ Ages /\ LettingGo
          /\ Faded(velocity, MaximumVelocity) /\ Faded(yawRate, MaximumYawRate)
          /\ velocity \in -MaximumVelocity..MaximumVelocity
          /\ yawRate \in -MaximumYawRate..MaximumYawRate
      BY <1>1 DEF IInv, UncommandedMotionFades, Setpoints
    <3>2. /\ age < outerAge
          /\ velocity' = IF Control!CommandHolds THEN velocity
                         ELSE Control!TowardsZero(velocity, outerAge - age)
          /\ yawRate' = IF Control!CommandHolds THEN yawRate
                        ELSE Control!TowardsZero(yawRate, outerAge - age)
      BY <2>3 DEF Outer, Control!Steer
    <3>3. FadesTo(velocity, velocity')
      BY <3>1, <3>2, OuterFades, Caps, SetpointAssumption
    <3>4. FadesTo(yawRate, yawRate')
      BY <3>1, <3>2, OuterFades, Caps, SetpointAssumption
    <3>5. QED
      BY <3>3, <3>4
  <2>4. \/ UNCHANGED <<velocity, yawRate>>
        \/ velocity' = 0 /\ yawRate' = 0
        \/ engaged /\ \E age \in 0..MaxHold : Outer(age)
    <3>1. ~\E v, w : Move(v, w)
      BY <1>1 DEF Move, Control!Move
    <3>2. QED
      BY <1>1, <3>1, TypedIsRequested DEF Next, Select, Control!Select, SetParameter,
         Control!SetParameter, Disconnected, Control!CancelMotion, Engage,
         Control!Engage, Disengage, Control!Disengage, Balance, Control!Balance,
         Outer, TimePasses, Control!TimePasses, vars, controlVars, motionVars,
         Control!motionVars
  <2>5. QED
    BY <2>2, <2>3, <2>4
<1>2. IInv /\ [Next]_vars =>
        [cancelled' \/ commandedAge' # 0
           => FadesTo(velocity, velocity') /\ FadesTo(yawRate, yawRate')]_vars
  BY <1>1
<1>3. QED
  BY <1>2, Inductive, PTL DEF Spec, NeverReverses

=============================================================================
