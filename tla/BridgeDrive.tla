---------------------------- MODULE BridgeDrive ----------------------------
(***************************************************************************)
(* Motion actuation down to the inputs of the bridges: the module          *)
(* MotionActuation, whose bridges are released, braked or driven, with the *)
(* duties that each of these means, and the configuration of the driver    *)
(* that has to come first.                                                 *)
(*                                                                         *)
(* A duty is counted in steps of the timer, FullScale of them; an effort   *)
(* in half steps, so that its rounding shows, and may not be a number.     *)
(* Currents and resistances are integers, as in the code; the ratio of the *)
(* torque register's steps to the reference voltage is kept in its lowest  *)
(* terms.                                                                  *)
(***************************************************************************)
EXTENDS Integers

CONSTANTS
  FullScale,      \* steps of a duty cycle
  Efforts,        \* the finite efforts that are applied, in half steps
  NotANumber,     \* an effort that is not finite
  Resistances,    \* of the sense resistor, in milliohm
  TripCurrents    \* that are asked for, in milliampere

ASSUME FullScaleAssumption == FullScale \in Nat \ {0}
ASSUME EffortsAssumption == Efforts \subseteq Int /\ NotANumber \notin Int
ASSUME ScalingAssumption ==
  Resistances \subseteq Nat \ {0} /\ TripCurrents \subseteq Nat

VARIABLES
  driverState, driverFault, bridges,  \* MotionActuation
  inputs,         \* of the two bridges, left and right
  decay,          \* how the motor current falls between the pulses
  board,          \* the resistance and the trip current the driver is set for
  wakeUp,         \* of the driver: waiting, writing or answered
  written,        \* the scaling that has been sent to it
  applied         \* for stating properties only: the efforts last driven

actuationVars == <<driverState, driverFault, bridges>>
vars == <<actuationVars, inputs, decay, board, wakeUp, written, applied>>

Actuation == INSTANCE MotionActuation

Sides == {"left", "right"}
SenseGains == {40, 20, 10, 5}
MaximumTorque == 255
\* 256 torque steps to 2 750 000 microvolts.
TorqueSteps == 16
Reference == 171875
Unwritten == [senseGain |-> 0, torque |-> 0]

----------------------------------------------------------------------------
(***************************************************************************)
(* The inputs of a bridge.                                                 *)
(***************************************************************************)
Abs(x) == IF x < 0 THEN -x ELSE x
Clamped(x, low, high) == IF x < low THEN low ELSE IF x > high THEN high ELSE x

Off == 0
Full == FullScale
Released == [input1 |-> Off, input2 |-> Off]
Braked == [input1 |-> Full, input2 |-> Full]

\* To the nearest step, a half away from zero.
DutyOf(magnitude) == (Clamped(magnitude, 0, 2 * FullScale) + 1) \div 2
RemainderOf(duty) == FullScale - duty

\* Mutated forms, no part of the specification.
MutSlowDecayInputs(forward, duty) ==
  IF forward THEN [input1 |-> Full, input2 |-> RemainderOf(duty)]
             ELSE [input1 |-> duty, input2 |-> Full]

SlowDecayInputs(forward, duty) ==
  IF forward THEN [input1 |-> Full, input2 |-> RemainderOf(duty)]
             ELSE [input1 |-> RemainderOf(duty), input2 |-> Full]

FastDecayInputs(forward, duty) ==
  IF forward THEN [input1 |-> duty, input2 |-> Off]
             ELSE [input1 |-> Off, input2 |-> duty]

InputsFor(effort) ==
  LET clamped == IF effort = NotANumber THEN 0
                 ELSE Clamped(effort, -2 * FullScale, 2 * FullScale)
  IN IF decay = "slow" THEN SlowDecayInputs(clamped >= 0, DutyOf(Abs(clamped)))
                       ELSE FastDecayInputs(clamped >= 0, DutyOf(Abs(clamped)))

----------------------------------------------------------------------------
(***************************************************************************)
(* The scaling of the trip current.                                        *)
(***************************************************************************)
TorqueFor(gain, resistance, current) ==
  (TorqueSteps * gain * resistance * current) \div Reference

\* A mutated form, no part of the specification.
MutScaleCurrent(resistance, current) ==
  LET gain == IF TorqueFor(5, resistance, current) <= MaximumTorque THEN 5 ELSE 10
  IN [senseGain |-> gain, torque |-> TorqueFor(gain, resistance, current) % 256]

\* The highest gain whose torque fits its register, or the lowest one at its end.
ScaleCurrent(resistance, current) ==
  LET Fits == {gain \in SenseGains :
                 TorqueFor(gain, resistance, current) <= MaximumTorque}
      highest == CHOOSE gain \in Fits : \A other \in Fits : other <= gain
  IN IF Fits = {}
       THEN [senseGain |-> 5, torque |-> MaximumTorque]
       ELSE [senseGain |-> highest, torque |-> TorqueFor(highest, resistance, current)]

DriverConfigurationFor(config) == ScaleCurrent(config.resistance, config.current)

----------------------------------------------------------------------------
TypeOK ==
  /\ Actuation!TypeOK
  /\ inputs \in [Sides -> [input1 : 0..FullScale, input2 : 0..FullScale]]
  /\ decay \in {"slow", "fast"}
  /\ board \in [resistance : Resistances, current : TripCurrents]
  /\ wakeUp \in {"waiting", "writing", "answered"}
  /\ written = Unwritten \/ written \in [senseGain : SenseGains, torque : 0..255]
  /\ applied \in [Sides -> Efforts \cup {NotANumber}]

\* The bridges are released before the driver's configuration is asked for.
Init ==
  /\ Actuation!Init
  /\ inputs = [side \in Sides |-> Released]
  /\ decay \in {"slow", "fast"}
  /\ board \in [resistance : Resistances, current : TripCurrents]
  /\ wakeUp = "waiting"
  /\ written = Unwritten
  /\ applied = [side \in Sides |-> NotANumber]

----------------------------------------------------------------------------
(***************************************************************************)
(* The driver's configuration.                                             *)
(***************************************************************************)
\* The wake-up timer: the driver's library writes, reads back and compares.
Configure ==
  /\ wakeUp = "waiting"
  /\ wakeUp' = "writing"
  /\ written' = DriverConfigurationFor(board)
  /\ UNCHANGED <<actuationVars, inputs, decay, board, applied>>

Configured(verified) ==
  /\ wakeUp = "writing"
  /\ wakeUp' = "answered"
  /\ Actuation!Configured(verified)
  /\ UNCHANGED <<inputs, decay, board, written, applied>>

----------------------------------------------------------------------------
(***************************************************************************)
(* What the bridges are told, at any time.                                 *)
(***************************************************************************)
Drive(both) == inputs' = [side \in Sides |-> both]

\* A mutated form, no part of the specification.
MutApplyWhenReady(left, right) ==
  /\ bridges' = IF driverState = "ready" THEN "driven" ELSE bridges
  /\ IF driverState = "ready"
       THEN /\ inputs' = [left |-> InputsFor(left), right |-> InputsFor(right)]
            /\ applied' = [left |-> left, right |-> right]
       ELSE UNCHANGED <<inputs, applied>>
  /\ UNCHANGED <<driverState, driverFault, decay, board, wakeUp, written>>

Apply(left, right) ==
  /\ Actuation!Apply
  /\ IF Actuation!DrivePermitted
       THEN /\ inputs' = [left |-> InputsFor(left), right |-> InputsFor(right)]
            /\ applied' = [left |-> left, right |-> right]
       ELSE UNCHANGED <<inputs, applied>>
  /\ UNCHANGED <<decay, board, wakeUp, written>>

Disable(how) ==
  /\ Actuation!Disable(how)
  /\ Drive(IF how = "brake" /\ Actuation!DrivePermitted THEN Braked ELSE Released)
  /\ UNCHANGED <<decay, board, wakeUp, written, applied>>

ClearFault ==
  /\ Actuation!ClearFault
  /\ UNCHANGED <<inputs, decay, board, wakeUp, written, applied>>

\* A driver that is not configured yet may raise its fault line too.
OnFault ==
  /\ Actuation!OnFault
  /\ Drive(Released)
  /\ UNCHANGED <<decay, board, wakeUp, written, applied>>

----------------------------------------------------------------------------
Next ==
  \/ Configure
  \/ \E verified \in BOOLEAN : Configured(verified)
  \/ \E left, right \in Efforts \cup {NotANumber} : Apply(left, right)
  \/ \E how \in Actuation!DisableStates : Disable(how)
  \/ ClearFault
  \/ OnFault

Spec == Init /\ [][Next]_vars

----------------------------------------------------------------------------
(***************************************************************************)
(* Safety.                                                                 *)
(***************************************************************************)
\* While the driver may not be driven, because it is not configured, was not
\* verified or has a fault latched, no input of a bridge is on, whatever was
\* applied, braked or cleared before.
UnpermittedIsReleased ==
  ~Actuation!DrivePermitted => \A side \in Sides : inputs[side] = Released

\* The mean voltage over a motor, in steps.
Mean(bridge) == bridge.input1 - bridge.input2

\* The control strategies rely on it: of two efforts applied to a motor one after
\* the other the greater gives no smaller mean voltage, whatever the decay, and
\* what is not a number counts as none.
Finite(effort) == IF effort = NotANumber THEN 0 ELSE effort
EffortsOrderMeans ==
  [][bridges = "driven" /\ bridges' = "driven" =>
       \A side \in Sides :
         Finite(applied[side]) <= Finite(applied'[side])
           => Mean(inputs[side]) <= Mean(inputs'[side])]_vars

\* The driver trips at no more than the current asked for, and, unless its least
\* sensitive range ends below that, at one step of its torque less at most.
TripIsBelowRequested ==
  written # Unwritten =>
    LET Step == TorqueSteps * written.senseGain * board.resistance
    IN /\ written.torque * Reference <= Step * board.current
       /\ \/ (written.torque + 1) * Reference > Step * board.current
          \/ written.senseGain = 5 /\ written.torque = MaximumTorque

=============================================================================
