------------------------------- MODULE Robot -------------------------------
(***************************************************************************)
(* The robot from the sensor to the bridges: the measuring chain and the   *)
(* safety supervisor, which main wires into each other, and the terminal,  *)
(* which reaches past the supervisor to the filter and to the bridges.     *)
(*                                                                         *)
(* Each half assumes something of the other.  The chain takes it that no   *)
(* calibration is started while one is running; the supervisor takes it    *)
(* that an estimate is valid only when the measurement behind it was.      *)
(* ImplementsChain and ImplementsSupervisor discharge both: the robot      *)
(* implements each module, with all that is proved of it.                  *)
(*                                                                         *)
(* A sample that starts a balance iteration is one callback, from the      *)
(* sensor's driver to the effort on the bridges.                           *)
(***************************************************************************)
EXTENDS Integers

CONSTANTS
  StalePeriods, CalibrationWindow, MaxHold, MaximumInterval, ConvergenceInterval,
  SamplesPerBalance, BalancesPerOuter,                         \* MeasuringChain
  Pitches, ArmWindow, FallThreshold, MissedServiceLimit,
  SelfTestDeadline                                             \* SafetySupervisor

\* What the two modules assume of their constants.
ASSUME ChainAssumption ==
  /\ StalePeriods \in Nat \ {0} /\ CalibrationWindow \in Nat \ {0} /\ MaxHold \in Nat
  /\ MaximumInterval \in Nat /\ ConvergenceInterval \in Nat
  /\ SamplesPerBalance \in Nat \ {0} /\ BalancesPerOuter \in Nat \ {0}
ASSUME SupervisorAssumption ==
  /\ Pitches \subseteq Int /\ 0 \in Pitches
  /\ ArmWindow \in Nat /\ FallThreshold \in Nat /\ ArmWindow <= FallThreshold
  /\ MissedServiceLimit \in Nat \ {0} /\ SelfTestDeadline \in Nat \ {0}

VARIABLES
  device, accelerationReceived, pendingAge, sampled, sampleValid, sampleAge,
  calibration, calibrationAge, calibrationSampleAge, running, previousAge,
  convergenceAge, estimate, samplesSinceBalance, balancesSinceOuter,
  disturbed, inRun, runLength, sinceOuter,                     \* MeasuringChain
  mode, cause, latest, serviced, missedServices, elapsed,
  driverState, driverFault, bridges, engaged,
  sinceBalance, sinceArm,                                      \* SafetySupervisor
  blind    \* for stating properties only: samples delivered to an armed robot
           \* while its estimate was invalid, saturating

sensingVars == <<device, accelerationReceived, pendingAge, sampled, sampleValid,
                 sampleAge, calibration, calibrationAge, calibrationSampleAge>>
afterSensingVars == <<running, previousAge, convergenceAge, estimate,
                      samplesSinceBalance, balancesSinceOuter,
                      disturbed, inRun, runLength, sinceOuter>>
chainVars == <<sensingVars, afterSensingVars>>
superviseVars == <<mode, cause, latest, serviced, missedServices, elapsed,
                   driverState, driverFault, bridges, engaged,
                   sinceBalance, sinceArm>>
vars == <<chainVars, superviseVars, blind>>

\* The validity of the estimate last handed on is that of the supervisor's copy.
Chain == INSTANCE MeasuringChain WITH handed <- latest.valid

\* What the supervisor sees of the sensor.
Sampling ==
  IF ~sampled THEN "never"
  ELSE IF ~sampleValid THEN "transferFailed"
  ELSE IF Chain!Sensing!Stale THEN "stale"
  ELSE "fresh"

Supervisor == INSTANCE SafetySupervisor WITH sampling <- Sampling

TypeOK ==
  /\ Chain!TypeOK
  /\ Supervisor!TypeOK
  /\ blind \in 0..SamplesPerBalance

Init ==
  /\ latest = [valid |-> FALSE, pitch |-> 0]
  /\ Chain!Init
  /\ Supervisor!Init
  /\ blind = 0

----------------------------------------------------------------------------
SamplesBlind == IF blind < SamplesPerBalance THEN blind + 1 ELSE blind

\* A sample is delivered; at the balance stage waits the supervisor.
Sample(valid, still, pitch) ==
  /\ Chain!Measure(valid, still)
  /\ IF Chain!Loop!BalanceDue
       THEN Supervisor!Iterate([valid |-> estimate'.valid, pitch |-> pitch])
       ELSE UNCHANGED superviseVars
  /\ blind' = IF mode' = "armed" /\ ~estimate'.valid THEN SamplesBlind ELSE 0

\* The supervision timer; the self-test that passes starts the calibration.
Supervise ==
  /\ IF mode = "init" /\ Supervisor!SelfTestPassed
       THEN Chain!BeginCalibration
       ELSE UNCHANGED chainVars
  /\ Supervisor!Supervise
  /\ blind' = IF mode' = "armed" THEN blind ELSE 0

DeviceInitialized(success) ==
  /\ Chain!Sensing!DeviceInitialized(success)
  /\ UNCHANGED <<afterSensingVars, superviseVars, blind>>

OnAcceleration ==
  /\ UNCHANGED <<superviseVars, blind>>
  /\ Chain!Stamp

TimePasses ==
  /\ UNCHANGED <<superviseVars, blind>>
  /\ Chain!TimePasses

DriverEvent ==
  /\ UNCHANGED <<chainVars, blind>>
  /\ \/ \E verified \in BOOLEAN : Supervisor!DriverConfigured(verified)
     \/ Supervisor!DriverFaultEdge

----------------------------------------------------------------------------
(***************************************************************************)
(* The terminal's handlers; one that is refused changes nothing.           *)
(***************************************************************************)
Arm ==
  /\ UNCHANGED chainVars
  /\ Supervisor!Arm
  /\ blind' = 0

Disarm ==
  /\ UNCHANGED chainVars
  /\ Supervisor!Disarm
  /\ blind' = 0

ClearFault ==
  /\ UNCHANGED <<chainVars, blind>>
  /\ Supervisor!ClearFault

Calibrate ==
  /\ Chain!BeginCalibration
  /\ Supervisor!Calibrate
  /\ UNCHANGED blind

ReleaseBridges ==
  /\ UNCHANGED <<chainVars, blind>>
  /\ Supervisor!DisableByHand("tristate")

Brake ==
  /\ UNCHANGED <<chainVars, blind>>
  /\ Supervisor!DisableByHand("brake")

\* Accepted in every mode, ARMED included; the supervisor is not told.
SelectFilter ==
  /\ UNCHANGED <<superviseVars, blind>>
  /\ Chain!SelectFilter

\* The commands the terminal dispatches that change what is modelled here.
Terminal ==
  \/ Arm
  \/ Disarm
  \/ ClearFault
  \/ Calibrate
  \/ ReleaseBridges
  \/ Brake
  \/ SelectFilter

----------------------------------------------------------------------------
Next ==
  \/ \E success \in BOOLEAN : DeviceInitialized(success)
  \/ OnAcceleration
  \/ \E valid, still \in BOOLEAN, pitch \in Pitches : Sample(valid, still, pitch)
  \/ TimePasses
  \/ Supervise
  \/ DriverEvent
  \/ Terminal

Spec == Init /\ [][Next]_vars

\* The supervision timer keeps running, and a device that samples keeps
\* delivering, good samples or bad ones.  Time passes again and again, although
\* the bound on the halves of a sample holds it up while one is pending.
FairSpec ==
  /\ Spec
  /\ WF_vars(Supervise)
  /\ WF_vars(OnAcceleration)
  /\ WF_vars(\E valid, still \in BOOLEAN, pitch \in Pitches :
               Sample(valid, still, pitch))
  /\ SF_vars(TimePasses)

----------------------------------------------------------------------------
(***************************************************************************)
(* Safety.                                                                 *)
(***************************************************************************)
\* An effort reaches the bridges only inside the arrival of a sample, and only
\* on an estimate that is valid now, earned by its filter over a whole
\* convergence interval, of a fresh sample and a calibrated gyroscope: armed or
\* not, on whatever copy of the estimate, with whatever filter changes between.
DrivesOnEarnedEstimate ==
  [][bridges # "driven" /\ bridges' = "driven"
       => /\ estimate'.valid /\ runLength' = ConvergenceInterval
          /\ calibration' = "calibrated" /\ sampleAge' <= StalePeriods]_vars

\* An armed robot is not blind for a whole balance period: however it came to be
\* armed, or lost its estimate while armed, the next iteration disarms it.
BlindnessIsBrief == mode = "armed" => blind < SamplesPerBalance

\* The two halves, each in the environment the other makes for it.
ImplementsChain == Chain!Spec
ImplementsSupervisor == Supervisor!Spec

----------------------------------------------------------------------------
(***************************************************************************)
(* Liveness, under FairSpec.                                               *)
(***************************************************************************)
\* CALIBRATING is left once the device samples, whatever it delivers.
CalibratingIsLeft ==
  mode = "calibrating" /\ device = "sampling" ~> mode # "calibrating"

----------------------------------------------------------------------------
(***************************************************************************)
(* What the documents say and the code does not do; refuted by a run.      *)
(***************************************************************************)
\* Arming requires a valid estimate: the estimator's, not a copy of what it was
\* when the last balance iteration came.
ArmsOnlyOnValidEstimate ==
  [][mode = "idle" /\ mode' = "armed" => estimate.valid]_vars

=============================================================================
