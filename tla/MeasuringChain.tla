-------------------------- MODULE MeasuringChain --------------------------
(***************************************************************************)
(* From the sensor to the stages of the control loop: inertial sensing,    *)
(* attitude estimation and the control loop's decimation, composed.  One   *)
(* sample runs through all three in one callback, hence in one action;     *)
(* what interleaves are the two halves of a sample, the passing of time,   *)
(* the start of a calibration and the choice of a filter.                  *)
(***************************************************************************)
EXTENDS Integers

CONSTANTS
  StalePeriods, CalibrationWindow, MaxHold,
  MaximumInterval, ConvergenceInterval,
  SamplesPerBalance, BalancesPerOuter

ASSUME SensingAssumption ==
  /\ StalePeriods \in Nat \ {0}
  /\ CalibrationWindow \in Nat \ {0}
  /\ MaxHold \in Nat
ASSUME EstimationAssumption ==
  MaximumInterval \in Nat /\ ConvergenceInterval \in Nat
ASSUME LoopAssumption ==
  SamplesPerBalance \in Nat \ {0} /\ BalancesPerOuter \in Nat \ {0}

VARIABLES
  device, accelerationReceived, pendingAge, sampled, sampleValid, sampleAge,
  calibration, calibrationAge, calibrationSampleAge,    \* InertialSensing
  running, previousAge, convergenceAge, estimate,       \* AttitudeEstimation
  samplesSinceBalance, balancesSinceOuter,              \* ControlLoop
  handed,       \* validity of the estimate last handed to the balance stage
  \* For stating properties only:
  disturbed,    \* the calibration's window has seen motion, failure or silence
  inRun,        \* the last measurement was believable, the filter not changed since
  runLength,    \* time from the first to the last sample of the present run of
                \* believable, gapless measurements through one filter, each
                \* stamped later than the one before, saturating
  sinceOuter    \* samples since the last outer iteration

Sensing == INSTANCE InertialSensing
Estimation == INSTANCE AttitudeEstimation
Loop == INSTANCE ControlLoop

sensingVars == <<device, accelerationReceived, pendingAge, sampled, sampleValid,
                 sampleAge, calibration, calibrationAge, calibrationSampleAge>>
estimationVars == <<running, previousAge, convergenceAge, estimate>>
loopVars == <<samplesSinceBalance, balancesSinceOuter>>
historyVars == <<disturbed, inRun, runLength, sinceOuter>>
vars == <<sensingVars, estimationVars, loopVars, handed, historyVars>>

SamplesPerOuter == SamplesPerBalance * BalancesPerOuter

TypeOK ==
  /\ Sensing!TypeOK
  /\ Estimation!TypeOK
  /\ Loop!TypeOK
  /\ handed \in BOOLEAN
  /\ disturbed \in BOOLEAN
  /\ inRun \in BOOLEAN
  /\ runLength \in 0..ConvergenceInterval
  /\ sinceOuter \in 0..SamplesPerOuter

Init ==
  /\ Sensing!Init
  /\ Estimation!Init
  /\ Loop!Init
  /\ handed = FALSE
  /\ disturbed = TRUE
  /\ inRun = FALSE /\ runLength = 0
  /\ sinceOuter = 0

----------------------------------------------------------------------------
DeviceInitialized(success) ==
  /\ Sensing!DeviceInitialized(success)
  /\ UNCHANGED <<estimationVars, loopVars, handed, historyVars>>

\* A stamp that follows the last sample by more than a gap.
LateStamp == calibration = "calibrating" /\ calibrationSampleAge > StalePeriods

Stamp ==
  /\ Sensing!OnAcceleration
  /\ disturbed' = (disturbed \/ LateStamp)
  /\ UNCHANGED <<estimationVars, loopVars, inRun, runLength, sinceOuter>>

\* The first half of a sample.
OnAcceleration == Stamp /\ UNCHANGED handed

\* The history's view of a sample: does it continue the run, start one, end it?
ExtendRun(believable) ==
  /\ inRun' = believable
  /\ LET gap == previousAge - pendingAge
         length == IF runLength + gap < ConvergenceInterval
                     THEN runLength + gap ELSE ConvergenceInterval
     IN runLength' = IF believable /\ inRun /\ 0 < gap /\ gap <= MaximumInterval
                       THEN length ELSE 0

\* A delivered sample up to the balance stage: sensing, estimation and the
\* control loop in turn.
Measure(valid, still) ==
  /\ Sensing!OnSample(valid, still)
  /\ LET believable == Sensing!Latest'
     IN /\ Estimation!Update(believable, pendingAge)
        /\ ExtendRun(believable)
  /\ Loop!OnMeasurement
  /\ disturbed' = (disturbed \/ (calibration = "calibrating" /\ ~(valid /\ still)))
  /\ sinceOuter' = IF Loop!BalanceDue /\ Loop!OuterDue THEN 0
                   ELSE IF sinceOuter < SamplesPerOuter THEN sinceOuter + 1
                   ELSE sinceOuter

\* The second half of a sample.
OnAngularVelocity(valid, still) ==
  /\ Measure(valid, still)
  /\ handed' = IF Loop!BalanceDue THEN estimate'.valid ELSE handed

BeginCalibration ==
  /\ Sensing!StartCalibration
  /\ disturbed' = FALSE
  /\ UNCHANGED <<estimationVars, loopVars, inRun, runLength, sinceOuter>>

\* The supervisor starts one from INIT or IDLE, never while one is running.
StartCalibration ==
  /\ calibration # "calibrating"
  /\ BeginCalibration
  /\ UNCHANGED handed

SelectFilter ==
  /\ Estimation!Select
  /\ inRun' = FALSE /\ runLength' = 0
  /\ UNCHANGED <<sensingVars, loopVars, handed, disturbed, sinceOuter>>

\* For longer than a gap no sample was stamped, and none is pending.
Silence ==
  /\ calibration = "calibrating"
  /\ ~accelerationReceived
  /\ calibrationSampleAge' > StalePeriods

TimePasses ==
  /\ Sensing!TimePasses
  /\ Estimation!TimePasses
  /\ disturbed' = (disturbed \/ Silence)
  /\ UNCHANGED <<loopVars, handed, inRun, runLength, sinceOuter>>

----------------------------------------------------------------------------
Next ==
  \/ \E success \in BOOLEAN : DeviceInitialized(success)
  \/ OnAcceleration
  \/ \E valid, still \in BOOLEAN : OnAngularVelocity(valid, still)
  \/ StartCalibration
  \/ SelectFilter
  \/ TimePasses

Spec == Init /\ [][Next]_vars

----------------------------------------------------------------------------
(***************************************************************************)
(* Safety.                                                                 *)
(***************************************************************************)
\* No estimate is valid that its filter has not earned, and none it has earned is
\* withheld: behind it lies an unbroken run of believable measurements through
\* the filter now chosen, that began a convergence interval before the last of
\* them.  Without an interval to wait for, the first of a run is still invalid.
ValidIsEarned ==
  /\ estimate.valid => inRun /\ runLength = ConvergenceInterval
  /\ inRun /\ runLength = ConvergenceInterval
       => estimate.valid \/ ConvergenceInterval = 0

\* The bias is never learnt from a window in which the robot moved, a transfer
\* failed or the sensor was silent for longer than a gap, whichever way the
\* silence lies to the samples, the halves of samples and the start; and nothing
\* else makes a calibration fail.
DisturbanceDecides ==
  calibration \in {"calibrated", "failed"} => (calibration = "failed" <=> disturbed)

\* A sample is delivered, and it is one that starts a balance iteration.
BalanceIteration ==
  accelerationReceived /\ ~accelerationReceived' /\ Loop!BalanceDue

\* The balance stage is handed a valid estimate only in the arrival of a sample
\* that is not stale, after a calibration that succeeded.
HandedIsFresh ==
  [][BalanceIteration /\ handed'
       => calibration' = "calibrated" /\ sampleAge' <= StalePeriods]_vars

\* The outer stage runs once in exactly SamplesPerOuter samples, neither earlier
\* nor later, whatever samples failed or were stale.
OuterIsRegular ==
  [][sinceOuter' # sinceOuter => sinceOuter' = (sinceOuter + 1) % SamplesPerOuter]_vars

=============================================================================
