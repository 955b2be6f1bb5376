------------------------- MODULE InertialSensing -------------------------
(***************************************************************************)
(* Inertial sensing, with the half of the sensor's driver that pairs an    *)
(* acceleration with the angular rate that follows it into one sample.     *)
(* The device is asked once to initialize; if it does not identify itself  *)
(* it never samples, and nothing asks again while the robot is powered.    *)
(*                                                                         *)
(* A time point t is kept as its age, Now() - t, in sample periods.  An    *)
(* age saturates above every bound it is compared with, so the difference  *)
(* of two ages falls on the right side of each bound.  The axes' values    *)
(* are left out: a sample says whether its transfer succeeded and whether  *)
(* the robot held still.                                                   *)
(***************************************************************************)
EXTENDS Integers

CONSTANTS
  StalePeriods,       \* the gap, in sample periods, that makes a sample stale
  CalibrationWindow,  \* the time, in sample periods, a calibration takes
  MaxHold             \* bound on the time between the halves of a sample

VARIABLES
  device,                \* the sensor device: initializing, sampling or failed
  accelerationReceived,  \* the driver waits for the angular rate
  pendingAge,            \* age of the pending sample's timestamp
  sampled,               \* a sample has come
  sampleValid,           \* the last sample's transfer succeeded
  sampleAge,             \* age of the last sample's timestamp
  calibration,           \* state of the gyroscope calibration
  calibrationAge,        \* age of the start of the calibration
  calibrationSampleAge   \* age of its last sample, at first of its start

sensingVars == <<device, accelerationReceived, pendingAge, sampled, sampleValid,
                 sampleAge, calibration, calibrationAge, calibrationSampleAge>>

CalibrationStates == {"uncalibrated", "calibrating", "calibrated", "failed"}

SampleAgeCap == StalePeriods + MaxHold + 1
CalibrationAgeCap == CalibrationWindow + MaxHold + 1
Older(age, cap) == IF age < cap THEN age + 1 ELSE cap

TypeOK ==
  /\ device \in {"initializing", "sampling", "failed"}
  /\ accelerationReceived \in BOOLEAN
  /\ pendingAge \in 0..MaxHold
  /\ sampled \in BOOLEAN
  /\ sampleValid \in BOOLEAN
  /\ sampleAge \in 0..SampleAgeCap
  /\ calibration \in CalibrationStates
  /\ calibrationAge \in 0..CalibrationAgeCap
  /\ calibrationSampleAge \in 0..SampleAgeCap

Init ==
  /\ device = "initializing"
  /\ accelerationReceived = FALSE /\ pendingAge = 0
  /\ sampled = FALSE /\ sampleValid = FALSE /\ sampleAge = SampleAgeCap
  /\ calibration = "uncalibrated"
  /\ calibrationAge = CalibrationAgeCap /\ calibrationSampleAge = SampleAgeCap

----------------------------------------------------------------------------
Stale == sampleAge > StalePeriods

(***************************************************************************)
(* Mutated forms, no part of the specification.                            *)
(***************************************************************************)
MutAccumulateIgnoresGaps(still) ==
  IF ~still
    THEN calibration' = "failed" /\ UNCHANGED calibrationSampleAge
    ELSE /\ calibrationSampleAge' = pendingAge
         /\ calibration' = IF calibrationAge - pendingAge >= CalibrationWindow
                             THEN "calibrated" ELSE "calibrating"

MutAccumulateWaitsForSilence(still) ==
  IF ~still \/ calibrationSampleAge - pendingAge > StalePeriods
    THEN UNCHANGED <<calibration, calibrationSampleAge>>
    ELSE /\ calibrationSampleAge' = pendingAge
         /\ calibration' = IF calibrationAge - pendingAge >= CalibrationWindow
                             THEN "calibrated" ELSE "calibrating"

\* Why a measurement read now may not be believed, the first reason first.
Cause ==
  IF ~sampled THEN "neverSampled"
  ELSE IF ~sampleValid THEN "transferFailed"
  ELSE IF Stale THEN "stale"
  ELSE IF calibration # "calibrated" THEN "uncalibrated"
  ELSE "none"

\* The measurement handed on, of which only the validity is kept.
Latest == Cause = "none"

----------------------------------------------------------------------------
\* The callback of the device's initialization: the two sensors are started.
DeviceInitialized(success) ==
  /\ device = "initializing"
  /\ device' = IF success THEN "sampling" ELSE "failed"
  /\ UNCHANGED <<accelerationReceived, pendingAge, sampled, sampleValid, sampleAge,
                 calibration, calibrationAge, calibrationSampleAge>>

\* The first half of a sample stamps it; a second first half replaces it.
OnAcceleration ==
  /\ device = "sampling"
  /\ accelerationReceived' = TRUE
  /\ pendingAge' = 0
  /\ UNCHANGED <<device, sampled, sampleValid, sampleAge, calibration,
                 calibrationAge, calibrationSampleAge>>

\* A calibration fails on motion and on a gap before this sample, and is
\* concluded by the first sample that lies a whole window after its start.
Accumulate(still) ==
  IF ~still \/ calibrationSampleAge - pendingAge > StalePeriods
    THEN calibration' = "failed" /\ UNCHANGED calibrationSampleAge
    ELSE /\ calibrationSampleAge' = pendingAge
         /\ calibration' = IF calibrationAge - pendingAge >= CalibrationWindow
                             THEN "calibrated" ELSE "calibrating"

\* The second half delivers the sample, if the first half has come.
OnSample(valid, still) ==
  /\ accelerationReceived
  /\ accelerationReceived' = FALSE
  /\ sampled' = TRUE
  /\ sampleValid' = valid
  /\ sampleAge' = pendingAge
  /\ IF calibration = "calibrating"
       THEN IF valid
              THEN Accumulate(still)
              ELSE calibration' = "failed" /\ UNCHANGED calibrationSampleAge
       ELSE UNCHANGED <<calibration, calibrationSampleAge>>
  /\ UNCHANGED <<device, pendingAge, calibrationAge>>

StartCalibration ==
  /\ calibration' = "calibrating"
  /\ calibrationAge' = 0
  /\ calibrationSampleAge' = 0
  /\ UNCHANGED <<device, accelerationReceived, pendingAge, sampled, sampleValid,
                 sampleAge>>

\* The timestamp of a sample that is not pending is of no further use.
TimePasses ==
  /\ accelerationReceived => pendingAge < MaxHold
  /\ pendingAge' = Older(pendingAge, MaxHold)
  /\ sampleAge' = Older(sampleAge, SampleAgeCap)
  /\ calibrationAge' = Older(calibrationAge, CalibrationAgeCap)
  /\ calibrationSampleAge' = Older(calibrationSampleAge, SampleAgeCap)
  /\ UNCHANGED <<device, accelerationReceived, sampled, sampleValid, calibration>>

=============================================================================
