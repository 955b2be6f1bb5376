----------------------- MODULE MeasuringChainProofs -----------------------
(***************************************************************************)
(* Proofs about MeasuringChain, for every gap, window, interval and rate.  *)
(*                                                                         *)
(* The inductive invariant adds to the properties what the ages of two     *)
(* time points say of each other although both saturate: the stamps of     *)
(* samples never run backwards (StampsAscend), the time the filter counts  *)
(* as converging is the length of the run of believable measurements       *)
(* (ConvergenceIsRun), and a running calibration is doomed by the next     *)
(* sample exactly when it is disturbed (DisturbedIsDoomed).                *)
(***************************************************************************)
EXTENDS MeasuringChain, TLAPS

StampsAscend == accelerationReceived => pendingAge <= previousAge

ConvergenceIsRun ==
  running /\ previousAge < Estimation!PreviousAgeCap =>
    /\ convergenceAge - previousAge <= runLength \/ runLength = ConvergenceInterval
    /\ \/ convergenceAge - previousAge >= runLength
       \/ convergenceAge = Estimation!ConvergenceAgeCap

DisturbedIsDoomed ==
  calibration = "calibrating" =>
    /\ disturbed => calibrationSampleAge > StalePeriods
    /\ accelerationReceived =>
         (disturbed <=> calibrationSampleAge - pendingAge > StalePeriods)

\* The parts of TypeOK.
Ages ==
  /\ pendingAge \in 0..MaxHold
  /\ sampleAge \in 0..Sensing!SampleAgeCap
  /\ calibrationAge \in 0..Sensing!CalibrationAgeCap
  /\ calibrationSampleAge \in 0..Sensing!SampleAgeCap
  /\ previousAge \in 0..Estimation!PreviousAgeCap
  /\ convergenceAge \in 0..Estimation!ConvergenceAgeCap
  /\ runLength \in 0..ConvergenceInterval
Counts == Loop!TypeOK /\ sinceOuter \in 0..SamplesPerOuter
Flags ==
  /\ device \in {"initializing", "sampling", "failed"}
  /\ accelerationReceived \in BOOLEAN /\ sampled \in BOOLEAN
  /\ sampleValid \in BOOLEAN /\ running \in BOOLEAN /\ handed \in BOOLEAN
  /\ disturbed \in BOOLEAN /\ inRun \in BOOLEAN
  /\ calibration \in Sensing!CalibrationStates
  /\ estimate \in [valid : BOOLEAN, cause : Estimation!InvalidCauses]

IInv ==
  /\ Ages /\ Counts /\ Flags
  /\ StampsAscend
  /\ running <=> inRun
  /\ ConvergenceIsRun
  /\ ValidIsEarned
  /\ DisturbedIsDoomed
  /\ DisturbanceDecides

----------------------------------------------------------------------------
\* Ageing stays below the cap and never makes an age smaller.
LEMMA SensingOlder ==
  ASSUME NEW cap \in Nat, NEW age \in 0..cap
  PROVE  /\ Sensing!Older(age, cap) \in 0..cap
         /\ Sensing!Older(age, cap) = IF age < cap THEN age + 1 ELSE cap
BY DEF Sensing!Older

LEMMA EstimationOlder ==
  ASSUME NEW cap \in Nat, NEW age \in 0..cap
  PROVE  /\ Estimation!Older(age, cap) \in 0..cap
         /\ Estimation!Older(age, cap) = IF age < cap THEN age + 1 ELSE cap
BY DEF Estimation!Older

LEMMA Caps ==
  /\ Sensing!SampleAgeCap \in Nat /\ Sensing!SampleAgeCap = StalePeriods + MaxHold + 1
  /\ Sensing!CalibrationAgeCap \in Nat
  /\ Estimation!PreviousAgeCap \in Nat
  /\ Estimation!PreviousAgeCap = MaximumInterval + MaxHold + 1
  /\ Estimation!ConvergenceAgeCap \in Nat
  /\ Estimation!ConvergenceAgeCap = ConvergenceInterval + MaxHold
BY SensingAssumption, EstimationAssumption
   DEF Sensing!SampleAgeCap, Sensing!CalibrationAgeCap,
       Estimation!PreviousAgeCap, Estimation!ConvergenceAgeCap

LEMMA SamplesPerOuterNat == SamplesPerOuter \in Nat
BY LoopAssumption DEF SamplesPerOuter

LEMMA Typed == Ages /\ Counts /\ Flags => TypeOK
BY DEF Ages, Counts, Flags, TypeOK, Sensing!TypeOK, Estimation!TypeOK

LEMMA ChainInit == Init => IInv
<1> SUFFICES ASSUME Init PROVE IInv
  OBVIOUS
<1> USE DEF Init, Sensing!Init, Estimation!Init, Loop!Init
<1>1. Ages
  BY SensingAssumption, EstimationAssumption, Caps DEF Ages
<1>2. Counts
  BY LoopAssumption, SamplesPerOuterNat DEF Counts, Loop!TypeOK
<1>3. Flags
  BY DEF Flags, Sensing!CalibrationStates, Estimation!InvalidCauses
<1>4. StampsAscend /\ ConvergenceIsRun /\ ValidIsEarned
      /\ DisturbedIsDoomed /\ DisturbanceDecides /\ (running <=> inRun)
  BY DEF StampsAscend, ConvergenceIsRun, ValidIsEarned, DisturbedIsDoomed,
     DisturbanceDecides
<1>5. QED
  BY <1>1, <1>2, <1>3, <1>4 DEF IInv

----------------------------------------------------------------------------
LEMMA DeviceKeeps ==
  ASSUME IInv, NEW success \in BOOLEAN, DeviceInitialized(success) PROVE IInv'
<1> USE DEF DeviceInitialized, Sensing!DeviceInitialized, estimationVars, loopVars,
            historyVars
<1>1. Ages' /\ Counts'
  BY DEF IInv, Ages, Counts, Loop!TypeOK
<1>2. Flags'
  BY DEF IInv, Flags
<1>3. StampsAscend' /\ ConvergenceIsRun' /\ ValidIsEarned'
      /\ DisturbedIsDoomed' /\ DisturbanceDecides' /\ (running' <=> inRun')
  BY DEF IInv, StampsAscend, ConvergenceIsRun, ValidIsEarned,
     DisturbedIsDoomed, DisturbanceDecides
<1>4. QED
  BY <1>1, <1>2, <1>3 DEF IInv

LEMMA AccelerationKeeps ==
  ASSUME IInv, OnAcceleration PROVE IInv'
<1> USE SensingAssumption, EstimationAssumption
        DEF OnAcceleration, Stamp, LateStamp, Sensing!OnAcceleration,
            estimationVars, loopVars,
            historyVars
<1>1. Ages'
  BY Caps DEF IInv, Ages
<1>2. Counts'
  BY DEF IInv, Counts, Loop!TypeOK
<1>3. Flags'
  BY DEF IInv, Flags
<1>4. StampsAscend'
  BY DEF IInv, Ages, StampsAscend
<1>5. DisturbedIsDoomed'
  <2>1. /\ accelerationReceived' /\ pendingAge' = 0
        /\ UNCHANGED <<calibration, calibrationSampleAge>>
        /\ calibration = "calibrating" =>
             disturbed' = (disturbed \/ calibrationSampleAge > StalePeriods)
    OBVIOUS
  <2>2. calibration = "calibrating" /\ disturbed => calibrationSampleAge > StalePeriods
    BY DEF IInv, DisturbedIsDoomed
  <2>3. calibration = "calibrating"
          => (disturbed' <=> calibrationSampleAge > StalePeriods)
    BY <2>1, <2>2
  <2>4. calibrationSampleAge' - pendingAge' = calibrationSampleAge
    BY <2>1, Caps DEF IInv, Ages
  <2>5. QED
    BY <2>1, <2>3, <2>4 DEF DisturbedIsDoomed
<1>6. ConvergenceIsRun' /\ ValidIsEarned' /\ DisturbanceDecides'
      /\ (running' <=> inRun')
  BY DEF IInv, ConvergenceIsRun, ValidIsEarned, DisturbanceDecides
<1>7. QED
  BY <1>1, <1>2, <1>3, <1>4, <1>5, <1>6 DEF IInv

LEMMA StartCalibrationKeeps ==
  ASSUME IInv, StartCalibration PROVE IInv'
<1> USE DEF StartCalibration, BeginCalibration, Sensing!StartCalibration, estimationVars, loopVars
<1>1. Ages'
  BY Caps DEF IInv, Ages
<1>2. Counts'
  BY DEF IInv, Counts, Loop!TypeOK
<1>3. Flags'
  BY DEF IInv, Flags, Sensing!CalibrationStates
<1>4. StampsAscend' /\ ConvergenceIsRun' /\ ValidIsEarned'
      /\ DisturbanceDecides' /\ (running' <=> inRun')
  BY DEF IInv, StampsAscend, ConvergenceIsRun, ValidIsEarned, DisturbanceDecides
<1>5. DisturbedIsDoomed'
  BY SensingAssumption DEF IInv, Ages, DisturbedIsDoomed
<1>6. QED
  BY <1>1, <1>2, <1>3, <1>4, <1>5 DEF IInv

LEMMA SelectFilterKeeps ==
  ASSUME IInv, SelectFilter PROVE IInv'
<1> USE DEF SelectFilter, Estimation!Select, Estimation!Converging, sensingVars,
            loopVars
<1>1. Ages'
  BY EstimationAssumption DEF IInv, Ages
<1>2. Counts'
  BY DEF IInv, Counts, Loop!TypeOK
<1>3. Flags'
  BY DEF IInv, Flags, Estimation!InvalidCauses
<1>4. StampsAscend' /\ ConvergenceIsRun' /\ ValidIsEarned'
      /\ DisturbedIsDoomed' /\ DisturbanceDecides' /\ (running' <=> inRun')
  BY DEF IInv, StampsAscend, ConvergenceIsRun, ValidIsEarned,
     DisturbedIsDoomed, DisturbanceDecides
<1>5. QED
  BY <1>1, <1>2, <1>3, <1>4 DEF IInv

----------------------------------------------------------------------------
\* Time passing ages every time point by the same amount, up to its cap.
LEMMA TimePassesKeeps ==
  ASSUME IInv, TimePasses PROVE IInv'
<1> USE SensingAssumption, EstimationAssumption
        DEF TimePasses, Sensing!TimePasses, Estimation!TimePasses, loopVars
<1>1. Ages
  BY DEF IInv
<1>2. /\ pendingAge' \in 0..MaxHold
      /\ pendingAge' = IF pendingAge < MaxHold THEN pendingAge + 1 ELSE MaxHold
      /\ sampleAge' \in 0..Sensing!SampleAgeCap
      /\ calibrationAge' \in 0..Sensing!CalibrationAgeCap
      /\ calibrationSampleAge' \in 0..Sensing!SampleAgeCap
      /\ calibrationSampleAge' =
           IF calibrationSampleAge < Sensing!SampleAgeCap
             THEN calibrationSampleAge + 1 ELSE Sensing!SampleAgeCap
  BY <1>1, Caps, SensingOlder DEF Ages
<1>3. /\ previousAge' \in 0..Estimation!PreviousAgeCap
      /\ previousAge' = IF previousAge < Estimation!PreviousAgeCap
                          THEN previousAge + 1 ELSE Estimation!PreviousAgeCap
      /\ convergenceAge' \in 0..Estimation!ConvergenceAgeCap
      /\ convergenceAge' = IF convergenceAge < Estimation!ConvergenceAgeCap
                             THEN convergenceAge + 1 ELSE Estimation!ConvergenceAgeCap
  BY <1>1, Caps, EstimationOlder DEF Ages
<1>4. Ages'
  BY <1>1, <1>2, <1>3 DEF Ages
<1>5. Counts'
  BY DEF IInv, Counts, Loop!TypeOK
<1>6. Flags'
  BY DEF IInv, Flags
<1>7. StampsAscend'
  BY <1>1, <1>2, <1>3, Caps DEF IInv, Ages, StampsAscend
<1>8. ConvergenceIsRun'
  BY <1>1, <1>3, Caps DEF IInv, Ages, ConvergenceIsRun
<1>9. DisturbedIsDoomed'
  <2> SUFFICES ASSUME calibration' = "calibrating" PROVE DisturbedIsDoomed'
    BY DEF DisturbedIsDoomed
  <2>1. /\ calibration = "calibrating"
        /\ UNCHANGED accelerationReceived
        /\ accelerationReceived => pendingAge < MaxHold
        /\ disturbed' = (\/ disturbed
                         \/ ~accelerationReceived /\ calibrationSampleAge' > StalePeriods)
    BY DEF Silence
  <2>2. /\ disturbed => calibrationSampleAge > StalePeriods
        /\ accelerationReceived =>
             (disturbed <=> calibrationSampleAge - pendingAge > StalePeriods)
    BY <2>1 DEF IInv, DisturbedIsDoomed
  <2>3. disturbed' => calibrationSampleAge' > StalePeriods
    <3>1. calibrationSampleAge > StalePeriods => calibrationSampleAge' > StalePeriods
      BY <1>1, <1>2, Caps DEF Ages
    <3>2. QED
      BY <2>1, <2>2, <3>1
  <2>4. ASSUME accelerationReceived
        PROVE  disturbed' <=> calibrationSampleAge' - pendingAge' > StalePeriods
    <3>1. calibrationSampleAge' - pendingAge' > StalePeriods
            <=> calibrationSampleAge - pendingAge > StalePeriods
      BY <1>1, <1>2, <2>1, <2>4, Caps DEF Ages
    <3>2. QED
      BY <2>1, <2>2, <2>4, <3>1
  <2>5. QED
    BY <2>1, <2>3, <2>4 DEF DisturbedIsDoomed
<1>10. DisturbanceDecides' /\ ValidIsEarned' /\ (running' <=> inRun')
  BY DEF IInv, DisturbanceDecides, ValidIsEarned, Silence
<1>11. QED
  BY <1>4, <1>5, <1>6, <1>7, <1>8, <1>9, <1>10 DEF IInv

----------------------------------------------------------------------------
\* A delivered sample, through sensing alone.
LEMMA SampleThroughSensing ==
  ASSUME IInv, NEW valid \in BOOLEAN, NEW still \in BOOLEAN,
         OnAngularVelocity(valid, still)
  PROVE  /\ pendingAge' \in 0..MaxHold
         /\ sampleAge' \in 0..Sensing!SampleAgeCap
         /\ calibrationAge' \in 0..Sensing!CalibrationAgeCap
         /\ calibrationSampleAge' \in 0..Sensing!SampleAgeCap
         /\ calibration' \in Sensing!CalibrationStates
         /\ accelerationReceived' = FALSE /\ sampled' = TRUE /\ sampleValid' = valid
         /\ DisturbedIsDoomed'
         /\ DisturbanceDecides'
<1>1. /\ accelerationReceived /\ accelerationReceived' = FALSE
      /\ sampled' = TRUE /\ sampleValid' = valid
      /\ disturbed' = (disturbed \/ (calibration = "calibrating" /\ ~(valid /\ still)))
  BY DEF OnAngularVelocity, Measure, Sensing!OnSample
<1>2. /\ pendingAge \in 0..MaxHold /\ pendingAge \in 0..Sensing!SampleAgeCap
      /\ calibrationSampleAge \in 0..Sensing!SampleAgeCap
      /\ calibrationAge \in 0..Sensing!CalibrationAgeCap
  BY SensingAssumption, Caps DEF IInv, Ages
<1>3. /\ pendingAge' = pendingAge
      /\ sampleAge' = pendingAge
      /\ calibrationAge' = calibrationAge
  BY DEF OnAngularVelocity, Measure, Sensing!OnSample
<1>4. calibration \in Sensing!CalibrationStates
  BY DEF IInv, Flags
<1>5. CASE calibration # "calibrating"
  <2>1. UNCHANGED <<calibration, calibrationSampleAge>>
    BY <1>5 DEF OnAngularVelocity, Measure, Sensing!OnSample
  <2>2. DisturbedIsDoomed' /\ DisturbanceDecides'
    BY <1>1, <1>5, <2>1 DEF IInv, DisturbedIsDoomed, DisturbanceDecides
  <2>3. QED
    BY <1>1, <1>2, <1>3, <1>4, <2>1, <2>2
<1>6. CASE calibration = "calibrating"
  <2>1. CASE ~valid \/ ~still \/ calibrationSampleAge - pendingAge > StalePeriods
    <3>1. calibration' = "failed" /\ UNCHANGED calibrationSampleAge
      BY <1>6, <2>1 DEF OnAngularVelocity, Measure, Sensing!OnSample, Sensing!Accumulate
    <3>2. DisturbedIsDoomed' /\ DisturbanceDecides'
      <4>1. disturbed' = TRUE
        BY <1>1, <1>6, <2>1 DEF IInv, Flags, DisturbedIsDoomed
      <4>2. QED
        BY <3>1, <4>1 DEF DisturbedIsDoomed, DisturbanceDecides
    <3>3. calibration' \in Sensing!CalibrationStates
      BY <3>1 DEF Sensing!CalibrationStates
    <3>4. QED
      BY <1>1, <1>2, <1>3, <3>1, <3>2, <3>3
  <2>2. CASE valid /\ still /\ ~(calibrationSampleAge - pendingAge > StalePeriods)
    <3>1. /\ calibrationSampleAge' = pendingAge
          /\ calibration' \in {"calibrated", "calibrating"}
      BY <1>6, <2>2 DEF OnAngularVelocity, Measure, Sensing!OnSample, Sensing!Accumulate
    <3>2. ~disturbed
      BY <1>1, <1>6, <2>2 DEF IInv, DisturbedIsDoomed
    <3>3. ~disturbed'
      BY <1>1, <2>2, <3>2
    <3>4. DisturbedIsDoomed' /\ DisturbanceDecides'
      BY <1>1, <3>1, <3>3 DEF DisturbedIsDoomed, DisturbanceDecides
    <3>5. calibration' \in Sensing!CalibrationStates
      BY <3>1 DEF Sensing!CalibrationStates
    <3>6. QED
      BY <1>1, <1>2, <1>3, <3>1, <3>4, <3>5
  <2>3. QED
    BY <2>1, <2>2
<1>7. QED
  BY <1>5, <1>6

\* The same sample through the estimator, whatever sensing says of it.
LEMMA SampleThroughEstimation ==
  ASSUME IInv, NEW believable \in BOOLEAN, accelerationReceived,
         Estimation!Update(believable, pendingAge), ExtendRun(believable)
  PROVE  /\ previousAge' \in 0..Estimation!PreviousAgeCap
         /\ convergenceAge' \in 0..Estimation!ConvergenceAgeCap
         /\ runLength' \in 0..ConvergenceInterval
         /\ running' \in BOOLEAN /\ inRun' \in BOOLEAN
         /\ estimate' \in [valid : BOOLEAN, cause : Estimation!InvalidCauses]
         /\ running' <=> inRun'
         /\ ConvergenceIsRun'
         /\ ValidIsEarned'
<1> USE SensingAssumption, EstimationAssumption, Caps
        DEF Estimation!Update, Estimation!Converging
<1>1. /\ pendingAge \in 0..MaxHold
      /\ previousAge \in 0..Estimation!PreviousAgeCap
      /\ convergenceAge \in 0..Estimation!ConvergenceAgeCap
      /\ runLength \in 0..ConvergenceInterval
  BY DEF IInv, Ages
<1>2. pendingAge <= previousAge
  BY DEF IInv, StampsAscend
<1>3. running <=> inRun
  BY DEF IInv
<1>4. pendingAge \in 0..Estimation!PreviousAgeCap /\ pendingAge \in 0..Estimation!ConvergenceAgeCap
  BY <1>1 DEF Estimation!ConvergenceAgeCap, Estimation!PreviousAgeCap
<1>5. inRun' = believable
  BY DEF ExtendRun
<1>6. runLength' \in 0..ConvergenceInterval
  BY <1>1, <1>2 DEF ExtendRun
<1>7. CASE ~believable
  <2>1. /\ running' = FALSE
        /\ estimate' = [valid |-> FALSE, cause |-> "sensing"]
        /\ UNCHANGED <<previousAge, convergenceAge>>
    BY <1>7
  <2>2. estimate' \in [valid : BOOLEAN, cause : Estimation!InvalidCauses]
    BY <2>1 DEF Estimation!InvalidCauses
  <2>3. ConvergenceIsRun' /\ ValidIsEarned'
    BY <1>5, <1>7, <2>1 DEF ConvergenceIsRun, ValidIsEarned
  <2>4. QED
    BY <1>1, <1>5, <1>6, <1>7, <2>1, <2>2, <2>3
<1>8. CASE believable /\ Estimation!MustRestart(pendingAge)
  <2>1. /\ running' = TRUE
        /\ estimate' = [valid |-> FALSE, cause |-> "converging"]
        /\ previousAge' = pendingAge /\ convergenceAge' = pendingAge
    BY <1>8 DEF Estimation!Restart
  <2>2. estimate' \in [valid : BOOLEAN, cause : Estimation!InvalidCauses]
    BY <2>1 DEF Estimation!InvalidCauses
  <2>3. runLength' = 0
    BY <1>1, <1>2, <1>3, <1>8 DEF Estimation!MustRestart, ExtendRun
  <2>4. ConvergenceIsRun' /\ ValidIsEarned'
    BY <1>1, <2>1, <2>3 DEF ConvergenceIsRun, ValidIsEarned
  <2>5. QED
    BY <1>4, <1>5, <1>6, <1>8, <2>1, <2>2, <2>3, <2>4
<1>9. CASE believable /\ ~Estimation!MustRestart(pendingAge)
  <2>1. /\ running
        /\ previousAge - pendingAge <= MaximumInterval
        /\ previousAge - pendingAge > 0
    BY <1>1, <1>9 DEF Estimation!MustRestart
  <2>2. previousAge < Estimation!PreviousAgeCap
    BY <1>1, <2>1
  <2>3. /\ running' = running /\ convergenceAge' = convergenceAge
        /\ previousAge' = pendingAge
        /\ estimate' = IF convergenceAge - pendingAge >= ConvergenceInterval
                         THEN [valid |-> TRUE, cause |-> "none"]
                         ELSE [valid |-> FALSE, cause |-> "converging"]
    BY <1>9 DEF Estimation!Fuse
  <2>4. runLength' = IF runLength + (previousAge - pendingAge) < ConvergenceInterval
                       THEN runLength + (previousAge - pendingAge)
                       ELSE ConvergenceInterval
    BY <1>1, <1>3, <1>9, <2>1 DEF ExtendRun
  <2>5. /\ convergenceAge - previousAge <= runLength \/ runLength = ConvergenceInterval
        /\ \/ convergenceAge - previousAge >= runLength
           \/ convergenceAge = Estimation!ConvergenceAgeCap
    BY <2>1, <2>2 DEF IInv, ConvergenceIsRun
  <2>6. /\ convergenceAge' - previousAge' <= runLength' \/ runLength' = ConvergenceInterval
        /\ \/ convergenceAge' - previousAge' >= runLength'
           \/ convergenceAge' = Estimation!ConvergenceAgeCap
    BY <1>1, <2>1, <2>3, <2>4, <2>5
  <2>7. convergenceAge - pendingAge >= ConvergenceInterval
          <=> runLength' = ConvergenceInterval
    BY <1>1, <2>1, <2>4, <2>5
  <2>8. estimate' \in [valid : BOOLEAN, cause : Estimation!InvalidCauses]
    BY <2>3 DEF Estimation!InvalidCauses
  <2>9. ValidIsEarned'
    <3>1. estimate'.valid <=> convergenceAge - pendingAge >= ConvergenceInterval
      BY <2>3
    <3>2. QED
      BY <1>5, <1>9, <2>7, <3>1 DEF ValidIsEarned
  <2>10. ConvergenceIsRun'
    BY <2>6 DEF ConvergenceIsRun
  <2>11. running' = TRUE
    BY <1>3, <2>1, <2>3 DEF IInv, Flags
  <2>12. QED
    BY <1>1, <1>4, <1>5, <1>6, <1>9, <2>3, <2>8, <2>9, <2>10, <2>11
<1>10. QED
  BY <1>7, <1>8, <1>9

LEMMA LoopTyped ==
  ASSUME Loop!TypeOK, Loop!OnMeasurement PROVE Loop!TypeOK'
BY LoopAssumption DEF Loop!TypeOK, Loop!OnMeasurement, Loop!BalanceDue, Loop!OuterDue

LEMMA AngularVelocityKeeps ==
  ASSUME IInv, NEW valid \in BOOLEAN, NEW still \in BOOLEAN,
         OnAngularVelocity(valid, still)
  PROVE  IInv'
<1>1. PICK believable \in BOOLEAN :
        Estimation!Update(believable, pendingAge) /\ ExtendRun(believable)
  BY DEF OnAngularVelocity, Measure, Sensing!Latest
<1>2. accelerationReceived
  BY DEF OnAngularVelocity, Measure, Sensing!OnSample
<1>3. /\ pendingAge' \in 0..MaxHold
      /\ sampleAge' \in 0..Sensing!SampleAgeCap
      /\ calibrationAge' \in 0..Sensing!CalibrationAgeCap
      /\ calibrationSampleAge' \in 0..Sensing!SampleAgeCap
      /\ calibration' \in Sensing!CalibrationStates
      /\ accelerationReceived' = FALSE /\ sampled' = TRUE /\ sampleValid' = valid
      /\ DisturbedIsDoomed' /\ DisturbanceDecides'
  BY SampleThroughSensing
<1>4. /\ previousAge' \in 0..Estimation!PreviousAgeCap
      /\ convergenceAge' \in 0..Estimation!ConvergenceAgeCap
      /\ runLength' \in 0..ConvergenceInterval
      /\ running' \in BOOLEAN /\ inRun' \in BOOLEAN
      /\ estimate' \in [valid : BOOLEAN, cause : Estimation!InvalidCauses]
      /\ running' <=> inRun'
      /\ ConvergenceIsRun' /\ ValidIsEarned'
  BY <1>1, <1>2, SampleThroughEstimation
<1>5. Ages'
  BY <1>3, <1>4 DEF Ages
<1>6. Counts'
  <2>1. Loop!TypeOK'
    BY LoopTyped DEF IInv, Counts, OnAngularVelocity, Measure
  <2>2. sinceOuter' \in 0..SamplesPerOuter
    BY SamplesPerOuterNat DEF IInv, Counts, OnAngularVelocity, Measure
  <2>3. QED
    BY <2>1, <2>2 DEF Counts
<1>7. Flags'
  <2>1. estimate'.valid \in BOOLEAN
    BY <1>4
  <2>2. handed' \in BOOLEAN /\ disturbed' \in BOOLEAN
    BY <2>1 DEF IInv, Flags, OnAngularVelocity, Measure
  <2>3. device' \in {"initializing", "sampling", "failed"}
    BY DEF IInv, Flags, OnAngularVelocity, Measure, Sensing!OnSample
  <2>4. QED
    BY <1>3, <1>4, <2>2, <2>3 DEF Flags
<1>8. StampsAscend'
  BY <1>3 DEF StampsAscend
<1>9. QED
  BY <1>3, <1>4, <1>5, <1>6, <1>7, <1>8 DEF IInv

----------------------------------------------------------------------------
LEMMA Inductive == Spec => []IInv
<1>1. ASSUME IInv, [Next]_vars PROVE IInv'
  <2>1. CASE UNCHANGED vars
    <3> USE <2>1 DEF vars, sensingVars, estimationVars, loopVars, historyVars
    <3>1. Ages'
      BY <1>1 DEF IInv, Ages
    <3>2. Counts'
      BY <1>1 DEF IInv, Counts, Loop!TypeOK
    <3>3. Flags'
      BY <1>1 DEF IInv, Flags
    <3>4. QED
      BY <1>1, <3>1, <3>2, <3>3 DEF IInv, StampsAscend, ConvergenceIsRun,
         ValidIsEarned, DisturbedIsDoomed, DisturbanceDecides
  <2>2. QED
    BY <1>1, <2>1, DeviceKeeps, AccelerationKeeps, AngularVelocityKeeps,
       StartCalibrationKeeps, SelectFilterKeeps, TimePassesKeeps DEF Next
<1>2. QED
  BY <1>1, ChainInit, PTL DEF Spec

\* Type correctness of the whole chain.
THEOREM TypeCorrect == Spec => []TypeOK
<1>1. IInv => TypeOK
  BY Typed DEF IInv
<1>2. QED
  BY <1>1, Inductive, PTL

\* However samples, gaps, calibrations and filter changes interleave, a valid
\* estimate has a convergence interval of unbroken believable measurements
\* behind it.
THEOREM ValidIsEarnedAlways == Spec => []ValidIsEarned
<1>1. IInv => ValidIsEarned
  BY DEF IInv
<1>2. QED
  BY <1>1, Inductive, PTL

\* A calibration that succeeded saw neither motion, nor a failed transfer, nor a
\* silence longer than a gap.
THEOREM DisturbanceDecidesAlways == Spec => []DisturbanceDecides
<1>1. IInv => DisturbanceDecides
  BY DEF IInv
<1>2. QED
  BY <1>1, Inductive, PTL

\* A balance iteration that is handed a valid estimate runs inside the arrival
\* of a sample that is not stale, on a calibrated gyroscope.
THEOREM HandedIsFreshAlways == Spec => HandedIsFresh
<1>1. ASSUME IInv, [Next]_vars, BalanceIteration, handed'
      PROVE  calibration' = "calibrated" /\ sampleAge' <= StalePeriods
  <2>1. PICK valid \in BOOLEAN, still \in BOOLEAN : OnAngularVelocity(valid, still)
    <3>1. ~(\E success \in BOOLEAN : DeviceInitialized(success))
          /\ ~OnAcceleration /\ ~StartCalibration /\ ~SelectFilter /\ ~TimePasses
      BY <1>1 DEF BalanceIteration, DeviceInitialized, Sensing!DeviceInitialized,
         OnAcceleration, Stamp, Sensing!OnAcceleration,
         StartCalibration, BeginCalibration, Sensing!StartCalibration, SelectFilter, sensingVars,
         TimePasses, Sensing!TimePasses
    <3>2. ~UNCHANGED vars
      BY <1>1 DEF BalanceIteration, vars, sensingVars
    <3>3. QED
      BY <1>1, <3>1, <3>2 DEF Next
  <2>2. PICK believable \in BOOLEAN :
          /\ believable => Sensing!Latest'
          /\ Estimation!Update(believable, pendingAge)
    BY <2>1 DEF OnAngularVelocity, Measure, Sensing!Latest
  <2>3. estimate'.valid
    BY <1>1, <2>1 DEF OnAngularVelocity, Measure, BalanceIteration
  <2>4. believable
    BY <2>2, <2>3 DEF Estimation!Update
  <2>5. Sensing!Latest'
    BY <2>2, <2>4
  <2>6. calibration' = "calibrated" /\ ~(sampleAge' > StalePeriods)
    BY <2>5 DEF Sensing!Latest, Sensing!Cause, Sensing!Stale
  <2>7. sampleAge' = pendingAge /\ pendingAge \in 0..MaxHold
    BY <1>1, <2>1 DEF IInv, Ages, OnAngularVelocity, Measure, Sensing!OnSample
  <2>8. QED
    BY <2>6, <2>7, SensingAssumption
<1>2. IInv /\ [Next]_vars =>
        [BalanceIteration /\ handed'
           => calibration' = "calibrated" /\ sampleAge' <= StalePeriods]_vars
  BY <1>1
<1>3. QED
  BY <1>2, Inductive, PTL DEF Spec, HandedIsFresh

----------------------------------------------------------------------------
\* The two counters of the decimation read as one number, in the base of their
\* rates: the samples since the last outer iteration.
CountersAgree == sinceOuter = balancesSinceOuter * SamplesPerBalance + samplesSinceBalance

LEMMA ProductGrows ==
  ASSUME NEW s \in Nat, NEW m \in Nat, NEW n \in Nat, m <= n
  PROVE  m * s <= n * s
<1>1. PICK d \in Nat : n = m + d
  <2>1. n - m \in Nat /\ n = m + (n - m)
    OBVIOUS
  <2>2. QED
    BY <2>1
<1>2. n * s = m * s + d * s /\ d * s \in Nat /\ m * s \in Nat
  BY <1>1
<1>3. QED
  BY <1>2

LEMMA NextProduct ==
  ASSUME NEW s \in Nat, NEW m \in Nat
  PROVE  (m + 1) * s = m * s + s /\ m * s \in Nat
OBVIOUS

LEMMA SmallRemainder ==
  ASSUME NEW n \in Nat, NEW m \in Nat \ {0}
  PROVE  n < m => n % m = n
OBVIOUS

LEMMA WholeRemainder ==
  ASSUME NEW m \in Nat \ {0}
  PROVE  m % m = 0
OBVIOUS

LEMMA SamplesPerOuterPositive == SamplesPerOuter \in Nat \ {0}
<1>1. 1 * SamplesPerBalance <= BalancesPerOuter * SamplesPerBalance
  BY LoopAssumption, ProductGrows
<1>2. QED
  BY <1>1, LoopAssumption, SamplesPerOuterNat DEF SamplesPerOuter

\* A sample moves the reading on by one, and around at SamplesPerOuter.
LEMMA SampleCounts ==
  ASSUME IInv, CountersAgree, NEW valid \in BOOLEAN, NEW still \in BOOLEAN,
         OnAngularVelocity(valid, still)
  PROVE  CountersAgree' /\ sinceOuter' = (sinceOuter + 1) % SamplesPerOuter
<1> DEFINE s == SamplesPerBalance
           i == samplesSinceBalance
           j == balancesSinceOuter
<1>1. /\ s \in Nat \ {0} /\ BalancesPerOuter \in Nat \ {0}
      /\ i \in 0..s - 1 /\ j \in 0..BalancesPerOuter - 1
      /\ sinceOuter \in 0..SamplesPerOuter
  BY LoopAssumption DEF IInv, Counts, Loop!TypeOK
<1>2. /\ i' = IF i + 1 >= s THEN 0 ELSE i + 1
      /\ j' = IF ~(i + 1 >= s) THEN j
              ELSE IF j + 1 >= BalancesPerOuter THEN 0 ELSE j + 1
      /\ sinceOuter' = IF i + 1 >= s /\ j + 1 >= BalancesPerOuter THEN 0
                       ELSE IF sinceOuter < SamplesPerOuter THEN sinceOuter + 1
                       ELSE sinceOuter
  BY DEF OnAngularVelocity, Measure, Loop!OnMeasurement, Loop!BalanceDue, Loop!OuterDue
<1>3. sinceOuter = j * s + i /\ j * s \in Nat /\ (j + 1) * s = j * s + s
  BY <1>1, NextProduct DEF CountersAgree
<1>4. SamplesPerOuter = BalancesPerOuter * s
  BY <1>1 DEF SamplesPerOuter
<1> HIDE DEF s, i, j
<1>5. CASE i + 1 < s
  <2>1. (j + 1) * s <= SamplesPerOuter
    BY <1>1, <1>4, ProductGrows
  <2>2. sinceOuter + 1 < SamplesPerOuter
    BY <1>1, <1>3, <1>5, <2>1, SamplesPerOuterNat
  <2>3. i' = i + 1 /\ j' = j /\ sinceOuter' = sinceOuter + 1
    BY <1>1, <1>2, <1>5, <2>2, SamplesPerOuterNat
  <2>4. sinceOuter' = j' * s + i'
    BY <1>1, <1>3, <2>3
  <2>5. QED
    BY <1>1, <2>2, <2>3, <2>4, SamplesPerOuterPositive, SmallRemainder
       DEF CountersAgree, s, i, j
<1>6. CASE i + 1 >= s /\ j + 1 < BalancesPerOuter
  <2>1. (j + 1 + 1) * s = (j + 1) * s + s /\ (j + 1 + 1) * s <= SamplesPerOuter
    BY <1>1, <1>4, <1>6, NextProduct, ProductGrows
  <2>2. sinceOuter + 1 = (j + 1) * s /\ sinceOuter + 1 < SamplesPerOuter
    BY <1>1, <1>3, <1>6, <2>1, SamplesPerOuterNat
  <2>3. i' = 0 /\ j' = j + 1 /\ sinceOuter' = sinceOuter + 1
    BY <1>1, <1>2, <1>6, <2>2, SamplesPerOuterNat
  <2>4. sinceOuter' = j' * s + i'
    BY <1>1, <1>3, <2>2, <2>3
  <2>5. QED
    BY <1>1, <2>2, <2>3, <2>4, SamplesPerOuterPositive, SmallRemainder
       DEF CountersAgree, s, i, j
<1>7. CASE i + 1 >= s /\ j + 1 >= BalancesPerOuter
  <2>1. i + 1 = s /\ j + 1 = BalancesPerOuter
    BY <1>1, <1>7
  <2>2. sinceOuter + 1 = SamplesPerOuter
    BY <1>1, <1>3, <1>4, <2>1, SamplesPerOuterNat
  <2>3. i' = 0 /\ j' = 0 /\ sinceOuter' = 0
    BY <1>2, <1>7
  <2>4. sinceOuter' = j' * s + i'
    BY <1>1, <2>3
  <2>5. QED
    BY <2>2, <2>3, <2>4, SamplesPerOuterPositive, WholeRemainder
       DEF CountersAgree, s, i, j
<1>8. QED
  BY <1>1, <1>5, <1>6, <1>7

\* Nothing but a sample moves it.
LEMMA OnlySamplesCount ==
  ASSUME [Next]_vars
  PROVE  \/ UNCHANGED <<samplesSinceBalance, balancesSinceOuter, sinceOuter>>
         \/ \E valid, still \in BOOLEAN : OnAngularVelocity(valid, still)
BY DEF Next, DeviceInitialized, OnAcceleration, Stamp, StartCalibration,
   BeginCalibration, SelectFilter, TimePasses, vars, loopVars, historyVars

LEMMA CountersAgreeAlways == Spec => []CountersAgree
<1>1. Init => CountersAgree
  BY LoopAssumption DEF Init, Loop!Init, CountersAgree
<1>2. IInv /\ CountersAgree /\ [Next]_vars => CountersAgree'
  <2> SUFFICES ASSUME IInv, CountersAgree, [Next]_vars PROVE CountersAgree'
    OBVIOUS
  <2>1. CASE UNCHANGED <<samplesSinceBalance, balancesSinceOuter, sinceOuter>>
    BY <2>1 DEF CountersAgree
  <2>2. QED
    BY <2>1, OnlySamplesCount, SampleCounts
<1>3. QED
  BY <1>1, <1>2, Inductive, PTL DEF Spec

\* The outer stage runs once in exactly SamplesPerOuter samples, for all rates,
\* whatever samples failed, were stale or found the filter changed.
THEOREM OuterIsRegularAlways == Spec => OuterIsRegular
<1>1. IInv /\ CountersAgree /\ [Next]_vars =>
        [sinceOuter' # sinceOuter => sinceOuter' = (sinceOuter + 1) % SamplesPerOuter]_vars
  BY OnlySamplesCount, SampleCounts
<1>2. QED
  BY <1>1, CountersAgreeAlways, Inductive, PTL DEF Spec, OuterIsRegular

=============================================================================
