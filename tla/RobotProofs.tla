--------------------------- MODULE RobotProofs ---------------------------
(***************************************************************************)
(* Proofs about Robot, for every value of the constants its halves allow.  *)
(*                                                                         *)
(* The halves come first: Robot implements MeasuringChain, because no      *)
(* calibration starts while one is running (CalibrationHoldsMode), and     *)
(* implements SafetySupervisor, because an estimate is valid only when its *)
(* measurement was (EstimateNeedsMeasurement).  From there on what is      *)
(* proved of each half holds of the robot: ChainFacts and SupervisorFacts  *)
(* are the halves' proofs, read in the robot's state.                      *)
(***************************************************************************)
EXTENDS Robot, TLAPS

ChainFacts == INSTANCE MeasuringChainProofs WITH handed <- latest.valid
\* Nothing that is cited here speaks of telemetry, which is left out of Robot.
SupervisorFacts == INSTANCE SafetySupervisorProofs
  WITH sampling <- Sampling, applied <- "zero", recorded <- "nothing"

CalibrationHoldsMode == calibration = "calibrating" => mode = "calibrating"

----------------------------------------------------------------------------
(***************************************************************************)
(* The halves' modules and their proof modules define the same behaviours. *)
(***************************************************************************)
LEMMA ChainIsChain == Chain!Spec => ChainFacts!Spec
<1>1. Chain!Init => ChainFacts!Init
  BY DEF Chain!Init, Chain!Sensing!Init, Chain!Estimation!Init, Chain!Loop!Init,
     Chain!Sensing!SampleAgeCap, Chain!Sensing!CalibrationAgeCap,
     Chain!Estimation!PreviousAgeCap, Chain!Estimation!ConvergenceAgeCap,
     ChainFacts!Init, ChainFacts!Sensing!Init, ChainFacts!Estimation!Init,
     ChainFacts!Loop!Init, ChainFacts!Sensing!SampleAgeCap,
     ChainFacts!Sensing!CalibrationAgeCap, ChainFacts!Estimation!PreviousAgeCap,
     ChainFacts!Estimation!ConvergenceAgeCap
<1>2. UNCHANGED Chain!vars => UNCHANGED ChainFacts!vars
  BY DEF Chain!vars, Chain!sensingVars, Chain!estimationVars, Chain!loopVars,
     Chain!historyVars, ChainFacts!vars, ChainFacts!sensingVars,
     ChainFacts!estimationVars, ChainFacts!loopVars, ChainFacts!historyVars
<1>3. ASSUME NEW success \in BOOLEAN, Chain!DeviceInitialized(success)
      PROVE  ChainFacts!Next
  BY <1>3 DEF ChainFacts!Next,
     Chain!DeviceInitialized, Chain!Sensing!DeviceInitialized,
     Chain!sensingVars, Chain!estimationVars, Chain!loopVars,
     Chain!historyVars, ChainFacts!DeviceInitialized,
     ChainFacts!Sensing!DeviceInitialized, ChainFacts!sensingVars,
     ChainFacts!estimationVars, ChainFacts!loopVars, ChainFacts!historyVars
<1>4. ASSUME Chain!OnAcceleration PROVE ChainFacts!Next
  BY <1>4 DEF ChainFacts!Next,
     Chain!OnAcceleration, Chain!Stamp, Chain!LateStamp,
     Chain!Sensing!OnAcceleration, Chain!sensingVars,
     Chain!estimationVars, Chain!loopVars, Chain!historyVars,
     ChainFacts!OnAcceleration, ChainFacts!Stamp, ChainFacts!LateStamp,
     ChainFacts!Sensing!OnAcceleration,
     ChainFacts!sensingVars, ChainFacts!estimationVars, ChainFacts!loopVars,
     ChainFacts!historyVars
<1>5. ASSUME NEW valid \in BOOLEAN, NEW still \in BOOLEAN,
             Chain!OnAngularVelocity(valid, still)
      PROVE  ChainFacts!Next
  BY <1>5 DEF ChainFacts!Next,
     Chain!OnAngularVelocity, Chain!Measure, Chain!Sensing!OnSample,
     Chain!Sensing!Accumulate, Chain!Sensing!Latest, Chain!Sensing!Cause,
     Chain!Sensing!Stale, Chain!ExtendRun, Chain!Estimation!Update,
     Chain!Estimation!MustRestart, Chain!Estimation!Restart,
     Chain!Estimation!Fuse, Chain!Estimation!Converging,
     Chain!Loop!OnMeasurement, Chain!Loop!BalanceDue, Chain!Loop!OuterDue,
     Chain!SamplesPerOuter, ChainFacts!OnAngularVelocity, ChainFacts!Measure,
     ChainFacts!Sensing!OnSample, ChainFacts!Sensing!Accumulate,
     ChainFacts!Sensing!Latest, ChainFacts!Sensing!Cause,
     ChainFacts!Sensing!Stale, ChainFacts!ExtendRun,
     ChainFacts!Estimation!Update, ChainFacts!Estimation!MustRestart,
     ChainFacts!Estimation!Restart, ChainFacts!Estimation!Fuse,
     ChainFacts!Estimation!Converging, ChainFacts!Loop!OnMeasurement,
     ChainFacts!Loop!BalanceDue, ChainFacts!Loop!OuterDue,
     ChainFacts!SamplesPerOuter
<1>6. ASSUME Chain!StartCalibration PROVE ChainFacts!Next
  BY <1>6 DEF ChainFacts!Next,
     Chain!StartCalibration, Chain!BeginCalibration,
     Chain!Sensing!StartCalibration, Chain!sensingVars, Chain!estimationVars,
     Chain!loopVars, Chain!historyVars, ChainFacts!StartCalibration,
     ChainFacts!BeginCalibration, ChainFacts!Sensing!StartCalibration,
     ChainFacts!sensingVars, ChainFacts!estimationVars, ChainFacts!loopVars,
     ChainFacts!historyVars
<1>7. ASSUME Chain!SelectFilter PROVE ChainFacts!Next
  BY <1>7 DEF ChainFacts!Next,
     Chain!SelectFilter, Chain!Estimation!Select, Chain!Estimation!Converging,
     Chain!sensingVars, Chain!estimationVars, Chain!loopVars,
     Chain!historyVars, ChainFacts!SelectFilter, ChainFacts!Estimation!Select,
     ChainFacts!Estimation!Converging, ChainFacts!sensingVars,
     ChainFacts!estimationVars, ChainFacts!loopVars, ChainFacts!historyVars
<1>8. ASSUME Chain!TimePasses PROVE ChainFacts!Next
  BY <1>8 DEF ChainFacts!Next,
     Chain!TimePasses, Chain!Silence, Chain!Sensing!TimePasses,
     Chain!Estimation!TimePasses, Chain!Sensing!Older, Chain!Estimation!Older,
     Chain!Sensing!SampleAgeCap, Chain!Sensing!CalibrationAgeCap,
     Chain!Estimation!PreviousAgeCap, Chain!Estimation!ConvergenceAgeCap,
     Chain!sensingVars, Chain!estimationVars, Chain!loopVars,
     Chain!historyVars, ChainFacts!TimePasses, ChainFacts!Silence,
     ChainFacts!Sensing!TimePasses, ChainFacts!Estimation!TimePasses,
     ChainFacts!Sensing!Older, ChainFacts!Estimation!Older,
     ChainFacts!Sensing!SampleAgeCap, ChainFacts!Sensing!CalibrationAgeCap,
     ChainFacts!Estimation!PreviousAgeCap,
     ChainFacts!Estimation!ConvergenceAgeCap, ChainFacts!sensingVars,
     ChainFacts!estimationVars, ChainFacts!loopVars, ChainFacts!historyVars
<1>9. [Chain!Next]_(Chain!vars) => [ChainFacts!Next]_(ChainFacts!vars)
  <2>1. Chain!Next => ChainFacts!Next
    BY <1>3, <1>4, <1>5, <1>6, <1>7, <1>8 DEF Chain!Next
  <2> QED
    BY <2>1, <1>2
<1> QED
  BY <1>1, <1>9, PTL DEF Chain!Spec, ChainFacts!Spec

LEMMA SupervisorIsSupervisor == Supervisor!Spec => SupervisorFacts!Spec
<1>1. Supervisor!Init => SupervisorFacts!Init
  BY DEF
     Supervisor!Init, Supervisor!Actuation!Init, Supervisor!HistoryBound,
     SupervisorFacts!Init, SupervisorFacts!Actuation!Init,
     SupervisorFacts!HistoryBound
<1>2. UNCHANGED Supervisor!vars => UNCHANGED SupervisorFacts!vars
  BY DEF
     Supervisor!vars, Supervisor!supervisorVars, Supervisor!actuationVars,
     Supervisor!sensingVars, Supervisor!historyVars, SupervisorFacts!vars,
     SupervisorFacts!supervisorVars, SupervisorFacts!actuationVars,
     SupervisorFacts!sensingVars, SupervisorFacts!historyVars
<1>3. ASSUME Supervisor!Arm PROVE SupervisorFacts!Next
  BY <1>3 DEF SupervisorFacts!Next,
     Supervisor!Arm, Supervisor!Upright, Supervisor!Abs,
     Supervisor!LoopServiced, Supervisor!DriverHealthy,
     Supervisor!supervisorVars, Supervisor!actuationVars,
     Supervisor!sensingVars, Supervisor!historyVars,
     Supervisor!Actuation!actuationVars, SupervisorFacts!Arm,
     SupervisorFacts!Upright, SupervisorFacts!Abs,
     SupervisorFacts!LoopServiced, SupervisorFacts!DriverHealthy,
     SupervisorFacts!supervisorVars, SupervisorFacts!actuationVars,
     SupervisorFacts!sensingVars, SupervisorFacts!historyVars,
     SupervisorFacts!Actuation!actuationVars
<1>4. ASSUME Supervisor!Disarm PROVE SupervisorFacts!Next
  BY <1>4 DEF SupervisorFacts!Next,
     Supervisor!Disarm, Supervisor!LeaveArmed, Supervisor!Actuation!Disable,
     Supervisor!Actuation!DrivePermitted, Supervisor!supervisorVars,
     Supervisor!actuationVars, Supervisor!sensingVars, Supervisor!historyVars,
     Supervisor!Actuation!actuationVars, SupervisorFacts!Disarm,
     SupervisorFacts!LeaveArmed, SupervisorFacts!Actuation!Disable,
     SupervisorFacts!Actuation!DrivePermitted, SupervisorFacts!supervisorVars,
     SupervisorFacts!actuationVars, SupervisorFacts!sensingVars,
     SupervisorFacts!historyVars, SupervisorFacts!Actuation!actuationVars
<1>5. ASSUME Supervisor!ClearFault PROVE SupervisorFacts!Next
  BY <1>5 DEF SupervisorFacts!Next,
     Supervisor!ClearFault, Supervisor!Actuation!ClearFault,
     Supervisor!supervisorVars, Supervisor!actuationVars,
     Supervisor!sensingVars, Supervisor!historyVars,
     Supervisor!Actuation!actuationVars, SupervisorFacts!ClearFault,
     SupervisorFacts!Actuation!ClearFault, SupervisorFacts!supervisorVars,
     SupervisorFacts!actuationVars, SupervisorFacts!sensingVars,
     SupervisorFacts!historyVars, SupervisorFacts!Actuation!actuationVars
<1>6. ASSUME Supervisor!Calibrate PROVE SupervisorFacts!Next
  BY <1>6 DEF SupervisorFacts!Next,
     Supervisor!Calibrate, Supervisor!StartCalibration,
     Supervisor!supervisorVars, Supervisor!actuationVars,
     Supervisor!sensingVars, Supervisor!historyVars,
     Supervisor!Actuation!actuationVars, SupervisorFacts!Calibrate,
     SupervisorFacts!StartCalibration, SupervisorFacts!supervisorVars,
     SupervisorFacts!actuationVars, SupervisorFacts!sensingVars,
     SupervisorFacts!historyVars, SupervisorFacts!Actuation!actuationVars
<1>7. ASSUME NEW how \in Supervisor!Actuation!DisableStates, Supervisor!DisableByHand(how)
      PROVE  SupervisorFacts!Next
  BY <1>7 DEF SupervisorFacts!Next,
     Supervisor!DisableByHand, Supervisor!Actuation!DisableStates,
     Supervisor!Actuation!Disable, Supervisor!Actuation!DrivePermitted,
     Supervisor!supervisorVars, Supervisor!actuationVars,
     Supervisor!sensingVars, Supervisor!historyVars,
     Supervisor!Actuation!actuationVars, SupervisorFacts!DisableByHand,
     SupervisorFacts!Actuation!DisableStates,
     SupervisorFacts!Actuation!Disable,
     SupervisorFacts!Actuation!DrivePermitted, SupervisorFacts!supervisorVars,
     SupervisorFacts!actuationVars, SupervisorFacts!sensingVars,
     SupervisorFacts!historyVars, SupervisorFacts!Actuation!actuationVars
<1>8. ASSUME Supervisor!Supervise PROVE SupervisorFacts!Next
  BY <1>8 DEF SupervisorFacts!Next,
     Supervisor!Supervise, Supervisor!PeriodPasses, Supervisor!Saturated,
     Supervisor!HistoryBound, Supervisor!SuperviseSelfTest,
     Supervisor!SuperviseCalibration, Supervisor!SuperviseLiveness,
     Supervisor!SuperviseFault, Supervisor!StartCalibration,
     Supervisor!DriverFaultSeen, Supervisor!CountServices,
     Supervisor!EnterFault, Supervisor!LeaveArmed,
     Supervisor!Actuation!Disable, Supervisor!Actuation!DrivePermitted,
     Supervisor!SelfTestPassed, Supervisor!SensingCause,
     Supervisor!supervisorVars, Supervisor!actuationVars,
     Supervisor!sensingVars, Supervisor!historyVars,
     Supervisor!Actuation!actuationVars, SupervisorFacts!Supervise,
     SupervisorFacts!PeriodPasses, SupervisorFacts!Saturated,
     SupervisorFacts!HistoryBound, SupervisorFacts!SuperviseSelfTest,
     SupervisorFacts!SuperviseCalibration, SupervisorFacts!SuperviseLiveness,
     SupervisorFacts!SuperviseFault, SupervisorFacts!StartCalibration,
     SupervisorFacts!DriverFaultSeen, SupervisorFacts!CountServices,
     SupervisorFacts!EnterFault, SupervisorFacts!LeaveArmed,
     SupervisorFacts!Actuation!Disable,
     SupervisorFacts!Actuation!DrivePermitted, SupervisorFacts!SelfTestPassed,
     SupervisorFacts!SensingCause, SupervisorFacts!supervisorVars,
     SupervisorFacts!actuationVars, SupervisorFacts!sensingVars,
     SupervisorFacts!historyVars, SupervisorFacts!Actuation!actuationVars
<1>9. ASSUME NEW e \in Supervisor!Estimates, Supervisor!Balance(e)
      PROVE  SupervisorFacts!Next
  BY <1>9 DEF SupervisorFacts!Next,
     Supervisor!Balance, Supervisor!Estimates, Supervisor!SamplingStates,
     Supervisor!Sense, Supervisor!SensingCause, Supervisor!Iterate,
     Supervisor!FaultFound, Supervisor!Abs, Supervisor!ControlBalance,
     Supervisor!Actuation!Apply, Supervisor!EnterFault, Supervisor!LeaveArmed,
     Supervisor!Actuation!Disable, Supervisor!Actuation!DrivePermitted,
     Supervisor!supervisorVars, Supervisor!actuationVars,
     Supervisor!sensingVars, Supervisor!historyVars,
     Supervisor!Actuation!actuationVars, SupervisorFacts!Balance,
     SupervisorFacts!Estimates, SupervisorFacts!SamplingStates,
     SupervisorFacts!Sense, SupervisorFacts!SensingCause,
     SupervisorFacts!Iterate, SupervisorFacts!FaultFound, SupervisorFacts!Abs,
     SupervisorFacts!ControlBalance, SupervisorFacts!Actuation!Apply,
     SupervisorFacts!EnterFault, SupervisorFacts!LeaveArmed,
     SupervisorFacts!Actuation!Disable,
     SupervisorFacts!Actuation!DrivePermitted, SupervisorFacts!supervisorVars,
     SupervisorFacts!actuationVars, SupervisorFacts!sensingVars,
     SupervisorFacts!historyVars, SupervisorFacts!Actuation!actuationVars
<1>10. ASSUME NEW verified \in BOOLEAN, Supervisor!DriverConfigured(verified)
      PROVE  SupervisorFacts!Next
  BY <1>10 DEF SupervisorFacts!Next,
     Supervisor!DriverConfigured, Supervisor!Actuation!Configured,
     Supervisor!supervisorVars, Supervisor!actuationVars,
     Supervisor!sensingVars, Supervisor!historyVars,
     Supervisor!Actuation!actuationVars, SupervisorFacts!DriverConfigured,
     SupervisorFacts!Actuation!Configured, SupervisorFacts!supervisorVars,
     SupervisorFacts!actuationVars, SupervisorFacts!sensingVars,
     SupervisorFacts!historyVars, SupervisorFacts!Actuation!actuationVars
<1>11. ASSUME Supervisor!DriverFaultEdge PROVE SupervisorFacts!Next
  BY <1>11 DEF SupervisorFacts!Next,
     Supervisor!DriverFaultEdge, Supervisor!Actuation!OnFault,
     Supervisor!supervisorVars, Supervisor!actuationVars,
     Supervisor!sensingVars, Supervisor!historyVars,
     Supervisor!Actuation!actuationVars, SupervisorFacts!DriverFaultEdge,
     SupervisorFacts!Actuation!OnFault, SupervisorFacts!supervisorVars,
     SupervisorFacts!actuationVars, SupervisorFacts!sensingVars,
     SupervisorFacts!historyVars, SupervisorFacts!Actuation!actuationVars
<1>12. ASSUME NEW quality \in Supervisor!SamplingStates \ {"never"},
             Supervisor!SampleArrives(quality)
      PROVE  SupervisorFacts!Next
  BY <1>12 DEF SupervisorFacts!Next,
     Supervisor!SampleArrives, Supervisor!Sense, Supervisor!SamplingStates,
     Supervisor!supervisorVars, Supervisor!actuationVars,
     Supervisor!sensingVars, Supervisor!historyVars,
     Supervisor!Actuation!actuationVars, SupervisorFacts!SampleArrives,
     SupervisorFacts!Sense, SupervisorFacts!SamplingStates,
     SupervisorFacts!supervisorVars, SupervisorFacts!actuationVars,
     SupervisorFacts!sensingVars, SupervisorFacts!historyVars,
     SupervisorFacts!Actuation!actuationVars
<1>13. ASSUME Supervisor!SensorFallsSilent PROVE SupervisorFacts!Next
  BY <1>13 DEF SupervisorFacts!Next,
     Supervisor!SensorFallsSilent, Supervisor!supervisorVars,
     Supervisor!actuationVars, Supervisor!sensingVars, Supervisor!historyVars,
     Supervisor!Actuation!actuationVars, SupervisorFacts!SensorFallsSilent,
     SupervisorFacts!supervisorVars, SupervisorFacts!actuationVars,
     SupervisorFacts!sensingVars, SupervisorFacts!historyVars,
     SupervisorFacts!Actuation!actuationVars
<1>14. [Supervisor!Next]_(Supervisor!vars) => [SupervisorFacts!Next]_(SupervisorFacts!vars)
  <2>1. Supervisor!Next => SupervisorFacts!Next
    BY <1>3, <1>4, <1>5, <1>6, <1>7, <1>8, <1>9, <1>10, <1>11, <1>12, <1>13 DEF Supervisor!Next
  <2> QED
    BY <2>1, <1>2
<1> QED
  BY <1>1, <1>14, PTL DEF Supervisor!Spec, SupervisorFacts!Spec

----------------------------------------------------------------------------
(***************************************************************************)
(* The chain's half: no calibration starts while one is running.           *)
(***************************************************************************)
\* A sample concludes a calibration or leaves it running; it starts none.
LEMMA SampleStartsNoCalibration ==
  ASSUME NEW valid \in BOOLEAN, NEW still \in BOOLEAN,
         Chain!Sensing!OnSample(valid, still), calibration' = "calibrating"
  PROVE  calibration = "calibrating"
BY DEF Chain!Sensing!OnSample

LEMMA SampleKeepsCalibrating ==
  ASSUME NEW valid \in BOOLEAN, NEW still \in BOOLEAN, NEW pitch,
         Sample(valid, still, pitch), mode = "calibrating"
  PROVE  mode' = "calibrating"
BY DEF Sample, Supervisor!Iterate, superviseVars

\* The supervision timer waits for the calibration it finds running.
LEMMA SuperviseHoldsMode ==
  ASSUME CalibrationHoldsMode, Supervise PROVE CalibrationHoldsMode'
<1> USE DEF CalibrationHoldsMode, Supervise, Supervisor!Supervise
<1>1. CASE Supervisor!SuperviseSelfTest
  BY <1>1 DEF Supervisor!SuperviseSelfTest, Supervisor!StartCalibration
<1>2. CASE Supervisor!SuperviseCalibration
  BY <1>2 DEF Supervisor!SuperviseCalibration, Supervisor!EnterFault,
     Supervisor!sensingVars
<1>3. CASE Supervisor!SuperviseLiveness
  BY <1>3 DEF Supervisor!SuperviseLiveness, Supervisor!sensingVars
<1>4. CASE Supervisor!SuperviseFault
  BY <1>4 DEF Supervisor!SuperviseFault, Supervisor!sensingVars
<1> QED
  BY <1>1, <1>2, <1>3, <1>4

LEMMA CalibrationHoldsModeStep ==
  ASSUME CalibrationHoldsMode, [Next]_vars PROVE CalibrationHoldsMode'
<1> USE DEF CalibrationHoldsMode, chainVars, sensingVars, superviseVars
<1>1. ASSUME NEW valid \in BOOLEAN, NEW still \in BOOLEAN, NEW pitch \in Pitches,
             Sample(valid, still, pitch)
      PROVE  CalibrationHoldsMode'
  BY <1>1, SampleStartsNoCalibration, SampleKeepsCalibrating DEF Sample, Chain!Measure
<1>2. CASE Supervise
  BY <1>2, SuperviseHoldsMode
<1>3. CASE Terminal
  BY <1>3 DEF Terminal, Arm, Disarm, ClearFault, Calibrate, ReleaseBridges, Brake,
     SelectFilter, Chain!SelectFilter, Chain!sensingVars,
     Supervisor!Arm, Supervisor!Disarm, Supervisor!ClearFault, Supervisor!Calibrate,
     Supervisor!StartCalibration, Supervisor!DisableByHand, Supervisor!supervisorVars
<1>4. CASE TimePasses \/ OnAcceleration \/ DriverEvent
           \/ \E success \in BOOLEAN : DeviceInitialized(success)
  BY <1>4 DEF TimePasses, Chain!TimePasses, Chain!Sensing!TimePasses,
     OnAcceleration, Chain!Stamp, Chain!Sensing!OnAcceleration,
     DeviceInitialized, Chain!Sensing!DeviceInitialized,
     DriverEvent, Supervisor!DriverConfigured, Supervisor!DriverFaultEdge,
     Supervisor!supervisorVars
<1>5. CASE UNCHANGED vars
  BY <1>5 DEF vars
<1> QED
  BY <1>1, <1>2, <1>3, <1>4, <1>5 DEF Next

LEMMA CalibrationHoldsModeAlways == Spec => []CalibrationHoldsMode
<1>1. Init => CalibrationHoldsMode
  BY DEF Init, Chain!Init, Chain!Sensing!Init, CalibrationHoldsMode
<1> QED
  BY <1>1, CalibrationHoldsModeStep, PTL DEF Spec

\* Every step of the robot is one of the chain's, or leaves the chain alone.
LEMMA ChainStep ==
  ASSUME CalibrationHoldsMode, [Next]_vars PROVE [Chain!Next]_(Chain!vars)
<1> USE DEF Chain!vars, Chain!sensingVars, Chain!estimationVars, Chain!loopVars,
            Chain!historyVars, chainVars, sensingVars, afterSensingVars, superviseVars
<1>1. ASSUME NEW success \in BOOLEAN, DeviceInitialized(success) PROVE Chain!Next
  BY <1>1 DEF DeviceInitialized, Chain!DeviceInitialized, Chain!Next
<1>2. CASE OnAcceleration
  <2>1. Chain!OnAcceleration
    BY <1>2 DEF OnAcceleration, Chain!OnAcceleration
  <2> QED
    BY <2>1 DEF Chain!Next
<1>3. ASSUME NEW valid \in BOOLEAN, NEW still \in BOOLEAN, NEW pitch \in Pitches,
             Sample(valid, still, pitch)
      PROVE  Chain!Next
  <2>1. latest'.valid = IF Chain!Loop!BalanceDue THEN estimate'.valid ELSE latest.valid
    BY <1>3 DEF Sample, Supervisor!Iterate
  <2>2. Chain!OnAngularVelocity(valid, still)
    BY <1>3, <2>1 DEF Sample, Chain!OnAngularVelocity
  <2> QED
    BY <2>2 DEF Chain!Next
<1>4. CASE TimePasses
  <2>1. Chain!TimePasses
    BY <1>4 DEF TimePasses
  <2> QED
    BY <2>1 DEF Chain!Next
<1>5. CASE Supervise
  <2>1. UNCHANGED latest
    BY <1>5 DEF Supervise, Supervisor!Supervise, Supervisor!SuperviseSelfTest,
       Supervisor!SuperviseCalibration, Supervisor!SuperviseLiveness,
       Supervisor!SuperviseFault
  <2>2. CASE mode = "init" /\ Supervisor!SelfTestPassed
    <3>1. Chain!StartCalibration
      BY <1>5, <2>1, <2>2 DEF Supervise, Chain!StartCalibration, CalibrationHoldsMode
    <3> QED
      BY <3>1 DEF Chain!Next
  <2>3. CASE ~(mode = "init" /\ Supervisor!SelfTestPassed)
    BY <1>5, <2>1, <2>3 DEF Supervise
  <2> QED
    BY <2>2, <2>3
<1>6. CASE Calibrate
  <2>1. Chain!StartCalibration
    BY <1>6 DEF Calibrate, Supervisor!Calibrate, Chain!StartCalibration,
       CalibrationHoldsMode
  <2> QED
    BY <2>1 DEF Chain!Next
<1>7. CASE SelectFilter
  <2>1. Chain!SelectFilter
    BY <1>7 DEF SelectFilter
  <2> QED
    BY <2>1 DEF Chain!Next
<1>8. CASE DriverEvent \/ Arm \/ Disarm \/ ClearFault \/ ReleaseBridges \/ Brake
  <2>1. UNCHANGED chainVars /\ UNCHANGED latest
    BY <1>8 DEF DriverEvent, Supervisor!DriverConfigured, Supervisor!DriverFaultEdge,
       Arm, Supervisor!Arm, Disarm, Supervisor!Disarm,
       ClearFault, Supervisor!ClearFault, ReleaseBridges, Brake,
       Supervisor!DisableByHand, Supervisor!supervisorVars
  <2> QED
    BY <2>1
<1>9. CASE UNCHANGED vars
  BY <1>9 DEF vars
<1> QED
  BY <1>1, <1>2, <1>3, <1>4, <1>5, <1>6, <1>7, <1>8, <1>9 DEF Next, Terminal

\* The robot implements the measuring chain: with the supervisor as the only one
\* to start calibrations, none is started while one is running.
THEOREM RobotImplementsChain == Spec => ImplementsChain
<1>1. Init => Chain!Init
  BY DEF Init
<1> QED
  BY <1>1, ChainStep, CalibrationHoldsModeAlways, PTL
     DEF Spec, ImplementsChain, Chain!Spec

----------------------------------------------------------------------------
(***************************************************************************)
(* What is proved of the chain holds of the robot.                         *)
(***************************************************************************)
LEMMA ChainInvariantAlways == Spec => []ChainFacts!IInv
<1>1. ChainFacts!Spec => []ChainFacts!IInv
  BY ChainAssumption, ChainFacts!Inductive
<1> QED
  BY <1>1, RobotImplementsChain, ChainIsChain, PTL DEF ImplementsChain

\* What the robot's proofs use of it.
ChainFact ==
  /\ sampleAge \in 0..StalePeriods + MaxHold + 1
  /\ samplesSinceBalance \in 0..SamplesPerBalance - 1
  /\ estimate.valid => runLength = ConvergenceInterval

LEMMA ChainFactHolds == ChainFacts!IInv => ChainFact
BY DEF ChainFacts!IInv, ChainFacts!Ages, ChainFacts!Sensing!SampleAgeCap,
       ChainFacts!Counts, ChainFacts!Loop!TypeOK, ChainFacts!ValidIsEarned, ChainFact

LEMMA ChainFactAlways == Spec => []ChainFact
BY ChainInvariantAlways, ChainFactHolds, PTL

----------------------------------------------------------------------------
(***************************************************************************)
(* The supervisor's half: an estimate is valid only when the measurement   *)
(* it was made from was.                                                   *)
(***************************************************************************)
\* The estimator believes nothing that sensing does not.
LEMMA EstimateNeedsMeasurement ==
  ASSUME NEW valid \in BOOLEAN, NEW still \in BOOLEAN, Chain!Measure(valid, still)
  PROVE  /\ estimate'.valid \in BOOLEAN
         /\ estimate'.valid => Chain!Sensing!Latest'
<1>1. PICK believable \in BOOLEAN :
        /\ believable = Chain!Sensing!Latest'
        /\ Chain!Estimation!Update(believable, pendingAge)
  BY DEF Chain!Measure, Chain!Sensing!Latest
<1>2. \/ estimate' = [valid |-> FALSE, cause |-> "sensing"]
      \/ estimate' = [valid |-> FALSE, cause |-> "converging"]
      \/ believable /\ estimate' = [valid |-> TRUE, cause |-> "none"]
  BY <1>1 DEF Chain!Estimation!Update, Chain!Estimation!Restart,
     Chain!Estimation!Fuse, Chain!Estimation!Converging
<1>3. estimate'.valid = FALSE \/ (believable /\ estimate'.valid = TRUE)
  BY <1>2
<1> QED
  BY <1>1, <1>3

\* What the supervisor sees of a sample that is delivered.
LEMMA SampleIsSensed ==
  ASSUME NEW valid \in BOOLEAN, NEW still \in BOOLEAN, Chain!Measure(valid, still)
  PROVE  /\ Sampling' \in Supervisor!SamplingStates \ {"never"}
         /\ Supervisor!Sense(Sampling')
         /\ Chain!Sensing!Latest' => Supervisor!SensingCause' = "none"
<1>1. sampled' = TRUE /\ sampleValid' = valid /\ Chain!Sensing!OnSample(valid, still)
  BY DEF Chain!Measure, Chain!Sensing!OnSample
<1>2. Sampling' = IF ~valid THEN "transferFailed"
                  ELSE IF Chain!Sensing!Stale' THEN "stale" ELSE "fresh"
  BY <1>1 DEF Sampling
<1>3. Sampling' = "transferFailed" <=> ~valid
  BY <1>2
<1>4. calibration' \in IF calibration # "calibrating" THEN {calibration}
                       ELSE IF valid THEN {"calibrating", "calibrated", "failed"}
                       ELSE {"failed"}
  BY <1>1 DEF Chain!Sensing!OnSample, Chain!Sensing!Accumulate
<1>5. Supervisor!Sense(Sampling')
  BY <1>3, <1>4 DEF Supervisor!Sense
<1>6. ASSUME Chain!Sensing!Latest' PROVE Supervisor!SensingCause' = "none"
  <2>1. calibration' = "calibrated" /\ valid /\ ~Chain!Sensing!Stale'
    BY <1>1, <1>6 DEF Chain!Sensing!Latest, Chain!Sensing!Cause
  <2>2. Sampling' = "fresh"
    BY <1>2, <2>1
  <2> QED
    BY <2>1, <2>2 DEF Supervisor!SensingCause
<1> QED
  BY <1>2, <1>5, <1>6 DEF Supervisor!SamplingStates

\* Without a sample the supervisor sees the sensor unchanged or fallen silent.
LEMMA SilenceIsSensed ==
  ASSUME ChainFact, TimePasses
  PROVE  UNCHANGED Sampling \/ (Sampling = "fresh" /\ Sampling' = "stale")
<1>1. UNCHANGED <<sampled, sampleValid>>
  BY DEF TimePasses, Chain!TimePasses, Chain!Sensing!TimePasses
<1>2. Chain!Sensing!Stale => Chain!Sensing!Stale'
  BY ChainAssumption
     DEF TimePasses, Chain!TimePasses, Chain!Sensing!TimePasses, Chain!Sensing!Older,
         Chain!Sensing!SampleAgeCap, Chain!Sensing!Stale, ChainFact
<1> QED
  BY <1>1, <1>2 DEF Sampling

LEMMA SensorUnchanged ==
  ASSUME UNCHANGED <<sampled, sampleValid, sampleAge>> PROVE UNCHANGED Sampling
BY DEF Sampling, Chain!Sensing!Stale

LEMMA SampleIsSupervised ==
  ASSUME NEW valid \in BOOLEAN, NEW still \in BOOLEAN, NEW pitch \in Pitches,
         Sample(valid, still, pitch)
  PROVE  Supervisor!Next
<1>1. /\ estimate'.valid \in BOOLEAN
      /\ estimate'.valid => Supervisor!SensingCause' = "none"
      /\ Sampling' \in Supervisor!SamplingStates \ {"never"}
      /\ Supervisor!Sense(Sampling')
  BY EstimateNeedsMeasurement, SampleIsSensed DEF Sample
<1>2. CASE Chain!Loop!BalanceDue
  <2> DEFINE handed == [valid |-> estimate'.valid, pitch |-> pitch]
  <2>1. Supervisor!Iterate(handed)
    BY <1>2 DEF Sample
  <2>2. handed \in Supervisor!Estimates /\ handed.valid = estimate'.valid
    BY <1>1 DEF Supervisor!Estimates
  <2>3. Supervisor!Balance(handed)
    BY <1>1, <2>1, <2>2 DEF Supervisor!Balance
  <2> QED
    BY <2>2, <2>3 DEF Supervisor!Next
<1>3. CASE ~Chain!Loop!BalanceDue
  <2>1. Supervisor!SampleArrives(Sampling')
    BY <1>1, <1>3 DEF Sample, superviseVars, Supervisor!SampleArrives,
       Supervisor!supervisorVars, Supervisor!actuationVars, Supervisor!historyVars
  <2> QED
    BY <1>1, <2>1 DEF Supervisor!Next
<1> QED
  BY <1>2, <1>3

\* Every step of the robot is one of the supervisor's, or leaves it alone.
LEMMA SupervisorStep ==
  ASSUME ChainFact, [Next]_vars PROVE [Supervisor!Next]_(Supervisor!vars)
<1> USE DEF Supervisor!vars, Supervisor!supervisorVars, Supervisor!actuationVars,
            Supervisor!sensingVars, Supervisor!historyVars, superviseVars
<1>1. ASSUME NEW valid \in BOOLEAN, NEW still \in BOOLEAN, NEW pitch \in Pitches,
             Sample(valid, still, pitch)
      PROVE  Supervisor!Next
  BY <1>1, SampleIsSupervised
<1>2. CASE TimePasses
  <2>1. UNCHANGED <<superviseVars, calibration>>
    BY <1>2 DEF TimePasses, Chain!TimePasses, Chain!Sensing!TimePasses
  <2>2. CASE UNCHANGED Sampling
    BY <2>1, <2>2
  <2>3. CASE Sampling = "fresh" /\ Sampling' = "stale"
    <3>1. Supervisor!SensorFallsSilent
      BY <2>1, <2>3 DEF Supervisor!SensorFallsSilent
    <3> QED
      BY <3>1 DEF Supervisor!Next
  <2> QED
    BY <1>2, <2>2, <2>3, SilenceIsSensed
<1>3. CASE Supervise \/ Arm \/ Disarm \/ ClearFault \/ Calibrate
  <2>1. \/ Supervisor!Supervise \/ Supervisor!Arm \/ Supervisor!Disarm
        \/ Supervisor!ClearFault \/ Supervisor!Calibrate
    BY <1>3 DEF Supervise, Arm, Disarm, ClearFault, Calibrate
  <2> QED
    BY <2>1 DEF Supervisor!Next
<1>4. CASE ReleaseBridges \/ Brake
  <2>1. \E how \in Supervisor!Actuation!DisableStates : Supervisor!DisableByHand(how)
    BY <1>4 DEF ReleaseBridges, Brake, Supervisor!Actuation!DisableStates
  <2> QED
    BY <2>1 DEF Supervisor!Next
<1>5. CASE DriverEvent
  BY <1>5 DEF DriverEvent, Supervisor!Next
<1>6. CASE OnAcceleration \/ SelectFilter \/ UNCHANGED vars
           \/ \E success \in BOOLEAN : DeviceInitialized(success)
  <2>1. UNCHANGED <<superviseVars, calibration, sampled, sampleValid, sampleAge>>
    BY <1>6 DEF OnAcceleration, Chain!Stamp, Chain!Sensing!OnAcceleration,
       SelectFilter, Chain!SelectFilter, Chain!sensingVars,
       DeviceInitialized, Chain!Sensing!DeviceInitialized,
       vars, chainVars, sensingVars
  <2> QED
    BY <2>1, SensorUnchanged
<1> QED
  BY <1>1, <1>2, <1>3, <1>4, <1>5, <1>6 DEF Next, Terminal

\* The robot implements the safety supervisor: what the supervisor assumes of
\* the estimator, that a valid estimate has a believable measurement behind it,
\* the measuring chain keeps.
THEOREM RobotImplementsSupervisor == Spec => ImplementsSupervisor
<1>1. Init => Supervisor!Init
  BY DEF Init
<1> QED
  BY <1>1, SupervisorStep, ChainFactAlways, PTL
     DEF Spec, ImplementsSupervisor, Supervisor!Spec

----------------------------------------------------------------------------
(***************************************************************************)
(* The robot's own properties.                                             *)
(***************************************************************************)
\* Blind samples are no more than the samples since the last iteration, which
\* would not have left a blind robot armed.
BlindSinceBalance ==
  /\ blind \in 0..SamplesPerBalance
  /\ mode = "armed" => blind <= samplesSinceBalance

\* An iteration that leaves the robot armed was handed a valid estimate.
LEMMA StillArmedSees ==
  ASSUME NEW e, Supervisor!Iterate(e), mode' = "armed"
  PROVE  mode = "armed" /\ e.valid
<1>1. mode = "armed" /\ Supervisor!FaultFound(e) = "none"
  BY DEF Supervisor!Iterate, Supervisor!EnterFault
<1> QED
  BY <1>1 DEF Supervisor!FaultFound

LEMMA SampleKeepsSight ==
  ASSUME ChainFact, BlindSinceBalance,
         NEW valid \in BOOLEAN, NEW still \in BOOLEAN, NEW pitch \in Pitches,
         Sample(valid, still, pitch)
  PROVE  BlindSinceBalance'
<1> USE ChainAssumption DEF BlindSinceBalance, ChainFact
<1>1. blind' = IF mode' = "armed" /\ ~estimate'.valid THEN SamplesBlind ELSE 0
  BY DEF Sample
<1>2. blind' \in 0..SamplesPerBalance
  BY <1>1 DEF SamplesBlind
<1>3. CASE Chain!Loop!BalanceDue
  <2>1. Supervisor!Iterate([valid |-> estimate'.valid, pitch |-> pitch])
    BY <1>3 DEF Sample
  <2>2. mode' = "armed" => estimate'.valid
    BY <2>1, StillArmedSees
  <2>3. samplesSinceBalance' = 0
    BY <1>3 DEF Sample, Chain!Measure, Chain!Loop!OnMeasurement
  <2> QED
    BY <1>1, <1>2, <2>2, <2>3
<1>4. CASE ~Chain!Loop!BalanceDue
  <2>1. samplesSinceBalance' = samplesSinceBalance + 1
    BY <1>4 DEF Sample, Chain!Measure, Chain!Loop!OnMeasurement
  <2>2. UNCHANGED mode
    BY <1>4 DEF Sample, superviseVars
  <2> QED
    BY <1>1, <1>2, <2>1, <2>2 DEF SamplesBlind
<1> QED
  BY <1>3, <1>4

LEMMA BlindSinceBalanceStep ==
  ASSUME ChainFact, BlindSinceBalance, [Next]_vars PROVE BlindSinceBalance'
<1> USE ChainAssumption DEF BlindSinceBalance, ChainFact
<1>1. ASSUME NEW valid \in BOOLEAN, NEW still \in BOOLEAN, NEW pitch \in Pitches,
             Sample(valid, still, pitch)
      PROVE  BlindSinceBalance'
  BY <1>1, SampleKeepsSight
<1>2. CASE Supervise
  <2>1. UNCHANGED samplesSinceBalance
    BY <1>2 DEF Supervise, Chain!BeginCalibration, Chain!loopVars,
       chainVars, afterSensingVars
  <2>2. mode' = "armed" => mode = "armed"
    BY <1>2 DEF Supervise, Supervisor!Supervise, Supervisor!SuperviseSelfTest,
       Supervisor!SuperviseCalibration, Supervisor!SuperviseLiveness,
       Supervisor!SuperviseFault, Supervisor!StartCalibration, Supervisor!EnterFault
  <2> QED
    BY <1>2, <2>1, <2>2 DEF Supervise
<1>3. CASE Arm \/ Disarm
  BY <1>3 DEF Arm, Disarm, chainVars, afterSensingVars
<1>4. CASE ClearFault \/ Calibrate
  BY <1>4 DEF ClearFault, Calibrate, Supervisor!ClearFault, Supervisor!Calibrate,
     Supervisor!StartCalibration
<1>5. CASE ReleaseBridges \/ Brake \/ DriverEvent
  <2>1. UNCHANGED <<mode, blind, samplesSinceBalance>>
    BY <1>5 DEF ReleaseBridges, Brake, Supervisor!DisableByHand, DriverEvent,
       Supervisor!DriverConfigured, Supervisor!DriverFaultEdge,
       Supervisor!supervisorVars, chainVars, afterSensingVars
  <2> QED
    BY <2>1
<1>6. CASE SelectFilter \/ TimePasses \/ OnAcceleration \/ UNCHANGED vars
           \/ \E success \in BOOLEAN : DeviceInitialized(success)
  <2>1. UNCHANGED <<mode, blind, samplesSinceBalance>>
    BY <1>6 DEF SelectFilter, Chain!SelectFilter, TimePasses, Chain!TimePasses,
       Chain!loopVars, OnAcceleration, Chain!Stamp, DeviceInitialized, superviseVars,
       afterSensingVars, vars, chainVars
  <2> QED
    BY <2>1
<1> QED
  BY <1>1, <1>2, <1>3, <1>4, <1>5, <1>6 DEF Next, Terminal

LEMMA BlindSinceBalanceAlways == Spec => []BlindSinceBalance
<1>1. Init => BlindSinceBalance
  BY ChainAssumption DEF Init, BlindSinceBalance, Supervisor!Init
<1> QED
  BY <1>1, BlindSinceBalanceStep, ChainFactAlways, PTL DEF Spec

\* However an armed robot loses its estimate, by the sensor, the operator's
\* choice of a filter or an arm command on an old copy, it is disarmed before a
\* whole balance period has passed blind.
THEOREM BlindnessIsBriefAlways == Spec => []BlindnessIsBrief
<1>1. ChainFact /\ BlindSinceBalance => BlindnessIsBrief
  BY ChainAssumption DEF ChainFact, BlindSinceBalance, BlindnessIsBrief
<1> QED
  BY <1>1, ChainFactAlways, BlindSinceBalanceAlways, PTL

\* Only the arrival of a sample drives the bridges; all else leaves or stops them.
LEMMA OnlySamplesDrive ==
  ASSUME [Next]_vars, bridges # "driven", bridges' = "driven"
  PROVE  \E valid, still \in BOOLEAN, pitch \in Pitches : Sample(valid, still, pitch)
<1> USE DEF Supervisor!EnterFault, Supervisor!LeaveArmed, Supervisor!actuationVars,
            Supervisor!Actuation!Disable
<1>1. ~Supervise
  BY DEF Supervise, Supervisor!Supervise, Supervisor!SuperviseSelfTest,
     Supervisor!SuperviseCalibration, Supervisor!SuperviseLiveness,
     Supervisor!SuperviseFault
<1>2. ~Arm /\ ~Disarm /\ ~ClearFault /\ ~Calibrate
  BY DEF Arm, Supervisor!Arm, Disarm, Supervisor!Disarm,
     ClearFault, Supervisor!ClearFault, Supervisor!Actuation!ClearFault,
     Calibrate, Supervisor!Calibrate
<1>3. ~ReleaseBridges /\ ~Brake
  BY DEF ReleaseBridges, Brake, Supervisor!DisableByHand
<1>4. ~DriverEvent
  BY DEF DriverEvent, Supervisor!DriverConfigured, Supervisor!Actuation!Configured,
     Supervisor!DriverFaultEdge, Supervisor!Actuation!OnFault
<1>5. UNCHANGED superviseVars => UNCHANGED bridges
  BY DEF superviseVars
<1>6. ~SelectFilter /\ ~TimePasses /\ ~OnAcceleration
  BY <1>5 DEF SelectFilter, TimePasses, OnAcceleration
<1>7. ~(\E success \in BOOLEAN : DeviceInitialized(success)) /\ ~UNCHANGED vars
  BY <1>5 DEF DeviceInitialized, vars
<1> QED
  BY <1>1, <1>2, <1>3, <1>4, <1>6, <1>7 DEF Next, Terminal

\* An iteration that drives them found the estimate valid.
LEMMA IterationDrivesOnValid ==
  ASSUME NEW e, Supervisor!Iterate(e), bridges # "driven", bridges' = "driven"
  PROVE  e.valid
<1>1. mode = "armed" /\ Supervisor!FaultFound(e) = "none"
  BY DEF Supervisor!Iterate, Supervisor!EnterFault, Supervisor!LeaveArmed,
     Supervisor!Actuation!Disable, Supervisor!actuationVars
<1> QED
  BY <1>1 DEF Supervisor!FaultFound

\* Through every interleaving of samples, time, filter changes, arming and the
\* terminal, the bridges begin to follow an effort only on an estimate that is
\* valid now, converged without a gap, fresh and calibrated.
THEOREM DrivesOnEarnedEstimateAlways == Spec => DrivesOnEarnedEstimate
<1>1. ASSUME ChainFact', [Next]_vars, bridges # "driven", bridges' = "driven"
      PROVE  /\ estimate'.valid /\ runLength' = ConvergenceInterval
             /\ calibration' = "calibrated" /\ sampleAge' <= StalePeriods
  <2>1. PICK valid \in BOOLEAN, still \in BOOLEAN, pitch \in Pitches :
          Sample(valid, still, pitch)
    BY <1>1, OnlySamplesDrive
  <2>2. Supervisor!Iterate([valid |-> estimate'.valid, pitch |-> pitch])
    BY <1>1, <2>1 DEF Sample, superviseVars
  <2>3. estimate'.valid
    BY <1>1, <2>2, IterationDrivesOnValid
  <2>4. Chain!Sensing!Latest'
    BY <2>1, <2>3, EstimateNeedsMeasurement DEF Sample
  <2>5. calibration' = "calibrated" /\ ~(sampleAge' > StalePeriods)
    BY <2>4 DEF Chain!Sensing!Latest, Chain!Sensing!Cause, Chain!Sensing!Stale
  <2> QED
    BY <1>1, <2>3, <2>5, ChainAssumption DEF ChainFact
<1>2. ChainFact' /\ [Next]_vars =>
        [bridges # "driven" /\ bridges' = "driven"
           => /\ estimate'.valid /\ runLength' = ConvergenceInterval
              /\ calibration' = "calibrated" /\ sampleAge' <= StalePeriods]_vars
  BY <1>1
<1> QED
  BY <1>2, ChainFactAlways, PTL DEF Spec, DrivesOnEarnedEstimate

----------------------------------------------------------------------------
(***************************************************************************)
(* The halves' invariants, in the robot.                                   *)
(***************************************************************************)
LEMMA SupervisorFactsApply == Spec => SupervisorFacts!Spec
BY RobotImplementsSupervisor, SupervisorIsSupervisor, PTL DEF ImplementsSupervisor

LEMMA ChainFactsApply == Spec => ChainFacts!Spec
BY RobotImplementsChain, ChainIsChain, PTL DEF ImplementsChain

\* Type correctness of the whole robot: of each half by its own theorem, and of
\* what the robot adds.
THEOREM TypeCorrect == Spec => []TypeOK
<1>1. ChainFacts!Spec => []ChainFacts!TypeOK
  BY ChainAssumption, ChainFacts!TypeCorrect
<1>2. SupervisorFacts!Spec => []SupervisorFacts!TypeOK
  BY SupervisorAssumption, SupervisorFacts!TypeCorrect
<1>3. ChainFacts!TypeOK => Chain!TypeOK
  BY DEF ChainFacts!TypeOK, ChainFacts!Sensing!TypeOK, ChainFacts!Estimation!TypeOK,
     ChainFacts!Loop!TypeOK, ChainFacts!SamplesPerOuter,
     ChainFacts!Sensing!CalibrationStates, ChainFacts!Sensing!SampleAgeCap,
     ChainFacts!Sensing!CalibrationAgeCap, ChainFacts!Estimation!PreviousAgeCap,
     ChainFacts!Estimation!ConvergenceAgeCap, ChainFacts!Estimation!InvalidCauses,
     Chain!TypeOK, Chain!Sensing!TypeOK, Chain!Estimation!TypeOK, Chain!Loop!TypeOK,
     Chain!SamplesPerOuter, Chain!Sensing!CalibrationStates,
     Chain!Sensing!SampleAgeCap, Chain!Sensing!CalibrationAgeCap,
     Chain!Estimation!PreviousAgeCap, Chain!Estimation!ConvergenceAgeCap,
     Chain!Estimation!InvalidCauses
<1>4. SupervisorFacts!TypeOK => Supervisor!TypeOK
  BY DEF SupervisorFacts!TypeOK, SupervisorFacts!Modes, SupervisorFacts!FaultCauses,
     SupervisorFacts!CalibrationStates, SupervisorFacts!SamplingStates,
     SupervisorFacts!Estimates, SupervisorFacts!HistoryBound,
     SupervisorFacts!Actuation!TypeOK, SupervisorFacts!Actuation!DriverStates,
     SupervisorFacts!Actuation!DriverFaults, SupervisorFacts!Actuation!BridgeStates,
     Supervisor!TypeOK, Supervisor!Modes, Supervisor!FaultCauses,
     Supervisor!CalibrationStates, Supervisor!SamplingStates,
     Supervisor!Estimates, Supervisor!HistoryBound,
     Supervisor!Actuation!TypeOK, Supervisor!Actuation!DriverStates,
     Supervisor!Actuation!DriverFaults, Supervisor!Actuation!BridgeStates
<1>5. Chain!TypeOK /\ Supervisor!TypeOK /\ BlindSinceBalance => TypeOK
  BY DEF TypeOK, BlindSinceBalance
<1> QED
  BY <1>1, <1>2, <1>3, <1>4, <1>5, ChainFactsApply, SupervisorFactsApply,
     BlindSinceBalanceAlways, PTL

\* The safety of each half is the robot's: estimates are earned, calibrations
\* undisturbed, the bridges driven and balance control engaged only in ARMED, a
\* stalled loop is not armed for long.
RobotIsSafe ==
  /\ Chain!ValidIsEarned
  /\ Chain!DisturbanceDecides
  /\ Supervisor!DrivenOnlyWhileArmed
  /\ Supervisor!EngagedIffArmed
  /\ Supervisor!StallBounded

\* Whatever the chain and the supervisor do to each other, the robot keeps the
\* safety of both.
THEOREM RobotIsSafeAlways == Spec => []RobotIsSafe
<1>1. ChainFacts!Spec => [](ChainFacts!ValidIsEarned /\ ChainFacts!DisturbanceDecides)
  <2>1. ChainFacts!IInv => ChainFacts!ValidIsEarned /\ ChainFacts!DisturbanceDecides
    BY DEF ChainFacts!IInv
  <2>2. ChainFacts!Spec => []ChainFacts!IInv
    BY ChainAssumption, ChainFacts!Inductive
  <2> QED
    BY <2>1, <2>2, PTL
<1>2. SupervisorFacts!Spec => []SupervisorFacts!DrivenOnlyWhileArmed
  BY SupervisorAssumption, SupervisorFacts!DrivenOnlyWhileArmedAlways
<1>3. SupervisorFacts!Spec => []SupervisorFacts!EngagedIffArmed
  BY SupervisorAssumption, SupervisorFacts!EngagedIffArmedAlways
<1>4. SupervisorFacts!Spec => []SupervisorFacts!StallBounded
  BY SupervisorAssumption, SupervisorFacts!StallBoundedAlways
<1>5. ChainFacts!ValidIsEarned /\ ChainFacts!DisturbanceDecides
        => Chain!ValidIsEarned /\ Chain!DisturbanceDecides
  BY DEF Chain!ValidIsEarned, Chain!DisturbanceDecides,
     ChainFacts!ValidIsEarned, ChainFacts!DisturbanceDecides
<1>6. /\ SupervisorFacts!DrivenOnlyWhileArmed => Supervisor!DrivenOnlyWhileArmed
      /\ SupervisorFacts!EngagedIffArmed => Supervisor!EngagedIffArmed
      /\ SupervisorFacts!StallBounded => Supervisor!StallBounded
  BY DEF Supervisor!DrivenOnlyWhileArmed, Supervisor!DriverHealthy,
     Supervisor!EngagedIffArmed, Supervisor!StallBounded,
     SupervisorFacts!DrivenOnlyWhileArmed, SupervisorFacts!DriverHealthy,
     SupervisorFacts!EngagedIffArmed, SupervisorFacts!StallBounded
<1>7. RobotIsSafe <=> /\ Chain!ValidIsEarned /\ Chain!DisturbanceDecides
                      /\ Supervisor!DrivenOnlyWhileArmed /\ Supervisor!EngagedIffArmed
                      /\ Supervisor!StallBounded
  BY DEF RobotIsSafe
<1> QED
  BY <1>1, <1>2, <1>3, <1>4, <1>5, <1>6, <1>7, ChainFactsApply, SupervisorFactsApply, PTL

\* What no step of the robot does: leave ARMED with driven bridges, latch a stall
\* that is none, or run the outer stage off its cadence.
RobotSteps ==
  /\ Supervisor!LeavingArmedReleases
  /\ Supervisor!StallIsReal
  /\ Chain!OuterIsRegular

\* The action properties of the halves hold of every step of the robot.
THEOREM RobotStepsAlways == Spec => RobotSteps
<1>1. SupervisorFacts!Spec => SupervisorFacts!LeavingArmedReleases
  BY SupervisorAssumption, SupervisorFacts!LeavingArmedReleasesAlways
<1>2. SupervisorFacts!Spec => SupervisorFacts!StallIsReal
  BY SupervisorAssumption, SupervisorFacts!StallIsRealAlways
<1>3. ChainFacts!Spec => ChainFacts!OuterIsRegular
  BY ChainAssumption, ChainFacts!OuterIsRegularAlways
<1>4. SupervisorFacts!LeavingArmedReleases => Supervisor!LeavingArmedReleases
  <2>1. [mode = "armed" /\ mode' # "armed" => bridges' = "released" /\ ~engaged']_(SupervisorFacts!vars)
        => [mode = "armed" /\ mode' # "armed" => bridges' = "released" /\ ~engaged']_(Supervisor!vars)
    BY DEF SupervisorFacts!vars, SupervisorFacts!supervisorVars,
       SupervisorFacts!actuationVars, SupervisorFacts!sensingVars,
       SupervisorFacts!historyVars, Supervisor!vars, Supervisor!supervisorVars,
       Supervisor!actuationVars, Supervisor!sensingVars, Supervisor!historyVars
  <2>2. QED
    BY <2>1, PTL DEF SupervisorFacts!LeavingArmedReleases, Supervisor!LeavingArmedReleases
<1>5. SupervisorFacts!StallIsReal => Supervisor!StallIsReal
  <2>1. [cause # "loopStalled" /\ cause' = "loopStalled"
           => sinceBalance' >= MissedServiceLimit]_(SupervisorFacts!vars)
        => [cause # "loopStalled" /\ cause' = "loopStalled"
              => sinceBalance' >= MissedServiceLimit]_(Supervisor!vars)
    BY DEF SupervisorFacts!vars, SupervisorFacts!supervisorVars,
       SupervisorFacts!actuationVars, SupervisorFacts!sensingVars,
       SupervisorFacts!historyVars, Supervisor!vars, Supervisor!supervisorVars,
       Supervisor!actuationVars, Supervisor!sensingVars, Supervisor!historyVars
  <2>2. QED
    BY <2>1, PTL DEF SupervisorFacts!StallIsReal, Supervisor!StallIsReal
<1>6. ChainFacts!OuterIsRegular => Chain!OuterIsRegular
  <2>1. [sinceOuter' # sinceOuter
           => sinceOuter' = (sinceOuter + 1) % ChainFacts!SamplesPerOuter]_(ChainFacts!vars)
        => [sinceOuter' # sinceOuter
              => sinceOuter' = (sinceOuter + 1) % Chain!SamplesPerOuter]_(Chain!vars)
    BY DEF ChainFacts!SamplesPerOuter, Chain!SamplesPerOuter,
       ChainFacts!vars, ChainFacts!sensingVars, ChainFacts!estimationVars,
       ChainFacts!loopVars, ChainFacts!historyVars,
       Chain!vars, Chain!sensingVars, Chain!estimationVars, Chain!loopVars,
       Chain!historyVars
  <2>2. QED
    BY <2>1, PTL DEF ChainFacts!OuterIsRegular, Chain!OuterIsRegular
<1> QED
  BY <1>1, <1>2, <1>3, <1>4, <1>5, <1>6, SupervisorFactsApply, ChainFactsApply, PTL
     DEF RobotSteps

\* Through the supervisor the whole robot implements the drive's mode machine.
THEOREM RobotImplementsDriveModes == Spec => Supervisor!ImplementsDriveModes
<1>1. SupervisorFacts!Spec => SupervisorFacts!Drive!Spec
  BY SupervisorAssumption, SupervisorFacts!SupervisorImplementsDriveModes
     DEF SupervisorFacts!ImplementsDriveModes
<1>2. SupervisorFacts!Drive!Init => Supervisor!Drive!Init
  BY DEF SupervisorFacts!Drive!Init, Supervisor!Drive!Init
<1>3. [SupervisorFacts!Drive!Next]_(SupervisorFacts!Drive!modeVars)
        => [Supervisor!Drive!Next]_(Supervisor!Drive!modeVars)
  BY DEF SupervisorFacts!Drive!Next, SupervisorFacts!Drive!modeVars,
     SupervisorFacts!Drive!FaultsOf, SupervisorFacts!Drive!StartCalibrating,
     SupervisorFacts!Drive!FinishCalibrating, SupervisorFacts!Drive!Permit,
     SupervisorFacts!Drive!Withdraw, SupervisorFacts!Drive!Trip,
     SupervisorFacts!Drive!Acknowledge, SupervisorFacts!Drive!Drive,
     SupervisorFacts!Drive!Interrupt,
     Supervisor!Drive!Next, Supervisor!Drive!modeVars, Supervisor!Drive!FaultsOf,
     Supervisor!Drive!StartCalibrating, Supervisor!Drive!FinishCalibrating,
     Supervisor!Drive!Permit, Supervisor!Drive!Withdraw, Supervisor!Drive!Trip,
     Supervisor!Drive!Acknowledge, Supervisor!Drive!Drive, Supervisor!Drive!Interrupt
<1> QED
  BY <1>1, <1>2, <1>3, SupervisorFactsApply, PTL
     DEF Supervisor!ImplementsDriveModes, Supervisor!Drive!Spec,
         SupervisorFacts!Drive!Spec

=============================================================================
