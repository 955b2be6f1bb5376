-------------------- MODULE SafetySupervisorProofs --------------------
(***************************************************************************)
(* Proofs about SafetySupervisor, for every set of pitch angles, every     *)
(* pair of thresholds, every limit and every deadline; and about what      *)
(* SupervisedTelemetry adds to it, at the end of the module.               *)
(*                                                                         *)
(* IInv is inductive.  Beyond type correctness it says two things that the *)
(* safety properties do not: how the supervisor's flag and counter of      *)
(* missed services relate to the time that has really passed, from above   *)
(* while ARMED (MissesBoundSilence) and from below always                  *)
(* (MissesAreSilence).                                                     *)
(***************************************************************************)
EXTENDS SupervisedTelemetry, TLAPS

\* While ARMED, the counter of missed services bounds the time since the last
\* balance iteration or the arm command, and is below the limit.
MissesBoundSilence ==
  mode = "armed" =>
    IF serviced
      THEN sinceBalance = 0 \/ sinceArm = 0
      ELSE /\ missedServices < MissedServiceLimit
           /\ \/ sinceBalance <= missedServices + 1
              \/ sinceArm <= missedServices + 1

\* Every counted miss was a service period without a balance iteration.
MissesAreSilence == ~serviced => missedServices <= sinceBalance

IInv ==
  /\ TypeOK
  /\ DrivenOnlyWhileArmed
  /\ EngagedIffArmed
  /\ MissesBoundSilence
  /\ MissesAreSilence

----------------------------------------------------------------------------
\* Counting up to a bound stays within it.
LEMMA SaturatedInRange ==
  ASSUME NEW bound \in Nat, NEW n \in 0..bound
  PROVE  Saturated(n, bound) \in 0..bound
BY DEF Saturated

LEMMA CountStaysInRange ==
  ASSUME missedServices \in 0..MissedServiceLimit, CountServices
  PROVE  missedServices' \in 0..MissedServiceLimit /\ serviced' \in BOOLEAN
<1>1. MissedServiceLimit \in Nat /\ 0 \in 0..MissedServiceLimit
  BY LimitAssumption
<1>2. Saturated(missedServices, MissedServiceLimit) \in 0..MissedServiceLimit
  BY <1>1, SaturatedInRange
<1>3. QED
  BY <1>1, <1>2 DEF CountServices

\* Whichever fault is entered, what it changes keeps its type.
LEMMA EnterFaultTyped ==
  ASSUME Actuation!TypeOK, engaged \in BOOLEAN,
         NEW c \in FaultCauses, EnterFault(c)
  PROVE  /\ mode' \in Modes /\ cause' \in FaultCauses \cup {"none"}
         /\ engaged' \in BOOLEAN
         /\ Actuation!TypeOK'
BY DEF EnterFault, LeaveArmed, Modes, Actuation!Disable, Actuation!TypeOK,
       Actuation!BridgeStates

LEMMA FaultFoundIsFault ==
  ASSUME NEW estimate, FaultFound(estimate) # "none"
  PROVE  FaultFound(estimate) \in FaultCauses
BY DEF FaultFound, FaultCauses

----------------------------------------------------------------------------
LEMMA InitTyped == Init => TypeOK
<1> USE PitchesAssumption, LimitAssumption, DeadlineAssumption
<1> SUFFICES ASSUME Init PROVE TypeOK
  OBVIOUS
<1>1. latest \in Estimates
  BY DEF Init, Estimates
<1>2. /\ missedServices \in 0..MissedServiceLimit
      /\ elapsed \in 0..SelfTestDeadline
      /\ sinceBalance \in 0..HistoryBound
      /\ sinceArm \in 0..HistoryBound
  BY DEF Init, HistoryBound
<1>3. Actuation!TypeOK
  BY DEF Init, Actuation!Init, Actuation!TypeOK, Actuation!DriverStates,
         Actuation!DriverFaults, Actuation!BridgeStates
<1>4. QED
  BY <1>1, <1>2, <1>3 DEF Init, TypeOK, Modes, CalibrationStates, SamplingStates

\* Type correctness: every action keeps every variable in its range, the two
\* saturating counters and the service counter included.
THEOREM TypeCorrect == Spec => []TypeOK
<1> USE PitchesAssumption, LimitAssumption, DeadlineAssumption
<1>1. Init => TypeOK
  BY InitTyped
<1>2. TypeOK /\ [Next]_vars => TypeOK'
  <2> SUFFICES ASSUME TypeOK, [Next]_vars PROVE TypeOK'
    OBVIOUS
  <2> USE DEF TypeOK, Modes, FaultCauses, Estimates, HistoryBound,
              CalibrationStates, SamplingStates, Actuation!TypeOK,
              Actuation!DriverStates, Actuation!DriverFaults,
              Actuation!BridgeStates, Actuation!actuationVars, actuationVars,
              sensingVars, historyVars, supervisorVars
  <2>1. CASE Arm
    BY <2>1 DEF Arm
  <2>2. CASE Disarm
    BY <2>2 DEF Disarm, LeaveArmed, Actuation!Disable
  <2>3. CASE ClearFault
    BY <2>3 DEF ClearFault, Actuation!ClearFault
  <2>4. CASE Calibrate
    BY <2>4 DEF Calibrate, StartCalibration
  <2>5. ASSUME NEW how \in Actuation!DisableStates, DisableByHand(how)
        PROVE TypeOK'
    BY <2>5 DEF DisableByHand, Actuation!Disable
  <2>6. CASE Supervise
    <3>1. /\ elapsed' \in 0..SelfTestDeadline
          /\ sinceBalance' \in 0..HistoryBound
          /\ sinceArm' \in 0..HistoryBound
      BY <2>6 DEF Supervise, PeriodPasses, Saturated
    <3>2. CASE SuperviseSelfTest
      BY <3>1, <3>2 DEF SuperviseSelfTest, EnterFault, LeaveArmed,
           StartCalibration, Actuation!Disable
    <3>3. CASE SuperviseCalibration
      BY <3>1, <3>3 DEF SuperviseCalibration, EnterFault, LeaveArmed,
           Actuation!Disable
    <3>4. CASE SuperviseLiveness
      <4>1. missedServices' \in 0..MissedServiceLimit /\ serviced' \in BOOLEAN
        BY <3>4, CountStaysInRange DEF SuperviseLiveness
      <4>2. /\ mode' \in Modes /\ cause' \in FaultCauses \cup {"none"}
            /\ engaged' \in BOOLEAN
            /\ Actuation!TypeOK'
        BY <3>4 DEF SuperviseLiveness, EnterFault, LeaveArmed, Actuation!Disable
      <4>3. QED
        BY <3>1, <3>4, <4>1, <4>2 DEF SuperviseLiveness
    <3>5. CASE SuperviseFault
      BY <3>1, <3>5 DEF SuperviseFault
    <3>6. QED
      BY <2>6, <3>2, <3>3, <3>4, <3>5 DEF Supervise
  <2>7. ASSUME NEW estimate \in Estimates, Balance(estimate)
        PROVE TypeOK'
    <3>1. /\ mode' \in Modes /\ cause' \in FaultCauses \cup {"none"}
          /\ engaged' \in BOOLEAN
          /\ Actuation!TypeOK'
      <4>1. CASE mode # "armed"
        BY <2>7, <4>1 DEF Balance, Iterate
      <4>2. CASE mode = "armed" /\ FaultFound(estimate) # "none"
        BY <2>7, <4>2, FaultFoundIsFault, EnterFaultTyped DEF Balance, Iterate
      <4>3. CASE mode = "armed" /\ FaultFound(estimate) = "none"
        BY <2>7, <4>3 DEF Balance, Iterate, ControlBalance, Actuation!Apply
      <4>4. QED
        BY <4>1, <4>2, <4>3
    <3>2. QED
      BY <2>7, <3>1 DEF Balance, Iterate, Sense
  <2>8. ASSUME NEW verified \in BOOLEAN, DriverConfigured(verified)
        PROVE TypeOK'
    BY <2>8 DEF DriverConfigured, Actuation!Configured
  <2>9. CASE DriverFaultEdge
    BY <2>9 DEF DriverFaultEdge, Actuation!OnFault
  <2>10. ASSUME NEW quality \in SamplingStates \ {"never"}, SampleArrives(quality)
         PROVE TypeOK'
    BY <2>10 DEF SampleArrives, Sense
  <2>11. CASE SensorFallsSilent
    BY <2>11 DEF SensorFallsSilent
  <2>12. CASE UNCHANGED vars
    BY <2>12 DEF vars
  <2>13. QED
    BY <2>1, <2>2, <2>3, <2>4, <2>5, <2>6, <2>7, <2>8, <2>9, <2>10, <2>11,
       <2>12 DEF Next
<1>3. QED
  BY <1>1, <1>2, PTL DEF Spec

----------------------------------------------------------------------------
\* Entering FAULT from a state whose engagement follows the mode leaves the
\* bridges released and balance control disengaged.
LEMMA FaultKeepsDriveParts ==
  ASSUME NEW c \in FaultCauses, EnterFault(c), EngagedIffArmed
  PROVE  /\ mode' = "fault" /\ ~engaged' /\ bridges' = "released"
BY DEF EnterFault, LeaveArmed, Actuation!Disable, EngagedIffArmed

LEMMA DriveInvariantInit == Init => IInv
<1> SUFFICES ASSUME Init PROVE IInv
  OBVIOUS
<1>1. TypeOK
  BY InitTyped
<1>2. DrivenOnlyWhileArmed /\ EngagedIffArmed /\ MissesBoundSilence
  BY DEF Init, Actuation!Init, DrivenOnlyWhileArmed, EngagedIffArmed,
         MissesBoundSilence
<1>3. MissesAreSilence
  BY LimitAssumption DEF Init, MissesAreSilence, HistoryBound
<1>4. QED
  BY <1>1, <1>2, <1>3 DEF IInv

\* The supervision timer: the only action that counts.
LEMMA SuperviseKeepsInvariant ==
  ASSUME IInv, TypeOK', Supervise
  PROVE  IInv'
<1> USE LimitAssumption DEF TypeOK, HistoryBound
<1>1. /\ sinceBalance' = Saturated(sinceBalance, HistoryBound)
      /\ sinceArm' = Saturated(sinceArm, HistoryBound)
  BY DEF Supervise, PeriodPasses
<1>2. sinceBalance' >= sinceBalance
  BY <1>1 DEF IInv, Saturated
<1>3. CASE SuperviseSelfTest \/ SuperviseCalibration \/ SuperviseFault
  <2>1. mode # "armed" /\ mode' # "armed" /\ UNCHANGED <<serviced, missedServices>>
    BY <1>3 DEF SuperviseSelfTest, SuperviseCalibration, SuperviseFault,
         EnterFault, StartCalibration
  <2>2. EngagedIffArmed' /\ DrivenOnlyWhileArmed'
    <3>1. engaged = FALSE /\ bridges # "driven"
      BY <2>1 DEF IInv, EngagedIffArmed, DrivenOnlyWhileArmed
    <3>2. engaged' = FALSE /\ bridges' # "driven"
      BY <1>3, <3>1, <2>1 DEF SuperviseSelfTest, SuperviseCalibration,
           SuperviseFault, EnterFault, Actuation!Disable, actuationVars
    <3>3. QED
      BY <3>2, <2>1 DEF EngagedIffArmed, DrivenOnlyWhileArmed
  <2>3. MissesBoundSilence'
    BY <2>1 DEF MissesBoundSilence
  <2>4. MissesAreSilence'
    BY <2>1, <1>2 DEF IInv, MissesAreSilence
  <2>5. QED
    BY <2>2, <2>3, <2>4 DEF IInv
<1>4. CASE SuperviseLiveness /\ DriverFaultSeen
  <2>1. EnterFault("driverFault") /\ UNCHANGED <<serviced, missedServices>>
    BY <1>4 DEF SuperviseLiveness
  <2>2. mode' = "fault" /\ ~engaged' /\ bridges' = "released"
    BY <2>1, FaultKeepsDriveParts DEF IInv, FaultCauses
  <2>3. EngagedIffArmed' /\ DrivenOnlyWhileArmed' /\ MissesBoundSilence'
    BY <2>2 DEF EngagedIffArmed, DrivenOnlyWhileArmed, MissesBoundSilence
  <2>4. MissesAreSilence'
    BY <2>1, <1>2 DEF IInv, MissesAreSilence
  <2>5. QED
    BY <2>3, <2>4 DEF IInv
<1>5. CASE SuperviseLiveness /\ ~DriverFaultSeen
  <2>1. serviced' = FALSE
    BY <1>5 DEF SuperviseLiveness, CountServices
  <2>2. missedServices' =
          IF serviced THEN 0 ELSE Saturated(missedServices, MissedServiceLimit)
    BY <1>5 DEF SuperviseLiveness, CountServices
  <2>3. MissesAreSilence'
    BY <2>1, <2>2, <1>1 DEF IInv, MissesAreSilence, Saturated
  <2>4. CASE mode = "armed" /\ missedServices' >= MissedServiceLimit
    <3>1. EnterFault("loopStalled")
      BY <1>5, <2>4 DEF SuperviseLiveness
    <3>2. mode' = "fault" /\ ~engaged' /\ bridges' = "released"
      BY <3>1, FaultKeepsDriveParts DEF IInv, FaultCauses
    <3>3. QED
      BY <3>2, <2>3 DEF IInv, EngagedIffArmed, DrivenOnlyWhileArmed,
           MissesBoundSilence
  <2>5. CASE ~(mode = "armed" /\ missedServices' >= MissedServiceLimit)
    <3>1. UNCHANGED <<mode, cause, actuationVars, engaged>>
      BY <1>5, <2>5 DEF SuperviseLiveness
    <3>2. EngagedIffArmed' /\ DrivenOnlyWhileArmed'
      BY <3>1 DEF IInv, EngagedIffArmed, DrivenOnlyWhileArmed, DriverHealthy,
           actuationVars
    <3>3. MissesBoundSilence'
      BY <3>1, <2>1, <2>2, <2>5, <1>1 DEF IInv, MissesBoundSilence, Saturated
    <3>4. QED
      BY <3>2, <3>3, <2>3 DEF IInv
  <2>6. QED
    BY <2>4, <2>5
<1>6. QED
  BY <1>3, <1>4, <1>5 DEF Supervise

LEMMA InvariantStep ==
  ASSUME IInv, TypeOK', [Next]_vars
  PROVE  IInv'
<1> USE LimitAssumption DEF IInv, EngagedIffArmed, DrivenOnlyWhileArmed,
      DriverHealthy, MissesBoundSilence, MissesAreSilence, actuationVars,
      sensingVars, historyVars, supervisorVars, Actuation!actuationVars
<1>1. CASE Arm
  BY <1>1 DEF Arm, LoopServiced, TypeOK
<1>2. CASE Disarm
  BY <1>2 DEF Disarm, LeaveArmed, Actuation!Disable
<1>3. CASE ClearFault
  BY <1>3 DEF ClearFault, Actuation!ClearFault
<1>4. CASE Calibrate
  BY <1>4 DEF Calibrate, StartCalibration
<1>5. ASSUME NEW how \in Actuation!DisableStates, DisableByHand(how)
      PROVE IInv'
  BY <1>5 DEF DisableByHand, Actuation!Disable
<1>6. CASE Supervise
  BY <1>6, SuperviseKeepsInvariant
<1>7. ASSUME NEW estimate \in Estimates, Balance(estimate)
      PROVE IInv'
  <2>1. MissesBoundSilence' /\ MissesAreSilence'
    BY <1>7 DEF Balance, Iterate
  <2>2. CASE mode # "armed"
    BY <1>7, <2>1, <2>2 DEF Balance, Iterate
  <2>3. CASE mode = "armed" /\ FaultFound(estimate) # "none"
    <3>1. mode' = "fault" /\ ~engaged' /\ bridges' = "released"
      BY <1>7, <2>3, FaultFoundIsFault, FaultKeepsDriveParts DEF Balance, Iterate
    <3>2. QED
      BY <2>1, <3>1
  <2>4. CASE mode = "armed" /\ FaultFound(estimate) = "none"
    BY <1>7, <2>1, <2>4 DEF Balance, Iterate, ControlBalance, Actuation!Apply,
         Actuation!DrivePermitted
  <2>5. QED
    BY <2>2, <2>3, <2>4
<1>8. ASSUME NEW verified \in BOOLEAN, DriverConfigured(verified)
      PROVE IInv'
  BY <1>8 DEF DriverConfigured, Actuation!Configured
<1>9. CASE DriverFaultEdge
  BY <1>9 DEF DriverFaultEdge, Actuation!OnFault
<1>10. ASSUME NEW quality \in SamplingStates \ {"never"}, SampleArrives(quality)
       PROVE IInv'
  BY <1>10 DEF SampleArrives, Sense
<1>11. CASE SensorFallsSilent
  BY <1>11 DEF SensorFallsSilent
<1>12. CASE UNCHANGED vars
  BY <1>12 DEF vars
<1>13. QED
  BY <1>1, <1>2, <1>3, <1>4, <1>5, <1>6, <1>7, <1>8, <1>9, <1>10, <1>11,
     <1>12 DEF Next

LEMMA Inductive == Spec => []IInv
<1>1. Init => IInv
  BY DriveInvariantInit
<1>2. IInv /\ TypeOK' /\ [Next]_vars => IInv'
  BY InvariantStep
<1>3. QED
  BY <1>1, <1>2, TypeCorrect, PTL DEF Spec

----------------------------------------------------------------------------
\* In every reachable state, bridges that follow efforts belong to an ARMED
\* robot with a healthy driver.
THEOREM DrivenOnlyWhileArmedAlways == Spec => []DrivenOnlyWhileArmed
<1>1. IInv => DrivenOnlyWhileArmed
  BY DEF IInv
<1>2. QED
  BY <1>1, Inductive, PTL

\* In every reachable state balance control is engaged exactly while ARMED.
THEOREM EngagedIffArmedAlways == Spec => []EngagedIffArmed
<1>1. IInv => EngagedIffArmed
  BY DEF IInv
<1>2. QED
  BY <1>1, Inductive, PTL

\* However large the limit, an ARMED robot's last balance iteration or its arm
\* command lies at most that many service periods back.
THEOREM StallBoundedAlways == Spec => []StallBounded
<1>1. ASSUME IInv PROVE StallBounded
  BY <1>1, LimitAssumption DEF IInv, TypeOK, HistoryBound, MissesBoundSilence,
     StallBounded
<1>2. QED
  BY <1>1, Inductive, PTL

\* Every step out of ARMED releases the bridges and disengages balance control.
THEOREM LeavingArmedReleasesAlways == Spec => LeavingArmedReleases
<1>1. ASSUME IInv, [Next]_vars, mode = "armed", mode' # "armed"
      PROVE  bridges' = "released" /\ ~engaged'
  <2> USE <1>1 DEF IInv, EngagedIffArmed
  <2>1. CASE Disarm
    BY <2>1 DEF Disarm, LeaveArmed, Actuation!Disable
  <2>2. CASE Supervise
    <3>1. EnterFault("driverFault") \/ EnterFault("loopStalled")
      BY <2>2 DEF Supervise, SuperviseSelfTest, SuperviseCalibration,
         SuperviseFault, SuperviseLiveness
    <3>2. QED
      BY <3>1, FaultKeepsDriveParts DEF FaultCauses
  <2>3. ASSUME NEW estimate \in Estimates, Balance(estimate)
        PROVE  bridges' = "released" /\ ~engaged'
    <3>1. FaultFound(estimate) # "none" /\ EnterFault(FaultFound(estimate))
      BY <2>3 DEF Balance, Iterate, ControlBalance
    <3>2. QED
      BY <3>1, FaultFoundIsFault, FaultKeepsDriveParts
  <2>4. Arm \/ ClearFault \/ Calibrate => FALSE
    BY DEF Arm, ClearFault, Calibrate
  <2>5. UNCHANGED mode => FALSE
    OBVIOUS
  <2>6. QED
    BY <2>1, <2>2, <2>3, <2>4, <2>5 DEF Next, DisableByHand,
       DriverConfigured, DriverFaultEdge, SampleArrives, Sense, SensorFallsSilent,
       vars, supervisorVars
<1>2. IInv /\ [Next]_vars =>
        [mode = "armed" /\ mode' # "armed" => bridges' = "released" /\ ~engaged']_vars
  BY <1>1
<1>3. QED
  BY <1>2, Inductive, PTL DEF Spec, LeavingArmedReleases

\* A stall is latched only after that many service periods of silence: no
\* sequence of mode changes makes the counter of missed services run ahead.
THEOREM StallIsRealAlways == Spec => StallIsReal
<1>1. ASSUME IInv, [Next]_vars, cause # "loopStalled", cause' = "loopStalled"
      PROVE  sinceBalance' >= MissedServiceLimit
  <2> USE <1>1 DEF IInv
  <2>1. CASE Supervise
    <3>1. CountServices /\ missedServices' >= MissedServiceLimit
      BY <2>1 DEF Supervise, SuperviseSelfTest, SuperviseCalibration,
         SuperviseFault, SuperviseLiveness, EnterFault
    <3>2. sinceBalance' = Saturated(sinceBalance, HistoryBound)
      BY <2>1 DEF Supervise, PeriodPasses
    <3>3. missedServices' =
            IF serviced THEN 0 ELSE Saturated(missedServices, MissedServiceLimit)
      BY <3>1 DEF CountServices
    <3>4. missedServices' <= sinceBalance'
      BY <3>1, <3>2, <3>3, LimitAssumption
         DEF MissesAreSilence, Saturated, TypeOK, HistoryBound
    <3>5. QED
      BY <3>1, <3>2, <3>3, <3>4, LimitAssumption
         DEF Saturated, TypeOK, HistoryBound
  <2>2. ASSUME NEW estimate \in Estimates, Balance(estimate) PROVE FALSE
    BY <2>2 DEF Balance, Iterate, EnterFault, ControlBalance, FaultFound
  <2>3. Arm \/ Disarm \/ ClearFault \/ Calibrate => FALSE
    BY DEF Arm, Disarm, ClearFault, Calibrate
  <2>4. UNCHANGED cause => FALSE
    OBVIOUS
  <2>5. QED
    BY <2>1, <2>2, <2>3, <2>4 DEF Next, DisableByHand, DriverConfigured,
       DriverFaultEdge, SampleArrives, Sense, SensorFallsSilent, vars, supervisorVars
<1>2. IInv /\ [Next]_vars =>
        [cause # "loopStalled" /\ cause' = "loopStalled"
           => sinceBalance' >= MissedServiceLimit]_vars
  BY <1>1
<1>3. QED
  BY <1>2, Inductive, PTL DEF Spec, StallIsReal

----------------------------------------------------------------------------
\* A fault entered with a cause the mode allows is a step of the abstract
\* machine.
LEMMA EnterFaultTrips ==
  ASSUME NEW c \in Drive!FaultsOf(mode), EnterFault(c)
  PROVE  Drive!Next
<1>1. bridges' = "released" /\ mode' = "fault" /\ cause' = c
  BY DEF EnterFault, LeaveArmed, Actuation!Disable
<1>2. Drive!Trip(c)
  BY <1>1 DEF Drive!Trip
<1>3. QED
  BY <1>2 DEF Drive!Next

LEMMA DriveStep ==
  ASSUME IInv, [Next]_vars
  PROVE  [Drive!Next]_(Drive!modeVars)
<1> USE DEF Drive!modeVars
<1>1. CASE Arm
  <2>1. Drive!Permit
    BY <1>1 DEF Arm, actuationVars, Drive!Permit
  <2>2. QED
    BY <2>1 DEF Drive!Next
<1>2. CASE Disarm
  <2>1. Drive!Withdraw
    BY <1>2 DEF Disarm, LeaveArmed, Actuation!Disable, Drive!Withdraw
  <2>2. QED
    BY <2>1 DEF Drive!Next
<1>3. CASE ClearFault
  <2>1. Drive!Acknowledge
    BY <1>3 DEF ClearFault, Actuation!ClearFault, Drive!Acknowledge
  <2>2. QED
    BY <2>1 DEF Drive!Next
<1>4. CASE Calibrate
  <2>1. Drive!StartCalibrating
    BY <1>4 DEF Calibrate, StartCalibration, actuationVars,
       Drive!StartCalibrating
  <2>2. QED
    BY <2>1 DEF Drive!Next
<1>5. CASE DriverFaultEdge \/ \E how \in Actuation!DisableStates : DisableByHand(how)
  <2>1. bridges' # "driven" /\ UNCHANGED <<mode, cause>>
    BY <1>5 DEF DriverFaultEdge, DisableByHand, supervisorVars,
       Actuation!OnFault, Actuation!Disable
  <2>2. Drive!Interrupt
    BY <2>1 DEF Drive!Interrupt
  <2>3. QED
    BY <2>2 DEF Drive!Next
<1>6. CASE Supervise
  <2>1. CASE SuperviseSelfTest
    <3>1. CASE SelfTestPassed
      <4>1. Drive!StartCalibrating
        BY <2>1, <3>1 DEF SuperviseSelfTest, StartCalibration, actuationVars,
           Drive!StartCalibrating
      <4>2. QED
        BY <4>1 DEF Drive!Next
    <3>2. CASE ~SelfTestPassed
      <4>1. \/ EnterFault("selfTestFailed") /\ mode = "init"
            \/ UNCHANGED <<mode, cause, bridges>>
        BY <2>1, <3>2 DEF SuperviseSelfTest, actuationVars
      <4>2. QED
        BY <4>1, EnterFaultTrips DEF Drive!FaultsOf
    <3>3. QED
      BY <3>1, <3>2
  <2>2. CASE SuperviseCalibration
    <3>1. CASE calibration = "calibrated"
      <4>1. Drive!FinishCalibrating
        BY <2>2, <3>1 DEF SuperviseCalibration, actuationVars,
           Drive!FinishCalibrating
      <4>2. QED
        BY <4>1 DEF Drive!Next
    <3>2. CASE calibration # "calibrated"
      <4>1. \/ EnterFault("calibrationFailed") /\ mode = "calibrating"
            \/ UNCHANGED <<mode, cause, bridges>>
        BY <2>2, <3>2 DEF SuperviseCalibration, actuationVars
      <4>2. QED
        BY <4>1, EnterFaultTrips DEF Drive!FaultsOf
    <3>3. QED
      BY <3>1, <3>2
  <2>3. CASE SuperviseLiveness
    <3>1. \/ EnterFault("driverFault") /\ mode \in {"idle", "armed"}
          \/ EnterFault("loopStalled") /\ mode = "armed"
          \/ UNCHANGED <<mode, cause, bridges>>
      BY <2>3 DEF SuperviseLiveness, actuationVars
    <3>2. QED
      BY <3>1, EnterFaultTrips DEF Drive!FaultsOf
  <2>4. CASE SuperviseFault
    BY <2>4 DEF SuperviseFault, actuationVars
  <2>5. QED
    BY <1>6, <2>1, <2>2, <2>3, <2>4 DEF Supervise
<1>7. ASSUME NEW estimate \in Estimates, Balance(estimate)
      PROVE  [Drive!Next]_(Drive!modeVars)
  <2>1. CASE mode # "armed"
    BY <1>7, <2>1 DEF Balance, Iterate, actuationVars
  <2>2. CASE mode = "armed" /\ FaultFound(estimate) # "none"
    <3>1. FaultFound(estimate) \in Drive!FaultsOf("armed")
      BY <2>2 DEF FaultFound, Drive!FaultsOf
    <3>2. EnterFault(FaultFound(estimate))
      BY <1>7, <2>2 DEF Balance, Iterate
    <3>3. QED
      BY <2>2, <3>1, <3>2, EnterFaultTrips
  <2>3. CASE mode = "armed" /\ FaultFound(estimate) = "none"
    <3>1. UNCHANGED <<mode, cause>> /\ (bridges' = "driven" \/ UNCHANGED bridges)
      BY <1>7, <2>3 DEF Balance, Iterate, ControlBalance, Actuation!Apply, actuationVars
    <3>2. CASE bridges' = "driven"
      <4>1. Drive!Drive
        BY <2>3, <3>1, <3>2 DEF Drive!Drive
      <4>2. QED
        BY <4>1 DEF Drive!Next
    <3>3. CASE UNCHANGED bridges
      BY <3>1, <3>3
    <3>4. QED
      BY <3>1, <3>2, <3>3
  <2>4. QED
    BY <2>1, <2>2, <2>3
<1>8. UNCHANGED <<mode, cause, bridges>> => [Drive!Next]_(Drive!modeVars)
  OBVIOUS
<1>9. \/ \E verified \in BOOLEAN : DriverConfigured(verified)
      \/ \E quality \in SamplingStates \ {"never"} : SampleArrives(quality)
      \/ SensorFallsSilent
      \/ UNCHANGED vars
      => UNCHANGED <<mode, cause, bridges>>
  BY DEF DriverConfigured, Actuation!Configured, SampleArrives, Sense,
     SensorFallsSilent, vars, supervisorVars, actuationVars
<1>10. QED
  BY <1>1, <1>2, <1>3, <1>4, <1>5, <1>6, <1>7, <1>8, <1>9 DEF Next

\* The supervisor, with all its detectors and their counters, implements the
\* drive's mode machine: each of its steps is one of that machine's or leaves
\* mode, cause and driving as they are.
THEOREM SupervisorImplementsDriveModes == Spec => ImplementsDriveModes
<1>1. Init => Drive!Init
  BY DEF Init, Actuation!Init, Drive!Init
<1>2. IInv /\ [Next]_vars => [Drive!Next]_(Drive!modeVars)
  BY DriveStep
<1>3. QED
  BY <1>1, <1>2, Inductive, PTL DEF Spec, ImplementsDriveModes, Drive!Spec

----------------------------------------------------------------------------
\* In every reachable state a running calibration is what the supervisor waits
\* for.
THEOREM CalibrationHoldsModeAlways == Spec => []CalibrationHoldsMode
<1> USE DEF CalibrationHoldsMode
<1>1. Init => CalibrationHoldsMode
  BY DEF Init
<1>2. ASSUME CalibrationHoldsMode, [Next]_vars PROVE CalibrationHoldsMode'
  <2> USE <1>2 DEF sensingVars, supervisorVars
  <2>1. CASE Arm \/ Disarm \/ ClearFault \/ Calibrate
    BY <2>1 DEF Arm, Disarm, ClearFault, Calibrate, StartCalibration
  <2>2. CASE Supervise
    BY <2>2 DEF Supervise, SuperviseSelfTest, SuperviseCalibration,
       SuperviseLiveness, SuperviseFault, StartCalibration, EnterFault
  <2>3. ASSUME NEW estimate \in Estimates, Balance(estimate)
        PROVE  CalibrationHoldsMode'
    BY <2>3 DEF Balance, Iterate, Sense, EnterFault, ControlBalance
  <2>4. ASSUME NEW quality \in SamplingStates \ {"never"}, SampleArrives(quality)
        PROVE  CalibrationHoldsMode'
    BY <2>4 DEF SampleArrives, Sense
  <2>5. QED
    BY <2>1, <2>2, <2>3, <2>4 DEF Next, DisableByHand, DriverConfigured,
       DriverFaultEdge, SensorFallsSilent, vars
<1>3. QED
  BY <1>1, <1>2, PTL DEF Spec

----------------------------------------------------------------------------
(***************************************************************************)
(* Telemetry.                                                              *)
(***************************************************************************)
\* Recording does not disturb what it observes: the supervisor, watched by
\* telemetry, behaves as it does alone.
THEOREM TelemetryIsPassive == TelemetrySpec => Spec
<1>1. TelemetryInit => Init
  BY DEF TelemetryInit
<1>2. [TelemetryNext]_telemetryVars => [Next]_vars
  BY DEF TelemetryNext, telemetryVars, RecordedBalance, Elsewhere, Unrecorded, Next
<1> QED
  BY <1>1, <1>2, PTL DEF TelemetrySpec, Spec

\* A cause is latched exactly while in FAULT, whoever latched it.
CauseIffFault == cause # "none" <=> mode = "fault"

LEMMA SuperviseLatches ==
  ASSUME CauseIffFault, Supervise PROVE CauseIffFault'
<1> USE DEF CauseIffFault, EnterFault
<1>1. CASE SuperviseSelfTest
  BY <1>1 DEF SuperviseSelfTest, StartCalibration
<1>2. CASE SuperviseCalibration
  BY <1>2 DEF SuperviseCalibration
<1>3. CASE SuperviseLiveness
  BY <1>3 DEF SuperviseLiveness
<1>4. CASE SuperviseFault
  BY <1>4 DEF SuperviseFault
<1> QED
  BY <1>1, <1>2, <1>3, <1>4 DEF Supervise

\* In every reachable state the cause that is reported is that of a fault not yet
\* acknowledged.
THEOREM CauseIffFaultAlways == Spec => []CauseIffFault
<1> USE DEF CauseIffFault
<1>1. Init => CauseIffFault
  BY DEF Init
<1>2. ASSUME CauseIffFault, [Next]_vars PROVE CauseIffFault'
  <2> USE <1>2
  <2>1. CASE Arm \/ Disarm \/ ClearFault \/ Calibrate
    BY <2>1 DEF Arm, Disarm, ClearFault, Calibrate, StartCalibration
  <2>2. CASE Supervise
    BY <2>2, SuperviseLatches
  <2>3. ASSUME NEW estimate \in Estimates, Balance(estimate) PROVE CauseIffFault'
    BY <2>3 DEF Balance, Iterate, EnterFault, ControlBalance
  <2>4. UNCHANGED supervisorVars => CauseIffFault'
    BY DEF supervisorVars
  <2> QED
    BY <2>1, <2>2, <2>3, <2>4
       DEF Next, DisableByHand, DriverConfigured, DriverFaultEdge, SampleArrives,
           SensorFallsSilent, vars
<1> QED
  BY <1>1, <1>2, PTL DEF Spec

\* What the recorder finds at the end of an iteration.
Recordable ==
  EngagedIffArmed /\ CauseIffFault /\ mode \in Modes /\ cause \in FaultCauses \cup {"none"}

LEMMA RecordableAlways == TelemetrySpec => []Recordable
<1>1. IInv /\ CauseIffFault => Recordable
  BY DEF IInv, TypeOK, Recordable
<1> QED
  BY <1>1, Inductive, CauseIffFaultAlways, TelemetryIsPassive, PTL

TelemetryTyped == applied \in Recorder!Efforts /\ recorded \in Samples

\* A disengaged robot applies no effort.
TelemetryInv == TelemetryTyped /\ (applied # "zero" => engaged) /\ SampleIsCoherent

\* A robot still armed after an iteration was found upright in it.
LEMMA StillArmedIsUpright ==
  ASSUME NEW estimate \in Estimates, Balance(estimate), mode' = "armed"
  PROVE  Abs(estimate.pitch) <= FallThreshold
<1>1. mode = "armed" /\ FaultFound(estimate) = "none"
  BY DEF Balance, Iterate, EnterFault
<1>2. ~(Abs(estimate.pitch) > FallThreshold)
  BY <1>1 DEF FaultFound
<1>3. estimate.pitch \in Int
  BY PitchesAssumption DEF Estimates
<1> QED
  BY <1>2, <1>3, ThresholdAssumption DEF Abs

LEMMA RecordedBalanceKeeps ==
  ASSUME Recordable, Recordable', TelemetryInv,
         NEW estimate \in Estimates, RecordedBalance(estimate)
  PROVE  TelemetryInv'
<1> USE DEF TelemetryInv, TelemetryTyped, Recordable, EngagedIffArmed, CauseIffFault
<1>1. applied' \in Recorder!Efforts /\ (applied' # "zero" => engaged')
  BY DEF RecordedBalance, Disengaging, Recorder!Efforts
<1>2. recorded' = [pitch |-> estimate.pitch, effort |-> applied',
                   mode |-> mode', cause |-> cause']
  BY DEF RecordedBalance, Recorder!Record
<1>3. recorded' \in Samples
  BY <1>1, <1>2 DEF Samples, Recorder!Samples, Estimates
<1>4. SampleIsCoherent'
  <2>1. recorded'.mode = "armed" => Abs(recorded'.pitch) <= FallThreshold
    BY <1>2, StillArmedIsUpright DEF RecordedBalance
  <2>2. recorded'.effort # "zero" => recorded'.mode = "armed"
    BY <1>1, <1>2
  <2>3. recorded'.cause # "none" <=> recorded'.mode = "fault"
    BY <1>2
  <2> QED
    BY <2>1, <2>2, <2>3 DEF SampleIsCoherent, Abs
<1> QED
  BY <1>1, <1>3, <1>4

LEMMA TelemetryInvAlways == TelemetrySpec => []TelemetryInv
<1> USE DEF TelemetryInv, TelemetryTyped
<1>1. TelemetryInit => TelemetryInv
  <2> SUFFICES ASSUME TelemetryInit PROVE TelemetryInv
    OBVIOUS
  <2>1. applied = "zero" /\ recorded = [pitch |-> 0, effort |-> "zero",
                                        mode |-> "init", cause |-> "none"]
    BY DEF TelemetryInit, Recorder!Init
  <2>2. applied \in Recorder!Efforts /\ recorded \in Samples
    BY <2>1, PitchesAssumption DEF Recorder!Efforts, Samples, Recorder!Samples, Modes
  <2> QED
    BY <2>1, <2>2 DEF SampleIsCoherent
<1>2. Recordable /\ Recordable' /\ TelemetryInv /\ [TelemetryNext]_telemetryVars
        => TelemetryInv'
  <2> SUFFICES ASSUME Recordable, Recordable', TelemetryInv,
                      [TelemetryNext]_telemetryVars
               PROVE  TelemetryInv'
    OBVIOUS
  <2>1. ASSUME NEW estimate \in Estimates, RecordedBalance(estimate)
        PROVE  TelemetryInv'
    BY <2>1, RecordedBalanceKeeps
  <2>2. CASE Elsewhere
    <3>1. applied' \in Recorder!Efforts /\ (applied' # "zero" => engaged')
      BY <2>2 DEF Elsewhere, Disengaging, Recorder!Efforts, Recordable, EngagedIffArmed
    <3>2. SampleIsCoherent' /\ recorded' \in Samples
      BY <2>2 DEF Elsewhere, SampleIsCoherent, Abs, Samples
    <3> QED
      BY <3>1, <3>2
  <2>3. CASE UNCHANGED telemetryVars
    BY <2>3 DEF telemetryVars, vars, SampleIsCoherent, Abs, Samples
  <2> QED
    BY <2>1, <2>2, <2>3 DEF TelemetryNext
<1> QED
  BY <1>1, <1>2, RecordableAlways, PTL DEF TelemetrySpec

\* Whatever the supervisor does in an iteration or between two, a sample speaks
\* of one iteration.
THEOREM SampleIsCoherentAlways == TelemetrySpec => []SampleIsCoherent
<1>1. TelemetryInv => SampleIsCoherent
  BY DEF TelemetryInv
<1> QED
  BY <1>1, TelemetryInvAlways, PTL

\* Type correctness of the supervised robot under telemetry.
THEOREM TelemetryTypeCorrect == TelemetrySpec => []TelemetryTypeOK
<1>1. TypeOK /\ TelemetryInv => TelemetryTypeOK
  BY DEF TelemetryInv, TelemetryTyped, TelemetryTypeOK
<1> QED
  BY <1>1, TypeCorrect, TelemetryIsPassive, TelemetryInvAlways, PTL

=============================================================================
