------------------------ MODULE SafetySupervisor ------------------------
(***************************************************************************)
(* The safety supervisor and what it commands: the motion actuation        *)
(* component (instantiated whole), the engagement of balance control and   *)
(* the start of the gyroscope calibration.                                 *)
(*                                                                         *)
(* Everything runs on one event loop, so a handler is one atomic action.   *)
(* What interleaves are the events: the supervision timer, the balance     *)
(* iterations (which may stop for ever), the driver's configuration and    *)
(* its fault line, the inertial sensor, and the operator at the command    *)
(* line or over the radio.                                                 *)
(*                                                                         *)
(* Of the estimator this module assumes one thing, which Robot shows: an   *)
(* estimate is valid only when the measurement it was made from was.  Time *)
(* is counted in service periods.                                          *)
(***************************************************************************)
EXTENDS Integers

CONSTANTS
  Pitches,             \* the pitch angles an estimate may report
  ArmWindow,           \* |pitch| up to which arming is allowed
  FallThreshold,       \* |pitch| beyond which the robot has fallen
  MissedServiceLimit,  \* consecutive missed services that are a stalled loop
  SelfTestDeadline     \* service periods after which the self-test has failed

ASSUME PitchesAssumption == Pitches \subseteq Int /\ 0 \in Pitches
ASSUME ThresholdAssumption ==
  ArmWindow \in Nat /\ FallThreshold \in Nat /\ ArmWindow <= FallThreshold
ASSUME LimitAssumption == MissedServiceLimit \in Nat \ {0}
ASSUME DeadlineAssumption == SelfTestDeadline \in Nat \ {0}

VARIABLES
  mode, cause,         \* operating mode and latched fault cause
  latest,              \* copy of the last estimate a balance iteration brought
  serviced,            \* a balance iteration came since the last liveness check
  missedServices,      \* consecutive liveness checks without one
  elapsed,             \* service periods since construction, saturating
  driverState, driverFault, bridges,  \* of the motion actuation component
  engaged,             \* balance control produces efforts
  calibration,         \* state of the gyroscope calibration
  sampling,            \* what the inertial sensor last did
  \* For stating properties only: service periods since the last balance
  \* iteration and since the last arming, saturating.
  sinceBalance, sinceArm

supervisorVars == <<mode, cause, latest, serviced, missedServices, elapsed>>
actuationVars == <<driverState, driverFault, bridges>>
sensingVars == <<calibration, sampling>>
historyVars == <<sinceBalance, sinceArm>>
vars == <<supervisorVars, actuationVars, engaged, sensingVars, historyVars>>

Actuation == INSTANCE MotionActuation

Modes == {"init", "calibrating", "idle", "armed", "fault"}
FaultCauses == {"fall", "driverFault", "estimateInvalid", "loopStalled",
                "selfTestFailed", "calibrationFailed"}
CalibrationStates == {"uncalibrated", "calibrating", "calibrated", "failed"}
\* neverSampled, fresh, stale (the gap bound has passed), transferFailed
SamplingStates == {"never", "fresh", "stale", "transferFailed"}
Estimates == [valid : BOOLEAN, pitch : Pitches]

\* Bounds the two history counters: one more than any property speaks of.
HistoryBound == MissedServiceLimit + 1
Saturated(n, bound) == IF n < bound THEN n + 1 ELSE n

TypeOK ==
  /\ mode \in Modes
  /\ cause \in FaultCauses \cup {"none"}
  /\ latest \in Estimates
  /\ serviced \in BOOLEAN
  /\ missedServices \in 0..MissedServiceLimit
  /\ elapsed \in 0..SelfTestDeadline
  /\ Actuation!TypeOK
  /\ engaged \in BOOLEAN
  /\ calibration \in CalibrationStates
  /\ sampling \in SamplingStates
  /\ sinceBalance \in 0..HistoryBound
  /\ sinceArm \in 0..HistoryBound

Init ==
  /\ mode = "init" /\ cause = "none"
  /\ latest = [valid |-> FALSE, pitch |-> 0]
  /\ serviced = FALSE
  /\ missedServices = MissedServiceLimit
  /\ elapsed = 0
  /\ Actuation!Init
  /\ engaged = FALSE
  /\ calibration = "uncalibrated" /\ sampling = "never"
  /\ sinceBalance = HistoryBound /\ sinceArm = HistoryBound

----------------------------------------------------------------------------
Abs(x) == IF x < 0 THEN -x ELSE x

\* InertialSensing::Cause(): why a measurement read now may not be believed.
SensingCause ==
  CASE sampling = "never"          -> "neverSampled"
    [] sampling = "transferFailed" -> "transferFailed"
    [] sampling = "stale"          -> "stale"
    [] sampling = "fresh" ->
         IF calibration = "calibrated" THEN "none" ELSE "uncalibrated"

SelfTestPassed ==
  driverState = "ready" /\ SensingCause \in {"none", "uncalibrated"}
Upright == Abs(latest.pitch) <= ArmWindow
LoopServiced == serviced \/ missedServices = 0
DriverHealthy == driverState = "ready" /\ driverFault = "none"

----------------------------------------------------------------------------
(***************************************************************************)
(* Mutated forms, no part of the specification: what a plausible bug would *)
(* make of the definitions they are named after.                           *)
(***************************************************************************)
MutLeaveArmedBrakes ==
  /\ Actuation!Disable("brake")
  /\ engaged' = FALSE

MutCountServicesUnsaturated ==
  /\ missedServices' = IF serviced THEN 0 ELSE missedServices + 1
  /\ serviced' = FALSE

MutCountServicesSticky ==
  /\ missedServices' =
       IF serviced THEN 0 ELSE Saturated(missedServices, MissedServiceLimit)
  /\ UNCHANGED serviced

MutCountServicesNotConsecutive ==
  /\ missedServices' =
       IF serviced THEN missedServices ELSE Saturated(missedServices, MissedServiceLimit)
  /\ serviced' = FALSE

MutDisarmInAnyMode ==
  /\ Actuation!Disable("tristate") /\ engaged' = FALSE
  /\ mode' = "idle"
  /\ UNCHANGED <<cause, latest, serviced, missedServices, elapsed,
                 sensingVars, historyVars>>

MutSuperviseSelfTestForever ==
  /\ mode = "init"
  /\ IF SelfTestPassed
       THEN calibration' = "calibrating" /\ mode' = "calibrating"
       ELSE UNCHANGED <<mode, calibration>>
  /\ UNCHANGED <<cause, actuationVars, engaged, latest, serviced,
                 missedServices, sampling>>

MutFaultFoundTrustsArming(estimate) ==
  IF Abs(estimate.pitch) > FallThreshold THEN "fall"
  ELSE IF driverFault # "none" THEN "driverFault"
  ELSE "none"

MutDriverFaultSeenOnlyArmed == driverFault # "none" /\ mode = "armed"

----------------------------------------------------------------------------
LeaveArmed ==
  /\ Actuation!Disable("tristate")
  /\ engaged' = FALSE

\* Every entry into FAULT releases the bridges before it latches the cause.
EnterFault(faultCause) ==
  /\ IF mode = "armed"
       THEN LeaveArmed
       ELSE Actuation!Disable("tristate") /\ UNCHANGED engaged
  /\ cause' = faultCause
  /\ mode' = "fault"

StartCalibration ==
  /\ calibration' = "calibrating"
  /\ mode' = "calibrating"

\* One more mutated form.
MutSuperviseCalibrationLeavesEarly ==
  /\ mode = "calibrating"
  /\ \/ calibration # "failed" /\ mode' = "idle"
        /\ UNCHANGED <<cause, actuationVars, engaged>>
     \/ calibration = "failed" /\ EnterFault("calibrationFailed")
  /\ UNCHANGED <<latest, serviced, missedServices, sensingVars>>

----------------------------------------------------------------------------
(***************************************************************************)
(* Operator commands.  A refused command changes nothing, so only the      *)
(* accepted ones are steps.                                                *)
(***************************************************************************)
Arm ==
  /\ mode = "idle"
  /\ latest.valid /\ Upright /\ LoopServiced /\ DriverHealthy
  /\ engaged' = TRUE
  /\ mode' = "armed"
  /\ sinceArm' = 0
  /\ UNCHANGED <<cause, latest, serviced, missedServices, elapsed,
                 actuationVars, sensingVars, sinceBalance>>

Disarm ==
  /\ mode = "armed"
  /\ LeaveArmed
  /\ mode' = "idle"
  /\ UNCHANGED <<cause, latest, serviced, missedServices, elapsed,
                 sensingVars, historyVars>>

\* Acknowledges the fault: the driver's latch is cleared with it.
ClearFault ==
  /\ mode = "fault"
  /\ Actuation!ClearFault
  /\ cause' = "none"
  /\ mode' = "idle"
  /\ UNCHANGED <<latest, serviced, missedServices, elapsed, engaged,
                 sensingVars, historyVars>>

Calibrate ==
  /\ mode = "idle"
  /\ StartCalibration
  /\ UNCHANGED <<cause, latest, serviced, missedServices, elapsed,
                 actuationVars, engaged, sampling, historyVars>>

\* The command line's "tristate" and "brake" go past the supervisor.
DisableByHand(how) ==
  /\ Actuation!Disable(how)
  /\ UNCHANGED <<supervisorVars, engaged, sensingVars, historyVars>>

----------------------------------------------------------------------------
(***************************************************************************)
(* The supervision timer.                                                  *)
(***************************************************************************)
PeriodPasses ==
  /\ elapsed' = Saturated(elapsed, SelfTestDeadline)
  /\ sinceBalance' = Saturated(sinceBalance, HistoryBound)
  /\ sinceArm' = Saturated(sinceArm, HistoryBound)

SuperviseSelfTest ==
  /\ mode = "init"
  /\ \/ SelfTestPassed /\ StartCalibration
        /\ UNCHANGED <<cause, actuationVars, engaged>>
     \/ ~SelfTestPassed /\ elapsed' = SelfTestDeadline
        /\ EnterFault("selfTestFailed") /\ UNCHANGED calibration
     \/ ~SelfTestPassed /\ elapsed' < SelfTestDeadline
        /\ UNCHANGED <<mode, cause, actuationVars, engaged, calibration>>
  /\ UNCHANGED <<latest, serviced, missedServices, sampling>>

SuperviseCalibration ==
  /\ mode = "calibrating"
  /\ \/ calibration = "calibrated" /\ mode' = "idle"
        /\ UNCHANGED <<cause, actuationVars, engaged>>
     \/ calibration = "failed" /\ EnterFault("calibrationFailed")
     \/ calibration \notin {"calibrated", "failed"}
        /\ UNCHANGED <<mode, cause, actuationVars, engaged>>
  /\ UNCHANGED <<latest, serviced, missedServices, sensingVars>>

\* Read from IDLE as well as from ARMED.
DriverFaultSeen == driverFault # "none"

CountServices ==
  /\ missedServices' =
       IF serviced THEN 0 ELSE Saturated(missedServices, MissedServiceLimit)
  /\ serviced' = FALSE

\* The detector that keeps working when the balance loop has stopped.
SuperviseLiveness ==
  /\ mode \in {"idle", "armed"}
  /\ \/ DriverFaultSeen
        /\ EnterFault("driverFault")
        /\ UNCHANGED <<serviced, missedServices>>
     \/ ~DriverFaultSeen
        /\ CountServices
        /\ IF mode = "armed" /\ missedServices' >= MissedServiceLimit
             THEN EnterFault("loopStalled")
             ELSE UNCHANGED <<mode, cause, actuationVars, engaged>>
  /\ UNCHANGED <<latest, sensingVars>>

\* In FAULT the timer callback returns at once: nothing is counted.
SuperviseFault ==
  /\ mode = "fault"
  /\ UNCHANGED <<mode, cause, latest, serviced, missedServices,
                 actuationVars, engaged, sensingVars>>

Supervise ==
  /\ PeriodPasses
  /\ \/ SuperviseSelfTest
     \/ SuperviseCalibration
     \/ SuperviseLiveness
     \/ SuperviseFault

----------------------------------------------------------------------------
(***************************************************************************)
(* The balance iteration, whose first consumer is the supervisor.          *)
(***************************************************************************)
\* BalanceControl::Balance: an effort leaves only while engaged.
ControlBalance ==
  /\ IF engaged THEN Actuation!Apply ELSE UNCHANGED actuationVars
  /\ UNCHANGED <<mode, cause, engaged>>

\* What a balance iteration of an armed robot finds, the first one first.
FaultFound(estimate) ==
  IF ~estimate.valid THEN "estimateInvalid"
  ELSE IF Abs(estimate.pitch) > FallThreshold THEN "fall"
  ELSE IF driverFault # "none" THEN "driverFault"
  ELSE "none"

\* What the iteration does with the estimate it is handed.
Iterate(estimate) ==
  /\ serviced' = TRUE
  /\ latest' = estimate
  /\ sinceBalance' = 0
  /\ \/ mode # "armed"
        /\ UNCHANGED <<mode, cause, actuationVars, engaged>>
     \/ mode = "armed" /\ FaultFound(estimate) # "none"
        /\ EnterFault(FaultFound(estimate))
     \/ mode = "armed" /\ FaultFound(estimate) = "none"
        /\ ControlBalance
  /\ UNCHANGED <<missedServices, elapsed, sinceArm>>

----------------------------------------------------------------------------
(***************************************************************************)
(* Events of the motor driver and of the inertial sensor.                  *)
(***************************************************************************)
DriverConfigured(verified) ==
  /\ Actuation!Configured(verified)
  /\ UNCHANGED <<supervisorVars, engaged, sensingVars, historyVars>>

DriverFaultEdge ==
  /\ Actuation!OnFault
  /\ UNCHANGED <<supervisorVars, engaged, sensingVars, historyVars>>

\* A sample concludes a calibration, well or badly, or leaves it as it is; one
\* whose transfer failed can only fail it.  Between its two halves a sample may
\* have grown stale.
Sense(quality) ==
  /\ sampling' = quality
  /\ calibration' \in
       IF calibration # "calibrating" THEN {calibration}
       ELSE IF quality # "transferFailed" THEN {"calibrating", "calibrated", "failed"}
       ELSE {"failed"}

SampleArrives(quality) ==
  /\ Sense(quality)
  /\ UNCHANGED <<supervisorVars, actuationVars, engaged, historyVars>>

\* The arrival of a sample that starts a balance iteration is one callback: the
\* iteration is over before anything else runs.
Balance(estimate) ==
  /\ \E quality \in SamplingStates \ {"never"} : Sense(quality)
  /\ estimate.valid => SensingCause' = "none"
  /\ Iterate(estimate)

\* No sample for longer than the gap bound.
SensorFallsSilent ==
  /\ sampling = "fresh"
  /\ sampling' = "stale"
  /\ UNCHANGED <<supervisorVars, actuationVars, engaged, calibration, historyVars>>

----------------------------------------------------------------------------
Next ==
  \/ Arm
  \/ Disarm
  \/ ClearFault
  \/ Calibrate
  \/ \E how \in Actuation!DisableStates : DisableByHand(how)
  \/ Supervise
  \/ \E estimate \in Estimates : Balance(estimate)
  \/ \E verified \in BOOLEAN : DriverConfigured(verified)
  \/ DriverFaultEdge
  \/ \E quality \in SamplingStates \ {"never"} : SampleArrives(quality)
  \/ SensorFallsSilent

Spec == Init /\ [][Next]_vars

\* The supervision timer keeps running: it depends on nothing but the event
\* loop.  Nothing is assumed of the balance loop, the sensor or the driver.
FairSpec == Spec /\ WF_vars(Supervise)

----------------------------------------------------------------------------
(***************************************************************************)
(* Safety.                                                                 *)
(***************************************************************************)
\* The bridges follow efforts only in ARMED, through a configured driver whose
\* fault line has not been latched: no hand at the command line, no late driver
\* event and no exit from ARMED leaves them driven.
DrivenOnlyWhileArmed ==
  bridges = "driven" => mode = "armed" /\ DriverHealthy

\* Balance control is engaged exactly while ARMED, whichever of the detectors,
\* the operator or the timer ended the session (BalanceControl refuses motion
\* commands, and accepts tuning, by that flag).
EngagedIffArmed == engaged <=> mode = "armed"

\* A stalled loop is never armed for long: in ARMED, the last balance iteration
\* or, failing that, the arm command lies at most MissedServiceLimit service
\* periods back.
StallBounded ==
  mode = "armed" =>
    sinceBalance <= MissedServiceLimit \/ sinceArm <= MissedServiceLimit

\* A gyroscope calibration is never abandoned: while one runs the supervisor
\* waits for it, so that no second one starts and nothing arms meanwhile.
CalibrationHoldsMode == calibration = "calibrating" => mode = "calibrating"

\* Every step out of ARMED tri-states the bridges, never brakes them, and
\* disengages balance control in the same step (REQ-SAFE-003).
LeavingArmedReleases ==
  [][mode = "armed" /\ mode' # "armed" => bridges' = "released" /\ ~engaged']_vars

\* No false alarm: a stall is latched only when no balance iteration came for
\* MissedServiceLimit service periods, however the mode changed meanwhile.
StallIsReal ==
  [][cause # "loopStalled" /\ cause' = "loopStalled"
       => sinceBalance' >= MissedServiceLimit]_vars

\* The supervisor implements the drive's mode machine.
Drive == INSTANCE DriveModes WITH driving <- (bridges = "driven")
ImplementsDriveModes == Drive!Spec

----------------------------------------------------------------------------
(***************************************************************************)
(* Liveness, under FairSpec.                                               *)
(***************************************************************************)
\* INIT is left, even if the driver never answers and the sensor never samples.
SelfTestConcludes == <>(mode # "init")

\* ARMED does not outlive the balance loop: again and again either an iteration
\* has come since the last service period, or the robot is not armed.
StalledLoopDisarms == []<>(mode # "armed" \/ sinceBalance = 0)

\* A driver fault latched in IDLE or ARMED escalates to FAULT, with or without a
\* balance loop, unless the operator starts a calibration first.
DriverFaultEscalates ==
  mode \in {"idle", "armed"} /\ driverFault # "none"
    ~> mode \in {"fault", "calibrating"}

----------------------------------------------------------------------------
(***************************************************************************)
(* What the documents say and the code does not do; each is refuted by a   *)
(* run.                                                                    *)
(***************************************************************************)
\* Arming requires a loop that is being serviced: a balance iteration came
\* within the service periods that a stalled loop would have missed.
ArmsOnlyServicedLoop ==
  [][mode = "idle" /\ mode' = "armed" => sinceBalance <= MissedServiceLimit]_vars

\* A fault the motor driver reports is recorded as the fault cause: it is not
\* forgotten before it has been.
DriverFaultIsRecorded ==
  [][driverFault = "driverFault" /\ driverFault' = "none" => cause = "driverFault"]_vars

=============================================================================
