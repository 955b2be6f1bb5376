----------------------- MODULE SupervisedTelemetry -----------------------
(***************************************************************************)
(* What telemetry tells of the supervised robot.  To the supervisor and    *)
(* its surroundings are added the effort that balance control last applied *)
(* and the recorder, which looks at both once in each balance iteration    *)
(* and at no other time.                                                   *)
(***************************************************************************)
EXTENDS SafetySupervisor

VARIABLES
  applied,   \* the effort balance control reports as applied
  recorded   \* the sample telemetry reports

Recorder == INSTANCE TelemetryRecorder

telemetryVars == <<vars, applied, recorded>>

Samples == Recorder!Samples(Pitches, Modes, FaultCauses \cup {"none"})

TelemetryTypeOK ==
  /\ TypeOK
  /\ applied \in Recorder!Efforts
  /\ recorded \in Samples

TelemetryInit ==
  /\ Init
  /\ applied = "zero"
  /\ Recorder!Init

----------------------------------------------------------------------------
(***************************************************************************)
(* Mutated forms, no part of the specification.                            *)
(***************************************************************************)
MutBalanceRecordsFirst(estimate) ==
  /\ Balance(estimate)
  /\ \/ mode = "armed" /\ mode' = "armed" /\ applied' \in Recorder!Efforts
     \/ mode = "armed" /\ mode' # "armed" /\ applied' = "zero"
     \/ mode # "armed" /\ UNCHANGED applied
  /\ Recorder!Record(estimate.pitch, applied, mode, cause)

----------------------------------------------------------------------------
\* BalanceControl::Disengage forgets the effort; engaging leaves it alone.
Disengaging == applied' = IF engaged /\ ~engaged' THEN "zero" ELSE applied

\* A balance iteration goes to the supervisor, and from an armed one to balance
\* control, which applies what its strategy asks for.
RecordedBalance(estimate) ==
  /\ Balance(estimate)
  /\ IF engaged /\ engaged' THEN applied' \in Recorder!Efforts ELSE Disengaging
  /\ Recorder!Record(estimate.pitch, applied', mode', cause')

\* Everything else goes unrecorded: commands, the supervision timer, the driver
\* and the sensor.
Unrecorded ==
  \/ Arm
  \/ Disarm
  \/ ClearFault
  \/ Calibrate
  \/ \E how \in Actuation!DisableStates : DisableByHand(how)
  \/ Supervise
  \/ \E verified \in BOOLEAN : DriverConfigured(verified)
  \/ DriverFaultEdge
  \/ \E quality \in SamplingStates \ {"never"} : SampleArrives(quality)
  \/ SensorFallsSilent

Elsewhere == Unrecorded /\ Disengaging /\ UNCHANGED recorded

TelemetryNext ==
  \/ \E estimate \in Estimates : RecordedBalance(estimate)
  \/ Elsewhere

\* The supervision timer repeats; the balance loop may stop for ever.
TelemetrySpec == TelemetryInit /\ [][TelemetryNext]_telemetryVars
TelemetryFairSpec == TelemetrySpec /\ WF_telemetryVars(Supervise /\ Elsewhere)

----------------------------------------------------------------------------
(***************************************************************************)
(* Properties.                                                             *)
(***************************************************************************)
\* A sample is of one iteration: a robot reported as armed is reported upright,
\* an effort only in ARMED, and a cause exactly in FAULT, although the iteration
\* itself may end the session and clear the effort (REQ-TELEM-005).
SampleIsCoherent ==
  /\ recorded.mode = "armed" => Abs(recorded.pitch) <= FallThreshold
  /\ recorded.effort # "zero" => recorded.mode = "armed"
  /\ recorded.cause # "none" <=> recorded.mode = "fault"

\* While the loop keeps running, a fault that is not cleared is reported with its
\* cause, whoever detected it, the iteration or the supervision timer.
ServicedFaultIsReported ==
  []<>(sinceBalance = 0)
    => (mode = "fault"
          ~> \/ mode # "fault"
             \/ recorded.mode = "fault" /\ recorded.cause = cause)

=============================================================================
