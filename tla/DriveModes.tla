--------------------------- MODULE DriveModes ---------------------------
(***************************************************************************)
(* What the safety supervisor promises of the drive, with its detectors    *)
(* left out: in which order modes follow each other, which fault may be    *)
(* latched from where, and that the bridges are driven in no mode but      *)
(* ARMED.  SafetySupervisor implements it.                                 *)
(***************************************************************************)

VARIABLES
  mode,    \* operating mode
  cause,   \* latched fault cause
  driving  \* the bridges follow efforts

modeVars == <<mode, cause, driving>>

\* The faults each mode can end in.  None leads out of FAULT.
FaultsOf(m) ==
  CASE m = "init"        -> {"selfTestFailed"}
    [] m = "calibrating" -> {"calibrationFailed"}
    [] m = "idle"        -> {"driverFault"}
    [] m = "armed"       -> {"fall", "driverFault", "estimateInvalid", "loopStalled"}
    [] m = "fault"       -> {}

Init == mode = "init" /\ cause = "none" /\ driving = FALSE

StartCalibrating ==
  /\ mode \in {"init", "idle"}
  /\ mode' = "calibrating"
  /\ UNCHANGED <<cause, driving>>

FinishCalibrating ==
  /\ mode = "calibrating"
  /\ mode' = "idle"
  /\ UNCHANGED <<cause, driving>>

\* Arming permits the drive; it does not drive yet.
Permit ==
  /\ mode = "idle"
  /\ mode' = "armed"
  /\ UNCHANGED <<cause, driving>>

\* Leaving ARMED and stopping the drive are one step.
Withdraw ==
  /\ mode = "armed"
  /\ mode' = "idle"
  /\ driving' = FALSE
  /\ UNCHANGED cause

Trip(c) ==
  /\ c \in FaultsOf(mode)
  /\ mode' = "fault"
  /\ cause' = c
  /\ driving' = FALSE

Acknowledge ==
  /\ mode = "fault"
  /\ mode' = "idle"
  /\ cause' = "none"
  /\ UNCHANGED driving

Drive ==
  /\ mode = "armed"
  /\ driving' = TRUE
  /\ UNCHANGED <<mode, cause>>

\* The driver's fault line, or a hand at the command line, stops the drive.
Interrupt ==
  /\ driving' = FALSE
  /\ UNCHANGED <<mode, cause>>

Next ==
  \/ StartCalibrating
  \/ FinishCalibrating
  \/ Permit
  \/ Withdraw
  \/ \E c \in FaultsOf(mode) : Trip(c)
  \/ Acknowledge
  \/ Drive
  \/ Interrupt

Spec == Init /\ [][Next]_modeVars

=============================================================================
