------------------------ MODULE TelemetryRecorder ------------------------
(***************************************************************************)
(* The telemetry recorder: it stands between the control loop and the      *)
(* supervisor, passes each balance iteration on and then records what the  *)
(* iteration brought and what came of it.  Rates and velocities are copied *)
(* like the pitch and left out; an effort is zero or some.                 *)
(***************************************************************************)

VARIABLE recorded

Efforts == {"zero", "some"}
Samples(pitches, modes, causes) ==
  [pitch : pitches, effort : Efforts, mode : modes, cause : causes]

Init == recorded = [pitch |-> 0, effort |-> "zero", mode |-> "init", cause |-> "none"]

----------------------------------------------------------------------------
\* A mutated form, no part of the specification: nothing is recorded once the
\* robot is no longer armed.
MutRecordWhileArmed(pitch, effort, mode, cause) ==
  recorded' = IF mode = "armed"
                THEN [pitch |-> pitch, effort |-> effort, mode |-> mode, cause |-> cause]
                ELSE recorded

\* What the observed components say once the next stage has returned.
Record(pitch, effort, mode, cause) ==
  recorded' = [pitch |-> pitch, effort |-> effort, mode |-> mode, cause |-> cause]

=============================================================================
