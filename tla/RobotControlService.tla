---------------------- MODULE RobotControlService ----------------------
(***************************************************************************)
(* The robot control service: what it publishes to the client of the       *)
(* Bluetooth link, and how it answers.                                     *)
(*                                                                         *)
(* A notification is handed to the characteristic, which calls back when   *)
(* it is sent.  Until then the service's buffer belongs to it, and a flag  *)
(* says so.  Of an ATT MTU the module keeps whether it is large enough for *)
(* a telemetry sample and for the description of a parameter; of a tuning  *)
(* request what its response repeats, and whether the answer is long.      *)
(***************************************************************************)

CONSTANTS
  Statuses,     \* modes with their causes, as the supervisor reports them
  Commands,     \* mode commands
  Requests,     \* tuning requests
  Unpublished, NoRequest

VARIABLES
  ticking,          \* the ticker runs
  mtu,
  modeInFlight, telemetryInFlight, tuningInFlight,
  lastReport,       \* the last mode command and its outcome
  publishedMode,    \* the value last published, or Unpublished
  modeBuffer, tuningBuffer

flags == <<modeInFlight, telemetryInFlight, tuningInFlight>>
modeVars == <<lastReport, publishedMode, modeBuffer>>
serviceVars == <<ticking, mtu, flags, modeVars, tuningBuffer>>

Outcomes == {"accepted", "refused"}
NoReport == [command |-> "none", outcome |-> "none"]
Reports == [command : Commands, outcome : Outcomes] \cup {NoReport}
ModeValues == [status : Statuses, report : Reports]
Mtus == {"default", "large"}
Responses == [request : Requests, size : {"short", "long"}]
NoResponse == [request |-> NoRequest, size |-> "short"]

TypeOK ==
  /\ ticking \in BOOLEAN
  /\ mtu \in Mtus
  /\ modeInFlight \in BOOLEAN
  /\ telemetryInFlight \in BOOLEAN
  /\ tuningInFlight \in BOOLEAN
  /\ lastReport \in Reports
  /\ publishedMode \in ModeValues \cup {Unpublished}
  /\ modeBuffer \in ModeValues \cup {Unpublished}
  /\ tuningBuffer \in Responses \cup {NoResponse}

Init ==
  /\ ticking = FALSE
  /\ mtu = "default"
  /\ modeInFlight = FALSE /\ telemetryInFlight = FALSE /\ tuningInFlight = FALSE
  /\ lastReport = NoReport
  /\ publishedMode = Unpublished
  /\ modeBuffer = Unpublished /\ tuningBuffer = NoResponse

----------------------------------------------------------------------------
\* Nothing is sent that the MTU does not carry; the rest fits any MTU.
LongFits == mtu = "large"

\* The value is composed of the last report, also of one made in this step.
PublishMode(status) ==
  LET current == [status |-> status, report |-> lastReport']
  IN IF modeInFlight \/ current = publishedMode
       THEN UNCHANGED <<publishedMode, modeBuffer, modeInFlight>>
       ELSE publishedMode' = current /\ modeBuffer' = current /\ modeInFlight' = TRUE

PublishTelemetry == telemetryInFlight' = (telemetryInFlight \/ LongFits)

----------------------------------------------------------------------------
(***************************************************************************)
(* Mutated forms, no part of the specification.                            *)
(***************************************************************************)
MutDisconnectedKeepsPublished ==
  /\ ticking' = FALSE
  /\ mtu' = "default"
  /\ modeInFlight' = FALSE /\ telemetryInFlight' = FALSE /\ tuningInFlight' = FALSE
  /\ UNCHANGED <<modeVars, tuningBuffer>>

MutDisconnectedKeepsMtu ==
  /\ ticking' = FALSE
  /\ modeInFlight' = FALSE /\ telemetryInFlight' = FALSE /\ tuningInFlight' = FALSE
  /\ publishedMode' = Unpublished
  /\ UNCHANGED <<mtu, lastReport, modeBuffer, tuningBuffer>>

MutTuningWrittenOverwrites(request, size) ==
  /\ tuningBuffer' = [request |-> request,
                      size |-> IF LongFits THEN size ELSE "short"]
  /\ tuningInFlight' = TRUE
  /\ UNCHANGED <<ticking, mtu, modeInFlight, telemetryInFlight, modeVars>>

MutTickTelemetryOnly(status) ==
  /\ ticking
  /\ PublishTelemetry
  /\ UNCHANGED <<ticking, mtu, modeInFlight, tuningInFlight, modeVars, tuningBuffer>>

MutTickOnlyOnNews(status) ==
  /\ ticking
  /\ UNCHANGED lastReport
  /\ PublishMode(status)
  /\ IF publishedMode' # publishedMode THEN PublishTelemetry
     ELSE UNCHANGED telemetryInFlight
  /\ UNCHANGED <<ticking, mtu, tuningInFlight, tuningBuffer>>

----------------------------------------------------------------------------
Connected(status) ==
  /\ ticking' = TRUE
  /\ UNCHANGED lastReport
  /\ PublishMode(status)
  /\ UNCHANGED <<mtu, telemetryInFlight, tuningInFlight, tuningBuffer>>

Disconnected ==
  /\ ticking' = FALSE
  /\ mtu' = "default"
  /\ modeInFlight' = FALSE /\ telemetryInFlight' = FALSE /\ tuningInFlight' = FALSE
  /\ publishedMode' = Unpublished
  /\ UNCHANGED <<lastReport, modeBuffer, tuningBuffer>>

AttMtuChanged(newMtu) ==
  /\ mtu' = newMtu
  /\ UNCHANGED <<ticking, flags, modeVars, tuningBuffer>>

\* The status is the one the supervisor reports after the command.
ModeWritten(command, outcome, status) ==
  /\ lastReport' = [command |-> command, outcome |-> outcome]
  /\ PublishMode(status)
  /\ UNCHANGED <<ticking, mtu, telemetryInFlight, tuningInFlight, tuningBuffer>>

\* While a response is in flight requests are ignored.  A response that does not
\* fit carries its status only.
TuningWritten(request, size) ==
  /\ ~tuningInFlight
  /\ tuningBuffer' = [request |-> request,
                      size |-> IF LongFits THEN size ELSE "short"]
  /\ tuningInFlight' = TRUE
  /\ UNCHANGED <<ticking, mtu, modeInFlight, telemetryInFlight, modeVars>>

Tick(status) ==
  /\ ticking
  /\ UNCHANGED lastReport
  /\ PublishMode(status)
  /\ PublishTelemetry
  /\ UNCHANGED <<ticking, mtu, tuningInFlight, tuningBuffer>>

\* The callbacks of the updates.
Sent(characteristic) ==
  /\ modeInFlight' = (modeInFlight /\ characteristic # "mode")
  /\ telemetryInFlight' = (telemetryInFlight /\ characteristic # "telemetry")
  /\ tuningInFlight' = (tuningInFlight /\ characteristic # "tuning")
  /\ UNCHANGED <<ticking, mtu, modeVars, tuningBuffer>>

=============================================================================
