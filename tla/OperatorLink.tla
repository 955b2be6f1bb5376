-------------------------- MODULE OperatorLink --------------------------
(***************************************************************************)
(* The Bluetooth link from end to end: the link's connections, the robot   *)
(* control service, the stack below it and the client beyond.              *)
(*                                                                         *)
(* Of the stack only what the service relies on is assumed.  It sends an   *)
(* update at some time or, once the connection is lost, never; a           *)
(* characteristic has one update outstanding, which the next one replaces. *)
(* It may still send an update of an earlier connection and call back late.*)
(***************************************************************************)

CONSTANTS Statuses, Commands, Requests, Unpublished, NoRequest

ASSUME StatusesAssumption == Statuses # {}
ASSUME UnpublishedAssumption ==
  Unpublished \notin [status : Statuses,
                      report : [command : Commands, outcome : {"accepted", "refused"}]
                                 \cup {[command |-> "none", outcome |-> "none"]}]
ASSUME NoRequestAssumption == NoRequest \notin Requests

VARIABLES
  ticking, mtu, modeInFlight, telemetryInFlight, tuningInFlight,
  lastReport, publishedMode, modeBuffer, tuningBuffer,  \* RobotControlService
  stackRunning, endpointWaiting,  \* the two the radio's start waits for
  state,       \* of the link, as the GAP peripheral reported it, once it exists
  status,      \* what the supervisor reports
  commander,   \* whose motion command is in force
  update,      \* the update of each characteristic that is with the stack
  seen,        \* the mode value last notified to the client in this connection
  \* For stating properties only:
  asked,       \* the request of this connection that has not been answered yet
  negotiated   \* the client has raised the MTU of this connection

Service == INSTANCE RobotControlService

serviceVars == <<ticking, mtu, modeInFlight, telemetryInFlight, tuningInFlight,
                 lastReport, publishedMode, modeBuffer, tuningBuffer>>
radioVars == <<stackRunning, endpointWaiting>>
historyVars == <<asked, negotiated>>
vars == <<serviceVars, radioVars, state, status, commander, update, seen, historyVars>>

LinkStates == {"standby", "advertising", "connected"}
Characteristics == {"mode", "telemetry", "tuning"}
\* No update, one of this connection, or one of a connection that is lost.
UpdateStates == {"none", "own", "lost"}

TypeOK ==
  /\ Service!TypeOK
  /\ stackRunning \in BOOLEAN /\ endpointWaiting \in BOOLEAN
  /\ state \in LinkStates \cup {"absent"}
  /\ status \in Statuses
  /\ commander \in {"nobody", "client", "terminal"}
  /\ update \in [Characteristics -> UpdateStates]
  /\ seen \in Service!ModeValues \cup {Unpublished}
  /\ asked \in Requests \cup {NoRequest}
  /\ negotiated \in BOOLEAN

Init ==
  /\ Service!Init
  /\ stackRunning = FALSE /\ endpointWaiting = FALSE
  /\ state = "absent"
  /\ status \in Statuses
  /\ commander = "nobody"
  /\ update = [c \in Characteristics |-> "none"]
  /\ seen = Unpublished
  /\ asked = NoRequest
  /\ negotiated = FALSE

----------------------------------------------------------------------------
(***************************************************************************)
(* The stack: an update begins with the flag that the service raises.      *)
(***************************************************************************)
Raised(flag, raised, characteristic) ==
  IF ~flag /\ raised THEN "own" ELSE update[characteristic]

HandUpdates ==
  update' = [mode      |-> Raised(modeInFlight, modeInFlight', "mode"),
             telemetry |-> Raised(telemetryInFlight, telemetryInFlight', "telemetry"),
             tuning    |-> Raised(tuningInFlight, tuningInFlight', "tuning")]

LoseUpdates ==
  update' = [c \in Characteristics |-> IF update[c] = "own" THEN "lost" ELSE update[c]]

\* An update is sent, with what its buffer holds now, and the service called
\* back.
Send(c) ==
  /\ update[c] # "none"
  /\ update' = [update EXCEPT ![c] = "none"]
  /\ Service!Sent(c)
  /\ seen' = IF c = "mode" /\ state = "connected" THEN modeBuffer ELSE seen
  /\ asked' = IF c = "tuning" /\ update[c] = "own" THEN NoRequest ELSE asked
  /\ UNCHANGED <<radioVars, state, status, commander, negotiated>>

\* An update of a lost connection is dropped, and nobody called.
Drop(c) ==
  /\ update[c] = "lost"
  /\ update' = [update EXCEPT ![c] = "none"]
  /\ UNCHANGED <<serviceVars, radioVars, state, status, commander, seen, historyVars>>

----------------------------------------------------------------------------
(***************************************************************************)
(* Mutated forms, no part of the specification.                            *)
(***************************************************************************)
\* The state is overwritten before it is asked whether there was a connection.
MutStateChangedForgets(newState) ==
  /\ state' = newState
  /\ IF newState = "connected"
       THEN Service!Connected(status) /\ HandUpdates
       ELSE UNCHANGED <<serviceVars, update>>
  /\ UNCHANGED commander

----------------------------------------------------------------------------
(***************************************************************************)
(* The radio's start: the endpoint asks for the radio and the coprocessor  *)
(* reports its stack running, in either order; the one that comes second   *)
(* creates the link, and a report that is repeated creates no second one.  *)
(***************************************************************************)
\* The link is created.
RadioReady == state' = "standby"

\* A mutated form, no part of the specification: it is not asked whether there is
\* a link already.
MutStartBluetoothAgain ==
  IF stackRunning' /\ endpointWaiting' THEN RadioReady ELSE UNCHANGED state

StartBluetoothWhenReady ==
  IF stackRunning' /\ endpointWaiting' /\ state = "absent"
    THEN RadioReady ELSE UNCHANGED state

StartBluetooth ==
  /\ ~endpointWaiting
  /\ endpointWaiting' = TRUE
  /\ UNCHANGED stackRunning
  /\ StartBluetoothWhenReady
  /\ UNCHANGED <<serviceVars, status, commander, update, seen, historyVars>>

BluetoothStackRunning ==
  /\ stackRunning' = TRUE
  /\ UNCHANGED endpointWaiting
  /\ StartBluetoothWhenReady
  /\ UNCHANGED <<serviceVars, status, commander, update, seen, historyVars>>

----------------------------------------------------------------------------
(***************************************************************************)
(* The link's connections.                                                 *)
(***************************************************************************)
\* A client connects to an advertising robot; every return to standby makes the
\* robot advertise again.
GapTransitions ==
  {<<"standby", "advertising">>, <<"standby", "connected">>,
   <<"advertising", "connected">>, <<"advertising", "standby">>,
   <<"connected", "standby">>}

\* The service is told of connections, and of the loss of one, which withdraws
\* the motion whoever commanded it.
StateChanged(newState) ==
  /\ state' = newState
  /\ \/ newState = "connected"
        /\ Service!Connected(status) /\ HandUpdates
        /\ UNCHANGED commander
     \/ newState = "standby" /\ state = "connected"
        /\ Service!Disconnected /\ LoseUpdates
        /\ commander' = "nobody"
     \/ newState # "connected" /\ ~(newState = "standby" /\ state = "connected")
        /\ UNCHANGED <<serviceVars, update, commander>>

ConnectionChanges(newState) ==
  /\ <<state, newState>> \in GapTransitions
  /\ StateChanged(newState)
  /\ seen' = Unpublished
  /\ asked' = NoRequest
  /\ negotiated' = FALSE
  /\ UNCHANGED <<radioVars, status>>

----------------------------------------------------------------------------
(***************************************************************************)
(* The client, which writes while connected, and the ticker.               *)
(***************************************************************************)
MaxAttMtuSizeChanged(newMtu) ==
  /\ state = "connected"
  /\ Service!AttMtuChanged(newMtu)
  /\ negotiated' = (negotiated \/ newMtu = "large")
  /\ UNCHANGED <<radioVars, state, status, commander, update, seen, asked>>

\* Balance control accepts the motion or refuses it.
MotionWritten ==
  /\ state = "connected"
  /\ commander' = "client"
  /\ UNCHANGED <<serviceVars, radioVars, state, status, update, seen, historyVars>>

\* An accepted command changes the supervisor's mode, a refused one nothing.
ModeWritten(command, outcome) ==
  /\ state = "connected"
  /\ status' \in IF outcome = "accepted" THEN Statuses ELSE {status}
  /\ Service!ModeWritten(command, outcome, status')
  /\ HandUpdates
  /\ UNCHANGED <<radioVars, state, commander, seen, historyVars>>

TuningWritten(request, size) ==
  /\ state = "connected"
  /\ Service!TuningWritten(request, size)
  /\ HandUpdates
  /\ asked' = IF asked = NoRequest THEN request ELSE asked
  /\ UNCHANGED <<radioVars, state, status, commander, seen, negotiated>>

Tick ==
  /\ Service!Tick(status)
  /\ HandUpdates
  /\ UNCHANGED <<radioVars, state, status, commander, seen, historyVars>>

----------------------------------------------------------------------------
(***************************************************************************)
(* The rest of the robot.                                                  *)
(***************************************************************************)
SupervisorMoves ==
  /\ status' \in Statuses
  /\ UNCHANGED <<serviceVars, radioVars, state, commander, update, seen, historyVars>>

\* The terminal commands motion, or the robot is disarmed.
CommanderChanges ==
  /\ commander' \in {"terminal", "nobody"}
  /\ UNCHANGED <<serviceVars, radioVars, state, status, update, seen, historyVars>>

----------------------------------------------------------------------------
Next ==
  \/ StartBluetooth
  \/ BluetoothStackRunning
  \/ \E newState \in LinkStates : ConnectionChanges(newState)
  \/ \E newMtu \in Service!Mtus : MaxAttMtuSizeChanged(newMtu)
  \/ MotionWritten
  \/ \E command \in Commands, outcome \in Service!Outcomes : ModeWritten(command, outcome)
  \/ \E request \in Requests, size \in {"short", "long"} : TuningWritten(request, size)
  \/ Tick
  \/ \E c \in Characteristics : Send(c)
  \/ \E c \in Characteristics : Drop(c)
  \/ SupervisorMoves
  \/ CommanderChanges

\* The ticker repeats, and the stack sends the updates of a lasting connection.
Spec == Init /\ [][Next]_vars
FairSpec ==
  Spec /\ WF_vars(Tick) /\ \A c \in Characteristics : WF_vars(Send(c))

----------------------------------------------------------------------------
(***************************************************************************)
(* Safety.                                                                 *)
(***************************************************************************)
\* The service skips a notification only because the client has that value, or
\* is about to get it: what it believes published is the client's last value or
\* is still with the stack, unaltered, in this very connection.
PublishedReachesClient ==
  state = "connected" =>
    /\ publishedMode # Unpublished
    /\ \/ update["mode"] = "own" /\ modeBuffer = publishedMode
       \/ update["mode"] # "own" /\ seen = publishedMode

\* Until a request is answered, its own response stays with the stack: no later
\* request and no reconnection replaces it.
ResponseIsTheRequests ==
  asked # NoRequest =>
    /\ update["tuning"] = "own" /\ tuningInFlight
    /\ tuningBuffer.request = asked

\* Nothing long is handed over in a connection whose client has not raised the
\* MTU itself, whatever earlier clients had negotiated.
LongOnlyWhenNegotiated ==
  /\ update["telemetry"] = "own" => negotiated
  /\ update["tuning"] = "own" /\ tuningBuffer.size = "long" => negotiated

\* A motion command of the client does not outlive its connection.
ClientMovesWhileConnected == commander = "client" => state = "connected"

\* There is a link as soon as there can be one, whichever came first, and it is
\* the only one: no repeated report takes a link in use back to its start.
LinkOnceBothReady ==
  [][/\ state' # "absent" <=> stackRunning' /\ endpointWaiting'
     /\ state = "connected" /\ state' # "connected" => publishedMode' = Unpublished]_vars

----------------------------------------------------------------------------
(***************************************************************************)
(* Liveness, under FairSpec.                                               *)
(***************************************************************************)
\* A client that stays connected learns the supervisor's mode once it settles.
ClientLearnsMode ==
  \A s \in Statuses :
    <>[](state = "connected" /\ status = s)
      => <>[](seen # Unpublished /\ seen.status = s)

\* A client that stays connected under a large MTU keeps being sent telemetry.
TelemetryKeepsComing ==
  <>[](state = "connected" /\ mtu = "large")
    => []<>telemetryInFlight /\ []<>~telemetryInFlight

=============================================================================
