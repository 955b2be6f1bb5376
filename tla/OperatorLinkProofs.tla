----------------------- MODULE OperatorLinkProofs -----------------------
(***************************************************************************)
(* Proofs about the operator link: what the service holds of the client is *)
(* true, its responses are those asked for, and nothing of one connection  *)
(* is taken over into the next.                                            *)
(***************************************************************************)
EXTENDS OperatorLink, TLAPS

\* A flag is up exactly while an update of this connection is with the stack.
FlagsAreUpdates ==
  /\ modeInFlight <=> update["mode"] = "own"
  /\ telemetryInFlight <=> update["telemetry"] = "own"
  /\ tuningInFlight <=> update["tuning"] = "own"

\* Without a connection the service is as new, but for the last report.
Detached ==
  state # "connected" =>
    /\ ~ticking
    /\ mtu = "default"
    /\ ~modeInFlight /\ ~telemetryInFlight /\ ~tuningInFlight
    /\ publishedMode = Unpublished

MtuIsNegotiated == mtu = "large" => negotiated

\* Connecting replaces what an earlier connection left of the mode.
ModeIsOwn == state = "connected" => update["mode"] # "lost"

IInv ==
  /\ TypeOK
  /\ FlagsAreUpdates
  /\ Detached
  /\ MtuIsNegotiated
  /\ ModeIsOwn
  /\ PublishedReachesClient
  /\ ResponseIsTheRequests
  /\ LongOnlyWhenNegotiated
  /\ ClientMovesWhileConnected
----------------------------------------------------------------------------
\* What the radio's start waits for plays no part in most of the proofs.
USE DEF radioVars

LEMMA Unlike == Unpublished \notin Service!ModeValues
BY UnpublishedAssumption
   DEF Service!ModeValues, Service!Reports, Service!Outcomes, Service!NoReport

LEMMA SmallSets ==
  /\ Service!NoReport \in Service!Reports
  /\ \A c \in Commands, o \in Service!Outcomes :
       [command |-> c, outcome |-> o] \in Service!Reports
  /\ \A s \in Statuses, r \in Service!Reports :
       [status |-> s, report |-> r] \in Service!ModeValues
BY DEF Service!Reports, Service!ModeValues

\* What publishing does: nothing while an update is in flight or no news has
\* come, else a new update of the value that is then held to be published.
LEMMA PublishModeSettles ==
  ASSUME IInv, NEW s \in Statuses, lastReport' \in Service!Reports,
         Service!PublishMode(s)
  PROVE  /\ publishedMode' \in Service!ModeValues \cup {Unpublished}
         /\ modeBuffer' \in Service!ModeValues \cup {Unpublished}
         /\ modeInFlight' \in BOOLEAN
         /\ modeInFlight => modeInFlight'
         /\ \/ /\ UNCHANGED <<publishedMode, modeBuffer, modeInFlight>>
               /\ modeInFlight \/ publishedMode # Unpublished
            \/ /\ ~modeInFlight /\ modeInFlight'
               /\ publishedMode' \in Service!ModeValues
               /\ modeBuffer' = publishedMode'
BY Unlike, SmallSets DEF IInv, TypeOK, Service!TypeOK, Service!PublishMode

\* What handing over does: each flag that was raised makes an own update.
LEMMA HandUpdatesTracks ==
  ASSUME IInv, HandUpdates,
         modeInFlight' \in BOOLEAN, telemetryInFlight' \in BOOLEAN,
         tuningInFlight' \in BOOLEAN,
         modeInFlight => modeInFlight', telemetryInFlight => telemetryInFlight',
         tuningInFlight => tuningInFlight'
  PROVE  /\ update' \in [Characteristics -> UpdateStates]
         /\ FlagsAreUpdates'
BY DEF IInv, TypeOK, Service!TypeOK, FlagsAreUpdates, HandUpdates, Raised,
       Characteristics, UpdateStates

LEMMA InitEstablishes == Init => IInv
BY SmallSets, StatusesAssumption
   DEF Init, Service!Init, IInv, TypeOK, Service!TypeOK, FlagsAreUpdates, Detached,
       MtuIsNegotiated, ModeIsOwn, PublishedReachesClient, ResponseIsTheRequests,
       LongOnlyWhenNegotiated, ClientMovesWhileConnected, LinkStates,
       Characteristics, UpdateStates, Service!Mtus, Service!NoResponse,
       Service!Responses

----------------------------------------------------------------------------
LEMMA SendPreserves ==
  ASSUME IInv, NEW c \in Characteristics, Send(c)
  PROVE  IInv'
<1> USE DEF IInv, TypeOK, Service!TypeOK, Send, Service!Sent
<1>1. update' \in [Characteristics -> UpdateStates]
  BY DEF UpdateStates
<1>2. TypeOK'
  BY <1>1 DEF Service!modeVars
<1>3. FlagsAreUpdates'
  BY DEF FlagsAreUpdates, Characteristics
<1>4. Detached' /\ MtuIsNegotiated'
  BY DEF Detached, MtuIsNegotiated, Service!modeVars
<1>5. \A d \in Characteristics : update'[d] = IF d = c THEN "none" ELSE update[d]
  OBVIOUS
<1>6. PublishedReachesClient' /\ ModeIsOwn'
  <2>1. CASE c = "mode"
    BY <1>5, <2>1 DEF PublishedReachesClient, ModeIsOwn, Service!modeVars, UpdateStates
  <2>2. CASE c # "mode"
    BY <1>5, <2>2 DEF PublishedReachesClient, ModeIsOwn, Characteristics,
                      Service!modeVars
  <2>. QED  BY <2>1, <2>2
<1>7. ResponseIsTheRequests'
  BY DEF ResponseIsTheRequests, Characteristics
<1>8. LongOnlyWhenNegotiated'
  BY <1>5 DEF LongOnlyWhenNegotiated, Characteristics
<1>9. ClientMovesWhileConnected'
  BY DEF ClientMovesWhileConnected
<1>. QED  BY <1>2, <1>3, <1>4, <1>6, <1>7, <1>8, <1>9

\* The link that comes to be finds the service as it was made.
LEMMA RadioPreserves ==
  ASSUME IInv, StartBluetooth \/ BluetoothStackRunning
  PROVE  IInv'
<1> USE DEF StartBluetooth, BluetoothStackRunning, StartBluetoothWhenReady, RadioReady,
            serviceVars, historyVars
<1>1. /\ stackRunning' \in BOOLEAN /\ endpointWaiting' \in BOOLEAN
      /\ state' \in LinkStates \cup {"absent"}
      /\ state' = "connected" <=> state = "connected"
  BY DEF IInv, TypeOK, LinkStates
<1>2. TypeOK'
  BY <1>1 DEF IInv, TypeOK, Service!TypeOK
<1>3. FlagsAreUpdates' /\ Detached' /\ MtuIsNegotiated' /\ ModeIsOwn'
  BY <1>1 DEF IInv, FlagsAreUpdates, Detached, MtuIsNegotiated, ModeIsOwn
<1>4. /\ PublishedReachesClient' /\ ResponseIsTheRequests'
      /\ LongOnlyWhenNegotiated' /\ ClientMovesWhileConnected'
  BY <1>1 DEF IInv, PublishedReachesClient, ResponseIsTheRequests,
              LongOnlyWhenNegotiated, ClientMovesWhileConnected
<1>. QED  BY <1>2, <1>3, <1>4 DEF IInv

LEMMA DropPreserves ==
  ASSUME IInv, NEW c \in Characteristics, Drop(c)
  PROVE  IInv'
<1> USE DEF IInv, Drop, serviceVars, historyVars
<1>1. TypeOK'
  BY DEF TypeOK, Service!TypeOK, UpdateStates
<1>2. FlagsAreUpdates' /\ Detached' /\ MtuIsNegotiated' /\ ModeIsOwn'
  BY DEF TypeOK, FlagsAreUpdates, Detached, MtuIsNegotiated, ModeIsOwn,
         Characteristics
<1>3. PublishedReachesClient' /\ ResponseIsTheRequests'
  BY DEF TypeOK, PublishedReachesClient, ResponseIsTheRequests, Characteristics
<1>4. LongOnlyWhenNegotiated' /\ ClientMovesWhileConnected'
  BY DEF TypeOK, LongOnlyWhenNegotiated, ClientMovesWhileConnected, Characteristics
<1>. QED  BY <1>1, <1>2, <1>3, <1>4

----------------------------------------------------------------------------
\* A connection begins with an update of the mode.
LEMMA ConnectingPreserves ==
  ASSUME IInv, state # "connected", ConnectionChanges("connected")
  PROVE  IInv'
<1> USE DEF IInv, ConnectionChanges, StateChanged
<1>1. Service!Connected(status) /\ HandUpdates /\ UNCHANGED commander
  OBVIOUS
<1>2. lastReport' = lastReport /\ Service!PublishMode(status)
  BY <1>1 DEF Service!Connected
<1>3. /\ ~modeInFlight /\ modeInFlight'
      /\ publishedMode' \in Service!ModeValues /\ modeBuffer' = publishedMode'
  BY <1>2, PublishModeSettles DEF TypeOK, Service!TypeOK, Detached
<1>4. update' \in [Characteristics -> UpdateStates] /\ FlagsAreUpdates'
  BY <1>1, <1>3, HandUpdatesTracks DEF TypeOK, Service!TypeOK, Service!Connected
<1>5. TypeOK'
  BY <1>1, <1>2, <1>3, <1>4 DEF TypeOK, Service!TypeOK, Service!Connected, LinkStates
<1>6. Detached' /\ MtuIsNegotiated'
  BY <1>1 DEF Detached, MtuIsNegotiated, Service!Connected
<1>7. PublishedReachesClient' /\ ModeIsOwn'
  BY <1>3, <1>4, Unlike DEF PublishedReachesClient, FlagsAreUpdates, ModeIsOwn
<1>8. ResponseIsTheRequests' /\ ClientMovesWhileConnected'
  BY <1>1 DEF ResponseIsTheRequests, ClientMovesWhileConnected
<1>9. LongOnlyWhenNegotiated'
  BY <1>1, <1>4 DEF LongOnlyWhenNegotiated, FlagsAreUpdates, Detached, Service!Connected
<1>. QED  BY <1>4, <1>5, <1>6, <1>7, <1>8, <1>9

\* The loss of a connection leaves nothing in flight.
LEMMA LosingPreserves ==
  ASSUME IInv, state = "connected", ConnectionChanges("standby")
  PROVE  IInv'
<1> USE DEF IInv, ConnectionChanges, StateChanged
<1>1. Service!Disconnected /\ LoseUpdates /\ commander' = "nobody"
  OBVIOUS
<1>2. update' \in [Characteristics -> UpdateStates]
  BY <1>1 DEF LoseUpdates, UpdateStates, TypeOK
<1>3. \A c \in Characteristics : update'[c] # "own"
  BY <1>1 DEF LoseUpdates
<1>4. TypeOK'
  BY <1>1, <1>2 DEF TypeOK, Service!TypeOK, Service!Disconnected, LinkStates,
                    Service!Mtus
<1>5. FlagsAreUpdates' /\ Detached' /\ MtuIsNegotiated'
  BY <1>1, <1>3 DEF FlagsAreUpdates, Detached, MtuIsNegotiated, Service!Disconnected,
                    Characteristics
<1>6. PublishedReachesClient' /\ ModeIsOwn' /\ ResponseIsTheRequests'
  BY <1>1 DEF PublishedReachesClient, ModeIsOwn, ResponseIsTheRequests
<1>7. LongOnlyWhenNegotiated' /\ ClientMovesWhileConnected'
  BY <1>1, <1>3 DEF LongOnlyWhenNegotiated, ClientMovesWhileConnected, Characteristics
<1>. QED  BY <1>4, <1>5, <1>6, <1>7

LEMMA ConnectionChangesPreserves ==
  ASSUME IInv, NEW newState \in LinkStates, ConnectionChanges(newState)
  PROVE  IInv'
<1>1. CASE newState = "connected"
  BY <1>1, ConnectingPreserves DEF ConnectionChanges, GapTransitions
<1>2. CASE newState = "standby" /\ state = "connected"
  BY <1>2, LosingPreserves
<1>3. CASE newState # "connected" /\ ~(newState = "standby" /\ state = "connected")
  <2>1. state # "connected" /\ state' # "connected" /\ state' \in LinkStates
    BY <1>3 DEF ConnectionChanges, StateChanged, GapTransitions
  <2>2. UNCHANGED <<serviceVars, radioVars, update, commander, status>>
    BY <1>3 DEF ConnectionChanges, StateChanged
  <2>3. seen' = Unpublished /\ asked' = NoRequest /\ ~negotiated' /\ negotiated' \in BOOLEAN
    BY DEF ConnectionChanges
  <2>4. TypeOK'
    BY <2>1, <2>2, <2>3 DEF IInv, TypeOK, Service!TypeOK, serviceVars
  <2>5. FlagsAreUpdates' /\ Detached' /\ MtuIsNegotiated'
    BY <2>1, <2>2 DEF IInv, FlagsAreUpdates, Detached, MtuIsNegotiated, serviceVars
  <2>6. /\ PublishedReachesClient' /\ ModeIsOwn'
        /\ ResponseIsTheRequests' /\ ClientMovesWhileConnected'
    BY <2>1, <2>2, <2>3 DEF IInv, PublishedReachesClient, ModeIsOwn,
                            ResponseIsTheRequests, ClientMovesWhileConnected,
                            serviceVars
  <2>7. LongOnlyWhenNegotiated'
    BY <2>1, <2>2 DEF IInv, LongOnlyWhenNegotiated, FlagsAreUpdates, Detached, serviceVars
  <2>. QED  BY <2>4, <2>5, <2>6, <2>7 DEF IInv
<1>. QED  BY <1>1, <1>2, <1>3

----------------------------------------------------------------------------
\* The ticker and a mode command publish the mode, and at most start telemetry.
LEMMA PublishingPreserves ==
  ASSUME IInv, NEW s \in Statuses, lastReport' \in Service!Reports,
         Service!PublishMode(s), HandUpdates, status' \in Statuses,
         state = "connected",
         \/ telemetryInFlight' = telemetryInFlight
         \/ telemetryInFlight' = (telemetryInFlight \/ mtu = "large"),
         UNCHANGED <<ticking, mtu, tuningInFlight, tuningBuffer, radioVars, state, commander, seen,
                     historyVars>>
  PROVE  IInv'
<1> USE DEF IInv, historyVars
<1>1. /\ publishedMode' \in Service!ModeValues \cup {Unpublished}
      /\ modeBuffer' \in Service!ModeValues \cup {Unpublished}
      /\ modeInFlight' \in BOOLEAN
      /\ modeInFlight => modeInFlight'
  BY PublishModeSettles
<1>2. \/ UNCHANGED <<publishedMode, modeBuffer, modeInFlight>>
      \/ /\ ~modeInFlight /\ modeInFlight'
         /\ publishedMode' \in Service!ModeValues /\ modeBuffer' = publishedMode'
  BY PublishModeSettles
<1>3. /\ telemetryInFlight' \in BOOLEAN /\ telemetryInFlight => telemetryInFlight'
      /\ telemetryInFlight' => telemetryInFlight \/ mtu = "large"
  <2>1. telemetryInFlight \in BOOLEAN
    BY DEF TypeOK, Service!TypeOK
  <2>2. CASE telemetryInFlight' = telemetryInFlight
    BY <2>1, <2>2
  <2>3. CASE telemetryInFlight' = (telemetryInFlight \/ mtu = "large")
    BY <2>1, <2>3, Zenon
  <2>. QED  BY <2>2, <2>3
<1>4. update' \in [Characteristics -> UpdateStates] /\ FlagsAreUpdates'
  BY <1>1, <1>3, HandUpdatesTracks DEF TypeOK, Service!TypeOK
<1>5. TypeOK'
  BY <1>1, <1>3, <1>4 DEF TypeOK, Service!TypeOK
<1>6. Detached' /\ MtuIsNegotiated'
  BY DEF Detached, MtuIsNegotiated
<1>7. PublishedReachesClient'
  <2>1. CASE ~modeInFlight /\ modeInFlight'
    <3>1. publishedMode' \in Service!ModeValues /\ modeBuffer' = publishedMode'
      BY <1>2, <2>1, Zenon
    <3>. QED  BY <2>1, <3>1, <1>4, Unlike DEF PublishedReachesClient, FlagsAreUpdates
  <2>2. CASE ~(~modeInFlight /\ modeInFlight')
    <3>1. UNCHANGED <<publishedMode, modeBuffer, modeInFlight>>
      BY <1>2, <2>2, Zenon
    <3>2. update'["mode"] = "own" <=> update["mode"] = "own"
      BY <1>4, <3>1 DEF FlagsAreUpdates
    <3>. QED  BY <3>1, <3>2 DEF PublishedReachesClient
  <2>. QED  BY <2>1, <2>2
<1>8. ModeIsOwn' /\ update'["tuning"] = update["tuning"]
  BY DEF ModeIsOwn, HandUpdates, Raised
<1>9. ResponseIsTheRequests' /\ ClientMovesWhileConnected'
  BY <1>8 DEF ResponseIsTheRequests, ClientMovesWhileConnected
<1>10. LongOnlyWhenNegotiated'
  BY <1>3, <1>4, <1>8 DEF LongOnlyWhenNegotiated, FlagsAreUpdates, MtuIsNegotiated
<1>. QED  BY <1>4, <1>5, <1>6, <1>7, <1>8, <1>9, <1>10

LEMMA TickPreserves ==
  ASSUME IInv, Tick
  PROVE  IInv'
<1>1. /\ state = "connected" /\ status \in Statuses
      /\ lastReport \in Service!Reports
  BY DEF IInv, TypeOK, Service!TypeOK, Detached, Tick, Service!Tick
<1>. QED  BY <1>1, PublishingPreserves
          DEF Tick, Service!Tick, Service!PublishTelemetry, Service!LongFits

LEMMA ModeWrittenPreserves ==
  ASSUME IInv, NEW command \in Commands, NEW outcome \in Service!Outcomes,
         ModeWritten(command, outcome)
  PROVE  IInv'
<1>1. status' \in Statuses
  BY DEF IInv, TypeOK, ModeWritten
<1>2. lastReport' \in Service!Reports
  BY SmallSets DEF ModeWritten, Service!ModeWritten
<1>. QED  BY <1>1, <1>2, PublishingPreserves DEF ModeWritten, Service!ModeWritten

\* A request is taken only when no response is in flight, so that it is the one
\* asked.
LEMMA TuningWrittenPreserves ==
  ASSUME IInv, NEW request \in Requests, NEW size \in {"short", "long"},
         TuningWritten(request, size)
  PROVE  IInv'
<1> USE DEF IInv, TuningWritten, Service!TuningWritten, Service!flags
<1>1. update' \in [Characteristics -> UpdateStates] /\ FlagsAreUpdates'
  BY HandUpdatesTracks DEF TypeOK, Service!TypeOK
<1>2. asked = NoRequest /\ asked' = request
  BY DEF ResponseIsTheRequests
<1>3. TypeOK'
  BY <1>1, <1>2 DEF TypeOK, Service!TypeOK, Service!Responses, Service!modeVars
<1>4. Detached' /\ MtuIsNegotiated'
  BY DEF Detached, MtuIsNegotiated
<1>5. /\ update'["mode"] = update["mode"] /\ update'["telemetry"] = update["telemetry"]
      /\ update'["tuning"] = "own"
  BY <1>1 DEF HandUpdates, Raised, FlagsAreUpdates, TypeOK, Service!TypeOK
<1>6. PublishedReachesClient' /\ ModeIsOwn' /\ ClientMovesWhileConnected'
  BY <1>5 DEF PublishedReachesClient, ModeIsOwn, ClientMovesWhileConnected,
              Service!modeVars
<1>7. ResponseIsTheRequests'
  BY <1>2, <1>5 DEF ResponseIsTheRequests
<1>8. LongOnlyWhenNegotiated'
  BY <1>5 DEF LongOnlyWhenNegotiated, MtuIsNegotiated, Service!LongFits
<1>. QED  BY <1>1, <1>3, <1>4, <1>6, <1>7, <1>8

LEMMA MaxAttMtuSizeChangedPreserves ==
  ASSUME IInv, NEW newMtu \in Service!Mtus, MaxAttMtuSizeChanged(newMtu)
  PROVE  IInv'
<1> USE DEF IInv, MaxAttMtuSizeChanged, Service!AttMtuChanged, Service!flags,
            Service!modeVars
<1>1. TypeOK'
  BY DEF TypeOK, Service!TypeOK
<1>2. FlagsAreUpdates' /\ Detached' /\ MtuIsNegotiated' /\ ModeIsOwn'
  BY DEF FlagsAreUpdates, Detached, MtuIsNegotiated, ModeIsOwn
<1>3. PublishedReachesClient' /\ ResponseIsTheRequests' /\ LongOnlyWhenNegotiated'
  BY DEF PublishedReachesClient, ResponseIsTheRequests, LongOnlyWhenNegotiated
<1>4. ClientMovesWhileConnected'
  BY DEF ClientMovesWhileConnected
<1>. QED  BY <1>1, <1>2, <1>3, <1>4

\* The client's motion, the supervisor's and the terminal's moves do not touch the
\* service.
LEMMA OthersPreserve ==
  ASSUME IInv, MotionWritten \/ SupervisorMoves \/ CommanderChanges
  PROVE  IInv'
<1> USE DEF IInv, MotionWritten, SupervisorMoves, CommanderChanges, serviceVars,
            historyVars
<1>1. TypeOK'
  BY DEF TypeOK, Service!TypeOK
<1>2. FlagsAreUpdates' /\ Detached' /\ MtuIsNegotiated' /\ ModeIsOwn'
  BY DEF FlagsAreUpdates, Detached, MtuIsNegotiated, ModeIsOwn
<1>3. PublishedReachesClient' /\ ResponseIsTheRequests' /\ LongOnlyWhenNegotiated'
  BY DEF PublishedReachesClient, ResponseIsTheRequests, LongOnlyWhenNegotiated
<1>4. ClientMovesWhileConnected'
  BY DEF ClientMovesWhileConnected
<1>. QED  BY <1>1, <1>2, <1>3, <1>4

LEMMA StutteringPreserves == IInv /\ UNCHANGED vars => IInv'
<1> SUFFICES ASSUME IInv, UNCHANGED vars PROVE IInv'
  OBVIOUS
<1> USE DEF IInv, vars, serviceVars, historyVars
<1>1. TypeOK'
  BY DEF TypeOK, Service!TypeOK
<1>2. FlagsAreUpdates' /\ Detached' /\ MtuIsNegotiated' /\ ModeIsOwn'
  BY DEF FlagsAreUpdates, Detached, MtuIsNegotiated, ModeIsOwn
<1>3. PublishedReachesClient' /\ ResponseIsTheRequests' /\ LongOnlyWhenNegotiated'
  BY DEF PublishedReachesClient, ResponseIsTheRequests, LongOnlyWhenNegotiated
<1>4. ClientMovesWhileConnected'
  BY DEF ClientMovesWhileConnected
<1>. QED  BY <1>1, <1>2, <1>3, <1>4

----------------------------------------------------------------------------
LEMMA Inductive == Spec => []IInv
<1>1. IInv /\ [Next]_vars => IInv'
  BY ConnectionChangesPreserves, MaxAttMtuSizeChangedPreserves, OthersPreserve,
     ModeWrittenPreserves, TuningWrittenPreserves, TickPreserves, SendPreserves,
     DropPreserves, RadioPreserves, StutteringPreserves DEF Next
<1>. QED  BY InitEstablishes, <1>1, PTL DEF Spec

\* Type correctness, for all statuses, commands and requests.
THEOREM TypeCorrect == Spec => []TypeOK
BY Inductive, PTL DEF IInv

\* What the service believes published the client has, or is about to get.
THEOREM PublishedReachesClientAlways == Spec => []PublishedReachesClient
BY Inductive, PTL DEF IInv

\* A response in flight is that of the request asked, until it is answered.
THEOREM ResponseIsTheRequestsAlways == Spec => []ResponseIsTheRequests
BY Inductive, PTL DEF IInv

\* No client is sent more than the MTU it has negotiated carries.
THEOREM LongOnlyWhenNegotiatedAlways == Spec => []LongOnlyWhenNegotiated
BY Inductive, PTL DEF IInv

\* A client's motion command ends with its connection.
THEOREM ClientMovesWhileConnectedAlways == Spec => []ClientMovesWhileConnected
BY Inductive, PTL DEF IInv

----------------------------------------------------------------------------
\* There is a link exactly when both have reported what its start waits for.
LinkExists == state # "absent" <=> stackRunning /\ endpointWaiting

LEMMA LinkExistsAlways == Spec => []LinkExists
<1>1. Init => LinkExists
  BY DEF Init, LinkExists
<1>2. LinkExists /\ [Next]_vars => LinkExists'
  <2> SUFFICES ASSUME LinkExists, [Next]_vars  PROVE LinkExists'
    OBVIOUS
  <2>1. CASE StartBluetooth \/ BluetoothStackRunning
    BY <2>1 DEF LinkExists, StartBluetooth, BluetoothStackRunning,
                StartBluetoothWhenReady, RadioReady
  <2>2. CASE \E newState \in LinkStates : ConnectionChanges(newState)
    BY <2>2 DEF LinkExists, ConnectionChanges, StateChanged, GapTransitions, LinkStates
  <2>3. CASE UNCHANGED <<radioVars, state>>
    BY <2>3 DEF LinkExists
  <2>. QED
    BY <2>1, <2>2, <2>3 DEF Next, MaxAttMtuSizeChanged, MotionWritten, ModeWritten,
       TuningWritten, Tick, Send, Drop, SupervisorMoves, CommanderChanges, vars
<1>. QED  BY <1>1, <1>2, PTL DEF Spec

\* One link, as soon as there can be one, in whichever order the reports come;
\* a link in use is left by a disconnection only, which the service is told of.
THEOREM LinkOnceBothReadyAlways == Spec => LinkOnceBothReady
<1>1. LinkExists' /\ IInv' =>
        [/\ state' # "absent" <=> stackRunning' /\ endpointWaiting'
         /\ state = "connected" /\ state' # "connected" => publishedMode' = Unpublished]_vars
  BY DEF LinkExists, IInv, Detached
<1>. QED  BY <1>1, LinkExistsAlways, Inductive, PTL DEF LinkOnceBothReady

=============================================================================
