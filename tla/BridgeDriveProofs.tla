------------------------ MODULE BridgeDriveProofs ------------------------
(***************************************************************************)
(* Proofs about BridgeDrive, for every resolution of a duty, every set of  *)
(* efforts, every sense resistor and every current.                        *)
(*                                                                         *)
(* The inductive invariant says what the three states of MotionActuation's *)
(* bridges mean for the inputs (BridgesMeanInputs), that only a driver     *)
(* that may be driven is braked or driven (UnpermittedIsStopped), and that *)
(* the scaling once written is the board's (WrittenIsBoards).              *)
(***************************************************************************)
EXTENDS BridgeDrive, TLAPS

AllEfforts == Efforts \cup {NotANumber}
Duties == [input1 : 0..FullScale, input2 : 0..FullScale]
Settings == [resistance : Resistances, current : TripCurrents]

BridgesMeanInputs ==
  \A side \in Sides :
    inputs[side] = CASE bridges = "released" -> Released
                     [] bridges = "braked"   -> Braked
                     [] bridges = "driven"   -> InputsFor(applied[side])

UnpermittedIsStopped == ~Actuation!DrivePermitted => bridges = "released"

WrittenIsBoards == written # Unwritten => written = DriverConfigurationFor(board)

\* The variables that need a type; the rest of TypeOK follows.
BridgeTyped ==
  /\ Actuation!TypeOK
  /\ inputs \in [Sides -> Duties]
  /\ decay \in {"slow", "fast"}
  /\ board \in Settings
  /\ wakeUp \in {"waiting", "writing", "answered"}
  /\ applied \in [Sides -> AllEfforts]

IInv ==
  /\ BridgeTyped
  /\ BridgesMeanInputs
  /\ UnpermittedIsStopped
  /\ WrittenIsBoards

----------------------------------------------------------------------------
(***************************************************************************)
(* Duties.                                                                 *)
(***************************************************************************)
\* A duty is within full scale, and the greater for the greater magnitude.
LEMMA DutyInRange ==
  ASSUME NEW m \in Int PROVE DutyOf(m) \in 0..FullScale
BY FullScaleAssumption DEF DutyOf, Clamped

LEMMA DutyGrows ==
  ASSUME NEW m \in Int, NEW n \in Int, m <= n PROVE DutyOf(m) <= DutyOf(n)
BY FullScaleAssumption DEF DutyOf, Clamped

\* An effort as it is understood: a number, and within full scale.
Understood(effort) == Clamped(Finite(effort), -(2 * FullScale), 2 * FullScale)

LEMMA UnderstoodInt ==
  ASSUME NEW effort \in AllEfforts
  PROVE  Finite(effort) \in Int /\ Understood(effort) \in Int
BY FullScaleAssumption, EffortsAssumption DEF AllEfforts, Finite, Understood, Clamped

\* Of an effort both decays make the same mean, with its sign.
LEMMA InputsOfEffort ==
  ASSUME NEW effort \in AllEfforts, decay \in {"slow", "fast"}
  PROVE  /\ InputsFor(effort) \in Duties
         /\ Mean(InputsFor(effort)) =
              IF Understood(effort) >= 0 THEN DutyOf(Understood(effort))
              ELSE -DutyOf(-Understood(effort))
<1> DEFINE c == Understood(effort)
           duty == DutyOf(Abs(c))
<1>1. c \in Int /\ Abs(c) \in Int
  BY UnderstoodInt DEF Abs
<1>2. duty \in 0..FullScale
  BY <1>1, DutyInRange
<1>3. InputsFor(effort) = IF decay = "slow" THEN SlowDecayInputs(c >= 0, duty)
                                            ELSE FastDecayInputs(c >= 0, duty)
  BY FullScaleAssumption, EffortsAssumption
     DEF InputsFor, Understood, Finite, Clamped, AllEfforts
<1>4. Abs(c) = IF c >= 0 THEN c ELSE -c
  BY <1>1 DEF Abs
<1>5. CASE c >= 0
  <2>1. InputsFor(effort) \in Duties /\ Mean(InputsFor(effort)) = duty
    BY <1>2, <1>3, <1>5, FullScaleAssumption
       DEF SlowDecayInputs, FastDecayInputs, RemainderOf, Full, Off, Duties, Mean
  <2> QED
    BY <1>4, <1>5, <2>1
<1>6. CASE ~(c >= 0)
  <2>1. InputsFor(effort) \in Duties /\ Mean(InputsFor(effort)) = -duty
    BY <1>2, <1>3, <1>6, FullScaleAssumption
       DEF SlowDecayInputs, FastDecayInputs, RemainderOf, Full, Off, Duties, Mean
  <2> QED
    BY <1>4, <1>6, <2>1
<1> QED
  BY <1>5, <1>6

\* The greater effort makes no smaller mean.
LEMMA EffortOrdersMean ==
  ASSUME NEW e \in AllEfforts, NEW f \in AllEfforts, decay \in {"slow", "fast"},
         Finite(e) <= Finite(f)
  PROVE  Mean(InputsFor(e)) <= Mean(InputsFor(f))
<1>1. /\ Understood(e) \in Int /\ Understood(f) \in Int
      /\ Understood(e) <= Understood(f)
  BY UnderstoodInt, FullScaleAssumption DEF Understood, Clamped
<1>2. /\ -Understood(e) \in Int /\ -Understood(f) \in Int
      /\ -Understood(f) <= -Understood(e)
  BY <1>1
<1>3. /\ DutyOf(Understood(e)) \in 0..FullScale /\ DutyOf(Understood(f)) \in 0..FullScale
      /\ DutyOf(-Understood(e)) \in 0..FullScale /\ DutyOf(-Understood(f)) \in 0..FullScale
  BY <1>1, <1>2, DutyInRange
<1>4. /\ DutyOf(Understood(e)) <= DutyOf(Understood(f))
      /\ DutyOf(-Understood(f)) <= DutyOf(-Understood(e))
  BY <1>1, <1>2, DutyGrows
<1>5. /\ Mean(InputsFor(e)) = IF Understood(e) >= 0 THEN DutyOf(Understood(e))
                              ELSE -DutyOf(-Understood(e))
      /\ Mean(InputsFor(f)) = IF Understood(f) >= 0 THEN DutyOf(Understood(f))
                              ELSE -DutyOf(-Understood(f))
  BY InputsOfEffort
<1> QED
  BY <1>1, <1>3, <1>4, <1>5, FullScaleAssumption

----------------------------------------------------------------------------
(***************************************************************************)
(* The scaling of the trip current.                                        *)
(***************************************************************************)
Product(gain, config) == TorqueSteps * gain * config.resistance * config.current

LEMMA ProductNat ==
  ASSUME NEW gain \in SenseGains, NEW config \in Settings
  PROVE  Product(gain, config) \in Nat
<1>1. gain \in Nat /\ config.resistance \in Nat /\ config.current \in Nat
  <2>1. config.resistance \in Resistances /\ config.current \in TripCurrents
    BY DEF Settings
  <2>2. gain \in Nat
    BY DEF SenseGains
  <2> QED
    BY <2>1, <2>2, ScalingAssumption
<1>2. TorqueSteps * gain \in Nat
  BY <1>1 DEF TorqueSteps
<1>3. TorqueSteps * gain * config.resistance \in Nat
  BY <1>1, <1>2
<1> QED
  BY <1>1, <1>3 DEF Product

\* The torque is the product in units of the reference, rounded down.
LEMMA TorqueRoundsDown ==
  ASSUME NEW gain \in SenseGains, NEW config \in Settings
  PROVE  LET torque == TorqueFor(gain, config.resistance, config.current)
         IN /\ torque \in Nat
            /\ torque * Reference <= Product(gain, config)
            /\ Product(gain, config) < (torque + 1) * Reference
<1>1. Product(gain, config) \in Nat
  BY ProductNat
<1>2. \A n \in Nat : /\ n \div Reference \in Nat
                     /\ (n \div Reference) * Reference <= n
                     /\ n < (n \div Reference + 1) * Reference
  BY DEF Reference
<1>3. TorqueFor(gain, config.resistance, config.current)
        = Product(gain, config) \div Reference
  BY DEF TorqueFor, Product
<1> QED
  BY <1>1, <1>2, <1>3

\* Of the gains there is a highest one.
LEMMA HighestGain ==
  ASSUME NEW S \in SUBSET SenseGains, S # {}
  PROVE  \E gain \in S : \A other \in S : other <= gain
<1>1. CASE 40 \in S
  BY <1>1 DEF SenseGains
<1>2. CASE 40 \notin S /\ 20 \in S
  BY <1>2 DEF SenseGains
<1>3. CASE 40 \notin S /\ 20 \notin S /\ 10 \in S
  BY <1>3 DEF SenseGains
<1>4. CASE 40 \notin S /\ 20 \notin S /\ 10 \notin S
  <2>1. \A gain \in S : gain = 5
    BY <1>4 DEF SenseGains
  <2> QED
    BY <2>1
<1> QED
  BY <1>1, <1>2, <1>3, <1>4

\* What the driver is configured with: a gain whose torque fits, or the end of
\* the least sensitive range, because no torque fits.
LEMMA ScalingFits ==
  ASSUME NEW config \in Settings
  PROVE  LET scaling == DriverConfigurationFor(config)
         IN \/ \E gain \in SenseGains :
                 /\ TorqueFor(gain, config.resistance, config.current) <= MaximumTorque
                 /\ scaling = [senseGain |-> gain,
                      torque |-> TorqueFor(gain, config.resistance, config.current)]
            \/ /\ ~(TorqueFor(5, config.resistance, config.current) <= MaximumTorque)
               /\ scaling = [senseGain |-> 5, torque |-> MaximumTorque]
<1> DEFINE Fits == {gain \in SenseGains :
                      TorqueFor(gain, config.resistance, config.current) <= MaximumTorque}
           highest == CHOOSE gain \in Fits : \A other \in Fits : other <= gain
<1>1. DriverConfigurationFor(config) =
        IF Fits = {}
          THEN [senseGain |-> 5, torque |-> MaximumTorque]
          ELSE [senseGain |-> highest,
                torque |-> TorqueFor(highest, config.resistance, config.current)]
  BY DEF DriverConfigurationFor, ScaleCurrent
<1>2. CASE Fits = {}
  <2>1. 5 \in SenseGains
    BY DEF SenseGains
  <2> QED
    BY <1>1, <1>2, <2>1
<1>3. CASE Fits # {}
  <2>1. Fits \in SUBSET SenseGains
    OBVIOUS
  <2>2. highest \in Fits
    <3>1. \E gain \in Fits : \A other \in Fits : other <= gain
      BY <1>3, <2>1, HighestGain
    <3> QED
      BY <3>1
  <2>3. /\ highest \in SenseGains
        /\ TorqueFor(highest, config.resistance, config.current) <= MaximumTorque
    BY <2>2
  <2>4. DriverConfigurationFor(config) =
          [senseGain |-> highest,
           torque |-> TorqueFor(highest, config.resistance, config.current)]
    BY <1>1, <1>3
  <2> HIDE DEF highest
  <2> QED
    BY <2>3, <2>4
<1> QED
  BY <1>2, <1>3

\* The scaling that is written trips at no more than the current asked for, and
\* not needlessly below it.
LEMMA ScalingTrips ==
  ASSUME board \in Settings, written = DriverConfigurationFor(board)
  PROVE  TripIsBelowRequested /\ written \in [senseGain : SenseGains, torque : 0..255]
<1> DEFINE Step == TorqueSteps * written.senseGain * board.resistance
<1>1. Step * board.current = Product(written.senseGain, board)
  BY DEF Product
<1>2. ASSUME NEW gain \in SenseGains,
             TorqueFor(gain, board.resistance, board.current) <= MaximumTorque,
             written = [senseGain |-> gain,
               torque |-> TorqueFor(gain, board.resistance, board.current)]
      PROVE  /\ written \in [senseGain : SenseGains, torque : 0..255]
             /\ written.torque * Reference <= Product(written.senseGain, board)
             /\ Product(written.senseGain, board) < (written.torque + 1) * Reference
  <2>1. written.senseGain = gain
        /\ written.torque = TorqueFor(gain, board.resistance, board.current)
    BY <1>2
  <2>2. TorqueFor(gain, board.resistance, board.current) \in 0..255
    BY <1>2, TorqueRoundsDown DEF MaximumTorque
  <2> QED
    BY <1>2, <2>1, <2>2, TorqueRoundsDown
<1>3. ASSUME ~(TorqueFor(5, board.resistance, board.current) <= MaximumTorque),
             written = [senseGain |-> 5, torque |-> MaximumTorque]
      PROVE  /\ written \in [senseGain : SenseGains, torque : 0..255]
             /\ written.torque * Reference <= Product(written.senseGain, board)
             /\ written.senseGain = 5 /\ written.torque = MaximumTorque
  <2>1. 5 \in SenseGains
    BY DEF SenseGains
  <2> DEFINE torque == TorqueFor(5, board.resistance, board.current)
  <2>2. torque \in Nat /\ torque * Reference <= Product(5, board)
    BY <2>1, TorqueRoundsDown
  <2>3. torque > MaximumTorque
    BY <1>3, <2>2 DEF MaximumTorque
  <2>4. MaximumTorque * Reference <= torque * Reference
    <3> HIDE DEF torque
    <3> QED
      BY <2>2, <2>3 DEF MaximumTorque, Reference
  <2>5. MaximumTorque * Reference <= Product(5, board)
    <3>1. Product(5, board) \in Nat
      BY <2>1, ProductNat
    <3> HIDE DEF torque
    <3> QED
      BY <2>2, <2>4, <3>1 DEF MaximumTorque, Reference
  <2>6. written.senseGain = 5 /\ written.torque = MaximumTorque
    BY <1>3
  <2>7. written \in [senseGain : SenseGains, torque : 0..255]
    BY <1>3, <2>1 DEF MaximumTorque
  <2> QED
    BY <2>5, <2>6, <2>7
<1>4. /\ written \in [senseGain : SenseGains, torque : 0..255]
      /\ written.torque * Reference <= Product(written.senseGain, board)
      /\ \/ Product(written.senseGain, board) < (written.torque + 1) * Reference
         \/ written.senseGain = 5 /\ written.torque = MaximumTorque
  BY <1>2, <1>3, ScalingFits
<1>5. Product(written.senseGain, board) \in Nat /\ written.torque \in Nat
  BY <1>4, ProductNat
<1>6. (written.torque + 1) * Reference > Step * board.current
        \/ (written.senseGain = 5 /\ written.torque = MaximumTorque)
  BY <1>1, <1>4, <1>5 DEF Reference
<1> QED
  BY <1>1, <1>4, <1>6 DEF TripIsBelowRequested

----------------------------------------------------------------------------
(***************************************************************************)
(* The invariant.                                                          *)
(***************************************************************************)
LEMMA AtRestTyped == Released \in Duties /\ Braked \in Duties
BY FullScaleAssumption DEF Released, Braked, Off, Full, Duties

\* What the bridges are told as they are driven is an effort's inputs.
LEMMA ApplyKeeps ==
  ASSUME IInv, NEW left \in AllEfforts, NEW right \in AllEfforts, Apply(left, right)
  PROVE  IInv'
<1> USE DEF IInv, Apply
<1>1. CASE Actuation!DrivePermitted
  <2>1. /\ bridges' = "driven" /\ UNCHANGED <<driverState, driverFault>>
        /\ inputs' = [left |-> InputsFor(left), right |-> InputsFor(right)]
        /\ applied' = [left |-> left, right |-> right]
    BY <1>1 DEF Actuation!Apply
  <2>2. InputsFor(left) \in Duties /\ InputsFor(right) \in Duties
    BY InputsOfEffort DEF BridgeTyped
  <2>3. BridgeTyped'
    BY <2>1, <2>2 DEF BridgeTyped, Sides, Duties, AllEfforts, Settings,
       Actuation!TypeOK, Actuation!BridgeStates
  <2>4. BridgesMeanInputs'
    BY <2>1 DEF BridgesMeanInputs, Sides, InputsFor
  <2>5. UnpermittedIsStopped'
    BY <1>1, <2>1 DEF UnpermittedIsStopped, Actuation!DrivePermitted
  <2> QED
    BY <2>3, <2>4, <2>5 DEF WrittenIsBoards
<1>2. CASE ~Actuation!DrivePermitted
  <2>1. UNCHANGED vars
    BY <1>2 DEF Actuation!Apply, vars, actuationVars
  <2> QED
    BY <2>1 DEF vars, actuationVars, BridgeTyped, Duties, AllEfforts, Settings,
       Actuation!TypeOK, BridgesMeanInputs, InputsFor, UnpermittedIsStopped,
       Actuation!DrivePermitted, WrittenIsBoards
<1> QED
  BY <1>1, <1>2

\* What stops the bridges stops both, in one state.
LEMMA StopKeeps ==
  ASSUME IInv, UNCHANGED <<driverState, decay, board, wakeUp, written, applied>>,
         driverFault' \in Actuation!DriverFaults,
         \/ bridges' = "released" /\ Drive(Released)
         \/ /\ bridges' = "braked" /\ Drive(Braked)
            /\ Actuation!DrivePermitted /\ UNCHANGED driverFault
  PROVE  IInv'
<1> USE DEF IInv
<1>1. BridgeTyped'
  BY AtRestTyped DEF BridgeTyped, Drive, Sides, Duties, AllEfforts, Settings,
     Actuation!TypeOK, Actuation!BridgeStates
<1>2. BridgesMeanInputs'
  BY DEF BridgesMeanInputs, Drive, Released, Braked
<1>3. UnpermittedIsStopped'
  BY DEF UnpermittedIsStopped, Actuation!DrivePermitted
<1> QED
  BY <1>1, <1>2, <1>3 DEF WrittenIsBoards

\* Neither the driver's configuration nor its acknowledged fault moves a bridge.
LEMMA DriverKeeps ==
  ASSUME IInv, UNCHANGED <<bridges, inputs, decay, board, applied>>,
         Actuation!TypeOK', Actuation!DrivePermitted => Actuation!DrivePermitted',
         wakeUp' \in {"waiting", "writing", "answered"},
         UNCHANGED written \/ written' = DriverConfigurationFor(board)
  PROVE  IInv'
<1> USE DEF IInv
<1>1. BridgeTyped'
  BY DEF BridgeTyped, Duties, AllEfforts, Settings
<1>2. BridgesMeanInputs' /\ UnpermittedIsStopped'
  BY DEF BridgesMeanInputs, InputsFor, UnpermittedIsStopped
<1>3. WrittenIsBoards'
  BY DEF WrittenIsBoards, DriverConfigurationFor
<1> QED
  BY <1>1, <1>2, <1>3

LEMMA InvariantInit == Init => IInv
<1> SUFFICES ASSUME Init PROVE IInv
  OBVIOUS
<1>1. BridgeTyped
  BY AtRestTyped DEF Init, BridgeTyped, Settings, AllEfforts, Actuation!Init,
     Actuation!TypeOK, Actuation!DriverStates, Actuation!DriverFaults,
     Actuation!BridgeStates
<1>2. BridgesMeanInputs /\ UnpermittedIsStopped /\ WrittenIsBoards
  BY DEF Init, Actuation!Init, BridgesMeanInputs, UnpermittedIsStopped, WrittenIsBoards
<1> QED
  BY <1>1, <1>2 DEF IInv

LEMMA InvariantStep == ASSUME IInv, [Next]_vars PROVE IInv'
<1> USE DEF actuationVars, Actuation!actuationVars, Actuation!DrivePermitted
<1>1. Actuation!TypeOK /\ wakeUp \in {"waiting", "writing", "answered"}
  BY DEF IInv, BridgeTyped
<1>2. CASE Configure
  BY <1>1, <1>2, DriverKeeps DEF Configure, Actuation!TypeOK
<1>3. ASSUME NEW verified \in BOOLEAN, Configured(verified) PROVE IInv'
  BY <1>1, <1>3, DriverKeeps
     DEF Configured, Actuation!Configured, Actuation!TypeOK, Actuation!DriverStates
<1>4. ASSUME NEW left \in Efforts \cup {NotANumber}, NEW right \in Efforts \cup {NotANumber},
             Apply(left, right)
      PROVE  IInv'
  BY <1>4, ApplyKeeps DEF AllEfforts
<1>5. ASSUME NEW how \in Actuation!DisableStates, Disable(how) PROVE IInv'
  BY <1>1, <1>5, StopKeeps DEF Disable, Actuation!Disable, Actuation!TypeOK
<1>6. CASE ClearFault
  BY <1>1, <1>6, DriverKeeps
     DEF ClearFault, Actuation!ClearFault, Actuation!TypeOK, Actuation!DriverFaults
<1>7. CASE OnFault
  BY <1>7, StopKeeps DEF OnFault, Actuation!OnFault, Actuation!DriverFaults
<1>8. CASE UNCHANGED vars
  BY <1>1, <1>8, DriverKeeps DEF vars, Actuation!TypeOK
<1> QED
  BY <1>2, <1>3, <1>4, <1>5, <1>6, <1>7, <1>8 DEF Next

LEMMA Inductive == Spec => []IInv
BY InvariantInit, InvariantStep, PTL DEF Spec

----------------------------------------------------------------------------
\* Type correctness: every duty is within full scale, whatever the effort, and the
\* scaling fits the driver's registers, whatever the board.
THEOREM TypeCorrect == Spec => []TypeOK
<1>1. ASSUME IInv PROVE TypeOK
  <2>1. written = Unwritten \/ written \in [senseGain : SenseGains, torque : 0..255]
    BY <1>1, ScalingTrips DEF IInv, BridgeTyped, WrittenIsBoards
  <2> QED
    BY <1>1, <2>1 DEF IInv, BridgeTyped, TypeOK, Duties, Settings, AllEfforts
<1> QED
  BY <1>1, Inductive, PTL

\* No order of efforts, brakes, faults, acknowledgements and configuration leaves
\* an input on while the driver may not be driven.
THEOREM UnpermittedIsReleasedAlways == Spec => []UnpermittedIsReleased
<1>1. IInv => UnpermittedIsReleased
  BY DEF IInv, UnpermittedIsStopped, BridgesMeanInputs, UnpermittedIsReleased
<1> QED
  BY <1>1, Inductive, PTL

\* Whatever the board, the driver trips at no more than the current asked for, and
\* at most one step below it unless no range reaches it.
THEOREM TripIsBelowRequestedAlways == Spec => []TripIsBelowRequested
<1>1. ASSUME IInv PROVE TripIsBelowRequested
  <2>1. CASE written = Unwritten
    BY <2>1 DEF TripIsBelowRequested
  <2>2. CASE written # Unwritten
    BY <1>1, <2>2, ScalingTrips DEF IInv, BridgeTyped, WrittenIsBoards
  <2> QED
    BY <2>1, <2>2
<1> QED
  BY <1>1, Inductive, PTL

\* What MotionActuation, and with it the supervisor, calls released, braked and
\* driven is what the inputs of both bridges are.
THEOREM BridgesMeanInputsAlways == Spec => []BridgesMeanInputs
<1>1. IInv => BridgesMeanInputs
  BY DEF IInv
<1> QED
  BY <1>1, Inductive, PTL

\* For every resolution and either decay, the greater of two efforts applied one
\* after the other makes no smaller mean voltage.
THEOREM EffortsOrderMeansAlways == Spec => EffortsOrderMeans
<1>1. ASSUME IInv, IInv', [Next]_vars, bridges = "driven", bridges' = "driven",
             NEW side \in Sides, Finite(applied[side]) <= Finite(applied'[side])
      PROVE  Mean(inputs[side]) <= Mean(inputs'[side])
  <2>1. UNCHANGED decay
    BY <1>1 DEF Next, Configure, Configured, Apply, Disable, ClearFault, OnFault, vars
  <2>2. /\ inputs[side] = InputsFor(applied[side])
        /\ inputs'[side] = InputsFor(applied'[side])
    BY <1>1, <2>1 DEF IInv, BridgesMeanInputs, InputsFor
  <2>3. /\ applied[side] \in AllEfforts /\ applied'[side] \in AllEfforts
        /\ decay \in {"slow", "fast"}
    BY <1>1 DEF IInv, BridgeTyped, AllEfforts
  <2> QED
    BY <1>1, <2>2, <2>3, EffortOrdersMean
<1>2. IInv /\ IInv' /\ [Next]_vars =>
        [bridges = "driven" /\ bridges' = "driven" =>
           \A side \in Sides :
             Finite(applied[side]) <= Finite(applied'[side])
               => Mean(inputs[side]) <= Mean(inputs'[side])]_vars
  BY <1>1
<1> QED
  BY <1>2, Inductive, PTL DEF Spec, EffortsOrderMeans

=============================================================================
