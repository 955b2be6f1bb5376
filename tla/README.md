# Verification of the inverted pendulum's control software

The repository holds the firmware of a two-wheeled balancing robot: an event loop
on one processor runs timers and dispatched events, an inertial sensor drives
the control chain sample by sample, a supervisor decides when the motors may be
driven, and an operator commands the robot from a serial terminal and over
Bluetooth LE. This directory holds TLA+ modules of that software, TLC
configurations that check them on small instances, and TLAPS proofs of the
properties that matter most. Paths below are relative to the repository's root.

- [Inventory](#inventory): the components, their state and what is hard about them
- [Modules](#modules): which module models what, and how
- [Runs](#runs): what TLC checks, and within which bounds
- [Fairness](#fairness)
- [Proofs](#proofs)
- [Divergences](#divergences): where documents and code disagree
- [Not modelled](#not-modelled)
- [Plan](#plan)

## Inventory

Everything runs on one event loop. Callbacks do not preempt one another: what
interleaves are timer expiries, sensor completions, the dispatched fault
interrupt, received writes and terminal lines. A model's action is therefore
one whole callback, with every observer it calls.

| Component (`core/...`) | State | Operations | Called by | Correct when |
|---|---|---|---|---|
| `safety_supervisor` | mode, latched cause, last estimate, serviced flag, missed services, self-test time | Arm, Disarm, ClearFault, Calibrate; supervision timer; Balance, Steer | terminal, link; control loop; event loop | the bridges are driven only in ARMED with a healthy driver; a stopped loop or a driver fault ends ARMED; all exits release |
| `motion_actuation` | bridge state and inputs, latched driver fault, driver state, wake-up | Apply, Disable, ClearFault, fault edge, wake-up timer, configuration result | supervisor, balance control, terminal, driver | a latched fault keeps the bridges released until it is acknowledged; greater efforts never mean smaller voltages; the driver trips below the current asked for |
| `inertial_sensing` | device, last sample and its age, calibration | initialization, sample in two halves, StartCalibration, Latest | sensor, supervisor, estimation | what is called valid is fresh, transferred and calibrated; a bias is learnt at rest |
| `attitude_estimation` | running, previous timestamp, convergence start, estimate | Update, Select | control loop, terminal | an estimate is valid only after an uninterrupted convergence |
| `control_loop` | two decimation counters, timestamps, statistics | OnMeasurement | sensing | both stages run at their cadence |
| `balance_control` | setpoints, command time, engagement, active strategy, parameters | Select, SetParameter, Move, CancelMotion, Engage, Disengage, Balance, Steer | supervisor, terminal, link | motion and effort belong to a session; uncommanded motion fades |
| `wheel_odometry` | last counter values, positions, velocities | Sample | its timer | no count lost at the wrap; velocities over measured intervals |
| `telemetry` | last record | Balance, Latest | control loop, link | reports what the last iteration did |
| `ble_link`, `platform_implementations/st` | what the radio waits for, connection state, MTU, in-flight flags, published mode | start of the radio, connection events, writes, ticker, completions | GATT stack, coprocessor | one link; an answer per request, a current mode, nothing survives a disconnection |
| `cli` | none | one function per command | terminal | refuses what the components refuse |

How they interact: `InertialSensing` notifies `ControlLoop` of each sample, which
asks `AttitudeEstimation` to update, and at its two cadences calls its observers
in the order in which `targets/cli/Main.cpp` wires them: `TelemetryRecorder`,
through it `SafetySupervisor`, and while ARMED `BalanceControl`, which calls
`MotionActuation`. The supervision timer is independent of that chain. The
terminal and the link call the supervisor and balance control, and the terminal
reaches actuation and estimation directly.

What is hard here: the supervision timer racing the chain that it supervises; a
fault interrupt between any two of their steps; flags that outlive the mode in
which they were meaningful; samples that are late, halved, failed or missing;
timeouts measured against irregular intervals; wrap-around; an operator who
disconnects; two startup events in either order. `PROJECT.json` lists each hazard at its line, with the properties
that cover it or the reason why none does yet.

## Modules

A component has a module with its variables and one action per operation; a
system module composes components with those that call them, and adds *history
variables*, declared as "for stating properties only", which no guard reads.
Definitions whose name begins with `Mut` are deliberately wrong forms of the
definition they are named after. No specification uses them: they exist to show
that a property notices the bug.

- **`MotionActuation`** — `MotionActuationImpl`: `driverState`, `driverFault`,
  `bridges`. `Apply`, `Disable`, `ClearFault`, `OnFault`, `Configured`. Efforts
  are not distinguished: the bridges are driven, braked or released.
- **`SafetySupervisor`** — `SafetySupervisorImpl`, with `MotionActuation`, the
  engagement flag of balance control, and what it reads of inertial sensing.
  Time is counted in periods of the supervision timer. `Arm`, `Disarm`,
  `ClearFault`, `Calibrate` are the commands (a refused command changes nothing
  and is no step), `Supervise` the timer callback with a disjunct per mode,
  `Iterate` the callback at the balance stage, `Balance` that callback with any
  estimate the sensor allows, `DisableByHand` the terminal's `tristate` and
  `brake`. Everything that may happen around it is free: any estimate at any
  iteration (valid only if sensing is), fault edges, late or failed driver
  configurations, failing or concluding calibrations.
- **`DriveModes`** — what the supervisor promises: five modes, the transitions
  between them, and that driving happens only in ARMED. `SafetySupervisor`
  implements it with `driving` as `bridges = "driven"`.
- **`BridgeDrive`** — motion actuation once more, down to the inputs of the two
  bridges: `MotionActuation`'s actions conjoined with the duties they mean
  (`InputsFor`, for both decays), with the driver's wake-up (`Configure`,
  `Configured`) and the scaling of its trip current (`ScaleCurrent`). Duties are
  counted in timer steps and efforts in half steps, so that rounding shows.
- **`InertialSensing`**, **`AttitudeEstimation`**, **`ControlLoop`** — the three
  links of the measuring chain. The sensor's device is asked once to initialize;
  if it fails it never samples. Timestamps are kept as ages in ticks, which
  saturate once no comparison can tell them apart. A sample is stamped when its
  acceleration comes and delivered when its angular velocity does.
- **`MeasuringChain`** — their composition: a delivered sample passes all three in
  one action; time, calibration starts, filter changes and the halves of samples
  interleave.
- **`Robot`** — the measuring chain and the supervisor wired into each other as
  `targets/cli/Main.cpp` does, with the terminal's handlers that arm, disarm,
  clear, calibrate, release, brake and select a filter. `Sample` is one callback
  from the sensor's driver to the bridges. Both halves are instances of the
  modules above, over variables they share: the estimate handed on *is* the
  supervisor's copy, and what the supervisor sees of the sensor is computed from
  the chain's state. In isolation each half constrains what the other may do;
  `ImplementsChain` and `ImplementsSupervisor` show that the other does so.
- **`BalanceControl`** — `BalanceControlImpl` with what a strategy remembers:
  `used` holds the strategies whose loops a run may have marked, `gains` one
  parameter each. Speeds are counted in what a tick's deceleration takes away.
  NaN is a model value that compares with nothing, as the code's negated
  comparisons expect. The control laws are left open: any effort may result.
- **`IncrementalPid`**, **`LqrStrategy`**, **`CascadedPidStrategy`** — the control
  laws, as operators on what a strategy remembers. The toolbox's incremental
  controller is external: its output grows from the previous one and is limited,
  which is what the strategies rely on when they set its previous output.
- **`EffortSaturation`** — the strategies as balance control runs them: `Engage`,
  `Disengage`, `Steer`, `Balance`, `BalanceInvalid`, with the wheel-wise limiting
  and the `Saturated` callback. Where `BalanceControl` leaves the effort open and
  follows the setpoints, this module computes the effort in integer units and
  leaves the setpoints open. `requested` and `clipped` are history variables.
- **`MotionSession`** — balance control with those who call it: the supervisor's
  engaging and disengaging, operators who move, tune and vanish, and the outer
  stage of the control loop, whose intervals are differences between sample
  times, while the command timeout is measured on the clock. `TypedMove` and
  `Param` are the terminal's handlers: of a typed word the parser sees its length,
  whether it has a decimal point, and whether all of it was read.
- **`RobotControlService`** — the service's flags, buffers and published value.
  `Connected`, `Disconnected`, `AttMtuChanged`, `ModeWritten`, `TuningWritten`,
  `Tick`, and `Sent` for the callbacks of the updates. Of an MTU only its size
  class is kept, of a tuning response its request and length.
- **`OperatorLink`** — the service with `BleLink`, the stack below and the client
  beyond. The link comes to be once the coprocessor's stack runs and the endpoint
  waits for it (`StartBluetoothWhenReady`). `StateChanged` has a disjunct for each branch of the code. The stack is
  external and taken as weak as the service needs: a characteristic has at most
  one update outstanding, which the next one replaces; an update may stay there
  across a disconnection, and then be sent late, with its callback, or dropped;
  MTU exchanges are reported while connected. `commander` is whose motion is in
  force, `status` what the supervisor reports, both moved freely by the rest of
  the robot.
- **`TelemetryRecorder`** and **`SupervisedTelemetry`** — the recorder, and an
  extension of `SafetySupervisor` that puts it in front of the supervisor:
  `RecordedBalance` passes the iteration on and records what came of it; every
  other action of the supervisor goes unrecorded (`Elsewhere`).
- **`WheelOdometry`** — `WheelOdometryImpl` over hardware counters that wrap. A
  velocity is a pair of counts and elapsed ticks; the scaling is a product.

`PROJECT.json` maps each definition to the lines it models.

## Runs

| Run | Configuration | Shows |
|---|---|---|
| `safety` | `MCSafetySupervisor.cfg` | `DrivenOnlyWhileArmed`, `StallBounded`, `LeavingArmedReleases`, `StallIsReal`, the refinement of `DriveModes`; under fairness, the self-test concludes, a stalled loop disarms, a driver fault escalates; 80,000 states |
| `chain` | `MCMeasuringChain.cfg` | an estimate is valid exactly when it is earned, a calibration fails exactly when it is disturbed, the outer stage is regular; 119,000 states |
| `robot` | `MCRobot.cfg` | the robot implements both `MeasuringChain` and `SafetySupervisor`; the bridges are driven on an earned estimate only; an armed robot is blind for less than a balance period; CALIBRATING is left once the device samples; 225,000 states |
| `session` | `MCMotionSession.cfg` | motion, memory and tuning belong to their session, whether commands come from the link or are typed; setpoints fade in time and never reverse; an uncommanded robot comes to rest; 68,000 states |
| `link` | `MCOperatorLink.cfg` | one link, in whichever order the radio starts; what counts as published reaches the client, responses are their requests', nothing long without an MTU of this connection, no motion outlives its connection; a lasting client learns the mode and keeps getting telemetry; 48,000 states |
| `telemetry` | `MCSupervisedTelemetry.cfg` | a sample is of one iteration; a lasting fault is reported while the loop runs; 89,000 states |
| `odometry` | `MCWheelOdometry.cfg` | positions are what the wheels turned, velocities possible; 411,000 states |
| `saturation` | `MCEffortSaturation.cfg` | the cascaded strategy leaves saturation at once, the regulator accumulates no position through an interval that saturated, turning gives way to balancing; 40,000 states |
| `drive` | `MCBridgeDrive.cfg` | no bridge input is on without permission, efforts order mean voltages in both decays, the driver never trips above the current asked for; 18,000 states |
| `stale_arm`, `fault_forgotten`, `unconverged_arm` | `MCStaleArm.cfg`, `MCFaultForgotten.cfg`, `MCUnconvergedArm.cfg` | [divergences](#divergences) |

Bounds, and why they are enough:

- *Safety*: pitches -3..3 with windows 1 and 2, so that upright, leaning and
  fallen exist on both sides; three missed services, so that a stall takes
  several periods with iterations between them; a deadline of three periods.
  History counters saturate one above the largest value a property mentions.
- *Chain*: the ages saturate one above what their comparison distinguishes, so
  time is not bounded. Gap bound 2, halves held for up to 3 ticks, so that a
  sample can be stale when it is delivered, window 3 and convergence 4 let a gap, a
  failure or a late half fall at every place in a window; two samples per
  balance iteration and two iterations per outer one nest the counters.
- *Robot*: what the components' own runs vary is held small here, so that their
  composition can be explored: halves of one tick, a window and a convergence of
  two samples, an upright pitch (falls are `safety`'s), limits of one. Two samples
  per balance iteration leave room for a filter change, an invalid sample or a
  command between an estimate and its copy, which is what the composition adds.
  `BlindnessIsBrief` counts to that number.
- *Session*: maxima 2 and 1 give both setpoints a life of different length;
  a timeout of 2 falls before, between and after outer iterations of every
  length; two strategies can be exchanged. `UnattendedCap` lies where every
  setpoint has faded. Typed words are well-formed, misspelt, one character too
  long, or of the wrong kind, in every position of a line.
- *Link*: two statuses suffice for a value to be stale, two requests for one to
  replace another; connections are not counted. What a stack keeps of an earlier
  connection is one update per characteristic, so that a second reconnection adds
  nothing to the first.
- *Telemetry*: an upright and a fallen pitch, limits of 2 and 1; of the recorder's
  data the properties tell apart no more.
- *Odometry*: resolution 5 is odd and the counter wraps several times within
  the explored travel (`TravelBound`, the only bound of this exploration);
  an interval of two ticks makes the timer late. The two wheels do not interact,
  and the configuration is symmetric in them.
- *Drive*: three steps of a duty, with efforts on, between and beyond them; two
  resistances and trip currents at both ends of each sense gain's range, at
  quotients that truncate, and beyond what the least sensitive range can measure.
  The products of the code stay within its 64 bits, and within TLC's integers.
- *Saturation*: an effort limit of 4 with unit gains, so that one iteration can
  saturate one wheel, both, or neither, and leaving saturation takes none; lean,
  differential and position limits of 2 are reached within two outer iterations;
  intervals of 1 and 2 make the integral gains vary. All state is bounded by the
  limits the code imposes, no bound is added.

Every configuration checks for deadlock.

## Fairness

- `SafetySupervisor!FairSpec`: the supervision timer repeats, since it depends on
  the event loop only. Nothing is assumed of the sensor, the loop, the driver or
  the operator: the liveness properties hold when all of them stop.
- `Robot!FairSpec`: the supervision timer repeats, and a device that samples keeps
  delivering both halves of its samples, whatever their quality. Time passes again
  and again, strongly fair because the bound on the time between two halves
  (`MaxHold`), which is the model's, holds it up meanwhile. Nothing is assumed of
  the operator, the driver, or a device that has failed: `CalibratingIsLeft`
  speaks of a device that samples. One that never does leaves the supervisor in
  CALIBRATING, since the code has no timeout there.
- `MotionSession!FairSpec`: time passes and outer iterations keep coming. Were the
  loop to stop, the supervisor would end the session (`StalledLoopDisarms`),
  which clears the setpoints.
- `OperatorLink!FairSpec`: the ticker repeats while it runs, and the stack sends the
  update it has. `WF(Send)` demands nothing of an update that is dropped at a
  disconnection first, and the liveness properties speak of connections that last.
- `SupervisedTelemetry!TelemetryFairSpec`: the supervision timer only. That the loop keeps
  iterating is a hypothesis of `ServicedFaultIsReported`, not an assumption.

## Proofs

Each proof module shows, for every value of the constants that the named
assumptions allow, that an inductive invariant `IInv` holds, and derives the
properties from it. A lemma per action, or group of actions, does the induction
step.

- **`SafetySupervisorProofs`**, with `StallBounded` and the false-alarm property
  `StallIsReal` for every limit. `StallIsReal` is not inductive: the supervisor's
  count and the truth about the loop are related only through the `serviced`
  flag. `MissesAreSilence` says that each counted miss stands for a period
  without an iteration, `MissesBoundSilence` the converse while armed. The
  refinement theorem maps every action to a transition of `DriveModes` or a stutter.
  `EngagedIffArmed` and `CalibrationHoldsMode` are parts of the invariant that are
  proved and no longer run. The module's second half is about the supervisor
  watched by telemetry: `TelemetryIsPassive` shows that it behaves as it does
  alone, so that what is proved of it holds there; `SampleIsCoherentAlways` rests
  on effort and cause agreeing with the mode at the end of every iteration
  (`CauseIffFault`, `EngagedIffArmed`).
- **`MeasuringChainProofs`**: `ValidIsEarned`, in both directions, needs that the
  estimator's convergence age is the history's run length as long as neither
  saturates (`ConvergenceIsRun`); `DisturbanceDecides` that a running calibration
  is disturbed exactly when the pending half, if there is one, lies a gap behind
  the last sample (`DisturbedIsDoomed`). `OuterIsRegular` follows from
  `CountersAgree`: the two decimation counters are one number, written in the base
  of their rates, which a sample moves on by one; the products of the rates are
  treated by four lemmas of their own. `HandedIsFreshAlways` is proved and not
  run: what it says of the chain alone, `DrivesOnEarnedEstimate` says of the robot.
- **`RobotProofs`**, about the two halves wired into each other. Either half
  is proved correct in an environment it only assumes; the two refinements show
  that the other half is that environment. `RobotImplementsChain` rests on the
  supervisor holding its mode while a calibration runs (`CalibrationHoldsMode`):
  no calibration is started in another one. `RobotImplementsSupervisor` rests on
  an estimate being valid only when the sensor's measurement is
  (`EstimateNeedsMeasurement`), also in what the supervisor sees of the sensor when
  time passes or a sample comes (`SampleIsSensed`, `SilenceIsSensed`). From there
  on the halves' theorems are theorems of the robot: the proof modules of the
  halves are instantiated over the robot's state (`ChainFacts`,
  `SupervisorFacts`), and `RobotIsSafeAlways`, `RobotStepsAlways` and
  `RobotImplementsDriveModes` cite them. What belongs to the composition alone is
  proved from both: `BlindnessIsBrief` from the count of blind samples never
  running ahead of the samples since the last iteration (`BlindSinceBalance`),
  `DrivesOnEarnedEstimate` from a sample being the only thing that drives.
- **`BridgeDriveProofs`**: `BridgesMeanInputs` says what released, braked and driven,
  the three words that the supervisor's proofs use, are at the inputs of both
  bridges, so that "released" there is no duty here (`UnpermittedIsReleased`).
  `TripIsBelowRequested` is arithmetic of the truncating divisions that choose
  range and torque, for every board; `EffortsOrderMeans` of rounding and clamping,
  for every resolution and both decays.
- **`MotionSessionProofs`**: `UncommandedMotionFades` is the delicate one: it relates
  the age of the command, the age of the last outer iteration's sample and the
  time since the operator let go (`LettingGo`, `Ages`), for any timeout, maxima
  and lateness of samples. `RestedInTimeAlways` draws from it the bound behind
  coming to rest, which `UncommandedRobotRests` states without a number.
- **`WheelOdometryProofs`**: `PositionIsTravelled` rests on the lemma
  `ShortestDeltaIsTurn`: for every resolution from 2 on, odd ones included, the
  shorter way round is the turn, if the turn is less than half a revolution.
  That is the cadence contract, an assumption on the constants
  (`CadenceAssumption`) which the design document states and the code cannot check.
- **`OperatorLinkProofs`**: `PublishedReachesClient` needs that a raised in-flight flag
  is an update of this connection (`FlagsAreUpdates`), that a robot without a
  connection has no flag raised (`Detached`), and that an update in flight was
  composed of the published value (`ModeIsOwn`): a late callback of a lost update
  can then clear no flag that a newer update raised. `LinkOnceBothReadyAlways`
  rests on `LinkExists`: there is a link exactly when both halves of the radio's
  start have been reported.
- **`EffortSaturationProofs`**: `CorrectionFollowsError` and
  `PositionHeldWhileSaturated` speak of steps and follow from what is remembered
  between them: the pitch loop's output is the common effort that was applied, up
  to the halving of a sum (`RestartsFromApplied`), and the regulator has noted
  every limited effort of the outer interval (`ClippingIsNoted`). `YawTakesLittle`
  rests on the arithmetic of three limitations (`LimitingTakesLittle`). Gains,
  limits, intervals and the robot's motion are arbitrary integers.

The assumptions are those on the constants that the modules declare: intervals,
rates and limits are natural numbers, positive where the code counts up to them.
`Robot` repeats those of its halves (`ChainAssumption`, `SupervisorAssumption`) and
adds none. TLC evaluates them for the constants of every run.

Every safety invariant and action property of the runs, and every refinement,
has its theorem. Only model-checked are the liveness properties, which need
fairness and ENABLED, out of this prover's reach: `SelfTestConcludes`,
`StalledLoopDisarms`, `DriverFaultEscalates`, `CalibratingIsLeft`,
`UncommandedRobotRests`, `ClientLearnsMode`, `TelemetryKeepsComing` and
`ServicedFaultIsReported`. For two of them the bound that makes them true is
proved: `StallBounded` for `StalledLoopDisarms`, `RestedInTime` for
`UncommandedRobotRests`. The divergences are counterexamples and need no proof.

## Divergences

1. **A loop that has stopped can be armed** (`stale_arm`). The design requires "a
   loop that is being serviced" for arming. `LoopServiced()` looks at a flag and
   a count that are aged in IDLE and ARMED only. After a stay in FAULT or
   CALIBRATING they still tell of the last iteration before it, and arming is
   accepted; the stall is then noticed within the missed-service limit.
2. **A driver fault may leave no record** (`fault_forgotten`). REQ-SAFE-006 wants
   a reported fault recorded as the cause. One that arrives while another cause
   is latched is cleared by the same `ClearFault`.
3. **A converging estimator can be armed** (`unconverged_arm`). The design requires
   "a valid estimate" for arming. The supervisor asks its copy, which is as old as
   the last balance iteration; a filter selected at the terminal, or an invalid
   sample between two iterations, makes the estimator invalid before that copy. The
   robot is then armed and disarmed at the next iteration, without an effort in
   between: `DrivesOnEarnedEstimate` and `BlindnessIsBrief` bound the damage.

Three more follow from the code as the modules translate it. No run is kept for
them, because each is one reading of one function:

- REQ-EST-005 wants the estimate invalid whenever its inputs are stale. `Current()`
  (`core/attitude_estimation/implementations/AttitudeEstimationImpl.cpp:66`)
  returns what the last sample made of it, however long ago that was. The balance
  stage is called by samples and not affected.
- REQ-CTRL-009 wants no accumulated state to grow while the output is saturated,
  and `documentation/design/balance-control.md:110` calls the position deviation the
  law's only accumulating term. The regulator's yaw loop
  (`core/balance_control/implementations/LqrStrategy.cpp:47`) accumulates at every
  outer iteration, saturated or not, up to its limit. Its shipped integral gain is
  zero, so that it takes an operator's tuning for the growth to be integral.
- REQ-TELEM-006 wants the stream to report the latched cause in FAULT. The recorder
  (`core/telemetry/implementations/TelemetryRecorder.cpp:24`) runs in balance
  iterations, of which a stalled loop has none. The mode characteristic does
  report it (`ClientLearnsMode`).

Two things to know that no document speaks of. After an inertial sensor that failed
to initialize, the self-test times out into FAULT; clearing that fault and
calibrating enters a calibration that no sample concludes. And
`targets/platform_implementations/st/PlatformImpl.hpp:96` gives
`bondStorageSynchronizer` its `nullptr` after `transport`, declared before it, has
been given the callback that writes it: the radio starts because the stack reports
later, from the event loop, as `OperatorLink` has it.

The documents disagree among themselves about a lost link: REQ-LINK-006 and
`documentation/design/ble-service.md` say that it zeroes the setpoints,
`documentation/design/balance-control.md` that they decay. The code follows the
latter (`CancelMotion`, `DecayUnlessCommanded`), and so does `MotionSession`.

## Not modelled

- Filters, the scaling of measurements and the chassis kinematics: floating-point
  arithmetic, outside TLC's reach, and covered by unit tests. The control laws are
  modelled in integers; rounding, and the derivative gains of the outer loops,
  which divide by the interval, are not.
- Register transfers and pin configuration: input and output. Their outcome is
  modelled where something depends on it.
- Stopping the inertial sensor, and starting it again meanwhile
  (`InertialSensorStm::Stop`): only the destructor of `InertialSensingImpl` stops it,
  and the robot's lasts as long as the program.
- Loop timing statistics, terminal text, device identity, advertising data and wire
  format: reporting and encoding. Of number parsing what it accepts is modelled,
  character by character reading is not.
- The host platform (stubs), the example component and application, tools, and the
  integration test harness.
- The overflow of a wheel's 32-bit position, and the identity of repeated commands
  on the mode characteristic; `PROJECT.json` says why at their hazards.

## Plan

The components that carry the program's logic are modelled, composed, and proved
as far as safety goes. What is left to prove, in this order:

1. The robot under telemetry: `SupervisedTelemetry` watches the supervisor alone;
   `TelemetryIsPassive` over `Robot` would carry `SampleIsCoherent` to the wired
   robot as well.
2. The memory of the strategies: that `EffortSaturation` implements what
   `BalanceControl` says of it in the set `used`, with a history of what has run.
3. The safety half of the liveness properties that have no proved bound yet: a
   driver fault that a service period has seen is latched by its end, a calibration
   that concluded has left CALIBRATING by then, a settled mode is published or
   in flight after the next tick.
