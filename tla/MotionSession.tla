-------------------------- MODULE MotionSession --------------------------
(***************************************************************************)
(* Balance control among those that call it: the supervisor, which engages *)
(* and disengages it at moments of its own, the operators at the terminal  *)
(* and over the link, whose loss withdraws the motion, and the control     *)
(* loop, which steers it over the intervals between samples it measures.   *)
(* The command's timeout is measured against the clock instead.            *)
(***************************************************************************)
EXTENDS Integers, Sequences

CONSTANTS
  Strategies, MaximumVelocity, MaximumYawRate, CommandTimeout, MaximumGain, NaN,
  MaxHold    \* bound on the age of a sample when it is delivered

ASSUME StrategiesAssumption == Strategies # {}
ASSUME SetpointAssumption ==
  MaximumVelocity \in Nat \ {0} /\ MaximumYawRate \in Nat \ {0}
ASSUME TimeoutAssumption == CommandTimeout \in Nat \ {0}
ASSUME GainAssumption == MaximumGain \in Nat
ASSUME NaNAssumption == NaN \notin Int
ASSUME HoldAssumption == MaxHold \in Nat

VARIABLES
  active, engaged, velocity, yawRate, commandedAge, cancelled, applied, used,
  gains,        \* BalanceControl
  outerAge,     \* age of the sample that brought the last outer iteration
  \* For stating properties only:
  unattended,   \* ticks since the operator let go, Attended if he has not
  commanded,    \* a motion command was accepted in this session
  ran,          \* strategies run in this session
  engagedWith   \* strategy and gain the session began with

Control == INSTANCE BalanceControl

motionVars == <<velocity, yawRate, commandedAge, cancelled>>
controlVars == <<active, engaged, motionVars, applied, used, gains>>
historyVars == <<unattended, commanded, ran, engagedWith>>
vars == <<controlVars, outerAge, historyVars>>

Attended == -1
Larger(a, b) == IF a > b THEN a ELSE b
\* An interval this long takes every setpoint to zero, whatever its sample's age.
OuterAgeCap == Larger(MaximumVelocity, MaximumYawRate) + MaxHold
UnattendedCap == OuterAgeCap + 1
Older(age, cap) == IF age < cap THEN age + 1 ELSE cap

\* What an operator may ask for: in range, out of it, or no number at all.
Requests(limit) == -(limit + 1)..limit + 1 \cup {NaN}
Indices == 0..1

\* What is typed instead: words, of which the parser sees the length, a decimal
\* point, and whether all that is left to read is the number it has read.
Word(length, point, whole, value) ==
  [length |-> length, point |-> point, whole |-> whole, value |-> value]
MaximumLength == 11
MaximumIndexLength == 3
ParseDecimal(word) ==
  IF word.length <= MaximumLength /\ word.point /\ word.whole
    THEN {word.value} ELSE {}
ParseIndex(word) ==
  IF word.length \in 1..MaximumIndexLength /\ ~word.point /\ word.whole
    THEN {word.value} ELSE {}

Misspelt == {Word(0, FALSE, FALSE, 0), Word(3, TRUE, FALSE, 0),
             Word(MaximumLength + 1, TRUE, TRUE, 0)}
Whole(values) == {Word(MaximumIndexLength, FALSE, TRUE, value) : value \in values}
Decimals(limit) == {Word(MaximumLength, TRUE, TRUE, value) :
                      value \in -(limit + 1)..limit + 1}
Lines(first, second) ==
  {<<a, b>> : a \in first \cup Misspelt, b \in second \cup Misspelt}
    \cup {<<a>> : a \in first}
MotionLines == Lines(Decimals(MaximumVelocity), Decimals(MaximumYawRate) \cup Whole({0}))
ParameterLines == Lines(Whole(Indices), Decimals(MaximumGain))

TypeOK ==
  /\ Control!TypeOK
  /\ outerAge \in 0..OuterAgeCap
  /\ unattended \in Attended..UnattendedCap
  /\ commanded \in BOOLEAN
  /\ ran \subseteq Strategies
  /\ engagedWith \in [strategy : Strategies, gain : 0..MaximumGain]

\* The first outer iteration has passed: it comes long before an estimate is
\* valid, hence before the first session.
Init ==
  /\ Control!Init
  /\ outerAge \in 0..MaxHold
  /\ unattended = 0
  /\ commanded = FALSE
  /\ ran = {}
  /\ engagedWith = [strategy |-> active, gain |-> gains[active]]

----------------------------------------------------------------------------
Select(strategy) ==
  /\ Control!Select(strategy)
  /\ UNCHANGED <<outerAge, historyVars>>

SetParameter(index, value) ==
  /\ Control!SetParameter(index, value)
  /\ UNCHANGED <<outerAge, historyVars>>

Move(newVelocity, newYawRate) ==
  /\ Control!Move(newVelocity, newYawRate)
  /\ unattended' = Attended
  /\ commanded' = TRUE
  /\ UNCHANGED <<outerAge, ran, engagedWith>>

\* The same from the terminal; a line that does not parse is refused.
Param(line) ==
  /\ Len(line) = 2
  /\ \E index \in ParseIndex(line[1]), value \in ParseDecimal(line[2]) :
       SetParameter(index, value)

TypedMove(line) ==
  /\ Len(line) = 2
  /\ \E v \in ParseDecimal(line[1]), w \in ParseDecimal(line[2]) : Move(v, w)

\* The link is lost.
Disconnected ==
  /\ Control!CancelMotion
  /\ unattended' = IF unattended = Attended THEN 0 ELSE unattended
  /\ UNCHANGED <<outerAge, commanded, ran, engagedWith>>

Engage ==
  /\ ~engaged
  /\ Control!Engage
  /\ unattended' = 0
  /\ commanded' = FALSE
  /\ ran' = {}
  /\ engagedWith' = [strategy |-> active, gain |-> gains[active]]
  /\ UNCHANGED outerAge

Disengage ==
  /\ engaged
  /\ Control!Disengage
  /\ UNCHANGED <<outerAge, historyVars>>

Balance(valid) ==
  /\ Control!Balance(valid)
  /\ ran' = IF valid THEN ran \cup {active} ELSE ran
  /\ UNCHANGED <<outerAge, unattended, commanded, engagedWith>>

\* The outer iteration a sample of that age brings.  It goes on measuring its
\* intervals between sessions, when nothing is steered.
Outer(age) ==
  /\ age < outerAge
  /\ IF engaged
       THEN Control!Steer(outerAge - age) /\ ran' = ran \cup {active}
       ELSE UNCHANGED <<controlVars, ran>>
  /\ outerAge' = age
  /\ UNCHANGED <<unattended, commanded, engagedWith>>

TimePasses ==
  /\ Control!TimePasses
  /\ outerAge' = Older(outerAge, OuterAgeCap)
  /\ unattended' = IF unattended # Attended THEN Older(unattended, UnattendedCap)
                   ELSE IF commandedAge + 1 >= CommandTimeout THEN 0
                   ELSE Attended
  /\ UNCHANGED <<commanded, ran, engagedWith>>

----------------------------------------------------------------------------
Next ==
  \/ \E strategy \in Strategies : Select(strategy)
  \/ \E index \in Indices, value \in Requests(MaximumGain) : SetParameter(index, value)
  \/ \E line \in ParameterLines : Param(line)
  \/ \E v \in Requests(MaximumVelocity), w \in Requests(MaximumYawRate) : Move(v, w)
  \/ \E line \in MotionLines : TypedMove(line)
  \/ Disconnected
  \/ Engage
  \/ Disengage
  \/ \E valid \in BOOLEAN : Balance(valid)
  \/ \E age \in 0..MaxHold : Outer(age)
  \/ TimePasses

Spec == Init /\ [][Next]_vars

\* Time passes and the control loop keeps iterating: were it to stop, the
\* supervisor would end the session (SafetySupervisor, StalledLoopDisarms).
FairSpec ==
  Spec /\ WF_vars(TimePasses) /\ WF_vars(\E age \in 0..MaxHold : Outer(age))

----------------------------------------------------------------------------
(***************************************************************************)
(* Safety.                                                                 *)
(***************************************************************************)
\* The robot moves and spends effort only in a session, and only as the
\* operator commanded in that very session: nothing is carried over a disarming.
MotionIsThisSessions ==
  /\ velocity # 0 \/ yawRate # 0 => engaged /\ commanded
  /\ applied = "nonzero" => engaged

\* Once the operator has let go, by silence or by losing the link, each setpoint
\* has lost a tick's deceleration for every tick that passed from then to the
\* sample of the last outer iteration.
Faded(setpoint, maximum) ==
  setpoint # 0 /\ outerAge < OuterAgeCap
    => Control!Abs(setpoint) <= maximum - (unattended - outerAge)
UncommandedMotionFades ==
  Faded(velocity, MaximumVelocity) /\ Faded(yawRate, MaximumYawRate)

\* Whatever a strategy remembers while it is in control it has learnt in this
\* session, and the strategy and its gains are those the session began with.
SessionIsItsOwn ==
  engaged =>
    /\ active \in used => active \in ran
    /\ engagedWith = [strategy |-> active, gain |-> gains[active]]

\* A setpoint that no fresh command sets never grows and never changes its sign.
FadesTo(setpoint, next) ==
  \/ 0 <= next /\ next <= setpoint
  \/ setpoint <= next /\ next <= 0
NeverReverses ==
  [][cancelled' \/ commandedAge' # 0
       => FadesTo(velocity, velocity') /\ FadesTo(yawRate, yawRate')]_vars

----------------------------------------------------------------------------
(***************************************************************************)
(* Liveness, under FairSpec.                                               *)
(***************************************************************************)
\* A robot that is no longer commanded comes to rest.
UncommandedRobotRests ==
  []<>(commandedAge = 0) \/ <>[](velocity = 0 /\ yawRate = 0)

=============================================================================
