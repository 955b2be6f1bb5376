-------------------------- MODULE WheelOdometry --------------------------
(***************************************************************************)
(* Wheel odometry: two counters that wrap once a revolution become signed  *)
(* positions that do not, and velocities over the intervals measured.      *)
(*                                                                         *)
(* The sampling timer comes late at times, and the wheels turn meanwhile.  *)
(* Time is counted in ticks, in each of which a wheel turns by at most     *)
(* MaximumRate counts.  What the component relies on is its design's       *)
(* contract: between two samples a wheel turns by less than half of the    *)
(* counter's resolution (CadenceAssumption).                               *)
(***************************************************************************)
EXTENDS Integers

CONSTANTS
  Wheels,
  Resolution,      \* counts of a revolution
  MaximumRate,     \* counts a wheel may turn by in a tick
  LongestInterval, \* ticks between two samples, the timer's lateness included
  TravelBound      \* bounds the exploration: counts a wheel gets away from 0

ASSUME ResolutionAssumption == Resolution \in Nat /\ Resolution >= 2
ASSUME RateAssumption == MaximumRate \in Nat
ASSUME CadenceAssumption ==
  /\ LongestInterval \in Nat \ {0}
  /\ 2 * (MaximumRate * LongestInterval) < Resolution
ASSUME BoundAssumption == TravelBound \in Nat

VARIABLES
  counter,      \* the hardware counter of each wheel
  sampled,      \* the wheel has been sampled
  previousRaw,  \* its counter at the last sample
  position,     \* counts accumulated
  velocity,     \* counts of the last interval, and its length
  sinceSample,  \* ticks since the last sample
  \* For stating properties only: counts each wheel has turned by since its
  \* first sample, and since its last one.
  travelled, turned

odometryVars == <<sampled, previousRaw, position, velocity>>
vars == <<counter, odometryVars, sinceSample, travelled, turned>>

Readings == 0..Resolution - 1
Velocities == [delta : Int, elapsed : 1..LongestInterval]
Standstill == [delta |-> 0, elapsed |-> 1]

TypeOK ==
  /\ counter \in [Wheels -> Readings]
  /\ sampled \in [Wheels -> BOOLEAN]
  /\ previousRaw \in [Wheels -> Readings]
  /\ position \in [Wheels -> Int]
  /\ velocity \in [Wheels -> Velocities]
  /\ sinceSample \in 0..LongestInterval
  /\ travelled \in [Wheels -> Int]
  /\ turned \in [Wheels -> Int]

Init ==
  /\ counter \in [Wheels -> Readings]
  /\ sampled = [w \in Wheels |-> FALSE]
  /\ previousRaw = [w \in Wheels |-> 0]
  /\ position = [w \in Wheels |-> 0]
  /\ velocity = [w \in Wheels |-> Standstill]
  /\ sinceSample = 0
  /\ travelled = [w \in Wheels |-> 0]
  /\ turned = [w \in Wheels |-> 0]

----------------------------------------------------------------------------
Abs(x) == IF x < 0 THEN -x ELSE x

(***************************************************************************)
(* Mutated forms, no part of the specification.                            *)
(***************************************************************************)
MutShortestDeltaForwards(previous, current) ==
  IF current < previous THEN current - previous + Resolution ELSE current - previous

MutMeasuredNominal(delta) == [delta |-> delta, elapsed |-> 1]

----------------------------------------------------------------------------
\* The shorter way around the counter.  Half of an odd resolution is rounded
\* towards zero, in both directions.
ShortestDelta(previous, current) ==
  LET delta == current - previous
      half == Resolution \div 2
  IN IF delta > half THEN delta - Resolution
     ELSE IF delta < -half THEN delta + Resolution
     ELSE delta

\* Divided by the interval that was measured, not by the timer's period.
Measured(delta) == [delta |-> delta, elapsed |-> sinceSample]

Delta(w) == ShortestDelta(previousRaw[w], counter[w])

\* The timer samples both wheels.  The first sample of a wheel only seeds.
Sample ==
  /\ sinceSample > 0
  /\ sampled' = [w \in Wheels |-> TRUE]
  /\ previousRaw' = counter
  /\ position' = [w \in Wheels |->
       IF sampled[w] THEN position[w] + Delta(w) ELSE position[w]]
  /\ velocity' = [w \in Wheels |->
       IF sampled[w] THEN Measured(Delta(w)) ELSE velocity[w]]
  /\ sinceSample' = 0
  /\ turned' = [w \in Wheels |-> 0]
  /\ UNCHANGED <<counter, travelled>>

\* The hardware: a counter wraps both ways and does not tell.
Wrapped(count) ==
  IF count < 0 THEN count + Resolution
  ELSE IF count >= Resolution THEN count - Resolution
  ELSE count

Turn(turn) ==
  /\ sinceSample < LongestInterval
  /\ sinceSample' = sinceSample + 1
  /\ counter' = [w \in Wheels |-> Wrapped(counter[w] + turn[w])]
  /\ travelled' = [w \in Wheels |->
       IF sampled[w] THEN travelled[w] + turn[w] ELSE travelled[w]]
  /\ turned' = [w \in Wheels |-> turned[w] + turn[w]]
  /\ \A w \in Wheels : Abs(travelled'[w]) <= TravelBound
  /\ UNCHANGED odometryVars

Turns == [Wheels -> -MaximumRate..MaximumRate]

Next == Sample \/ \E turn \in Turns : Turn(turn)

Spec == Init /\ [][Next]_vars

----------------------------------------------------------------------------
(***************************************************************************)
(* Safety.                                                                 *)
(***************************************************************************)
\* The position is what the wheel has truly turned by from its first sample to
\* its last one: no count is lost or duplicated where the counter wraps, in
\* either direction, whatever its value at power-on and however late the timer.
PositionIsTravelled ==
  \A w \in Wheels : sampled[w] => position[w] = travelled[w] - turned[w]

\* No velocity is reported that the wheel cannot have: a late sample does not
\* read as a fast wheel.
VelocityIsPossible ==
  \A w \in Wheels : Abs(velocity[w].delta) <= MaximumRate * velocity[w].elapsed

=============================================================================
