----------------------- MODULE WheelOdometryProofs -----------------------
(***************************************************************************)
(* Proofs about WheelOdometry, for every resolution, rate, interval and    *)
(* number of wheels that keep the contract on the cadence.                 *)
(*                                                                         *)
(* The counter has lost whole revolutions only.  CounterAgrees says that   *)
(* between two samples it has lost at most one, in either direction, and   *)
(* TurnedBounded that the counts turned are then told from it.             *)
(***************************************************************************)
EXTENDS WheelOdometry, TLAPS

Agrees(reading, previous, counts) ==
  \/ reading = previous + counts
  \/ reading = previous + counts + Resolution
  \/ reading = previous + counts - Resolution

CounterAgrees ==
  \A w \in Wheels : sampled[w] => Agrees(counter[w], previousRaw[w], turned[w])

TurnedBounded ==
  \A w \in Wheels : Abs(turned[w]) <= MaximumRate * sinceSample

SeedingPending ==
  \A w \in Wheels : ~sampled[w] => position[w] = 0 /\ travelled[w] = 0

IInv ==
  /\ TypeOK
  /\ CounterAgrees
  /\ TurnedBounded
  /\ SeedingPending
  /\ PositionIsTravelled
  /\ VelocityIsPossible

----------------------------------------------------------------------------
\* The shorter way around is the way taken, if that was less than half of it.
LEMMA ShortestDeltaIsTurn ==
  ASSUME NEW previous \in Readings, NEW reading \in Readings, NEW counts \in Int,
         2 * Abs(counts) < Resolution, Agrees(reading, previous, counts)
  PROVE  ShortestDelta(previous, reading) = counts
BY ResolutionAssumption DEF Readings, Abs, Agrees, ShortestDelta

\* A counter that wraps stays in its range and in agreement.
LEMMA WrappedAgrees ==
  ASSUME NEW previous \in Readings, NEW reading \in Readings, NEW counts \in Int,
         NEW turn \in Int, 2 * Abs(counts) < Resolution,
         2 * Abs(counts + turn) < Resolution, 2 * Abs(turn) < Resolution,
         Agrees(reading, previous, counts)
  PROVE  Agrees(Wrapped(reading + turn), previous, counts + turn)
BY ResolutionAssumption DEF Readings, Abs, Agrees, Wrapped

LEMMA WrappedInRange ==
  ASSUME NEW reading \in Readings, NEW turn \in Int, 2 * Abs(turn) < Resolution
  PROVE  Wrapped(reading + turn) \in Readings
BY ResolutionAssumption DEF Readings, Abs, Wrapped

\* The contract on the cadence, used at any tick up to the longest interval.
LEMMA LessThanHalf ==
  ASSUME NEW ticks \in 0..LongestInterval, NEW counts \in Int,
         Abs(counts) <= MaximumRate * ticks
  PROVE  2 * Abs(counts) < Resolution
<1>1. MaximumRate * ticks <= MaximumRate * LongestInterval
  BY RateAssumption, CadenceAssumption
<1>2. Abs(counts) \in Int /\ MaximumRate * ticks \in Int
      /\ MaximumRate * LongestInterval \in Int
  BY RateAssumption, CadenceAssumption DEF Abs
<1>3. QED
  BY <1>1, <1>2, CadenceAssumption, ResolutionAssumption

LEMMA OneTurnIsLessThanHalf ==
  ASSUME NEW turn \in -MaximumRate..MaximumRate
  PROVE  turn \in Int /\ 2 * Abs(turn) < Resolution
<1>1. MaximumRate * 1 = MaximumRate /\ 1 \in 0..LongestInterval /\ turn \in Int
      /\ Abs(turn) <= MaximumRate
  BY RateAssumption, CadenceAssumption DEF Abs
<1>2. QED
  BY <1>1, LessThanHalf

----------------------------------------------------------------------------
LEMMA OdometryInit == Init => IInv
<1> SUFFICES ASSUME Init PROVE IInv
  OBVIOUS
<1>1. Standstill \in Velocities
  BY CadenceAssumption DEF Standstill, Velocities
<1>2. 0 \in Readings /\ 0 \in 0..LongestInterval
  BY ResolutionAssumption, CadenceAssumption DEF Readings
<1>3. TypeOK
  BY <1>1, <1>2 DEF Init, TypeOK
<1>4. CounterAgrees /\ SeedingPending /\ PositionIsTravelled
  BY DEF Init, CounterAgrees, SeedingPending, PositionIsTravelled
<1>5. TurnedBounded
  <2>1. MaximumRate * 0 = 0 /\ Abs(0) = 0
    BY RateAssumption DEF Abs
  <2>2. \A w \in Wheels : turned[w] = 0
    BY DEF Init
  <2>3. sinceSample = 0
    BY DEF Init
  <2>4. ASSUME NEW w \in Wheels PROVE Abs(turned[w]) <= MaximumRate * sinceSample
    <3>1. Abs(turned[w]) = 0
      BY <2>1, <2>2
    <3>2. MaximumRate * sinceSample = 0
      BY <2>1, <2>3
    <3>3. QED
      BY <3>1, <3>2
  <2>5. QED
    BY <2>4 DEF TurnedBounded
<1>6. VelocityIsPossible
  <2>1. MaximumRate * 1 \in Nat /\ Abs(0) = 0
    BY RateAssumption DEF Abs
  <2>2. \A w \in Wheels : velocity[w].delta = 0 /\ velocity[w].elapsed = 1
    BY DEF Init, Standstill
  <2>3. ASSUME NEW w \in Wheels
        PROVE  Abs(velocity[w].delta) <= MaximumRate * velocity[w].elapsed
    <3>1. Abs(velocity[w].delta) = 0
      BY <2>1, <2>2
    <3>2. MaximumRate * velocity[w].elapsed \in Nat
      BY <2>1, <2>2
    <3>3. QED
      BY <3>1, <3>2
  <2>4. QED
    BY <2>3 DEF VelocityIsPossible
<1>7. QED
  BY <1>3, <1>4, <1>5, <1>6 DEF IInv

\* What a sample reads off a wheel that has been sampled before.
LEMMA DeltaIsTurned ==
  ASSUME IInv, NEW w \in Wheels, sampled[w]
  PROVE  Delta(w) = turned[w] /\ Delta(w) \in Int
<1>1. /\ counter[w] \in Readings /\ previousRaw[w] \in Readings
      /\ turned[w] \in Int /\ sinceSample \in 0..LongestInterval
  BY DEF IInv, TypeOK
<1>2. 2 * Abs(turned[w]) < Resolution
  BY <1>1, LessThanHalf DEF IInv, TurnedBounded
<1>3. Agrees(counter[w], previousRaw[w], turned[w])
  BY DEF IInv, CounterAgrees
<1>4. QED
  BY <1>1, <1>2, <1>3, ShortestDeltaIsTurn DEF Delta

\* A sample adds what a wheel sampled before has turned by, and only seeds others.
LEMMA SampleOfWheel ==
  ASSUME IInv, Sample, NEW w \in Wheels
  PROVE  /\ previousRaw'[w] = counter[w] /\ counter'[w] = counter[w]
         /\ sampled'[w] = TRUE /\ turned'[w] = 0 /\ travelled'[w] = travelled[w]
         /\ sampled[w] => /\ position'[w] = position[w] + turned[w]
                          /\ velocity'[w].delta = turned[w]
                          /\ velocity'[w].elapsed = sinceSample
                          /\ velocity'[w] \in Velocities
         /\ ~sampled[w] => position'[w] = position[w] /\ velocity'[w] = velocity[w]
<1>1. position'[w] = IF sampled[w] THEN position[w] + Delta(w) ELSE position[w]
  BY DEF Sample
<1>2. velocity'[w] = IF sampled[w] THEN Measured(Delta(w)) ELSE velocity[w]
  BY DEF Sample
<1>3. sampled[w] => Delta(w) = turned[w] /\ Delta(w) \in Int
  BY DeltaIsTurned
<1>4. sinceSample \in 1..LongestInterval
  BY CadenceAssumption DEF Sample, IInv, TypeOK
<1>5. sampled[w] => Measured(Delta(w)) \in Velocities
  BY <1>3, <1>4 DEF Measured, Velocities
<1>6. /\ previousRaw'[w] = counter[w] /\ counter'[w] = counter[w]
      /\ sampled'[w] = TRUE /\ turned'[w] = 0 /\ travelled'[w] = travelled[w]
  BY DEF Sample
<1>7. CASE sampled[w]
  <2>1. position'[w] = position[w] + turned[w]
    BY <1>1, <1>3, <1>7
  <2>2. velocity'[w] = Measured(turned[w]) /\ velocity'[w] \in Velocities
    BY <1>2, <1>3, <1>5, <1>7
  <2>3. velocity'[w].delta = turned[w] /\ velocity'[w].elapsed = sinceSample
    BY <2>2 DEF Measured
  <2>4. QED
    BY <1>6, <1>7, <2>1, <2>2, <2>3
<1>8. CASE ~sampled[w]
  BY <1>1, <1>2, <1>6, <1>8
<1>9. QED
  BY <1>7, <1>8

LEMMA SampleKeeps ==
  ASSUME IInv, Sample
  PROVE  IInv'
<1>1. ASSUME NEW w \in Wheels
      PROVE  /\ counter[w] \in Readings /\ position[w] \in Int
             /\ travelled[w] \in Int /\ turned[w] \in Int
             /\ velocity[w] \in Velocities
  BY <1>1 DEF IInv, TypeOK
<1>2. sinceSample \in 1..LongestInterval /\ sinceSample' = 0
  BY CadenceAssumption DEF Sample, IInv, TypeOK
<1>3. TypeOK'
  <2>1. position' \in [Wheels -> Int]
    <3>1. position' = [w \in Wheels |->
                         IF sampled[w] THEN position[w] + Delta(w) ELSE position[w]]
      BY DEF Sample
    <3>2. \A w \in Wheels : sampled[w] => Delta(w) \in Int
      BY DeltaIsTurned
    <3>3. QED
      BY <1>1, <3>1, <3>2
  <2>2. velocity' \in [Wheels -> Velocities]
    <3>1. velocity' = [w \in Wheels |->
                         IF sampled[w] THEN Measured(Delta(w)) ELSE velocity[w]]
      BY DEF Sample
    <3>2. \A w \in Wheels : velocity'[w] \in Velocities
      BY <1>1, SampleOfWheel
    <3>3. QED
      BY <3>1, <3>2
  <2>3. /\ counter' \in [Wheels -> Readings] /\ previousRaw' \in [Wheels -> Readings]
        /\ sampled' \in [Wheels -> BOOLEAN] /\ turned' \in [Wheels -> Int]
        /\ travelled' \in [Wheels -> Int]
    BY DEF Sample, IInv, TypeOK
  <2>4. sinceSample' \in 0..LongestInterval
    BY <1>2, CadenceAssumption
  <2>5. QED
    BY <2>1, <2>2, <2>3, <2>4 DEF TypeOK, Readings, Velocities
<1>4. CounterAgrees'
  <2>1. ASSUME NEW w \in Wheels PROVE counter'[w] = previousRaw'[w] + turned'[w]
    <3>1. counter[w] \in Int
      BY <1>1, <2>1, ResolutionAssumption DEF Readings
    <3>2. /\ counter'[w] = counter[w] /\ previousRaw'[w] = counter[w]
          /\ turned'[w] = 0
      BY <2>1, SampleOfWheel
    <3>3. QED
      BY <3>1, <3>2
  <2>2. QED
    BY <2>1 DEF CounterAgrees, Agrees
<1>5. TurnedBounded'
  <2>1. MaximumRate * 0 = 0 /\ Abs(0) = 0
    BY RateAssumption DEF Abs
  <2>2. \A w \in Wheels : turned'[w] = 0
    BY SampleOfWheel
  <2>3. \A w \in Wheels : Abs(turned'[w]) <= MaximumRate * sinceSample'
    BY <1>2, <2>1, <2>2
  <2>4. QED
    BY <2>3 DEF TurnedBounded, Abs
<1>6. SeedingPending'
  BY SampleOfWheel DEF SeedingPending
<1>7. PositionIsTravelled'
  <2>1. ASSUME NEW w \in Wheels PROVE position'[w] = travelled'[w] - turned'[w]
    <3>1. travelled'[w] = travelled[w] /\ turned'[w] = 0
      BY <2>1, SampleOfWheel
    <3>2. position[w] \in Int /\ travelled[w] \in Int /\ turned[w] \in Int
      BY <1>1, <2>1
    <3>3. CASE sampled[w]
      <4>1. position'[w] = position[w] + turned[w]
        BY <2>1, <3>3, SampleOfWheel
      <4>2. position[w] = travelled[w] - turned[w]
        BY <2>1, <3>3 DEF IInv, PositionIsTravelled
      <4>3. QED
        BY <3>1, <3>2, <4>1, <4>2
    <3>4. CASE ~sampled[w]
      <4>1. position'[w] = position[w]
        BY <2>1, <3>4, SampleOfWheel
      <4>2. position[w] = 0 /\ travelled[w] = 0
        BY <2>1, <3>4 DEF IInv, SeedingPending
      <4>3. QED
        BY <3>1, <4>1, <4>2
    <3>5. QED
      BY <3>3, <3>4
  <2>2. QED
    BY <2>1 DEF PositionIsTravelled
<1>8. VelocityIsPossible'
  <2>1. ASSUME NEW w \in Wheels
        PROVE  Abs(velocity'[w].delta) <= MaximumRate * velocity'[w].elapsed
    <3>1. CASE sampled[w]
      <4>1. velocity'[w].delta = turned[w] /\ velocity'[w].elapsed = sinceSample
        BY <2>1, <3>1, SampleOfWheel
      <4>2. Abs(turned[w]) <= MaximumRate * sinceSample
        BY <2>1 DEF IInv, TurnedBounded
      <4>3. QED
        BY <4>1, <4>2
    <3>2. CASE ~sampled[w]
      <4>1. velocity'[w] = velocity[w]
        BY <2>1, <3>2, SampleOfWheel
      <4>2. QED
        BY <2>1, <4>1 DEF IInv, VelocityIsPossible
    <3>3. QED
      BY <3>1, <3>2
  <2>2. QED
    BY <2>1 DEF VelocityIsPossible, Abs
<1>9. QED
  BY <1>3, <1>4, <1>5, <1>6, <1>7, <1>8 DEF IInv

LEMMA TurnKeeps ==
  ASSUME IInv, NEW turn \in Turns, Turn(turn)
  PROVE  IInv'
<1>1. /\ sinceSample \in 0..LongestInterval /\ sinceSample' = sinceSample + 1
      /\ sinceSample' \in 0..LongestInterval
  BY CadenceAssumption DEF Turn, IInv, TypeOK
<1>2. ASSUME NEW w \in Wheels
      PROVE  /\ turn[w] \in Int /\ 2 * Abs(turn[w]) < Resolution
             /\ Abs(turn[w]) <= MaximumRate
             /\ counter[w] \in Readings /\ previousRaw[w] \in Readings
             /\ turned[w] \in Int /\ travelled[w] \in Int /\ position[w] \in Int
             /\ sampled[w] \in BOOLEAN
  <2>1. turn[w] \in -MaximumRate..MaximumRate
    BY <1>2 DEF Turns
  <2>2. turn[w] \in Int /\ 2 * Abs(turn[w]) < Resolution /\ Abs(turn[w]) <= MaximumRate
    BY <2>1, OneTurnIsLessThanHalf, RateAssumption DEF Abs
  <2>3. QED
    BY <1>2, <2>2 DEF IInv, TypeOK
<1>3. ASSUME NEW w \in Wheels
      PROVE  /\ counter'[w] = Wrapped(counter[w] + turn[w])
             /\ turned'[w] = turned[w] + turn[w]
             /\ travelled'[w] = IF sampled[w] THEN travelled[w] + turn[w] ELSE travelled[w]
  BY <1>3 DEF Turn
<1>4. UNCHANGED <<sampled, previousRaw, position, velocity>>
  BY DEF Turn, odometryVars
<1>5. TurnedBounded'
  <2>1. ASSUME NEW w \in Wheels
        PROVE  Abs(turned'[w]) <= MaximumRate * sinceSample'
    <3>1. Abs(turned[w]) <= MaximumRate * sinceSample
      BY <2>1 DEF IInv, TurnedBounded
    <3>2. Abs(turned[w] + turn[w]) <= Abs(turned[w]) + Abs(turn[w])
          /\ Abs(turned[w]) \in Int /\ Abs(turn[w]) \in Int
          /\ Abs(turned[w] + turn[w]) \in Int
      BY <1>2, <2>1 DEF Abs
    <3>3. MaximumRate * (sinceSample + 1) = MaximumRate * sinceSample + MaximumRate
          /\ MaximumRate * sinceSample \in Int
      BY <1>1, RateAssumption, CadenceAssumption
    <3>4. Abs(turned[w] + turn[w]) <= MaximumRate * (sinceSample + 1)
      BY <1>2, <2>1, <3>1, <3>2, <3>3, RateAssumption
    <3>5. QED
      BY <1>1, <1>3, <2>1, <3>4
  <2>2. QED
    BY <2>1 DEF TurnedBounded, Abs
<1>6. TypeOK'
  <2>1. counter' \in [Wheels -> Readings]
    <3>1. counter' = [w \in Wheels |-> Wrapped(counter[w] + turn[w])]
      BY DEF Turn
    <3>2. \A w \in Wheels : Wrapped(counter[w] + turn[w]) \in Readings
      BY <1>2, WrappedInRange
    <3>3. QED
      BY <3>1, <3>2
  <2>2. turned' \in [Wheels -> Int]
    <3>1. turned' = [w \in Wheels |-> turned[w] + turn[w]]
      BY DEF Turn
    <3>2. QED
      BY <1>2, <3>1
  <2>3. travelled' \in [Wheels -> Int]
    <3>1. travelled' = [w \in Wheels |->
                          IF sampled[w] THEN travelled[w] + turn[w] ELSE travelled[w]]
      BY DEF Turn
    <3>2. QED
      BY <1>2, <3>1
  <2>4. QED
    BY <1>1, <1>4, <2>1, <2>2, <2>3 DEF IInv, TypeOK, Readings, Velocities
<1>7. CounterAgrees'
  <2>1. ASSUME NEW w \in Wheels, sampled[w]
        PROVE  Agrees(counter'[w], previousRaw[w], turned'[w])
    <3>1. 2 * Abs(turned[w]) < Resolution
      BY <1>1, <1>2, <2>1, LessThanHalf DEF IInv, TurnedBounded
    <3>2. 2 * Abs(turned[w] + turn[w]) < Resolution
      <4>1. Abs(turned[w] + turn[w]) <= MaximumRate * sinceSample'
        BY <1>3, <1>5, <2>1 DEF TurnedBounded, Abs
      <4>2. turned[w] + turn[w] \in Int
        BY <1>2, <2>1
      <4>3. QED
        BY <1>1, <4>1, <4>2, LessThanHalf
    <3>3. Agrees(counter[w], previousRaw[w], turned[w])
      BY <2>1 DEF IInv, CounterAgrees
    <3>4. Agrees(Wrapped(counter[w] + turn[w]), previousRaw[w], turned[w] + turn[w])
      BY <1>2, <2>1, <3>1, <3>2, <3>3, WrappedAgrees
    <3>5. QED
      BY <1>3, <2>1, <3>4
  <2>2. QED
    BY <1>4, <2>1 DEF CounterAgrees, Agrees
<1>8. SeedingPending'
  BY <1>3, <1>4 DEF IInv, SeedingPending
<1>9. PositionIsTravelled'
  <2>1. ASSUME NEW w \in Wheels, sampled[w]
        PROVE  position[w] = travelled'[w] - turned'[w]
    BY <1>2, <1>3, <2>1 DEF IInv, PositionIsTravelled
  <2>2. QED
    BY <1>4, <2>1 DEF PositionIsTravelled
<1>10. VelocityIsPossible'
  BY <1>4 DEF IInv, VelocityIsPossible, Abs
<1>11. QED
  BY <1>5, <1>6, <1>7, <1>8, <1>9, <1>10 DEF IInv

LEMMA Inductive == Spec => []IInv
<1>1. IInv /\ [Next]_vars => IInv'
  <2>1. ASSUME IInv, UNCHANGED vars
        PROVE  IInv'
    BY <2>1 DEF vars, odometryVars, IInv, TypeOK, CounterAgrees, Agrees,
       TurnedBounded, SeedingPending, PositionIsTravelled, VelocityIsPossible,
       Abs, Readings, Velocities
  <2>2. QED
    BY <2>1, SampleKeeps, TurnKeeps DEF Next
<1>2. QED
  BY <1>1, OdometryInit, PTL DEF Spec

----------------------------------------------------------------------------
\* Counters and readings stay in their range, and no interval measured is empty.
THEOREM TypeCorrect == Spec => []TypeOK
<1>1. IInv => TypeOK
  BY DEF IInv
<1>2. QED
  BY <1>1, Inductive, PTL

\* For every resolution, odd or even, and every rate and interval within the
\* contract, no count is lost or duplicated at the counter's wrap.
THEOREM PositionIsTravelledAlways == Spec => []PositionIsTravelled
<1>1. IInv => PositionIsTravelled
  BY DEF IInv
<1>2. QED
  BY <1>1, Inductive, PTL

\* However late the timer, no velocity exceeds what a wheel can have.
THEOREM VelocityIsPossibleAlways == Spec => []VelocityIsPossible
<1>1. IInv => VelocityIsPossible
  BY DEF IInv
<1>2. QED
  BY <1>1, Inductive, PTL

=============================================================================
