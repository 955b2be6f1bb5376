------------------------ MODULE AttitudeEstimation ------------------------
(***************************************************************************)
(* The validity of the attitude estimate: when the filter restarts and     *)
(* when it has converged.  Time points are ages, as in InertialSensing;    *)
(* the angle, and which of the two filters computes it, are left out.      *)
(***************************************************************************)
EXTENDS Integers

CONSTANTS
  MaximumInterval,      \* longest interval the filter integrates over
  ConvergenceInterval,  \* time a filter runs before its estimate is valid
  MaxHold               \* bound on the age of a sample when it is delivered

VARIABLES
  running,         \* the filter has been started and not stopped since
  previousAge,     \* age of the last valid measurement's sample
  convergenceAge,  \* age of the sample that (re)started the filter
  estimate         \* validity of the latest estimate, and why not

estimationVars == <<running, previousAge, convergenceAge, estimate>>

PreviousAgeCap == MaximumInterval + MaxHold + 1
ConvergenceAgeCap == ConvergenceInterval + MaxHold
Older(age, cap) == IF age < cap THEN age + 1 ELSE cap

InvalidCauses == {"none", "sensing", "converging"}

TypeOK ==
  /\ running \in BOOLEAN
  /\ previousAge \in 0..PreviousAgeCap
  /\ convergenceAge \in 0..ConvergenceAgeCap
  /\ estimate \in [valid : BOOLEAN, cause : InvalidCauses]

Converging == [valid |-> FALSE, cause |-> "converging"]

Init ==
  /\ running = FALSE
  /\ previousAge = PreviousAgeCap
  /\ convergenceAge = ConvergenceAgeCap
  /\ estimate = [valid |-> FALSE, cause |-> "sensing"]

----------------------------------------------------------------------------
(***************************************************************************)
(* Mutated forms, no part of the specification.                            *)
(***************************************************************************)
MutSelectKeepsRunning ==
  /\ estimate' = Converging
  /\ UNCHANGED <<running, previousAge, convergenceAge>>

MutUpdateSkipsInvalid(valid, age) ==
  IF ~valid
    THEN UNCHANGED <<running, previousAge, convergenceAge, estimate>>
    ELSE /\ running' = TRUE
         /\ convergenceAge' = IF running THEN convergenceAge ELSE age
         /\ estimate' = IF running /\ convergenceAge - age >= ConvergenceInterval
                          THEN [valid |-> TRUE, cause |-> "none"] ELSE Converging
         /\ previousAge' = age

----------------------------------------------------------------------------
\* Integrating backwards, over nothing or over a gap restarts the filter.
MustRestart(age) ==
  LET interval == previousAge - age
  IN ~running \/ interval <= 0 \/ interval > MaximumInterval

Restart(age) ==
  /\ running' = TRUE
  /\ convergenceAge' = age
  /\ estimate' = Converging

Fuse(age) ==
  /\ estimate' = IF convergenceAge - age >= ConvergenceInterval
                   THEN [valid |-> TRUE, cause |-> "none"] ELSE Converging
  /\ UNCHANGED <<running, convergenceAge>>

\* A measurement of that validity, whose sample has that age.
Update(valid, age) ==
  IF ~valid
    THEN /\ running' = FALSE
         /\ estimate' = [valid |-> FALSE, cause |-> "sensing"]
         /\ UNCHANGED <<previousAge, convergenceAge>>
    ELSE /\ IF MustRestart(age) THEN Restart(age) ELSE Fuse(age)
         /\ previousAge' = age

\* The operator chooses a filter, be it the one already chosen.
Select ==
  /\ running' = FALSE
  /\ estimate' = Converging
  /\ UNCHANGED <<previousAge, convergenceAge>>

TimePasses ==
  /\ previousAge' = Older(previousAge, PreviousAgeCap)
  /\ convergenceAge' = Older(convergenceAge, ConvergenceAgeCap)
  /\ UNCHANGED <<running, estimate>>

=============================================================================
