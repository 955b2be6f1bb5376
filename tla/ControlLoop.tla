--------------------------- MODULE ControlLoop ---------------------------
(***************************************************************************)
(* The control loop's decimation: which samples start a balance iteration, *)
(* and which balance iterations an outer one.  The intervals it measures   *)
(* and its timing statistics are left out.                                 *)
(***************************************************************************)
EXTENDS Integers

CONSTANTS SamplesPerBalance, BalancesPerOuter

VARIABLES samplesSinceBalance, balancesSinceOuter

loopVars == <<samplesSinceBalance, balancesSinceOuter>>

TypeOK ==
  /\ samplesSinceBalance \in 0..SamplesPerBalance - 1
  /\ balancesSinceOuter \in 0..BalancesPerOuter - 1

Init == samplesSinceBalance = 0 /\ balancesSinceOuter = 0

----------------------------------------------------------------------------
(***************************************************************************)
(* Mutated forms, no part of the specification.                            *)
(***************************************************************************)
MutBalanceDueLate == samplesSinceBalance >= SamplesPerBalance

MutOuterDueEarly == balancesSinceOuter + 2 >= BalancesPerOuter

----------------------------------------------------------------------------
BalanceDue == samplesSinceBalance + 1 >= SamplesPerBalance
OuterDue == balancesSinceOuter + 1 >= BalancesPerOuter

\* Every measurement counts, believable or not.
OnMeasurement ==
  /\ samplesSinceBalance' = IF BalanceDue THEN 0 ELSE samplesSinceBalance + 1
  /\ balancesSinceOuter' =
       IF ~BalanceDue THEN balancesSinceOuter
       ELSE IF OuterDue THEN 0 ELSE balancesSinceOuter + 1

=============================================================================
