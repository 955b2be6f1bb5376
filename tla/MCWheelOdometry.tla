------------------------- MODULE MCWheelOdometry -------------------------
(***************************************************************************)
(* An instance of WheelOdometry for TLC.  The wheels are interchangeable.  *)
(***************************************************************************)
EXTENDS WheelOdometry, TLC

WheelSymmetry == Permutations(Wheels)

=============================================================================
