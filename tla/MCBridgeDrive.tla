-------------------------- MODULE MCBridgeDrive --------------------------
(***************************************************************************)
(* An instance of BridgeDrive for TLC: efforts on and between the steps of *)
(* a duty, at both ends of its range and beyond them.                      *)
(***************************************************************************)
EXTENDS BridgeDrive

MCEfforts == {-9, -6, -3, -1, 0, 1, 2, 5, 6, 7}

=============================================================================
