------------------------- MODULE MotionActuation -------------------------
(***************************************************************************)
(* The motion actuation component: the gate between an effort and the two  *)
(* full bridges.  It owns the outcome of the driver's configuration, the   *)
(* latch of the driver's fault line and the last command it gave to the    *)
(* bridges.  The duty that an effort becomes is left out: Apply drives the *)
(* bridges, whatever the duty.                                             *)
(***************************************************************************)

VARIABLES
  driverState,  \* outcome of configuring the driver
  driverFault,  \* latch of the driver's fault line
  bridges       \* what both bridges were last told

actuationVars == <<driverState, driverFault, bridges>>

DriverStates == {"configuring", "ready", "failed"}
DriverFaults == {"none", "driverFault"}
BridgeStates == {"released", "braked", "driven"}
DisableStates == {"tristate", "brake"}

TypeOK ==
  /\ driverState \in DriverStates
  /\ driverFault \in DriverFaults
  /\ bridges \in BridgeStates

Init ==
  /\ driverState = "configuring"
  /\ driverFault = "none"
  /\ bridges = "released"

DrivePermitted == driverState = "ready" /\ driverFault = "none"

(***************************************************************************)
(* A mutated form, no part of the specification: what a plausible bug      *)
(* would make of the definition it is named after.                         *)
(***************************************************************************)
MutOnFaultKeepsBridges ==
  /\ driverFault' = "driverFault"
  /\ UNCHANGED <<driverState, bridges>>

----------------------------------------------------------------------------
\* The driver's registers were read back: verified, or not.
Configured(verified) ==
  /\ driverState = "configuring"
  /\ driverState' = IF verified THEN "ready" ELSE "failed"
  /\ UNCHANGED <<driverFault, bridges>>

\* An effort reaches the bridges only while they may be driven.
Apply ==
  /\ bridges' = IF DrivePermitted THEN "driven" ELSE bridges
  /\ UNCHANGED <<driverState, driverFault>>

\* The tri-state is always reached; a brake only while driving is permitted.
Disable(how) ==
  /\ bridges' = IF how = "brake" /\ DrivePermitted THEN "braked" ELSE "released"
  /\ UNCHANGED <<driverState, driverFault>>

ClearFault ==
  /\ driverFault' = "none"
  /\ UNCHANGED <<driverState, bridges>>

\* A falling edge of the fault line: latched, and the bridges released.
OnFault ==
  /\ driverFault' = "driverFault"
  /\ bridges' = "released"
  /\ UNCHANGED driverState

=============================================================================
