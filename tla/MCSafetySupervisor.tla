----------------------- MODULE MCSafetySupervisor -----------------------
(***************************************************************************)
(* Instances of SafetySupervisor for TLC.  The angles lie on both sides of *)
(* each threshold and on the thresholds themselves, with either sign.      *)
(***************************************************************************)
EXTENDS SafetySupervisor

\* Upright at the edge, tilted at the edge, fallen.
MCPitches == {0, -1, 2, -3}
\* Upright, tilted, fallen.
MCFewPitches == {0, 2, -3}

=============================================================================
