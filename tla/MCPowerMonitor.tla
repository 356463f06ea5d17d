--------------------------- MODULE MCPowerMonitor ---------------------------
(***************************************************************************)
(* Instances of PowerMonitor for TLC.                                      *)
(***************************************************************************)
EXTENDS PowerInvariant

\* -i -1 is no interval of the timer, -i 0 disarms it, 15 is the default.
AnyInterval == {-1, 0, 15}
=============================================================================
