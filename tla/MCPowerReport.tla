--------------------------- MODULE MCPowerReport ---------------------------
(***************************************************************************)
(* Instances of PowerReport for TLC.                                       *)
(***************************************************************************)
EXTENDS PowerReport
=============================================================================
