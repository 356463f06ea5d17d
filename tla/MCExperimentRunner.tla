------------------------- MODULE MCExperimentRunner -------------------------
(***************************************************************************)
(* An instance of ExperimentRunner for TLC.                                *)
(***************************************************************************)
EXTENDS ExperimentRunner

AllScripts == {"threaded", "proxy", "sleep", "policy", "foreground"}
SomeMeasurements == 1 .. 12
=============================================================================
