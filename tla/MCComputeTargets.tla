-------------------------- MODULE MCComputeTargets --------------------------
(***************************************************************************)
(* An instance of ComputeTargets for TLC.  An int has five bits: the       *)
(* square of 4, 5 and 7 is negative, that of 6 is too small, and that of 8 *)
(* is zero.                                                                *)
(***************************************************************************)
EXTENDS ComputeTargets

SomeSizes == -3 .. 8
SomeIterations == {-1, 0, 1, 2}
=============================================================================
