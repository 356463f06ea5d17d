------------------------- MODULE MCJobDistribution -------------------------
(***************************************************************************)
(* An instance of JobDistribution for TLC.                                 *)
(***************************************************************************)
EXTENDS JobDistribution

\* All that are accepted, and those on either side of them.
SomeJobs == -1 .. 21
AnyPolicy == 0 .. 3
=============================================================================
