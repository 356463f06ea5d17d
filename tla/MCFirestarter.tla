--------------------------- MODULE MCFirestarter ---------------------------
(***************************************************************************)
(* An instance of Firestarter for TLC.  Units are scaled: a millisecond    *)
(* has four microseconds, a second two milliseconds, loads are quarters.   *)
(***************************************************************************)
EXTENDS Firestarter

AnyFault == {"create", "alloc", "init"}
\* The clock may be set back, and ahead.
SomeClocks == {0, -3, 5}
=============================================================================
