------------------------------ MODULE Descent ------------------------------
(***************************************************************************)
(* How the programs end: what is left to be done is a tuple of natural     *)
(* numbers, the most significant first, and a step that gets on makes it   *)
(* smaller.  That no tuple can be made smaller for ever is a theorem of    *)
(* ComputeTargetsProofs.                                                   *)
(***************************************************************************)
EXTENDS Integers

Measures(n) == [1 .. n -> Nat]

\* The later tuple is smaller in the first place where the two differ.
Descends(n, earlier, later) ==
  /\ {earlier, later} \subseteq Measures(n)
  /\ \E m \in 1 .. n : /\ later[m] < earlier[m]
                       /\ \A l \in 1 .. m - 1 : later[l] = earlier[l]

\* What a loop has left, which may begin beyond its end.
Remaining(x) == IF x > 0 THEN x ELSE 0
=============================================================================
