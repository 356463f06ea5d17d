------------------------------ MODULE LockStep ------------------------------
(***************************************************************************)
(* What FIRESTARTER's start-up promises: its workers take three steps,     *)
(* initialise, wait and work, one worker at a time in the order of their   *)
(* numbers, and none begins a step before all have taken the one before.   *)
(***************************************************************************)
EXTENDS Integers

CONSTANT Workers   \* integers

VARIABLE stage    \* the steps each worker has answered

Init == stage = [w \in Workers |-> 0]

Advance(w) ==
  /\ stage[w] < 3
  /\ \A v \in Workers : stage[v] = IF v < w THEN stage[w] + 1 ELSE stage[w]
  /\ stage' = [stage EXCEPT ![w] = @ + 1]

Next == \E w \in Workers : Advance(w)

Spec == Init /\ [][Next]_stage
=============================================================================
