---------------------------- MODULE EnergyMeter ----------------------------
(***************************************************************************)
(* What a user of the power tool is promised, with no register, signal or  *)
(* handler in it: the tool opens a window, runs a job inside it, closes    *)
(* the window, and reports for each domain an energy that is at least what *)
(* the domain consumed in the window and at most three times what it has   *)
(* consumed altogether, or it reports nothing at all.                      *)
(***************************************************************************)
EXTENDS Integers

CONSTANTS
  Domain,     \* what is metered
  Capacity    \* a domain that has consumed this much is no longer promised

VARIABLES
  consumed,   \* what each domain has consumed so far
  phase,      \* of the tool
  job,        \* the job it runs
  from, to,   \* consumed when the window opened and when it closed
  report      \* what the tool reports, all 0 until it does

vars == <<consumed, phase, job, from, to, report>>

Zero == [d \in Domain |-> 0]

Init ==
  /\ consumed \in [Domain -> Nat]
  /\ phase = "idle" /\ job = "none"
  /\ from = Zero /\ to = Zero /\ report = Zero

Consume(d) ==
  /\ consumed' = [consumed EXCEPT ![d] = @ + 1]
  /\ UNCHANGED <<phase, job, from, to, report>>

OpenWindow ==
  /\ phase = "idle" /\ phase' = "open"
  /\ from' = consumed
  /\ UNCHANGED <<consumed, job, to, report>>

StartJob ==
  /\ phase = "open"
  /\ job = "none" /\ job' = "running"
  /\ UNCHANGED <<consumed, phase, from, to, report>>

EndJob ==
  /\ job = "running" /\ job' = "ended"
  /\ UNCHANGED <<consumed, phase, from, to, report>>

CloseWindow ==
  /\ phase = "open" /\ phase' = "closed"
  /\ job = "ended"
  /\ to' = consumed
  /\ UNCHANGED <<consumed, job, from, report>>

Promised(d, energy) ==
  consumed[d] < Capacity =>
    /\ energy >= to[d] - from[d]
    /\ energy <= 3 * consumed[d]

Report ==
  /\ phase = "closed" /\ phase' = "done"
  /\ report' \in [Domain -> Nat]
  /\ \A d \in Domain : Promised(d, report'[d])
  /\ UNCHANGED <<consumed, job, from, to>>

\* The signal that ends the tool may end the job too.
Abort ==
  /\ phase \in {"idle", "open", "closed"} /\ phase' = "aborted"
  /\ \/ job' = job
     \/ job = "running" /\ job' = "ended"
  /\ UNCHANGED <<consumed, from, to, report>>

Next ==
  \/ \E d \in Domain : Consume(d)
  \/ OpenWindow \/ StartJob \/ EndJob \/ CloseWindow \/ Report \/ Abort

Spec == Init /\ [][Next]_vars
=============================================================================
