--------------------------- MODULE ComputeTargets ---------------------------
(***************************************************************************)
(* The two programs whose power is measured: StandardCandle and            *)
(* NaiveMatMul.  Both fill a matrix, combine it with a second one into a   *)
(* third, and repeat that; StandardCandle sleeps and counts in between.    *)
(*                                                                         *)
(* An int has a width, and as the programs are built (-O0) it wraps        *)
(* around.  A float is the place it comes from, and negative if nothing    *)
(* has been written there.                                                 *)
(***************************************************************************)
EXTENDS Descent

CONSTANTS
  IntMax,       \* 2^31 - 1
  Half, Wide,   \* 2^30, and 2^64 for a uint64_t
  Sizes, Iterations   \* what the options may say

ASSUME TargetAssumption ==
  /\ IntMax \in Nat
  /\ Half \in Nat \ {0} /\ Wide \in Nat /\ 2 * Half < Wide
  /\ Sizes \subseteq -IntMax .. IntMax /\ Iterations \subseteq -IntMax .. IntMax

VARIABLES
  program, size, iterations,
  pc,
  elements,      \* of each of the three arrays
  a, c,          \* b is never written
  iter, i, j, k, acc,
  up, down,      \* count, count_up and count_down
  stray          \* history: an access outside its array

args == <<program, size, iterations>>
loops == <<iter, i, j, k, acc>>
waits == <<up, down>>
vars == <<args, pc, elements, a, c, loops, waits, stray>>

-----------------------------------------------------------------------------
\* What an int holds after an operation that may have left its range.
Wrap(x) == ((x + IntMax + 1) % (2 * (IntMax + 1))) - (IntMax + 1)

Square == Wrap(size * size)

(* main.                                                                   *)

\* program_options: help, or an exception of the parser.
RejectCandle ==
  /\ pc = "start" /\ program = "StandardCandle"
  /\ pc' = "rejected"
  /\ UNCHANGED <<args, elements, a, c, loops, waits, stray>>

RunCandle ==
  /\ pc = "start" /\ program = "StandardCandle"
  /\ pc' = "allocate"
  /\ UNCHANGED <<args, elements, a, c, loops, waits, stray>>

\* The usage, or the assertion.
RejectMatMul ==
  /\ pc = "start" /\ program = "NaiveMatMul"
  /\ \/ pc' = "rejected"
     \/ ~(size > 0 /\ iterations > 0) /\ pc' = "aborted"
  /\ UNCHANGED <<args, elements, a, c, loops, waits, stray>>

RunMatMul ==
  /\ pc = "start" /\ program = "NaiveMatMul"
  /\ size > 0 /\ iterations > 0
  /\ pc' = "allocate"
  /\ UNCHANGED <<args, elements, a, c, loops, waits, stray>>

-----------------------------------------------------------------------------
(* standard_candle, which both programs have.                              *)

\* What an element holds before it is written.
Unwritten(element) == -(IntMax + 2 + element)

\* Three arrays, with nothing in them.
Allocate ==
  /\ pc = "allocate" /\ Square >= 0
  /\ pc' = "iterate" /\ elements' = Square
  /\ a' = [e \in 0 .. Square - 1 |-> Unwritten(e)]
  /\ c' = [e \in 0 .. Square - 1 |-> {<<Unwritten(e), Unwritten(e)>>}]
  /\ UNCHANGED <<args, loops, waits, stray>>

\* A negative number of elements, or no memory: nobody catches the exception.
AllocationFails ==
  /\ pc = "allocate" /\ pc' = "aborted"
  /\ UNCHANGED <<args, elements, a, c, loops, waits, stray>>

Iterate ==
  /\ pc = "iterate" /\ iter < iterations
  /\ pc' = "fill" /\ i' = 0
  /\ UNCHANGED <<args, elements, a, c, iter, j, k, acc, waits, stray>>

\* The arrays are deleted, which may notice what a stray write has done.
Return ==
  /\ pc = "iterate" /\ ~(iter < iterations)
  /\ pc' \in IF stray THEN {"returned", "crashed"} ELSE {"returned"}
  /\ UNCHANGED <<args, elements, a, c, loops, waits, stray>>

\* a[i] = float(i) / (float(i)+1.0)
Fill ==
  /\ pc = "fill" /\ i < Square
  /\ a' = [a EXCEPT ![i] = i] /\ i' = i + 1
  /\ UNCHANGED <<args, pc, elements, c, iter, j, k, acc, waits, stray>>

\* Mutated: the sum goes on where the last one has ended.
CarriedOver == acc

\* float acc = 0
Zero == {}

\* The loop over i, once the matrix is filled.
Combine ==
  /\ pc = "fill" /\ ~(i < Square)
  /\ pc' = "rows" /\ i' = 0 /\ j' = 0 /\ k' = 0 /\ acc' = Zero
  /\ UNCHANGED <<args, elements, a, c, iter, waits, stray>>

\* Mutated: one too many.
MoreOrEqual(index) == index <= size

\* The condition of the loops over i, j and k.
More(index) == index < size

Elsewhere(element) == element \notin 0 .. elements - 1

\* acc += a[i*size+k] + b[k*size+j]: an element that is outside may belong to
\* something else, or to nothing at all.  The second matrix is read as it was
\* allocated.
Accumulate ==
  LET x == Wrap(i * size + k)
      y == Wrap(k * size + j)
  IN /\ pc = "rows" /\ More(i) /\ More(j) /\ More(k)
     /\ acc' = acc \cup {<<IF Elsewhere(x) THEN Unwritten(x) ELSE a[x], Unwritten(y)>>}
     /\ k' = k + 1
     /\ stray' = (stray \/ Elsewhere(x) \/ Elsewhere(y))
     /\ pc' \in IF Elsewhere(x) \/ Elsewhere(y) THEN {"rows", "crashed"} ELSE {"rows"}
     /\ UNCHANGED <<args, elements, a, c, iter, i, j, waits>>

\* c[i*size+j] = acc; what a stray write changes is not modelled, and nothing
\* is said of a run that has strayed.
Store ==
  LET z == Wrap(i * size + j)
  IN /\ pc = "rows" /\ More(i) /\ More(j) /\ ~More(k)
     /\ c' = IF Elsewhere(z) THEN c ELSE [c EXCEPT ![z] = acc]
     /\ stray' = (stray \/ Elsewhere(z))
     /\ pc' \in IF Elsewhere(z) THEN {"rows", "crashed"} ELSE {"rows"}
     /\ j' = j + 1 /\ k' = 0 /\ acc' = Zero
     /\ UNCHANGED <<args, elements, a, iter, i, waits>>

NextRow ==
  /\ pc = "rows" /\ More(i) /\ ~More(j)
  /\ i' = i + 1 /\ j' = 0
  /\ UNCHANGED <<args, pc, elements, a, c, iter, k, acc, waits, stray>>

\* NaiveMatMul begins again at once.
EndRows ==
  /\ pc = "rows" /\ ~More(i)
  /\ IF program = "NaiveMatMul" THEN pc' = "iterate" /\ iter' = iter + 1
                                ELSE pc' = "sleep" /\ UNCHANGED iter
  /\ UNCHANGED <<args, elements, a, c, i, j, k, acc, waits, stray>>

Kernel ==
  \/ Allocate \/ AllocationFails \/ Iterate \/ Return
  \/ Fill \/ Combine \/ Accumulate \/ Store \/ NextRow \/ EndRows

-----------------------------------------------------------------------------
(* What StandardCandle does in between.                                    *)

\* sleep_for, which returns at once for an interval of zero or less.
Sleep ==
  /\ pc = "sleep" /\ pc' = "add" /\ up' = 0
  /\ UNCHANGED <<args, elements, a, c, loops, down, stray>>

\* 2147483648
Full == 2 * Half

\* The conditions of the four counting loops.
Goes ==
  \/ pc = "add" /\ up < Half
  \/ pc = "sub" /\ down > 0
  \/ pc = "mul" /\ (2 * up) % Wide < Full
  \/ pc = "meet" /\ up # down

Count ==
  /\ Goes
  /\ up' = IF pc = "sub" THEN up ELSE (up + 1) % Wide
  /\ down' = IF pc \in {"sub", "meet"} THEN (down - 1) % Wide ELSE down
  /\ UNCHANGED <<args, pc, elements, a, c, loops, stray>>

NextWait ==
  /\ pc \in {"add", "sub", "mul"} /\ ~Goes
  /\ \/ pc = "add" /\ pc' = "sub" /\ down' = Half /\ UNCHANGED up
     \/ pc = "sub" /\ pc' = "mul" /\ up' = 0 /\ UNCHANGED down
     \/ pc = "mul" /\ pc' = "meet" /\ up' = 0 /\ down' = Full
  /\ UNCHANGED <<args, elements, a, c, loops, stray>>

EndWaits ==
  /\ pc = "meet" /\ ~Goes
  /\ pc' = "iterate" /\ iter' = iter + 1
  /\ UNCHANGED <<args, elements, a, c, i, j, k, acc, waits, stray>>

-----------------------------------------------------------------------------
Stopped == pc \in {"rejected", "aborted", "crashed", "returned"}

StandardCandle == RejectCandle \/ RunCandle \/ Kernel \/ Sleep \/ Count \/ NextWait \/ EndWaits
NaiveMatMul == RejectMatMul \/ RunMatMul \/ Kernel

Init ==
  /\ program \in {"StandardCandle", "NaiveMatMul"}
  /\ size \in Sizes /\ iterations \in Iterations
  /\ pc = "start" /\ elements = 0 /\ a = <<>> /\ c = <<>>
  /\ iter = 0 /\ i = 0 /\ j = 0 /\ k = 0 /\ acc = {}
  /\ up = 0 /\ down = 0 /\ stray = FALSE

Run ==
  \/ program = "StandardCandle" /\ StandardCandle
  \/ program = "NaiveMatMul" /\ NaiveMatMul

Next == Run \/ (Stopped /\ UNCHANGED vars)

Spec == Init /\ [][Next]_vars

-----------------------------------------------------------------------------
(* Properties.                                                             *)

Int32 == -IntMax - 1 .. IntMax

TypeOK ==
  /\ program \in {"StandardCandle", "NaiveMatMul"}
  /\ size \in Sizes /\ iterations \in Iterations
  /\ elements \in Int32 /\ elements >= 0
  /\ {iter, i, j, k} \subseteq Int32
  /\ up \in 0 .. Wide - 1 /\ down \in 0 .. Wide - 1
  /\ stray \in BOOLEAN
  /\ pc \in {"start", "rejected", "aborted", "crashed", "returned", "allocate", "iterate",
            "fill", "rows", "sleep", "add", "sub", "mul", "meet"}

Overflows == size * size > IntMax

\* No access leaves its array, also for sizes that are zero or negative and
\* get past the options; the number of elements has to be an int for that.
StaysInBounds == stray => Overflows

\* At the end of each iteration every element has been computed from its row
\* of the first matrix, as it has been filled, and its column of the second, as
\* it was allocated, and nothing else: nothing that was not written gets into a
\* result but from the second matrix, and nothing from an earlier iteration.
RowsDone ==
  \/ pc = "rows" /\ ~More(i)
  \/ pc \in {"sleep", "add", "sub", "mul", "meet"}
  \/ pc \in {"iterate", "returned"} /\ iter > 0

ResultsComputed ==
  RowsDone /\ ~Overflows =>
    \A x, y \in 0 .. size - 1 :
      c[x * size + y] =
        {<<x * size + z, Unwritten(z * size + y)>> : z \in 0 .. size - 1}

\* The counters of the last wait are compared for equality only; they start as
\* far from each other as an even number of steps, and have not passed.
CountersMeet == pc = "meet" => up + down = Full /\ up <= down

\* What is left: of the program, of its iterations, of the stages of one, and
\* of the loops of a stage.
Part ==
  CASE pc = "start" -> 3
    [] pc = "allocate" -> 2
    [] Stopped -> 0
    [] OTHER -> 1

Stage ==
  CASE pc = "iterate" -> 8
    [] pc = "fill" -> 7
    [] pc = "rows" -> 6
    [] pc = "sleep" -> 5
    [] pc = "add" -> 4
    [] pc = "sub" -> 3
    [] pc = "mul" -> 2
    [] OTHER -> 1

OuterLoop ==
  CASE pc = "fill" -> Remaining(Square - i)
    [] pc = "rows" -> Remaining(size - i)
    [] pc = "sub" -> down
    [] pc \in {"add", "mul", "meet"} -> Remaining(Half - up)
    [] OTHER -> 0

InnerLoop(index) == IF pc = "rows" THEN Remaining(size - index) ELSE 0

Left == <<Part, Remaining(iterations - iter), Stage, OuterLoop, InnerLoop(j), InnerLoop(k)>>

\* Every step gets on, also where the number of elements overflows: no loop
\* starts over, and no counter is left behind by what it is compared with.
\* Only a last state is without a step, so both programs end.
GetsOn == [][Descends(6, Left, Left')]_vars
=============================================================================
