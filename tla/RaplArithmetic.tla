--------------------------- MODULE RaplArithmetic ---------------------------
(***************************************************************************)
(* The arithmetic of rapl_monitor.c: differences of register readings and  *)
(* the estimate of the register at the end of the command.                 *)
(***************************************************************************)
EXTENDS Integers

CONSTANTS
  RegMod,    \* values of an energy status register: 2^32 in the hardware
  WordMod    \* values of a uint64_t, the type the program computes in: 2^64

ASSUME WidthAssumption ==
  /\ RegMod \in Nat \ {0}
  /\ WordMod \in Nat \ {0}
  /\ RegMod <= WordMod

Larger(a, b) == IF a >= b THEN a ELSE b

\* Mutated: the operands swapped.
DeltaReversed(curr, init) == (init - curr) % WordMod

(***************************************************************************)
(* pkg_reg_curr - pkg_reg_init on uint64_t operands: the 32-bit register   *)
(* is not the width of the subtraction.                                    *)
(***************************************************************************)
Delta(curr, init) == (curr - init) % WordMod

\* Mutated: the estimate without fmax.
ExtrapolateNoFloor(pre, post, exit, caseReads, testReads) ==
  (post * testReads - Delta(exit, post) * caseReads) \div testReads

(***************************************************************************)
(* fmax(pre, post - (exit - post) * case_reads / test_reads), converted to *)
(* uint64_t.  The program computes in doubles; here the quotient is exact, *)
(* and its integer part is what the conversion keeps: the two may differ   *)
(* by one unit where the double is rounded across an integer.  When the    *)
(* difference is negative fmax returns pre, and so does Larger, because    *)
(* \div rounds down.                                                       *)
(***************************************************************************)
Extrapolate(pre, post, exit, caseReads, testReads) ==
  Larger(pre, (post * testReads - Delta(exit, post) * caseReads) \div testReads)
=============================================================================
