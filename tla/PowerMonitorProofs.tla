------------------------- MODULE PowerMonitorProofs -------------------------
(***************************************************************************)
(* Proofs about PowerMonitor, for every value of its constants: the bounds *)
(* of the reported energy, its accounts, and that EnergyMeter is           *)
(* implemented.                                                            *)
(***************************************************************************)
EXTENDS PowerInvariant, TLAPS

USE WidthAssumption
USE DEF pstate, initFrame, reads, operands, frames, refresher, handler, config,
        process, history, records, vars, Says, Misread, Warned

-----------------------------------------------------------------------------
(* The arithmetic.                                                         *)

\* A difference of registers is a uint64_t.
LEMMA DeltaType ==
  ASSUME NEW a \in Int, NEW b \in Int
  PROVE  Delta(a, b) \in Word
BY DEF Delta, Word

\* A difference of registers is exact when the later one is not smaller.
LEMMA DeltaExact ==
  ASSUME NEW a \in Word, NEW b \in Word, b <= a
  PROVE  Delta(a, b) = a - b
BY DEF Delta, Word

\* The estimate lies between the readings it interpolates.
LEMMA ExtrapolateBetween ==
  ASSUME NEW pre \in Word, NEW post \in Word, NEW exit \in Word,
         NEW c \in Nat, NEW t \in Nat \ {0}
  PROVE  /\ Extrapolate(pre, post, exit, c, t) \in Word
         /\ pre <= Extrapolate(pre, post, exit, c, t)
         /\ Extrapolate(pre, post, exit, c, t) <= Larger(pre, post)
<1> DEFINE D == Delta(exit, post)
           x == (post * t - D * c) \div t
<1>1. D \in Nat
  BY DeltaType DEF Word
<1>2. D * c \in Nat
  BY <1>1
<1>3. x \in Int /\ x <= post
  <2> HIDE DEF D
  <2> QED
    BY <1>2 DEF Word
<1>4. Extrapolate(pre, post, exit, c, t) = Larger(pre, x)
  BY DEF Extrapolate
<1> HIDE DEF x
<1> QED
  BY <1>3, <1>4 DEF Larger, Word

\* What read_msr returns is a uint64_t.
LEMMA ReadingType ==
  ASSUME TypeOK, NEW d \in Domain, NEW r \in Reading(d)
  PROVE  r.value \in Word
<1>1. energy[d] \in Nat
  BY DEF TypeOK
<1>2. energy[d] % RegMod \in 0 .. RegMod - 1
  BY <1>1
<1>3. energy[d] % RegMod \in Word
  BY <1>2 DEF Word
<1>4. BadReads \subseteq Word
  BY BoundAssumption DEF Word
<1> QED
  BY <1>3, <1>4 DEF Reading, Register

\* It complains of a read that has failed, and only then.
LEMMA ReadingSaid ==
  ASSUME NEW d, NEW r \in Reading(d)
  PROVE  \/ r.value = Register(d) /\ r.said = {}
         \/ BadReads # {} /\ r.said = {"misread"}
BY DEF Reading

\* What a refresh leaves in the structure.
LEMMA UpdateEffect ==
  ASSUME TypeOK, RefreshUpdate
  PROVE  /\ reg' \in [Domain -> Word] /\ pwr' \in [Domain -> Nat]
         /\ reg'["pkg"] = hPkg /\ \E r \in Reading("pp0") :
              reg'["pp0"] = r.value /\ Says(r.said \cup Warning(hInit, reg'))
         /\ \A d \in Domain :
              pwr'[d] = pwr[d] + Increment(reg'[d], hInit[d])
<1> DEFINE new(v) == [d \in Domain |-> IF d = "pkg" THEN hPkg ELSE v]
<1>1. PICK r \in Reading("pp0") :
        /\ reg' = new(r.value)
        /\ pwr' = [d \in Domain |->
                     pwr[d] + Increment(new(r.value)[d], hInit[d])]
        /\ Says(r.said \cup Warning(hInit, new(r.value)))
  BY DEF RefreshUpdate
<1>2. r.value \in Word /\ hPkg \in Word
  BY ReadingType DEF TypeOK, Domain
<1>3. reg' \in [Domain -> Word] /\ reg'["pkg"] = hPkg /\ reg'["pp0"] = r.value
  BY <1>1, <1>2 DEF Domain
<1>4. \A d \in Domain : Increment(reg'[d], hInit[d]) \in Nat
  BY <1>3, DeltaType DEF TypeOK, Word, Increment
<1>5. \A d \in Domain : pwr'[d] = pwr[d] + Increment(reg'[d], hInit[d])
  BY <1>1
<1>6. Says(r.said \cup Warning(hInit, reg')) /\ reg'["pp0"] = r.value
  BY <1>1, <1>3
<1>7. pwr' \in [Domain -> Nat]
  BY <1>1, <1>3, <1>4 DEF TypeOK
<1> QED
  BY <1>3, <1>5, <1>6, <1>7

-----------------------------------------------------------------------------
(* What is printed on stderr.                                               *)

\* What a step may print.
LEMMA Complaints ==
  ASSUME [Next]_vars
  PROVE  \/ stderr' = stderr
         \/ BadReads # {} /\ stderr' = stderr \cup {"misread"}
         \/ RefreshUpdate
<1>1. CASE UNCHANGED vars
  BY <1>1
<1>2. CASE \E d \in Domain : Tick(d) \/ PerDomain(d)
  BY <1>2, ReadingSaid DEF Tick, PerDomain, ZeroPower, InitRead, InitStore, Keep, Estimate, LoadOperand,
              StorePower
<1>3. CASE OpenMsr \/ ArmTimer \/ ReadUnits \/ ReadFirst \/ TestFresh \/ RecordStart
  BY <1>3, ReadingSaid DEF OpenMsr, ArmTimer, ReadUnits, ReadFirst, TestFresh, RecordStart
<1>4. CASE Fork \/ Wait \/ WaitFails \/ RecordEnd
  BY <1>4 DEF Fork, Wait, WaitFails, RecordEnd
<1>5. CASE FinalizeReads
  BY <1>5, ReadingSaid DEF FinalizeReads, ReadInto
<1>6. CASE SpinCase \/ SpinTest \/ SummarizeEnergy \/ SummarizePower
  BY <1>6, ReadingSaid DEF SpinCase, SpinTest, SummarizeEnergy, SummarizePower
<1>7. CASE \E s \in Signal : IgnoreSignal(s) \/ RestoreSignal(s) \/ Interrupt(s)
  BY <1>7 DEF IgnoreSignal, RestoreSignal, Interrupt
<1>8. CASE Expire \/ Handler
  BY <1>8, ReadingSaid DEF Expire, Handler, RefreshEnter, RefreshReadPkg
<1>9. CASE Command \/ Stopped
  BY <1>9 DEF Command, ChildExec, ChildExit, Stopped
<1> QED
  BY <1>1, <1>2, <1>3, <1>4, <1>5, <1>6, <1>7, <1>8, <1>9 DEF Next, Main

\* What has been complained of is not taken back, and nothing is complained of
\* where no read fails.
LEMMA MisreadStays ==
  ASSUME [Next]_vars
  PROVE  /\ ~Misread' => ~Misread
         /\ BadReads = {} /\ ~Misread => ~Misread'
<1>1. CASE RefreshUpdate
  <2>1. PICK r \in Reading("pp0"), m \in {{}, {"wrapped"}} :
          Says(r.said \cup m)
    BY <1>1 DEF RefreshUpdate, Warning
  <2> QED
    BY <2>1, ReadingSaid
<1> QED
  BY <1>1, Complaints

\* Only a refresh announces a wraparound.
LEMMA WarnedStays ==
  ASSUME [Next]_vars, ~RefreshUpdate
  PROVE  Warned' = Warned
BY Complaints

-----------------------------------------------------------------------------
(* Type correctness.                                                       *)

LEMMA TypeInit == Init => TypeOK
<1> SUFFICES ASSUME Init PROVE TypeOK
  OBVIOUS
<1> USE DEF Init
<1>1. ZeroEnergy \in [Domain -> Nat] /\ ZeroEnergy \in [Domain -> Word]
  BY DEF ZeroEnergy, Word
<1>2. EmptySnap \in [Snapshot -> [Domain -> Word]]
  BY <1>1 DEF EmptySnap
<1>3. energy \in [Domain -> Nat]
  <2>1. Booted \subseteq Nat
    BY BoundAssumption
  <2> QED
    BY <2>1
<1>4. MaxReads \in Nat /\ MaxReads >= 3
  BY BoundAssumption
<1>5. inherited \in [Signal -> Disposition] /\ sigchld \in Disposition
  BY BoundAssumption DEF Disposition
<1>6. 0 \in Word
  BY DEF Word
<1>7. pc \in Location
  BY DEF Location
<1>8. shown \in [energy : [Domain -> Nat], power : Nat]
  BY <1>1
<1>9. interval \in Intervals
  OBVIOUS
<1> HIDE DEF Init
<1>10. /\ reg \in [Domain -> Word] /\ pwr \in [Domain -> Nat]
       /\ first \in Word /\ tmp \in Word
       /\ snap \in [Snapshot -> [Domain -> Word]]
       /\ caseReads \in 3 .. MaxReads /\ testReads \in 3 .. MaxReads
       /\ loaded \subseteq {"sum", "add"} /\ sum \in Nat /\ add \in Word
  BY <1>1, <1>2, <1>4, <1>6 DEF Init
<1>11. /\ hpc \in {"idle", "readPkg", "update"}
       /\ hInit \in [Domain -> Word] /\ hPkg \in Word
       /\ stderr \subseteq {"misread", "wrapped"}
       /\ armed \in BOOLEAN /\ pending \in BOOLEAN
       /\ child \in {"none", "forked", "running", "zombie", "vanished", "reaped"}
       /\ disp \in [Signal -> Disposition]
  BY <1>1, <1>5, <1>6 DEF Init
<1>12. /\ start \in [Domain -> Nat] /\ end \in [Domain -> Nat]
       /\ begin \in [Domain -> Word] /\ disturbed \in BOOLEAN
  BY <1>1 DEF Init
<1> QED
  BY <1>3, <1>5, <1>7, <1>8, <1>9, <1>10, <1>11, <1>12 DEF TypeOK

LEMMA TypeNext == TypeOK /\ [Next]_vars => TypeOK'
<1> SUFFICES ASSUME TypeOK, [Next]_vars PROVE TypeOK'
  OBVIOUS
<1> USE DEF TypeOK, Goto, Domain, Signal, Snapshot, Disposition, ZeroEnergy,
            Location, InsideInit, InsideFinalize, Metering, Captured,
            Alive, Terminal
<1>0. 0 \in Word
  BY DEF Word
<1>00. ASSUME NEW d, NEW r \in Reading(d), Says(r.said)
       PROVE  stderr' \subseteq {"misread", "wrapped"}
  <2>1. r.said \subseteq {"misread"}
    BY <1>00, ReadingSaid
  <2>2. stderr \subseteq {"misread", "wrapped"} /\ stderr' = stderr \cup r.said
    BY <1>00
  <2> HIDE DEF TypeOK
  <2> QED
    BY <2>1, <2>2
<1>1. ASSUME NEW d \in Domain, Tick(d) PROVE TypeOK'
  BY <1>1 DEF Tick
<1>2. ASSUME OpenMsr PROVE TypeOK'
  BY <1>2 DEF OpenMsr
<1>3. ASSUME ArmTimer PROVE TypeOK'
  <2>1. armed' = (interval > 0) \/ armed' = armed
    BY <1>3 DEF ArmTimer
  <2>2. (interval > 0) \in BOOLEAN
    OBVIOUS
  <2>3. armed' \in BOOLEAN
    BY <2>1, <2>2, Zenon
  <2> QED
    BY <1>3, <2>3 DEF ArmTimer
<1>4. ASSUME ReadUnits PROVE TypeOK'
  BY <1>4 DEF ReadUnits
<1>5. ASSUME NEW d \in Domain, ZeroPower(d) PROVE TypeOK'
  <2>1. pc' \in Location
    BY <1>5 DEF ZeroPower
  <2>2. pwr' \in [Domain -> Nat]
    BY <1>5 DEF ZeroPower
  <2> QED
    BY <1>5, <2>1, <2>2 DEF ZeroPower
<1>6. ASSUME ReadFirst PROVE TypeOK'
  <2>0. PICK r \in Reading("pkg") : first' = r.value /\ Says(r.said)
    BY <1>6 DEF ReadFirst
  <2>1. first' \in Word
    BY <2>0, ReadingType
  <2>2. stderr' \subseteq {"misread", "wrapped"}
    BY <2>0, <1>00
  <2> QED
    BY <1>6, <2>1, <2>2 DEF ReadFirst
<1>7. ASSUME NEW d \in Domain, InitRead(d) PROVE TypeOK'
  <2>1. pc' \in Location
    BY <1>7 DEF InitRead
  <2>2. PICK r \in Reading(d) : tmp' = r.value /\ Says(r.said)
    BY <1>7 DEF InitRead
  <2>3. tmp' \in Word
    BY <2>2, ReadingType
  <2>4. stderr' \subseteq {"misread", "wrapped"}
    BY <2>2, <1>00
  <2> QED
    BY <1>7, <2>1, <2>3, <2>4 DEF InitRead
<1>8. ASSUME NEW d \in Domain, InitStore(d) PROVE TypeOK'
  BY <1>8 DEF InitStore
<1>9. ASSUME TestFresh PROVE TypeOK'
  BY <1>9, <1>0 DEF TestFresh
<1>10. ASSUME RecordStart PROVE TypeOK'
  BY <1>10 DEF RecordStart
<1>11. ASSUME Fork PROVE TypeOK'
  BY <1>11 DEF Fork
<1>12. ASSUME NEW s \in Signal, IgnoreSignal(s) PROVE TypeOK'
  BY <1>12 DEF IgnoreSignal
<1>13. ASSUME Wait PROVE TypeOK'
  BY <1>13 DEF Wait
<1>14. ASSUME WaitFails PROVE TypeOK'
  BY <1>14 DEF WaitFails
<1>15. ASSUME RecordEnd PROVE TypeOK'
  BY <1>15 DEF RecordEnd
<1>16. ASSUME NEW d \in Domain, Keep(d) PROVE TypeOK'
  BY <1>16 DEF Keep
<1>17. ASSUME FinalizeReads PROVE TypeOK'
  <2>1. \E at \in Location, slot \in Snapshot, d \in Domain, to \in Location :
          ReadInto(at, slot, d, to)
    BY <1>17 DEF FinalizeReads
  <2>2. snap' \in [Snapshot -> [Domain -> Word]]
    BY <2>1, ReadingType DEF ReadInto
  <2>3. stderr' \subseteq {"misread", "wrapped"}
    <3>1. PICK d \in Domain : \E r \in Reading(d) : Says(r.said)
      BY <2>1 DEF ReadInto
    <3> QED
      BY <3>1, <1>00
  <2> QED
    BY <2>1, <2>2, <2>3 DEF ReadInto
<1>18. ASSUME SpinCase PROVE TypeOK'
  <2>1. PICK r \in Reading("pkg") : Says(r.said)
    BY <1>18 DEF SpinCase
  <2>2. stderr' \subseteq {"misread", "wrapped"}
    BY <2>1, <1>00
  <2>3. /\ pc' \in Location
        /\ caseReads' \in 3 .. MaxReads /\ testReads' \in 3 .. MaxReads
    BY <1>18, BoundAssumption DEF SpinCase, Counted
  <2> QED
    BY <1>18, <2>2, <2>3 DEF SpinCase
<1>19. ASSUME SpinTest PROVE TypeOK'
  <2>1. PICK r \in Reading("pkg") : Says(r.said)
    BY <1>19 DEF SpinTest
  <2>2. stderr' \subseteq {"misread", "wrapped"}
    BY <2>1, <1>00
  <2>3. /\ pc' \in Location
        /\ caseReads' \in 3 .. MaxReads /\ testReads' \in 3 .. MaxReads
    BY <1>19, BoundAssumption DEF SpinTest, Counted
  <2> QED
    BY <1>19, <2>2, <2>3 DEF SpinTest
<1>20. ASSUME NEW d \in Domain, Estimate(d) PROVE TypeOK'
  <2>1. pc' \in Location
    BY <1>20 DEF Estimate
  <2>2. /\ snap["pre"][d] \in Word /\ snap["post"][d] \in Word
        /\ snap["exit"][d] \in Word
        /\ caseReads \in Nat /\ testReads \in Nat \ {0}
    BY BoundAssumption
  <2>3. reg'[d] \in Word /\ reg' \in [Domain -> Word]
    BY <1>20, <2>2, ExtrapolateBetween DEF Estimate
  <2> QED
    BY <1>20, <2>1, <2>3 DEF Estimate
<1>21. ASSUME NEW d \in Domain, LoadOperand(d) PROVE TypeOK'
  <2>1. pc' \in Location
    BY <1>21 DEF LoadOperand
  <2>2. loaded' \subseteq {"sum", "add"} /\ sum' \in Nat
    BY <1>21 DEF LoadOperand
  <2>3. reg[d] \in Int /\ snap["init"][d] \in Int
    BY DEF Word
  <2>4. add' \in Word
    BY <1>21, <2>3, DeltaType DEF LoadOperand
  <2> QED
    BY <1>21, <2>1, <2>2, <2>4 DEF LoadOperand
<1>22. ASSUME NEW d \in Domain, StorePower(d) PROVE TypeOK'
  <2>1. pc' \in Location
    BY <1>22 DEF StorePower
  <2>2. pwr' \in [Domain -> Nat]
    BY <1>22 DEF StorePower, Word
  <2>3. snap' \in [Snapshot -> [Domain -> Word]]
    BY <1>22, <1>0 DEF StorePower, EmptySnap
  <2>4. caseReads' \in 3 .. MaxReads /\ testReads' \in 3 .. MaxReads
    BY <1>22, BoundAssumption DEF StorePower
  <2> QED
    BY <1>0, <1>22, <2>1, <2>2, <2>3, <2>4 DEF StorePower
<1>23. ASSUME NEW s \in Signal, RestoreSignal(s) PROVE TypeOK'
  BY <1>23 DEF RestoreSignal
<1>24. ASSUME SummarizeEnergy PROVE TypeOK'
  BY <1>24 DEF SummarizeEnergy
<1>25. ASSUME SummarizePower PROVE TypeOK'
  BY <1>25 DEF SummarizePower
<1>26. ASSUME Expire PROVE TypeOK'
  BY <1>26 DEF Expire
<1>27. ASSUME RefreshEnter PROVE TypeOK'
  BY <1>27 DEF RefreshEnter
<1>28. ASSUME RefreshReadPkg PROVE TypeOK'
  <2>1. PICK r \in Reading("pkg") : hPkg' = r.value /\ Says(r.said)
    BY <1>28 DEF RefreshReadPkg
  <2>2. hPkg' \in Word
    BY <2>1, ReadingType
  <2>3. stderr' \subseteq {"misread", "wrapped"}
    BY <2>1, <1>00
  <2> QED
    BY <1>28, <2>2, <2>3 DEF RefreshReadPkg
<1>29. ASSUME RefreshUpdate PROVE TypeOK'
  <2>1. reg' \in [Domain -> Word] /\ pwr' \in [Domain -> Nat]
    BY <1>29, UpdateEffect
  <2>2. stderr' \subseteq {"misread", "wrapped"}
    BY <1>29 DEF RefreshUpdate, Reading, Warning
  <2> QED
    BY <1>0, <1>29, <2>1, <2>2 DEF RefreshUpdate
<1>30. ASSUME ChildExec PROVE TypeOK'
  BY <1>30 DEF ChildExec, Ended
<1>31. ASSUME ChildExit PROVE TypeOK'
  BY <1>31 DEF ChildExit, Ended
<1>32. ASSUME NEW s \in Signal, Interrupt(s) PROVE TypeOK'
  BY <1>32 DEF Interrupt, Ended
<1>33. ASSUME Stopped PROVE TypeOK'
  BY <1>33 DEF Stopped
<1>34. CASE UNCHANGED vars
  BY <1>34
<1> QED
  BY <1>1, <1>2, <1>3, <1>4, <1>5, <1>6, <1>7, <1>8, <1>9, <1>10, <1>11, <1>12, <1>13, <1>14, <1>15, <1>16, <1>17, <1>18, <1>19, <1>20, <1>21, <1>22, <1>23, <1>24, <1>25, <1>26, <1>27, <1>28, <1>29, <1>30, <1>31, <1>32, <1>33, <1>34 DEF Next, Main, PerDomain, Handler, Command

\* Every variable keeps its type.
THEOREM TypeCorrect == Spec => []TypeOK
BY TypeInit, TypeNext, PTL DEF Spec

-----------------------------------------------------------------------------
(* What is reported: no less than was consumed between the two times, no   *)
(* more than threefold, unless a read that failed has been complained of.  *)

\* A read that nothing was complained of shows what was consumed, as long as the
\* register has not wrapped around.
LEMMA GoodReading ==
  ASSUME TypeOK, NEW d \in Domain, Fits(d), NEW r \in Reading(d),
         r.said \subseteq stderr', ~Misread'
  PROVE  r.value = energy[d]
<1>1. energy[d] \in Nat
  BY DEF TypeOK
<1>2. energy[d] % RegMod = energy[d]
  BY <1>1 DEF Fits
<1>3. r.value = Register(d)
  BY ReadingSaid
<1> QED
  BY <1>2, <1>3 DEF Register

\* A register that fits now has always fitted.
LEMMA FittedBefore ==
  ASSUME TypeOK, [Next]_vars, NEW d \in Domain, Fits(d)'
  PROVE  Fits(d)
<1>1. energy[d] \in Nat
  BY DEF TypeOK
<1>2. energy'[d] = energy[d] \/ energy'[d] = energy[d] + 1
  BY <1>1 DEF TypeOK, Next, Main, PerDomain, Handler, Command, Tick, OpenMsr,
     ArmTimer, ReadUnits, ZeroPower, ReadFirst, InitRead, InitStore, TestFresh,
     RecordStart, Fork, IgnoreSignal, Wait, WaitFails, RecordEnd, Keep,
     FinalizeReads, ReadInto, SpinCase, SpinTest, Estimate, LoadOperand,
     StorePower, RestoreSignal, SummarizeEnergy, SummarizePower, Expire,
     RefreshEnter, RefreshReadPkg, RefreshUpdate, ChildExec, ChildExit,
     Interrupt, Stopped
<1> QED
  BY <1>1, <1>2 DEF Fits

LEMMA ReportInit == Init => ReportInv
<1> SUFFICES ASSUME Init PROVE ReportInv
  OBVIOUS
<1>1. \A d \in Domain : energy[d] \in Nat
  BY TypeInit DEF TypeOK
<1>2. ASSUME NEW d \in Domain PROVE Bracketed(d)
  BY <1>1, <1>2 DEF Init, ZeroEnergy, Bracketed, PastInv, LowerInv, UpperInv, By,
     Stored, Zeroed, Opened, Kept, PreRead, PostRead, Estimated, Storing, Adding,
     Printed, InsideInit, InsideFinalize, Metering, Captured
<1> QED
  BY <1>2 DEF Init, ReportInv, HandlerInv

\* The main program stands still while the handler is on, so that the handler
\* finds reg as it read it, and never reads an older value of the register.
LEMMA HandlerNext ==
  ASSUME TypeOK, ~Misread', ReportInv, [Next]_vars
  PROVE  HandlerInv'
<1> USE DEF Goto, HandlerInv, Domain, Signal
<1>1. \A d \in Domain : Fits(d)' => Fits(d) /\ Bracketed(d)
  BY FittedBefore DEF ReportInv
<1>2. HandlerInv /\ "pkg" \in Domain
  BY DEF ReportInv, Domain
<1>3. /\ energy["pkg"] \in Nat /\ reg["pkg"] \in Nat
      /\ energy \in [Domain -> Nat] /\ hPkg \in Nat
  BY <1>2 DEF TypeOK, Word
<1>4. ASSUME NEW d \in Domain, Tick(d) PROVE HandlerInv'
  BY <1>1, <1>2, <1>3, <1>4 DEF Tick
<1>5. ASSUME OpenMsr PROVE HandlerInv'
  BY <1>1, <1>2, <1>3, <1>5 DEF OpenMsr
<1>6. ASSUME ArmTimer PROVE HandlerInv'
  BY <1>1, <1>2, <1>3, <1>6 DEF ArmTimer
<1>7. ASSUME ReadUnits PROVE HandlerInv'
  BY <1>1, <1>2, <1>3, <1>7 DEF ReadUnits
<1>8. ASSUME NEW d \in Domain, ZeroPower(d) PROVE HandlerInv'
  BY <1>1, <1>2, <1>3, <1>8 DEF ZeroPower
<1>9. ASSUME ReadFirst PROVE HandlerInv'
  BY <1>1, <1>2, <1>3, <1>9 DEF ReadFirst
<1>10. ASSUME NEW d \in Domain, InitRead(d) PROVE HandlerInv'
  BY <1>1, <1>2, <1>3, <1>10 DEF InitRead
<1>11. ASSUME NEW d \in Domain, InitStore(d) PROVE HandlerInv'
  BY <1>1, <1>2, <1>3, <1>11 DEF InitStore
<1>12. ASSUME TestFresh PROVE HandlerInv'
  BY <1>1, <1>2, <1>3, <1>12 DEF TestFresh
<1>13. ASSUME RecordStart PROVE HandlerInv'
  BY <1>1, <1>2, <1>3, <1>13 DEF RecordStart
<1>14. ASSUME Fork PROVE HandlerInv'
  BY <1>1, <1>2, <1>3, <1>14 DEF Fork
<1>15. ASSUME NEW s \in Signal, IgnoreSignal(s) PROVE HandlerInv'
  BY <1>1, <1>2, <1>3, <1>15 DEF IgnoreSignal
<1>16. ASSUME Wait PROVE HandlerInv'
  BY <1>1, <1>2, <1>3, <1>16 DEF Wait
<1>17. ASSUME WaitFails PROVE HandlerInv'
  BY <1>1, <1>2, <1>3, <1>17 DEF WaitFails
<1>18. ASSUME RecordEnd PROVE HandlerInv'
  BY <1>1, <1>2, <1>3, <1>18 DEF RecordEnd
<1>19. ASSUME NEW d \in Domain, Keep(d) PROVE HandlerInv'
  BY <1>1, <1>2, <1>3, <1>19 DEF Keep
<1>20. ASSUME FinalizeReads PROVE HandlerInv'
  BY <1>1, <1>2, <1>3, <1>20 DEF FinalizeReads, ReadInto
<1>21. ASSUME SpinCase PROVE HandlerInv'
  BY <1>1, <1>2, <1>3, <1>21 DEF SpinCase
<1>22. ASSUME SpinTest PROVE HandlerInv'
  BY <1>1, <1>2, <1>3, <1>22 DEF SpinTest
<1>23. ASSUME NEW d \in Domain, Estimate(d) PROVE HandlerInv'
  BY <1>1, <1>2, <1>3, <1>23 DEF Estimate
<1>24. ASSUME NEW d \in Domain, LoadOperand(d) PROVE HandlerInv'
  BY <1>1, <1>2, <1>3, <1>24 DEF LoadOperand, Adding, By, Domain
<1>25. ASSUME NEW d \in Domain, StorePower(d) PROVE HandlerInv'
  BY <1>1, <1>2, <1>3, <1>25 DEF StorePower, Adding, By, Domain
<1>26. ASSUME NEW s \in Signal, RestoreSignal(s) PROVE HandlerInv'
  BY <1>1, <1>2, <1>3, <1>26 DEF RestoreSignal
<1>27. ASSUME SummarizeEnergy PROVE HandlerInv'
  BY <1>1, <1>2, <1>3, <1>27 DEF SummarizeEnergy
<1>28. ASSUME SummarizePower PROVE HandlerInv'
  BY <1>1, <1>2, <1>3, <1>28 DEF SummarizePower
<1>29. ASSUME Expire PROVE HandlerInv'
  BY <1>1, <1>2, <1>3, <1>29 DEF Expire
<1>30. ASSUME RefreshEnter PROVE HandlerInv'
  BY <1>1, <1>2, <1>3, <1>30 DEF RefreshEnter
<1>31. ASSUME RefreshReadPkg PROVE HandlerInv'
  <2>1. PICK r \in Reading("pkg") : hPkg' = r.value /\ Says(r.said)
    BY <1>31 DEF RefreshReadPkg
  <2>2. Fits("pkg") => hPkg' = energy["pkg"]
    BY <1>2, <2>1, GoodReading
  <2> QED
    BY <1>1, <1>2, <1>3, <1>31, <2>1, <2>2
       DEF RefreshReadPkg, Bracketed, PastInv
<1>32. ASSUME RefreshUpdate PROVE HandlerInv'
  BY <1>1, <1>2, <1>3, <1>32 DEF RefreshUpdate
<1>33. ASSUME ChildExec PROVE HandlerInv'
  BY <1>1, <1>2, <1>3, <1>33 DEF ChildExec
<1>34. ASSUME ChildExit PROVE HandlerInv'
  BY <1>1, <1>2, <1>3, <1>34 DEF ChildExit
<1>35. ASSUME NEW s \in Signal, Interrupt(s) PROVE HandlerInv'
  BY <1>1, <1>2, <1>3, <1>35 DEF Interrupt
<1>36. ASSUME Stopped PROVE HandlerInv'
  BY <1>1, <1>2, <1>3, <1>36 DEF Stopped
<1>37. CASE UNCHANGED vars
  BY <1>1, <1>2, <1>37 DEF Fits
<1> QED
  BY <1>4, <1>5, <1>6, <1>7, <1>8, <1>9, <1>10, <1>11, <1>12, <1>13, <1>14,
     <1>15, <1>16, <1>17, <1>18, <1>19, <1>20, <1>21, <1>22, <1>23, <1>24,
     <1>25, <1>26, <1>27, <1>28, <1>29, <1>30, <1>31, <1>32, <1>33, <1>34,
     <1>35, <1>36, <1>37
     DEF Next, Main, PerDomain, Handler, Command

LEMMA BracketedNext ==
  ASSUME TypeOK, ~Misread', HandlerInv, Next,
         NEW e \in Domain, Fits(e), Bracketed(e), Fits(e)'
  PROVE  Bracketed(e)'
<1> USE DEF Goto, Domain, Signal, InsideInit, InsideFinalize, Metering, Captured,
            Alive, Terminal, HandlerInv, By, Stored, Zeroed, Opened, Kept,
            PreRead, PostRead, Estimated, Storing, Adding, Printed, Bracketed,
            PastInv, LowerInv, UpperInv
<1>0. /\ energy \in [Domain -> Nat] /\ reg \in [Domain -> Nat]
      /\ pwr \in [Domain -> Nat] /\ snap \in [Snapshot -> [Domain -> Nat]]
      /\ tmp \in Nat /\ sum \in Nat /\ add \in Nat /\ hPkg \in Nat
      /\ start \in [Domain -> Nat] /\ end \in [Domain -> Nat]
      /\ shown \in [energy : [Domain -> Nat], power : Nat]
  BY DEF TypeOK, Word
<1>1. ASSUME NEW d \in Domain, Tick(d) PROVE Bracketed(e)'
  <2>1. energy'[e] \in Nat /\ energy[e] <= energy'[e]
    BY <1>0, <1>1 DEF Tick
  <2>2. UNCHANGED <<pc, reg, pwr, tmp, snap, loaded, sum, add, start, end, shown>>
    BY <1>1 DEF Tick
  <2>3. PastInv(e)'
    BY <1>0, <2>1, <2>2 DEF Snapshot
  <2>4. LowerInv(e)'
    BY <1>0, <2>1, <2>2 DEF Snapshot
  <2>5. UpperInv(e)'
    BY <1>0, <2>1, <2>2 DEF Snapshot
  <2> QED
    BY <2>3, <2>4, <2>5
<1>2. ASSUME OpenMsr PROVE Bracketed(e)'
  BY <1>0, <1>2 DEF OpenMsr
<1>3. ASSUME ArmTimer PROVE Bracketed(e)'
  BY <1>0, <1>3 DEF ArmTimer
<1>4. ASSUME ReadUnits PROVE Bracketed(e)'
  BY <1>0, <1>4 DEF ReadUnits
<1>5. ASSUME NEW d \in Domain, ZeroPower(d) PROVE Bracketed(e)'
  <2>1. UNCHANGED <<energy, reg, tmp, snap, loaded, sum, add, start, end, shown>>
    BY <1>5 DEF ZeroPower
  <2>2. pc = By(d, "zeroPkg", "zeroPp0") /\ pc' = By(d, "zeroPp0", "first")
    BY <1>5 DEF ZeroPower
  <2>3. pwr'[d] = 0 /\ pwr'[e] \in {0, pwr[e]}
    BY <1>0, <1>5 DEF ZeroPower
  <2> QED
    BY <1>0, <2>1, <2>2, <2>3
<1>6. ASSUME ReadFirst PROVE Bracketed(e)'
  BY <1>0, <1>6 DEF ReadFirst
<1>7. ASSUME NEW d \in Domain, InitRead(d) PROVE Bracketed(e)'
  <2>1. UNCHANGED <<energy, reg, pwr, snap, loaded, sum, add, start, end, shown>>
    BY <1>7 DEF InitRead
  <2>2. /\ pc = By(d, "readPkg", "readPp0") /\ pc' = Storing(d)
    BY <1>7 DEF InitRead
  <2>3. e = d => tmp' = energy[e]
    BY <1>7, GoodReading DEF InitRead
  <2> QED
    BY <1>0, <2>1, <2>2, <2>3
<1>8. ASSUME NEW d \in Domain, InitStore(d) PROVE Bracketed(e)'
  <2>1. UNCHANGED <<energy, pwr, tmp, snap, loaded, sum, add, start, end, shown>>
    BY <1>8 DEF InitStore
  <2>2. pc = Storing(d) /\ pc' = By(d, "readPp0", "test")
    BY <1>8 DEF InitStore
  <2>3. reg'[e] = IF e = d THEN tmp ELSE reg[e]
    BY <1>0, <1>8 DEF InitStore
  <2> QED
    BY <1>0, <2>1, <2>2, <2>3
<1>9. ASSUME TestFresh PROVE Bracketed(e)'
  BY <1>0, <1>9 DEF TestFresh
<1>10. ASSUME RecordStart PROVE Bracketed(e)'
  BY <1>0, <1>10 DEF RecordStart
<1>11. ASSUME Fork PROVE Bracketed(e)'
  BY <1>0, <1>11 DEF Fork
<1>12. ASSUME NEW s \in Signal, IgnoreSignal(s) PROVE Bracketed(e)'
  BY <1>0, <1>12 DEF IgnoreSignal
<1>13. ASSUME Wait PROVE Bracketed(e)'
  BY <1>0, <1>13 DEF Wait
<1>14. ASSUME WaitFails PROVE Bracketed(e)'
  BY <1>0, <1>14 DEF WaitFails
<1>15. ASSUME RecordEnd PROVE Bracketed(e)'
  BY <1>0, <1>15 DEF RecordEnd
<1>16. ASSUME NEW d \in Domain, Keep(d) PROVE Bracketed(e)'
  <2>1. UNCHANGED <<energy, reg, pwr, tmp, loaded, sum, add, start, end, shown>>
    BY <1>16 DEF Keep
  <2>2. pc = By(d, "keepPkg", "keepPp0") /\ pc' = By(d, "keepPp0", "prePkg")
    BY <1>16 DEF Keep
  <2>3. snap'["init"][e] = IF e = d THEN reg[e] ELSE snap["init"][e]
    BY <1>0, <1>16 DEF Keep, Snapshot
  <2> QED
    BY <1>0, <2>1, <2>2, <2>3
<1>17. ASSUME FinalizeReads PROVE Bracketed(e)'
  <2>1. UNCHANGED <<energy, reg, pwr, tmp, loaded, sum, add, start, end, shown>>
    BY <1>17 DEF FinalizeReads, ReadInto
  <2>2. ASSUME NEW at, NEW slot \in Snapshot, NEW d \in Domain, NEW to,
               ReadInto(at, slot, d, to)
        PROVE  /\ pc = at /\ pc' = to
               /\ \A x \in Snapshot : snap'[x][e] =
                    IF x = slot /\ e = d THEN energy[e] ELSE snap[x][e]
    BY <1>0, <2>2, GoodReading DEF ReadInto
  <2>9. "init" \in Snapshot /\ "pre" \in Snapshot /\ "post" \in Snapshot /\ "exit" \in Snapshot
    BY DEF Snapshot
  <2>3. ASSUME ReadInto("prePkg", "pre", "pkg", "prePp0") PROVE Bracketed(e)'
    <3>1. /\ pc = "prePkg" /\ pc' = "prePp0"
          /\ \A x \in Snapshot : snap'[x][e] =
               IF x = "pre" /\ e = "pkg" THEN energy[e] ELSE snap[x][e]
      BY <2>2, <2>3, <2>9
    <3> QED
      BY <1>0, <2>1, <2>9, <3>1
  <2>4. ASSUME ReadInto("prePp0", "pre", "pp0", "spinCase") PROVE Bracketed(e)'
    <3>1. /\ pc = "prePp0" /\ pc' = "spinCase"
          /\ \A x \in Snapshot : snap'[x][e] =
               IF x = "pre" /\ e = "pp0" THEN energy[e] ELSE snap[x][e]
      BY <2>2, <2>4, <2>9
    <3> QED
      BY <1>0, <2>1, <2>9, <3>1
  <2>5. ASSUME ReadInto("postPkg", "post", "pkg", "postPp0") PROVE Bracketed(e)'
    <3>1. /\ pc = "postPkg" /\ pc' = "postPp0"
          /\ \A x \in Snapshot : snap'[x][e] =
               IF x = "post" /\ e = "pkg" THEN energy[e] ELSE snap[x][e]
      BY <2>2, <2>5, <2>9
    <3> QED
      BY <1>0, <2>1, <2>9, <3>1
  <2>6. ASSUME ReadInto("postPp0", "post", "pp0", "spinTest") PROVE Bracketed(e)'
    <3>1. /\ pc = "postPp0" /\ pc' = "spinTest"
          /\ \A x \in Snapshot : snap'[x][e] =
               IF x = "post" /\ e = "pp0" THEN energy[e] ELSE snap[x][e]
      BY <2>2, <2>6, <2>9
    <3> QED
      BY <1>0, <2>1, <2>9, <3>1
  <2>7. ASSUME ReadInto("exitPkg", "exit", "pkg", "exitPp0") PROVE Bracketed(e)'
    <3>1. /\ pc = "exitPkg" /\ pc' = "exitPp0"
          /\ \A x \in Snapshot : snap'[x][e] =
               IF x = "exit" /\ e = "pkg" THEN energy[e] ELSE snap[x][e]
      BY <2>2, <2>7, <2>9
    <3> QED
      BY <1>0, <2>1, <2>9, <3>1
  <2>8. ASSUME ReadInto("exitPp0", "exit", "pp0", "estPkg") PROVE Bracketed(e)'
    <3>1. /\ pc = "exitPp0" /\ pc' = "estPkg"
          /\ \A x \in Snapshot : snap'[x][e] =
               IF x = "exit" /\ e = "pp0" THEN energy[e] ELSE snap[x][e]
      BY <2>2, <2>8, <2>9
    <3> QED
      BY <1>0, <2>1, <2>9, <3>1
  <2> QED
    BY <1>17, <2>3, <2>4, <2>5, <2>6, <2>7, <2>8 DEF FinalizeReads
<1>18. ASSUME SpinCase PROVE Bracketed(e)'
  BY <1>0, <1>18 DEF SpinCase
<1>19. ASSUME SpinTest PROVE Bracketed(e)'
  BY <1>0, <1>19 DEF SpinTest
<1>20. ASSUME NEW d \in Domain, Estimate(d) PROVE Bracketed(e)'
  <2>1. UNCHANGED <<energy, pwr, tmp, snap, loaded, sum, add, start, end, shown>>
    BY <1>20 DEF Estimate
  <2>2. pc = By(d, "estPkg", "estPp0") /\ pc' = By(d, "estPp0", "addPkg")
    BY <1>20 DEF Estimate
  <2>3. e # d => reg'[e] = reg[e]
    BY <1>0, <1>20 DEF Estimate
  <2>4. e = d => /\ reg'[e] \in Nat
                 /\ snap["pre"][e] <= reg'[e] /\ reg'[e] <= energy[e]
    <3>1. /\ snap["pre"][d] \in Word /\ snap["post"][d] \in Word
          /\ snap["exit"][d] \in Word
          /\ caseReads \in Nat /\ testReads \in Nat \ {0}
      BY BoundAssumption DEF TypeOK, Snapshot
    <3>2. e = d => /\ snap["pre"][d] <= reg'[d]
                   /\ reg'[d] <= Larger(snap["pre"][d], snap["post"][d])
                   /\ reg'[d] \in Word
      BY <1>0, <1>20, <3>1, ExtrapolateBetween DEF Estimate
    <3> QED
      BY <1>0, <2>2, <3>2 DEF Larger, Word, Snapshot
  <2> QED
    BY <1>0, <2>1, <2>2, <2>3, <2>4 DEF Snapshot
<1>21. ASSUME NEW d \in Domain, LoadOperand(d) PROVE Bracketed(e)'
  <2>1. UNCHANGED <<energy, reg, pwr, tmp, snap, start, end, shown>>
    BY <1>21 DEF LoadOperand
  <2>2. pc = Adding(d) /\ pc' = pc
    BY <1>21 DEF LoadOperand
  <2>3. CASE e # d
    BY <1>0, <2>1, <2>2, <2>3 DEF Snapshot
  <2>4. CASE e = d
    <3>1. snap["init"][e] <= reg[e] /\ reg[e] \in Word /\ snap["init"][e] \in Word
      BY <2>2, <2>4 DEF TypeOK, Snapshot
    <3>2. Delta(reg[e], snap["init"][e]) = reg[e] - snap["init"][e]
      BY <3>1, DeltaExact
    <3>3. \/ loaded' = loaded \cup {"sum"} /\ sum' = pwr[e] /\ add' = add
          \/ /\ loaded' = loaded \cup {"add"} /\ sum' = sum
             /\ add' = reg[e] - snap["init"][e]
      BY <1>21, <2>4, <3>2 DEF LoadOperand
    <3> QED
      BY <1>0, <2>1, <2>2, <2>4, <3>1, <3>3 DEF Snapshot
  <2> QED
    BY <2>3, <2>4
<1>22. ASSUME NEW d \in Domain, StorePower(d) PROVE Bracketed(e)'
  <2>1. UNCHANGED <<energy, reg, tmp, start, end, shown>>
    BY <1>22 DEF StorePower
  <2>2. /\ pc = Adding(d) /\ pc' = By(d, "addPp0", "restoreInt")
        /\ loaded = {"sum", "add"} /\ loaded' = {}
    BY <1>22 DEF StorePower
  <2>3. pwr'[e] = IF e = d THEN sum + add ELSE pwr[e]
    BY <1>0, <1>22 DEF StorePower
  <2>4. d = "pkg" => snap' = snap
    BY <1>22 DEF StorePower
  <2> QED
    BY <1>0, <2>1, <2>2, <2>3, <2>4 DEF Snapshot
<1>23. ASSUME NEW s \in Signal, RestoreSignal(s) PROVE Bracketed(e)'
  BY <1>0, <1>23 DEF RestoreSignal
<1>24. ASSUME SummarizeEnergy PROVE Bracketed(e)'
  BY <1>0, <1>24 DEF SummarizeEnergy
<1>25. ASSUME SummarizePower PROVE Bracketed(e)'
  BY <1>0, <1>25 DEF SummarizePower
<1>26. ASSUME Expire PROVE Bracketed(e)'
  BY <1>0, <1>26 DEF Expire
<1>27. ASSUME RefreshEnter PROVE Bracketed(e)'
  BY <1>0, <1>27 DEF RefreshEnter
<1>28. ASSUME RefreshReadPkg PROVE Bracketed(e)'
  BY <1>0, <1>28 DEF RefreshReadPkg
<1>29. ASSUME RefreshUpdate PROVE Bracketed(e)'
  <2>1. UNCHANGED <<energy, pc, tmp, snap, loaded, sum, add, start, end, shown>>
    BY <1>29 DEF RefreshUpdate
  <2>2. reg'[e] \in Nat /\ reg[e] <= reg'[e] /\ reg'[e] <= energy[e]
    <3>1. reg' \in [Domain -> Word] /\ reg'["pkg"] = hPkg
      BY <1>29, UpdateEffect
    <3>2. PICK r \in Reading("pp0") :
            reg'["pp0"] = r.value /\ r.said \subseteq stderr'
      BY <1>29, UpdateEffect
    <3>3. e = "pp0" => reg'[e] = energy[e]
      BY <3>2, GoodReading
    <3> QED
      BY <1>0, <1>29, <3>1, <3>3 DEF RefreshUpdate, Word
  <2>3. pc # "units" => pwr'[e] = pwr[e] + (reg'[e] - reg[e])
    <3>1. hInit[e] = reg[e] /\ reg[e] \in Word /\ reg'[e] \in Word
      BY <1>29, UpdateEffect DEF RefreshUpdate, TypeOK
    <3>2. Delta(reg'[e], hInit[e]) = reg'[e] - reg[e]
      BY <2>2, <3>1, DeltaExact
    <3> QED
      BY <1>29, <3>2, UpdateEffect DEF Increment
  <2> QED
    BY <1>0, <2>1, <2>2, <2>3 DEF Snapshot
<1>30. ASSUME ChildExec PROVE Bracketed(e)'
  BY <1>0, <1>30 DEF ChildExec
<1>31. ASSUME ChildExit PROVE Bracketed(e)'
  BY <1>0, <1>31 DEF ChildExit
<1>32. ASSUME NEW s \in Signal, Interrupt(s) PROVE Bracketed(e)'
  BY <1>0, <1>32 DEF Interrupt
<1>33. ASSUME Stopped PROVE Bracketed(e)'
  BY <1>0, <1>33 DEF Stopped
<1> QED
  BY <1>1, <1>2, <1>3, <1>4, <1>5, <1>6, <1>7, <1>8, <1>9, <1>10, <1>11,
     <1>12, <1>13, <1>14, <1>15, <1>16, <1>17, <1>18, <1>19, <1>20, <1>21,
     <1>22, <1>23, <1>24, <1>25, <1>26, <1>27, <1>28, <1>29, <1>30, <1>31,
     <1>32, <1>33
     DEF Next, Main, PerDomain, Handler, Command

LEMMA ReportNext ==
  ASSUME TypeOK, ~Misread', ReportInv, [Next]_vars
  PROVE  ReportInv'
<1>1. HandlerInv'
  BY HandlerNext
<1>2. ASSUME NEW d \in Domain, Fits(d)' PROVE Bracketed(d)'
  <2>1. Fits(d) /\ Bracketed(d) /\ HandlerInv
    BY <1>2, FittedBefore DEF ReportInv
  <2>2. CASE Next
    BY <1>2, <2>1, <2>2, BracketedNext
  <2>3. CASE UNCHANGED vars
    BY <2>1, <2>3 DEF Bracketed, PastInv, LowerInv, UpperInv, Stored, Zeroed,
       Opened, Kept, PreRead, PostRead, Estimated, Storing, Adding
  <2> QED
    BY <2>2, <2>3
<1> QED
  BY <1>1, <1>2 DEF ReportInv

\* As long as no read has failed, what refreshes, rapl_init and rapl_finalize
\* have each read, kept and added is in order, wherever they interrupt one
\* another.
THEOREM ReportInvariant == Spec => [](TypeOK /\ (~Misread => ReportInv))
<1>1. Init => TypeOK /\ ReportInv
  BY TypeInit, ReportInit
<1>2. TypeOK /\ (~Misread => ReportInv) /\ [Next]_vars
      => (TypeOK /\ (~Misread => ReportInv))'
  <2> SUFFICES ASSUME TypeOK, ~Misread => ReportInv, [Next]_vars
               PROVE  TypeOK' /\ (~Misread' => ReportInv')
    OBVIOUS
  <2>1. ~Misread' => ~Misread
    BY MisreadStays
  <2> QED
    BY <2>1, TypeNext, ReportNext
<1> QED
  BY <1>1, <1>2, PTL DEF Spec

\* However refreshes interleave with the main program, the energy captured is
\* at least what was consumed between the two gettimeofday calls, for every
\* width of the registers, every number of refreshes and whatever a failed read
\* leaves.
THEOREM ReportsEnough == Spec => []NeverUnderReports
<1>1. TypeOK /\ (~Misread => ReportInv) => NeverUnderReports
  BY DEF TypeOK, ReportInv, NeverUnderReports, Bracketed, LowerInv, Fits, Stored
<1> QED
  BY <1>1, ReportInvariant, PTL

\* A refresh inside rapl_finalize or rapl_init makes the program count some
\* energy again, but never more than three times, unless stderr tells of a failed
\* read.
THEOREM ReportsAtMostThreefold == Spec => []NeverMoreThanThreefold
<1>1. TypeOK /\ (~Misread => ReportInv) => NeverMoreThanThreefold
  BY DEF TypeOK, Word, ReportInv, NeverMoreThanThreefold, Bracketed, PastInv,
     UpperInv, Fits, Stored
<1> QED
  BY <1>1, ReportInvariant, PTL

-----------------------------------------------------------------------------
(* Modular arithmetic.                                                     *)

LEMMA DivMod ==
  ASSUME NEW a \in Int
  PROVE  \E q \in Int : a % WordMod \in 0 .. WordMod - 1 /\ a % WordMod = a - WordMod * q
<1>1. a % WordMod = a - WordMod * (a \div WordMod)
  BY Z3
<1> QED
  BY <1>1

LEMMA WholeWords ==
  ASSUME NEW k \in Int
  PROVE  (k >= 1 => WordMod * k >= WordMod) /\ (k <= -1 => WordMod * k <= -WordMod)
OBVIOUS

\* Whole words make no difference to a remainder.
LEMMA ModShift ==
  ASSUME NEW a \in Int, NEW b \in Int, NEW k \in Int, a = b + WordMod * k
  PROVE  a % WordMod = b % WordMod
<1>1. PICK q \in Int, r \in 0 .. WordMod - 1 : a % WordMod = r /\ r = a - WordMod * q
  BY DivMod
<1>2. PICK p \in Int, s \in 0 .. WordMod - 1 : b % WordMod = s /\ s = b - WordMod * p
  BY DivMod
<1> DEFINE j == (k + p) - q
<1>3. WordMod * j = (WordMod * k + WordMod * p) - WordMod * q /\ j \in Int
  OBVIOUS
<1> HIDE DEF j
<1>4. r = s + WordMod * j
  BY <1>1, <1>2, <1>3
<1>5. j = 0
  BY <1>3, <1>4, WholeWords
<1> QED
  BY <1>1, <1>2, <1>4, <1>5

\* Equal remainders differ by whole words.
LEMMA SameRemainder ==
  ASSUME NEW a \in Int, NEW b \in Int, a % WordMod = b % WordMod
  PROVE  \E k \in Int : a = b + WordMod * k
<1>1. PICK q \in Int : a % WordMod = a - WordMod * q
  BY DivMod
<1>2. PICK p \in Int : b % WordMod = b - WordMod * p
  BY DivMod
<1>3. a - WordMod * q = b - WordMod * p
  BY <1>1, <1>2
<1>4. WordMod * (q - p) = WordMod * q - WordMod * p /\ q - p \in Int
  OBVIOUS
<1>5. a = b + WordMod * (q - p)
  BY <1>3, <1>4
<1> QED
  BY <1>4, <1>5

\* A difference of words is exact, or one word too large.
LEMMA DeltaCases ==
  ASSUME NEW a \in Word, NEW b \in Word
  PROVE  Delta(a, b) = IF b <= a THEN a - b ELSE (a - b) + WordMod
<1>1. CASE b <= a
  BY <1>1, DeltaExact
<1>2. CASE b > a
  <2>1. (a - b) + WordMod \in 0 .. WordMod - 1
    BY <1>2 DEF Word
  <2>2. ((a - b) + WordMod) % WordMod = (a - b) % WordMod
    <3> DEFINE k == 1
               c == a - b
    <3>1. k \in Int /\ c \in Int /\ c + WordMod \in Int /\ c + WordMod = c + WordMod * k
      BY DEF Word
    <3> HIDE DEF k, c
    <3>2. (c + WordMod) % WordMod = c % WordMod
      BY <3>1, ModShift
    <3> QED
      BY <3>2 DEF c
  <2>3. ((a - b) + WordMod) % WordMod = (a - b) + WordMod
    BY <2>1
  <2> QED
    BY <1>2, <2>2, <2>3 DEF Delta, Word
<1> QED
  BY <1>1, <1>2 DEF Word

\* Adding a difference to a sum that makes the earlier reading makes the later.
LEMMA Telescope ==
  ASSUME NEW x \in Int, NEW a \in Word, NEW b \in Word,
         x % WordMod = b % WordMod
  PROVE  (x + Delta(a, b)) % WordMod = a % WordMod
<1>0. a \in Int /\ b \in Int
  BY DEF Word
<1>1. PICK k \in Int : x = b + WordMod * k
  BY <1>0, SameRemainder
<1>2. PICK i \in {0, 1} : Delta(a, b) = (a - b) + WordMod * i
  BY <1>0, DeltaCases
<1> DEFINE j == k + i
           y == x + Delta(a, b)
<1>3. WordMod * j = WordMod * k + WordMod * i /\ j \in Int
  OBVIOUS
<1> HIDE DEF j
<1>4. y = a + WordMod * j /\ y \in Int
  BY <1>0, <1>1, <1>2, <1>3
<1> HIDE DEF y
<1>5. y % WordMod = a % WordMod
  BY <1>0, <1>3, <1>4, ModShift
<1> QED
  BY <1>5 DEF y

-----------------------------------------------------------------------------
(* The accounts: what every step of the monitor does to the sums.          *)

\* Steps of the main program that leave the sums alone.
Moves(from, to) ==
  \/ {from, to} \subseteq {"open", "arm", "units", "zeroPkg", "failed"}
  \/ {from, to} \subseteq InsideInit \ {"zeroPp0"}
  \/ from \in Metering /\ to \in Metering \cup {"failed"}
  \/ {from, to} \subseteq InsideFinalize \ {"keepPp0", "estPp0", "addPkg", "addPp0"}
  \/ {from, to} \subseteq Captured

Quiet ==
  /\ UNCHANGED <<reg, pwr, begin, Warned, disturbed, loaded, sum, add, hInit>>
  /\ snap'["init"] = snap["init"]
  /\ hpc' # "idle" => hpc # "idle"
  /\ (pc' \in {pc, "killed"}) \/ (hpc = "idle" /\ Moves(pc, pc'))

LEMMA QuietSteps ==
  ASSUME TypeOK, [Next]_vars
  PROVE  \/ Quiet
         \/ RefreshEnter \/ RefreshUpdate \/ TestFresh
         \/ \E d \in Domain : \/ ZeroPower(d) \/ InitStore(d) \/ Keep(d)
                              \/ Estimate(d) \/ LoadOperand(d) \/ StorePower(d)
<1> SUFFICES ASSUME ~RefreshUpdate
             PROVE  \/ Quiet \/ RefreshEnter \/ TestFresh
                    \/ \E d \in Domain :
                         \/ ZeroPower(d) \/ InitStore(d) \/ Keep(d)
                         \/ Estimate(d) \/ LoadOperand(d) \/ StorePower(d)
  OBVIOUS
<1>00. Warned' = Warned
  BY WarnedStays
<1>0. ASSUME UNCHANGED <<reg, pwr, begin, Warned, disturbed, loaded, sum, add, hInit, snap>>,
             hpc' # "idle" => hpc # "idle", pc' \in {pc, "killed"}
      PROVE  Quiet
  BY <1>0 DEF Quiet
<1> USE DEF Quiet, Moves, Goto, InsideInit, InsideFinalize, Metering, Captured
<1>1. ASSUME (\E d \in Domain : Tick(d)) \/ Expire \/ ChildExec \/ ChildExit \/ RefreshReadPkg
             \/ (\E s \in Signal : Interrupt(s)) \/ Stopped \/ UNCHANGED vars
      PROVE  Quiet
  <2>1. UNCHANGED <<reg, pwr, begin, Warned, disturbed, loaded, sum, add, hInit, snap>>
    BY <1>1, <1>00 DEF Tick, Expire, ChildExec, ChildExit, RefreshReadPkg, Interrupt, Stopped
  <2>2. hpc' # "idle" => hpc # "idle"
    BY <1>1 DEF Tick, Expire, ChildExec, ChildExit, RefreshReadPkg, Interrupt, Stopped
  <2>3. pc' \in {pc, "killed"}
    BY <1>1 DEF Tick, Expire, ChildExec, ChildExit, RefreshReadPkg, Interrupt, Stopped
  <2> HIDE DEF Quiet
  <2> QED
    BY <1>0, <2>1, <2>2, <2>3
<1>2. ASSUME OpenMsr \/ ArmTimer \/ ReadUnits \/ ReadFirst \/ \E d \in Domain : InitRead(d)
      PROVE  Quiet
  BY <1>2, <1>00 DEF OpenMsr, ArmTimer, ReadUnits, ReadFirst, InitRead, Domain
<1>3. ASSUME RecordStart \/ Fork \/ (\E s \in Signal : IgnoreSignal(s)) \/ Wait \/ WaitFails \/ RecordEnd
      PROVE  Quiet
  BY <1>3, <1>00 DEF RecordStart, Fork, IgnoreSignal, Wait, WaitFails, RecordEnd, Signal
<1>4. ASSUME SpinCase \/ SpinTest PROVE Quiet
  BY <1>4, <1>00 DEF SpinCase, SpinTest
<1>5. ASSUME FinalizeReads PROVE Quiet
  <2>1. /\ UNCHANGED <<reg, pwr, begin, Warned, disturbed, loaded, sum, add, hInit, hpc>>
        /\ hpc = "idle" /\ Moves(pc, pc')
    BY <1>5, <1>00 DEF FinalizeReads, ReadInto
  <2>2. ASSUME NEW at, NEW slot \in {"pre", "post", "exit"}, NEW d \in Domain, NEW to,
               ReadInto(at, slot, d, to)
        PROVE  snap'["init"] = snap["init"]
    BY <2>2 DEF ReadInto, TypeOK, Snapshot
  <2>3. snap'["init"] = snap["init"]
    BY <1>5, <2>2 DEF FinalizeReads, Domain
  <2> QED
    BY <2>1, <2>3
<1>6. ASSUME (\E s \in Signal : RestoreSignal(s)) \/ SummarizeEnergy \/ SummarizePower
      PROVE  Quiet
  BY <1>6, <1>00 DEF RestoreSignal, SummarizeEnergy, SummarizePower, Signal
<1> HIDE DEF Quiet, Moves, Goto, InsideInit, InsideFinalize, Metering, Captured
<1> QED
  BY <1>1, <1>2, <1>3, <1>4, <1>5, <1>6 DEF Next, Main, PerDomain, Handler, Command

\* The main program does not move while a refresh is on.
LEMMA SteadyNext ==
  ASSUME TypeOK, SteadyInv, [Next]_vars
  PROVE  SteadyInv'
<1> USE DEF SteadyInv, Goto
<1>1. CASE Quiet
  BY <1>1 DEF Quiet, Moves, InsideInit, InsideFinalize, Metering, Captured
<1>2. CASE RefreshEnter
  BY <1>2 DEF RefreshEnter
<1>3. CASE RefreshUpdate
  BY <1>3 DEF RefreshUpdate
<1>4. CASE TestFresh
  BY <1>4 DEF TestFresh
<1>5. ASSUME NEW d \in Domain, ZeroPower(d) \/ InitStore(d) \/ Keep(d) PROVE SteadyInv'
  BY <1>5 DEF ZeroPower, InitStore, Keep, Domain
<1>6. ASSUME NEW d \in Domain, Estimate(d) PROVE SteadyInv'
  BY <1>6 DEF Estimate, Domain
<1>7. ASSUME NEW d \in Domain, LoadOperand(d) PROVE SteadyInv'
  BY <1>7 DEF LoadOperand, Domain
<1>8. ASSUME NEW d \in Domain, StorePower(d) PROVE SteadyInv'
  BY <1>8 DEF StorePower, Domain
<1> QED
  BY <1>1, <1>2, <1>3, <1>4, <1>5, <1>6, <1>7, <1>8, QuietSteps

LEMMA WordsAreNumbers ==
  ASSUME NEW a \in Word, NEW b \in Word
  PROVE  a \in Int /\ b \in Int /\ Delta(a, b) \in Int
BY DeltaCases DEF Word

\* A refresh moves the sum from one reading to the next.
LEMMA RefreshSum ==
  ASSUME NEW e \in Domain, reg[e] \in Word, pwr[e] \in Nat, begin[e] \in Word,
         Tally(e, reg[e]), begin' = begin, reg'[e] \in Word,
         pwr'[e] = pwr[e] + Delta(reg'[e], reg[e]),
         ~Warned' => ~Warned /\ reg[e] <= reg'[e]
  PROVE  Tally(e, reg[e])'
<1> DEFINE x == begin[e] + pwr[e]
<1>1. x \in Int /\ x % WordMod = reg[e] % WordMod /\ (~Warned => x = reg[e])
  BY DEF Tally, Word
<1>2. reg'[e] \in Int /\ reg[e] \in Int /\ Delta(reg'[e], reg[e]) \in Int
  BY WordsAreNumbers
<1>3. begin'[e] \in Int /\ pwr'[e] \in Int /\ begin'[e] + pwr'[e] = x + Delta(reg'[e], reg[e])
  BY <1>2 DEF Word
<1> HIDE DEF x
<1>4. (x + Delta(reg'[e], reg[e])) % WordMod = reg'[e] % WordMod
  BY <1>1, Telescope
<1>5. ~Warned' => x + Delta(reg'[e], reg[e]) = reg'[e]
  BY <1>1, DeltaExact DEF Word
<1> QED
  BY <1>3, <1>4, <1>5 DEF Tally

LEMMA RefreshFinalSum ==
  ASSUME NEW e \in Domain, reg[e] \in Word, pwr[e] \in Nat, begin[e] \in Word,
         FinalTally(e), begin' = begin, reg'[e] \in Word,
         pwr'[e] = pwr[e] + Delta(reg'[e], reg[e]),
         ~Warned' => ~Warned /\ reg[e] <= reg'[e]
  PROVE  FinalTally(e)'
<1> DEFINE x == begin[e] + pwr[e]
<1>1. x \in Int /\ x % WordMod = reg[e] % WordMod /\ (~Warned => x - reg[e] \in {0, WordMod})
  BY DEF FinalTally, Word
<1>2. reg'[e] \in Int /\ reg[e] \in Int /\ Delta(reg'[e], reg[e]) \in Int
  BY WordsAreNumbers
<1>3. begin'[e] \in Int /\ pwr'[e] \in Int /\ begin'[e] + pwr'[e] = x + Delta(reg'[e], reg[e])
  BY <1>2 DEF Word
<1> HIDE DEF x
<1>4. (x + Delta(reg'[e], reg[e])) % WordMod = reg'[e] % WordMod
  BY <1>1, Telescope
<1>5. ~Warned' => (x + Delta(reg'[e], reg[e])) - reg'[e] \in {0, WordMod}
  BY <1>1, DeltaExact DEF Word
<1> QED
  BY <1>1, <1>2, <1>3, <1>4, <1>5 DEF FinalTally

\* rapl_finalize does so with what it has kept, and may run into a wraparound.
LEMMA FinalSum ==
  ASSUME NEW e \in Domain, reg[e] \in Word, pwr[e] \in Nat, begin[e] \in Word,
         snap["init"][e] \in Word, Tally(e, snap["init"][e]),
         UNCHANGED <<begin, reg, Warned>>,
         pwr'[e] = pwr[e] + Delta(reg[e], snap["init"][e])
  PROVE  FinalTally(e)'
<1> DEFINE x == begin[e] + pwr[e]
           i == snap["init"][e]
<1>1. x \in Int /\ i \in Word /\ x % WordMod = i % WordMod /\ (~Warned => x = i)
  BY DEF Tally, Word
<1>2. reg[e] \in Int /\ i \in Int /\ Delta(reg[e], i) \in Int
  BY WordsAreNumbers
<1>3. begin'[e] \in Int /\ pwr'[e] \in Int /\ begin'[e] + pwr'[e] = x + Delta(reg[e], i)
  BY <1>2 DEF Word
<1> HIDE DEF x, i
<1>4. (x + Delta(reg[e], i)) % WordMod = reg[e] % WordMod
  BY <1>1, Telescope
<1>5. ~Warned => (x + Delta(reg[e], i)) - reg[e] \in {0, WordMod}
  BY <1>1, DeltaCases DEF Word
<1>6. (begin'[e] + pwr'[e]) % WordMod = reg'[e] % WordMod
  BY <1>3, <1>4
<1>7. ~Warned' => begin'[e] + pwr'[e] - reg'[e] \in {0, WordMod}
  BY <1>1, <1>2, <1>3, <1>5
<1> QED
  BY <1>6, <1>7 DEF FinalTally

\* One domain's accounts.
LEMMA AccountNext ==
  ASSUME TypeOK, SteadyInv, [Next]_vars, NEW e \in Domain, AccountInv(e)
  PROVE  AccountInv(e)'
<1> DEFINE acc == AccountInv(e)
<1>0. /\ reg \in [Domain -> Word] /\ pwr \in [Domain -> Nat] /\ begin \in [Domain -> Word]
      /\ tmp \in Word /\ snap["init"] \in [Domain -> Word] /\ "init" \in Snapshot
      /\ sum \in Nat /\ add \in Word /\ snap \in [Snapshot -> [Domain -> Word]]
      /\ hInit \in [Domain -> Word] /\ disturbed \in BOOLEAN /\ Warned \in BOOLEAN
  BY DEF TypeOK, Snapshot
<1> USE DEF Domain, By, InsideInit, InsideFinalize, Metering, Captured, Kept, Estimated,
            Adding, Stored, Goto
<1>1. CASE Quiet
  <2>1. CASE pc' \in {pc, "killed"}
    BY <1>1, <2>1 DEF Quiet, AccountInv, Tally, FinalTally
  <2>2. CASE Moves(pc, pc')
    BY <1>1, <2>2 DEF Quiet, Moves, AccountInv, Tally, FinalTally
  <2> QED
    BY <1>1, <2>1, <2>2 DEF Quiet
<1>2. CASE RefreshEnter
  BY <1>2 DEF RefreshEnter, AccountInv, Tally, FinalTally
<1>3. CASE TestFresh
  <2>1. UNCHANGED <<reg, pwr, snap, loaded, sum, add, Warned, disturbed>> /\ pc = "test"
    BY <1>3 DEF TestFresh
  <2>2. CASE pc' = "readPkg"
    BY <2>1, <2>2 DEF AccountInv
  <2>3. CASE pc' = "start" /\ begin' = reg
    <3>1. ~disturbed => begin'[e] + pwr[e] = reg[e]
      BY <1>0, <2>1, <2>3 DEF AccountInv, Word
    <3> QED
      BY <1>0, <2>1, <2>3, <3>1 DEF AccountInv, Tally
  <2> QED
    BY <1>3, <2>2, <2>3 DEF TestFresh
<1>4. ASSUME NEW d \in Domain, ZeroPower(d) PROVE AccountInv(e)'
  <2>1. /\ UNCHANGED <<reg, begin, snap, loaded, sum, add, Warned, disturbed>>
        /\ pc = By(d, "zeroPkg", "zeroPp0") /\ pc' = By(d, "zeroPp0", "first")
        /\ pwr'[d] = 0 /\ (e # d => pwr'[e] = pwr[e])
    BY <1>0, <1>4 DEF ZeroPower
  <2> QED
    BY <2>1 DEF AccountInv
<1>5. ASSUME NEW d \in Domain, InitStore(d) PROVE AccountInv(e)'
  <2>1. /\ UNCHANGED <<pwr, begin, snap, loaded, sum, add, Warned, disturbed>>
        /\ pc = By(d, "storePkg", "storePp0") /\ pc' = By(d, "readPp0", "test")
    BY <1>5 DEF InitStore
  <2> QED
    BY <2>1 DEF AccountInv
<1>6. ASSUME NEW d \in Domain, Keep(d) PROVE AccountInv(e)'
  <2>1. /\ UNCHANGED <<reg, pwr, begin, loaded, sum, add, Warned, disturbed>>
        /\ pc = By(d, "keepPkg", "keepPp0") /\ pc' = By(d, "keepPp0", "prePkg")
        /\ snap'["init"][e] = IF e = d THEN reg[e] ELSE snap["init"][e]
    BY <1>0, <1>6 DEF Keep
  <2> QED
    BY <2>1 DEF AccountInv, Tally
<1>7. ASSUME NEW d \in Domain, Estimate(d) PROVE AccountInv(e)'
  <2>1. /\ UNCHANGED <<pwr, begin, snap, loaded, sum, add, Warned, disturbed>>
        /\ pc = By(d, "estPkg", "estPp0") /\ pc' = By(d, "estPp0", "addPkg")
        /\ (e # d => reg'[e] = reg[e]) /\ loaded = {}
    BY <1>0, <1>7 DEF Estimate, SteadyInv
  <2> QED
    BY <2>1 DEF AccountInv, Tally
<1>8. ASSUME NEW d \in Domain, LoadOperand(d) PROVE AccountInv(e)'
  <2>1. /\ UNCHANGED <<reg, pwr, begin, snap, Warned, disturbed>>
        /\ pc = Adding(d) /\ pc' = pc
        /\ \/ loaded' = loaded \cup {"sum"} /\ sum' = pwr[d] /\ add' = add
           \/ /\ loaded' = loaded \cup {"add"} /\ sum' = sum
              /\ add' = Delta(reg[d], snap["init"][d])
    BY <1>8 DEF LoadOperand
  <2> QED
    BY <2>1 DEF AccountInv, Tally, FinalTally
<1>9. ASSUME NEW d \in Domain, StorePower(d) PROVE AccountInv(e)'
  <2>1. /\ UNCHANGED <<reg, begin, Warned, disturbed>>
        /\ pc = Adding(d) /\ pc' = By(d, "addPp0", "restoreInt")
        /\ loaded = {"sum", "add"} /\ loaded' = {}
        /\ pwr'[e] = IF e = d THEN sum + add ELSE pwr[e]
        /\ d = "pkg" => snap' = snap
    BY <1>0, <1>9 DEF StorePower
  <2>2. CASE e # d
    BY <2>1, <2>2 DEF AccountInv, Tally, FinalTally
  <2>3. CASE e = d /\ ~disturbed
    <3>1. /\ pwr'[e] = pwr[e] + Delta(reg[e], snap["init"][e])
          /\ Tally(e, snap["init"][e])
      BY <2>1, <2>3 DEF AccountInv
    <3>2. FinalTally(e)'
      BY <1>0, <2>1, <3>1, FinalSum
    <3> QED
      BY <2>1, <2>3, <3>2 DEF AccountInv
  <2>4. CASE disturbed
    BY <2>1, <2>4 DEF AccountInv
  <2> QED
    BY <1>0, <2>2, <2>3, <2>4
<1>10. CASE RefreshUpdate
  <2>1. /\ UNCHANGED <<pc, begin, snap, loaded, sum, add, disturbed>>
        /\ reg'[e] \in Word /\ hInit = reg
        /\ pc # "units" => pwr'[e] = pwr[e] + Delta(reg'[e], reg[e])
        /\ ~Warned' => ~Warned /\ reg[e] <= reg'[e]
    <3>1. hInit = reg /\ reg' \in [Domain -> Word]
          /\ pwr'[e] = pwr[e] + Increment(reg'[e], hInit[e])
      BY <1>10, UpdateEffect DEF SteadyInv, RefreshUpdate
    <3>2. ~Warned' => ~Warned /\ reg[e] <= reg'[e]
      <4>1. PICK m : stderr' = stderr \cup (m \cup Warning(hInit, reg'))
        BY <1>10, UpdateEffect
      <4>2. reg'[e] < reg[e] => Warning(hInit, reg') = {"wrapped"}
        BY <3>1 DEF Warning
      <4> QED
        BY <1>0, <3>1, <4>1, <4>2 DEF Word
    <3> QED
      BY <1>10, <3>1, <3>2 DEF RefreshUpdate, Increment
  <2>2. CASE ~disturbed /\ pc \in Metering
    <3>1. Tally(e, reg[e]) BY <2>2 DEF AccountInv
    <3>2. Tally(e, reg[e])' BY <1>0, <2>1, <2>2, <3>1, RefreshSum
    <3> QED
      BY <2>1, <2>2, <3>2 DEF AccountInv
  <2>3. CASE ~disturbed /\ pc \in Captured
    <3>1. FinalTally(e) BY <2>3 DEF AccountInv
    <3>2. FinalTally(e)' BY <1>0, <2>1, <2>3, <3>1, RefreshFinalSum
    <3> QED
      BY <2>1, <2>3, <3>2 DEF AccountInv
  <2>4. CASE disturbed \/ pc \notin Metering \cup Captured
    <3>1. disturbed \/ pc \notin InsideInit \cup InsideFinalize
      BY <1>10 DEF RefreshUpdate, SteadyInv
    <3> QED
      BY <2>1, <2>4, <3>1 DEF AccountInv
  <2> QED
    BY <1>0, <2>2, <2>3, <2>4
<1> QED
  BY <1>1, <1>2, <1>3, <1>4, <1>5, <1>6, <1>7, <1>8, <1>9, <1>10, QuietSteps

\* The accounts are settled in every state, whatever reads fail.
THEOREM AccountsInvariant == Spec => [](TypeOK /\ AccountsInv)
<1>1. Init => TypeOK /\ AccountsInv
  BY TypeInit DEF Init, AccountsInv, SteadyInv, AccountInv, By, Kept, Adding, Stored,
     InsideInit, InsideFinalize, Metering, Captured
<1>2. TypeOK /\ AccountsInv /\ [Next]_vars => (TypeOK /\ AccountsInv)'
  BY TypeNext, SteadyNext, AccountNext DEF AccountsInv
<1> QED
  BY <1>1, <1>2, PTL DEF Spec

\* What the refreshes and rapl_finalize add up to is the latest reading, in
\* uint64_t arithmetic, for every width, wraparound and failed read.
THEOREM AlwaysTelescopes == Spec => []AccountingTelescopes
<1>1. TypeOK /\ AccountsInv => AccountingTelescopes
  BY DEF AccountsInv, AccountInv, Tally, FinalTally, AccountingTelescopes, Unsettled, By,
     Kept, Estimated, Stored, Domain, InsideFinalize, Metering, Captured
<1> QED
  BY <1>1, AccountsInvariant, PTL

\* Only the wraparound that rapl_finalize runs into is not announced, and it
\* puts the report off by one word exactly.
THEOREM WrapsSilentlyOnce == Spec => []OneSilentWrap
<1>1. TypeOK /\ AccountsInv => OneSilentWrap
  BY DEF AccountsInv, AccountInv, Tally, FinalTally, OneSilentWrap, Stored, By, Domain
<1> QED
  BY <1>1, AccountsInvariant, PTL

-----------------------------------------------------------------------------
(* PowerMonitor implements EnergyMeter, as long as no register read fails.  *)

LEMMA ProcessInit == Init => ProcessInv
BY DEF Init, ProcessInv

\* Only the fork makes a command, and only a wait for it leads to the end.
LEMMA ProcessNext ==
  ASSUME TypeOK, ProcessInv, [Next]_vars
  PROVE  ProcessInv'
<1> USE DEF ProcessInv, Goto, Unforked, InsideInit, Domain, Signal
<1>1. ASSUME NEW d \in Domain, Tick(d) PROVE ProcessInv'
  BY <1>1 DEF Tick
<1>2. ASSUME OpenMsr PROVE ProcessInv'
  BY <1>2 DEF OpenMsr
<1>3. ASSUME ArmTimer PROVE ProcessInv'
  BY <1>3 DEF ArmTimer
<1>4. ASSUME ReadUnits PROVE ProcessInv'
  BY <1>4 DEF ReadUnits
<1>5. ASSUME NEW d \in Domain, ZeroPower(d) PROVE ProcessInv'
  BY <1>5 DEF ZeroPower
<1>6. ASSUME ReadFirst PROVE ProcessInv'
  BY <1>6 DEF ReadFirst
<1>7. ASSUME NEW d \in Domain, InitRead(d) PROVE ProcessInv'
  BY <1>7 DEF InitRead
<1>8. ASSUME NEW d \in Domain, InitStore(d) PROVE ProcessInv'
  BY <1>8 DEF InitStore
<1>9. ASSUME TestFresh PROVE ProcessInv'
  BY <1>9 DEF TestFresh
<1>10. ASSUME RecordStart PROVE ProcessInv'
  BY <1>10 DEF RecordStart
<1>11. ASSUME Fork PROVE ProcessInv'
  BY <1>11 DEF Fork
<1>12. ASSUME NEW s \in Signal, IgnoreSignal(s) PROVE ProcessInv'
  BY <1>12 DEF IgnoreSignal
<1>13. ASSUME Wait PROVE ProcessInv'
  BY <1>13 DEF Wait
<1>14. ASSUME WaitFails PROVE ProcessInv'
  BY <1>14 DEF WaitFails
<1>15. ASSUME RecordEnd PROVE ProcessInv'
  BY <1>15 DEF RecordEnd
<1>16. ASSUME NEW d \in Domain, Keep(d) PROVE ProcessInv'
  BY <1>16 DEF Keep
<1>17. ASSUME FinalizeReads PROVE ProcessInv'
  BY <1>17 DEF FinalizeReads, ReadInto
<1>18. ASSUME SpinCase PROVE ProcessInv'
  BY <1>18 DEF SpinCase
<1>19. ASSUME SpinTest PROVE ProcessInv'
  BY <1>19 DEF SpinTest
<1>20. ASSUME NEW d \in Domain, Estimate(d) PROVE ProcessInv'
  BY <1>20 DEF Estimate
<1>21. ASSUME NEW d \in Domain, LoadOperand(d) PROVE ProcessInv'
  BY <1>21 DEF LoadOperand
<1>22. ASSUME NEW d \in Domain, StorePower(d) PROVE ProcessInv'
  BY <1>22 DEF StorePower
<1>23. ASSUME NEW s \in Signal, RestoreSignal(s) PROVE ProcessInv'
  BY <1>23 DEF RestoreSignal
<1>24. ASSUME SummarizeEnergy PROVE ProcessInv'
  BY <1>24 DEF SummarizeEnergy
<1>25. ASSUME SummarizePower PROVE ProcessInv'
  BY <1>25 DEF SummarizePower
<1>26. ASSUME Expire PROVE ProcessInv'
  BY <1>26 DEF Expire
<1>27. ASSUME RefreshEnter PROVE ProcessInv'
  BY <1>27 DEF RefreshEnter
<1>28. ASSUME RefreshReadPkg PROVE ProcessInv'
  BY <1>28 DEF RefreshReadPkg
<1>29. ASSUME RefreshUpdate PROVE ProcessInv'
  BY <1>29 DEF RefreshUpdate
<1>30. ASSUME ChildExec PROVE ProcessInv'
  BY <1>30 DEF ChildExec, Ended
<1>31. ASSUME ChildExit PROVE ProcessInv'
  BY <1>31 DEF ChildExit, Ended
<1>32. ASSUME NEW s \in Signal, Interrupt(s) PROVE ProcessInv'
  BY <1>32 DEF Interrupt, Ended
<1>33. ASSUME Stopped PROVE ProcessInv'
  BY <1>33 DEF Stopped
<1>34. CASE UNCHANGED vars
  BY <1>34
<1> QED
  BY <1>1, <1>2, <1>3, <1>4, <1>5, <1>6, <1>7, <1>8, <1>9, <1>10, <1>11,
     <1>12, <1>13, <1>14, <1>15, <1>16, <1>17, <1>18, <1>19, <1>20, <1>21,
     <1>22, <1>23, <1>24, <1>25, <1>26, <1>27, <1>28, <1>29, <1>30, <1>31,
     <1>32, <1>33, <1>34
     DEF Next, Main, PerDomain, Handler, Command

LEMMA MeterInit ==
  ASSUME Init
  PROVE  Meter!Init
<1>1. energy \in [Domain -> Nat]
  BY TypeInit DEF TypeOK
<1>2. Phase = "idle" /\ Job = "none" /\ Reported = ZeroEnergy
  BY DEF Init, Phase, Job, Reported, InsideInit, InsideFinalize, Metering,
     Captured
<1> QED
  BY <1>1, <1>2 DEF Init, Meter!Init, Meter!Zero, ZeroEnergy

\* Every step of the monitor is a step of the meter or changes nothing there.
LEMMA MeterNext ==
  ASSUME TypeOK, ReportInv, ProcessInv, Next
  PROVE  [Meter!Next]_Meter!vars
<1> USE DEF Goto, Domain, Signal, Phase, Job, Reported, InsideInit,
            InsideFinalize, Metering, Captured, Terminal, Alive, Meter!vars
<1> DEFINE Step == [Meter!Next]_Meter!vars
<1>1. ASSUME NEW d \in Domain, Tick(d) PROVE Step
  BY <1>1 DEF Tick, Meter!Next, Meter!Consume
<1>2. ASSUME OpenMsr PROVE Step
  BY <1>2 DEF OpenMsr, Meter!Next, Meter!Abort
<1>3. ASSUME ArmTimer PROVE Step
  BY <1>3 DEF ArmTimer, Meter!Next, Meter!Abort
<1>4. ASSUME ReadUnits PROVE Step
  BY <1>4 DEF ReadUnits
<1>5. ASSUME NEW d \in Domain, ZeroPower(d) PROVE Step
  BY <1>5 DEF ZeroPower
<1>6. ASSUME ReadFirst PROVE Step
  BY <1>6 DEF ReadFirst
<1>7. ASSUME NEW d \in Domain, InitRead(d) PROVE Step
  BY <1>7 DEF InitRead
<1>8. ASSUME NEW d \in Domain, InitStore(d) PROVE Step
  BY <1>8 DEF InitStore
<1>9. ASSUME TestFresh PROVE Step
  BY <1>9 DEF TestFresh
<1>10. ASSUME RecordStart PROVE Step
  BY <1>10 DEF RecordStart, Meter!Next, Meter!OpenWindow
<1>11. ASSUME Fork PROVE Step
  BY <1>11 DEF Fork, ProcessInv, Unforked, Meter!Next, Meter!StartJob, Meter!Abort
<1>12. ASSUME NEW s \in Signal, IgnoreSignal(s) PROVE Step
  BY <1>12 DEF IgnoreSignal
<1>13. ASSUME Wait PROVE Step
  BY <1>13 DEF Wait
<1>14. ASSUME WaitFails PROVE Step
  BY <1>14 DEF WaitFails
<1>15. ASSUME RecordEnd PROVE Step
  BY <1>15 DEF RecordEnd, ProcessInv, Meter!Next, Meter!CloseWindow
<1>16. ASSUME NEW d \in Domain, Keep(d) PROVE Step
  BY <1>16 DEF Keep
<1>17. ASSUME FinalizeReads PROVE Step
  BY <1>17 DEF FinalizeReads, ReadInto
<1>18. ASSUME SpinCase PROVE Step
  BY <1>18 DEF SpinCase
<1>19. ASSUME SpinTest PROVE Step
  BY <1>19 DEF SpinTest
<1>20. ASSUME NEW d \in Domain, Estimate(d) PROVE Step
  BY <1>20 DEF Estimate
<1>21. ASSUME NEW d \in Domain, LoadOperand(d) PROVE Step
  BY <1>21 DEF LoadOperand
<1>22. ASSUME NEW d \in Domain, StorePower(d) PROVE Step
  BY <1>22 DEF StorePower
<1>23. ASSUME NEW s \in Signal, RestoreSignal(s) PROVE Step
  BY <1>23 DEF RestoreSignal
<1>24. ASSUME SummarizeEnergy PROVE Step
  BY <1>24 DEF SummarizeEnergy
<1>25. ASSUME SummarizePower PROVE Step
  <2>1. /\ Phase = "closed" /\ Phase' = "done" /\ Reported' = shown.energy
        /\ UNCHANGED <<energy, Job, start, end>>
    BY <1>25 DEF SummarizePower, TypeOK
  <2>2. shown.energy \in [Domain -> Nat]
    BY DEF TypeOK
  <2>3. ASSUME NEW d \in Domain PROVE Meter!Promised(d, shown.energy[d])
    BY <1>25, <2>2, <2>3 DEF SummarizePower, Meter!Promised, ReportInv, Fits,
       Bracketed, LowerInv, UpperInv, Printed, TypeOK
  <2> QED
    BY <2>1, <2>2, <2>3 DEF Meter!Next, Meter!Report
<1>26. ASSUME Expire PROVE Step
  BY <1>26 DEF Expire
<1>27. ASSUME RefreshEnter PROVE Step
  BY <1>27 DEF RefreshEnter
<1>28. ASSUME RefreshReadPkg PROVE Step
  BY <1>28 DEF RefreshReadPkg
<1>29. ASSUME RefreshUpdate PROVE Step
  BY <1>29 DEF RefreshUpdate
<1>30. ASSUME ChildExec PROVE Step
  BY <1>30 DEF ChildExec, Ended, Meter!Next, Meter!EndJob
<1>31. ASSUME ChildExit PROVE Step
  BY <1>31 DEF ChildExit, Ended, Meter!Next, Meter!EndJob
<1>32. ASSUME NEW s \in Signal, Interrupt(s) PROVE Step
  BY <1>32 DEF Interrupt, Ended, Meter!Next, Meter!EndJob, Meter!Abort
<1>33. ASSUME Stopped PROVE Step
  BY <1>33 DEF Stopped
<1> QED
  BY <1>1, <1>2, <1>3, <1>4, <1>5, <1>6, <1>7, <1>8, <1>9, <1>10, <1>11,
     <1>12, <1>13, <1>14, <1>15, <1>16, <1>17, <1>18, <1>19, <1>20, <1>21,
     <1>22, <1>23, <1>24, <1>25, <1>26, <1>27, <1>28, <1>29, <1>30, <1>31,
     <1>32, <1>33
     DEF Next, Main, PerDomain, Handler, Command

\* The monitor runs the command inside the window between its two time
\* stamps, and what it prints keeps the promise of EnergyMeter.
THEOREM KeepsPromise ==
  ASSUME BadReads = {}
  PROVE  Spec => ImplementsEnergyMeter
<1>1. Init => ProcessInv /\ Meter!Init
  BY ProcessInit, MeterInit
<1>2. TypeOK /\ ProcessInv /\ [Next]_vars => ProcessInv'
  BY ProcessNext
<1>0. ~Misread /\ [Next]_vars => ~Misread'
  BY MisreadStays
<1>4. Init => ~Misread
  BY DEF Init
<1>3. TypeOK /\ ReportInv /\ ProcessInv /\ [Next]_vars => [Meter!Next]_Meter!vars
  <2>1. CASE UNCHANGED vars
    BY <2>1 DEF Meter!vars, Phase, Job, Reported
  <2> QED
    BY <2>1, MeterNext
<1> QED
  BY <1>0, <1>1, <1>2, <1>3, <1>4, ReportInvariant, PTL
     DEF Spec, ImplementsEnergyMeter, Meter!Spec

-----------------------------------------------------------------------------
(* Without the timer.                                                      *)

\* What a refresh, and only a refresh, changes.
LEMMA TimerSteps ==
  ASSUME [Next]_vars
  PROVE  /\ interval' = interval
         /\ \/ ArmTimer \/ Expire \/ Handler
            \/ UNCHANGED <<armed, pending, hpc, disturbed, Warned>>
<1> SUFFICES ASSUME ~RefreshUpdate
             PROVE  /\ interval' = interval
                    /\ \/ ArmTimer \/ Expire \/ Handler
                       \/ UNCHANGED <<armed, pending, hpc, disturbed, Warned>>
  BY DEF RefreshUpdate, Handler
<1>0. Warned' = Warned
  BY WarnedStays
<1> USE DEF Handler, Command
<1>1. CASE UNCHANGED vars
  BY <1>1
<1>2. CASE \E d \in Domain : Tick(d) \/ PerDomain(d)
  BY <1>2, <1>0 DEF Tick, PerDomain, ZeroPower, InitRead, InitStore, Keep, Estimate, LoadOperand,
              StorePower
<1>3. CASE OpenMsr \/ ArmTimer \/ ReadUnits \/ ReadFirst \/ TestFresh \/ RecordStart
  BY <1>3, <1>0 DEF OpenMsr, ArmTimer, ReadUnits, ReadFirst, TestFresh, RecordStart
<1>4. CASE Fork \/ Wait \/ WaitFails \/ RecordEnd \/ FinalizeReads
  BY <1>4, <1>0 DEF Fork, Wait, WaitFails, RecordEnd, FinalizeReads, ReadInto
<1>5. CASE SpinCase \/ SpinTest \/ SummarizeEnergy \/ SummarizePower
  BY <1>5, <1>0 DEF SpinCase, SpinTest, SummarizeEnergy, SummarizePower
<1>6. CASE \E s \in Signal : IgnoreSignal(s) \/ RestoreSignal(s) \/ Interrupt(s)
  BY <1>6, <1>0 DEF IgnoreSignal, RestoreSignal, Interrupt
<1>7. CASE Expire \/ Handler
  BY <1>7 DEF Expire, RefreshEnter, RefreshReadPkg, RefreshUpdate
<1>8. CASE Command \/ Stopped
  BY <1>8 DEF ChildExec, ChildExit, Stopped
<1> QED
  BY <1>1, <1>2, <1>3, <1>4, <1>5, <1>6, <1>7, <1>8 DEF Next, Main

\* A timer that was never armed does not expire.
LEMMA NeverRefreshed ==
  ASSUME TypeOK, NeverTimed, [Next]_vars, interval <= 0
  PROVE  /\ interval' <= 0 /\ ~RefreshEnter /\ ~RefreshUpdate
         /\ ~armed' /\ ~pending' /\ hpc' = "idle" /\ ~disturbed' /\ ~Warned'
<1>1. ~armed /\ ~pending /\ hpc = "idle" /\ ~disturbed /\ ~Warned
  BY DEF NeverTimed
<1>2. ~Expire
  BY <1>1, Zenon DEF Expire
<1>3. ~RefreshEnter
  BY <1>1, Zenon DEF RefreshEnter
<1>4. ~RefreshReadPkg /\ ~RefreshUpdate
  BY <1>1 DEF RefreshReadPkg, RefreshUpdate
<1>5. CASE ArmTimer
  <2>1. (interval > 0) = FALSE
    BY BoundAssumption DEF TypeOK
  <2>2. ~armed'
    BY <1>1, <1>5, <2>1, Zenon DEF ArmTimer
  <2>3. UNCHANGED <<interval, pending, hpc, disturbed, Warned>>
    BY <1>5 DEF ArmTimer
  <2>4. ~pending' /\ ~disturbed' /\ ~Warned'
    BY <1>1, <2>3, Zenon
  <2> QED
    BY <1>1, <1>3, <1>4, <2>2, <2>3, <2>4
<1>6. CASE UNCHANGED <<armed, pending, hpc, disturbed, Warned>>
  <2>1. ~armed' /\ ~pending' /\ ~disturbed' /\ ~Warned'
    BY <1>1, <1>6, Zenon
  <2>2. interval' <= 0 /\ hpc' = "idle"
    BY <1>1, <1>6, TimerSteps
  <2> QED
    BY <1>3, <1>4, <2>1, <2>2
<1> QED
  BY <1>2, <1>3, <1>4, <1>5, <1>6, TimerSteps DEF Handler

\* rapl_finalize adds what is between the reading it kept, the first one plus what
\* was added before, and its estimate.
LEMMA StoresOnce ==
  ASSUME TypeOK, ReportInv, AccountsInv, NeverTimed, interval <= 0,
         NEW d \in Domain, StorePower(d), Fits(d)
  PROVE  begin'[d] + pwr'[d] = reg'[d]
<1>1. /\ pc = Adding(d) /\ loaded = {"sum", "add"} /\ reg' = reg /\ begin' = begin
      /\ pwr' = [pwr EXCEPT ![d] = sum + add]
  BY DEF StorePower, Goto, Adding, By, Domain
<1>2. /\ reg[d] \in Word /\ begin[d] \in Word /\ pwr[d] \in Nat /\ pwr' [d] = sum + add
      /\ snap["init"][d] \in Word
  BY <1>1 DEF TypeOK, Snapshot
<1>3. pc \in Kept(d) /\ pc \in Estimated(d)
  BY <1>1 DEF Kept, Estimated, Adding, By, Domain, InsideFinalize
<1>4. ~disturbed /\ ~Warned
  BY DEF NeverTimed
<1>5. sum = pwr[d] /\ add = Delta(reg[d], snap["init"][d]) /\ Tally(d, snap["init"][d])
  BY <1>1, <1>3, <1>4 DEF AccountsInv, AccountInv
<1>6. begin[d] + pwr[d] = snap["init"][d]
  BY <1>4, <1>5 DEF Tally
<1>7. snap["init"][d] <= reg[d]
  BY <1>3 DEF ReportInv, Bracketed, PastInv
<1>8. add = reg[d] - snap["init"][d]
  BY <1>2, <1>5, <1>7, DeltaExact
<1> QED
  BY <1>1, <1>2, <1>5, <1>6, <1>8 DEF Word

LEMMA NeverTimedInvariant == Spec => [](TypeOK /\ AccountsInv /\ NeverTimed)
<1>1. Init => NeverTimed
  BY DEF Init, NeverTimed
<1>2. TypeOK /\ NeverTimed /\ [Next]_vars => NeverTimed'
  <2> SUFFICES ASSUME TypeOK, NeverTimed, [Next]_vars, interval' <= 0
               PROVE  ~armed' /\ ~pending' /\ hpc' = "idle" /\ ~disturbed' /\ ~Warned'
    BY DEF NeverTimed
  <2>1. interval <= 0
    BY TimerSteps
  <2> QED
    BY <2>1, NeverRefreshed
<1> QED
  BY <1>1, <1>2, AccountsInvariant, PTL DEF Spec

LEMMA ChargedNext ==
  ASSUME TypeOK, ReportInv, AccountsInv, NeverTimed, ChargedOnce, [Next]_vars
  PROVE  ChargedOnce'
<1> SUFFICES ASSUME interval' <= 0, NEW d \in Domain, pc' \in Stored(d), Fits(d)'
             PROVE  begin'[d] + pwr'[d] = reg'[d]
  BY DEF ChargedOnce
<1>1. interval <= 0
  BY TimerSteps
<1>2. Fits(d)
  BY FittedBefore
<1>3. pc \in Stored(d) => begin[d] + pwr[d] = reg[d]
  BY <1>1, <1>2 DEF ChargedOnce
<1> USE DEF Goto, Domain, Stored, By, Captured
<1>4. CASE Quiet
  BY <1>3, <1>4 DEF Quiet, Moves, InsideInit, InsideFinalize, Metering
<1>5. CASE TestFresh
  BY <1>5 DEF TestFresh
<1>6. ASSUME NEW e \in Domain, ZeroPower(e) \/ InitStore(e) \/ Keep(e) PROVE FALSE
  BY <1>6 DEF ZeroPower, InitStore, Keep
<1>7. ASSUME NEW e \in Domain, Estimate(e) PROVE FALSE
  BY <1>7 DEF Estimate
<1>8. ASSUME NEW e \in Domain, LoadOperand(e) PROVE begin'[d] + pwr'[d] = reg'[d]
  <2>1. pc' = pc /\ UNCHANGED <<reg, pwr, begin>>
    BY <1>8 DEF LoadOperand
  <2> QED
    BY <1>3, <2>1
<1>9. ASSUME NEW e \in Domain, StorePower(e) PROVE begin'[d] + pwr'[d] = reg'[d]
  <2>1. CASE e = d
    BY <1>1, <1>2, <1>9, <2>1, StoresOnce
  <2>2. CASE e # d
    <3>1. pc \in Stored(d) /\ UNCHANGED <<reg, begin>> /\ pwr'[d] = pwr[d]
      BY <1>9, <2>2 DEF StorePower, TypeOK
    <3> QED
      BY <1>3, <3>1
  <2> QED
    BY <2>1, <2>2
<1> QED
  BY <1>1, <1>4, <1>5, <1>6, <1>7, <1>8, <1>9, QuietSteps, NeverRefreshed

\* Without the timer the captured energy is at most what was consumed since
\* rapl_init, for every width of the registers, unless stderr tells of a failed
\* read.
THEOREM UntimedIsCountedOnce == Spec => []UntimedCountsOnce
<1> DEFINE Charged == ~Misread => ChargedOnce
<1>1. Init => Charged
  BY DEF Init, ChargedOnce, Stored, By, Captured, Domain
<1>2. TypeOK /\ (~Misread => ReportInv) /\ AccountsInv /\ NeverTimed /\ Charged
      /\ [Next]_vars => Charged'
  <2> SUFFICES ASSUME TypeOK, ~Misread => ReportInv, AccountsInv, NeverTimed, Charged,
                      [Next]_vars, ~Misread'
               PROVE  ChargedOnce'
    OBVIOUS
  <2>1. ~Misread
    BY MisreadStays
  <2> QED
    BY <2>1, ChargedNext
<1>3. TypeOK /\ (~Misread => ReportInv) /\ Charged => UntimedCountsOnce
  <2> SUFFICES ASSUME TypeOK, ReportInv, ChargedOnce, interval <= 0, pc \in Captured,
                      NEW d \in Domain, energy[d] < RegMod
               PROVE  pwr[d] <= energy[d] - begin[d]
    BY DEF UntimedCountsOnce
  <2>1. begin[d] + pwr[d] = reg[d] /\ reg[d] <= energy[d]
    BY DEF ChargedOnce, ReportInv, Bracketed, PastInv, Fits, Stored
  <2> QED
    BY <2>1 DEF TypeOK, Word
<1> QED
  BY <1>1, <1>2, <1>3, ReportInvariant, NeverTimedInvariant, PTL DEF Spec

\* Without the timer the metrics are not touched once they are captured, for
\* every width, wraparound and failed read.
THEOREM UntimedIsKept == Spec => UntimedMetricsStay
<1>1. TypeOK /\ NeverTimed /\ [Next]_vars
      => [(interval <= 0 /\ pc \in Captured) => (pwr' = pwr)]_vars
  <2> SUFFICES ASSUME TypeOK, NeverTimed, [Next]_vars, interval <= 0, pc \in Captured
               PROVE  pwr' = pwr
    OBVIOUS
  <2> USE DEF Goto, Captured, Domain
  <2>1. CASE Quiet \/ TestFresh
    BY <2>1 DEF Quiet, TestFresh
  <2>2. ASSUME NEW d \in Domain, \/ ZeroPower(d) \/ InitStore(d) \/ Keep(d)
                                 \/ Estimate(d) \/ LoadOperand(d) \/ StorePower(d)
        PROVE  FALSE
    BY <2>2 DEF ZeroPower, InitStore, Keep, Estimate, LoadOperand, StorePower
  <2> QED
    BY <2>1, <2>2, QuietSteps, NeverRefreshed
<1> QED
  BY <1>1, NeverTimedInvariant, PTL DEF Spec, UntimedMetricsStay

-----------------------------------------------------------------------------
(* Signals.                                                                *)

\* The command is waited for, and its energy captured, behind both calls of
\* signal and before they are taken back.
LEMMA ShieldNext ==
  ASSUME TypeOK, ShieldInv, [Next]_vars
  PROVE  ShieldInv' /\ (pc \in Shielded => pc' # "killed")
<1> USE DEF ShieldInv, Shielded, InsideFinalize, Goto, Domain, Signal
<1>0. ASSUME disp' = disp, pc' = pc \/ ({pc, pc'} \subseteq Shielded)
                           \/ (pc' \notin Shielded \cup {"ignoreQuit", "killed"})
      PROVE  ShieldInv' /\ (pc \in Shielded => pc' # "killed")
  BY <1>0
<1>1. CASE Expire \/ Handler \/ Command \/ Stopped \/ WaitFails \/ UNCHANGED vars
  BY <1>1 DEF Expire, Handler, RefreshEnter, RefreshReadPkg, RefreshUpdate, Command,
              ChildExec, ChildExit, Stopped, WaitFails
<1>2. CASE \E s \in Signal : Interrupt(s)
  <2>1. PICK s \in Signal : Interrupt(s)
    BY <1>2
  <2>2. disp' = disp /\ pc' = IF disp[s] = "default" THEN "killed" ELSE pc
    BY <2>1 DEF Interrupt
  <2>3. pc \in Shielded => disp[s] # "default"
    OBVIOUS
  <2> QED
    BY <2>2, <2>3
<1>3. CASE \E s \in Signal : IgnoreSignal(s) \/ RestoreSignal(s)
  BY <1>3 DEF IgnoreSignal, RestoreSignal, TypeOK
<1>4. CASE \E d \in Domain : Tick(d) \/ PerDomain(d)
  <2>1. PICK d \in Domain : Tick(d) \/ PerDomain(d)
    BY <1>4
  <2>2. CASE Tick(d) \/ ZeroPower(d) \/ InitRead(d) \/ InitStore(d)
    BY <2>2 DEF Tick, ZeroPower, InitRead, InitStore
  <2>3. CASE Keep(d) \/ Estimate(d) \/ LoadOperand(d)
    BY <2>3 DEF Keep, Estimate, LoadOperand
  <2>4. CASE StorePower(d)
    BY <2>4 DEF StorePower
  <2> QED
    BY <2>1, <2>2, <2>3, <2>4 DEF PerDomain
<1>5. CASE OpenMsr \/ ArmTimer \/ ReadUnits \/ ReadFirst \/ TestFresh \/ RecordStart \/ Fork
  BY <1>5 DEF OpenMsr, ArmTimer, ReadUnits, ReadFirst, TestFresh, RecordStart, Fork
<1>6. CASE Wait \/ RecordEnd
  BY <1>6 DEF Wait, RecordEnd
<1>7. CASE FinalizeReads \/ SpinCase \/ SpinTest
  BY <1>7 DEF FinalizeReads, ReadInto, SpinCase, SpinTest
<1>8. CASE SummarizeEnergy \/ SummarizePower
  BY <1>8 DEF SummarizeEnergy, SummarizePower
<1> QED
  BY <1>1, <1>2, <1>3, <1>4, <1>5, <1>6, <1>7, <1>8 DEF Next, Main

\* No terminal signal ends the monitor while it waits for the command or captures
\* what it consumed, whatever dispositions it was started with.
THEOREM WaitsUndisturbed == Spec => MeasuredRunSurvives
<1>1. Init => ShieldInv
  BY DEF Init, ShieldInv, Shielded, InsideFinalize
<1>2. TypeOK /\ ShieldInv /\ [Next]_vars => ShieldInv'
  BY ShieldNext
<1>3. TypeOK /\ ShieldInv /\ [Next]_vars => [(pc \in Shielded) => pc' # "killed"]_vars
  BY ShieldNext
<1> QED
  BY <1>1, <1>2, <1>3, TypeCorrect, PTL DEF Spec, MeasuredRunSurvives
=============================================================================
