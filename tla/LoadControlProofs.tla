------------------------- MODULE LoadControlProofs -------------------------
(***************************************************************************)
(* The watchdog's arithmetic, for every period, load and timeout and for   *)
(* every delay and every error of the clock.                               *)
(***************************************************************************)
EXTENDS LoadControl, TLAPS

-----------------------------------------------------------------------------
(* Division.                                                               *)

\* What the program's divisions of natural numbers return.
LEMMA Division ==
  ASSUME NEW a \in Nat, NEW p \in Nat \ {0}
  PROVE  /\ a \div p \in Nat
         /\ p * (a \div p) <= a /\ a < p * (a \div p) + p
<1>1. a \div p \in Nat
  OBVIOUS
<1>2. p * (a \div p) <= a
  OBVIOUS
<1>3. a < p * (a \div p) + p
  OBVIOUS
<1> QED
  BY <1>1, <1>2, <1>3

LEMMA CancelStrict ==
  ASSUME NEW a \in Int, NEW b \in Int, NEW p \in Nat \ {0}, p * a < p * b
  PROVE  a < b
  OBVIOUS

LEMMA TruncDivInt ==
  ASSUME NEW a \in Int, NEW p \in Nat \ {0}
  PROVE  TruncDiv(a, p) \in Int
<1>1. CASE a >= 0
  BY <1>1 DEF TruncDiv
<1>2. CASE a < 0
  <2>1. (-a) \div p \in Int
    BY <1>2, Division
  <2> QED
    BY <1>2, <2>1 DEF TruncDiv
<1> QED
  BY <1>1, <1>2

\* A quotient by a whole period does not exceed the load.
LEMMA ReductionBounded ==
  ASSUME NEW p \in Nat \ {0}, NEW l \in Nat, NEW a \in 0 .. p - 1
  PROVE  TruncDiv(l * a, p) \in 0 .. l
<1> DEFINE r == (l * a) \div p
<1>1. l * a \in Nat
  OBVIOUS
<1>2. TruncDiv(l * a, p) = r
  BY <1>1 DEF TruncDiv
<1>3. r \in Nat /\ p * r <= l * a
  BY <1>1, Division
<1> HIDE DEF r
<1>4. l * a <= p * l
  OBVIOUS
<1>5. p * r < p * (l + 1)
  BY <1>3, <1>4
<1>6. r < l + 1
  BY <1>3, <1>5, CancelStrict
<1> QED
  BY <1>2, <1>3, <1>6

\* The part of what has gone by that is taken from the high phase: never more
\* than the phase has, and what is left for the low phase is not more either.
LEMMA ReductionFits ==
  ASSUME NEW p \in Nat \ {0}, NEW l \in 0 .. p, NEW a \in -p + 1 .. p - 1
  PROVE  /\ TruncDiv(l * a, p) \in Int
         /\ TruncDiv(l * a, p) <= l
         /\ a - TruncDiv(l * a, p) <= p - l
<1>1. CASE a >= 0
  <2> DEFINE r == (l * a) \div p
  <2>1. l * a \in Nat
    BY <1>1
  <2>2. TruncDiv(l * a, p) = r
    BY <2>1 DEF TruncDiv
  <2>3. r \in Nat /\ p * r <= l * a /\ l * a < p * r + p
    BY <2>1, Division
  <2> HIDE DEF r
  <2>4. r <= l
    <3>1. l * a <= p * l
      BY <1>1
    <3>2. p * r < p * (l + 1)
      BY <2>3, <3>1
    <3> QED
      BY <2>3, <3>2, CancelStrict
  <2>5. a - r <= p - l
    <3>1. (p - l) * (p - a) >= 0
      BY <1>1
    <3>2. (p - l) * (p - a) = p * (p - a - l) + l * a
      BY <1>1
    <3>3. p * (a + l - p) = -(p * (p - a - l))
      BY <1>1
    <3>4. p * (r + 1) = p * r + p
      BY <2>3
    <3>5. p * (a + l - p) < p * (r + 1)
      BY <2>3, <3>1, <3>2, <3>3, <3>4
    <3> QED
      BY <2>3, <3>5, CancelStrict
  <2> QED
    BY <2>2, <2>3, <2>4, <2>5
<1>2. CASE a < 0
  <2> DEFINE b == -a
             q == (l * b) \div p
  <2>1. b \in 1 .. p - 1 /\ l * b \in Nat /\ l * a = -(l * b)
    BY <1>2
  <2>2. q \in Nat /\ p * q <= l * b
    BY <2>1, Division
  <2>3. TruncDiv(l * a, p) = -q
    <3>1. CASE l * b = 0
      <4>1. q = 0
        BY <3>1
      <4>2. l * a = 0 /\ 0 \div p = 0
        BY <2>1, <3>1
      <4> QED
        BY <4>1, <4>2 DEF TruncDiv
    <3>2. CASE l * b # 0
      BY <2>1, <3>2 DEF TruncDiv
    <3> QED
      BY <3>1, <3>2
  <2> HIDE DEF q, b
  <2>4. q <= b
    <3>1. l * b <= p * b
      BY <2>1
    <3>2. p * q < p * (b + 1)
      BY <2>1, <2>2, <3>1
    <3> QED
      BY <2>1, <2>2, <3>2, CancelStrict
  <2> QED
    BY <2>1, <2>2, <2>3, <2>4 DEF b
<1> QED
  BY <1>1, <1>2

\* The remainder by the period, of what the clock says has gone by.
LEMMA AdvanceInPeriod ==
  ASSUME NEW e \in Int, period \in Nat \ {0}
  PROVE  /\ Advanced(e) \in -period + 1 .. period - 1
         /\ e >= 0 => Advanced(e) >= 0 /\ Advanced(e) = e - period * (e \div period)
<1> DEFINE p == period
<1>1. p \in Nat \ {0}
  OBVIOUS
<1> HIDE DEF p
<1>2. CASE e >= 0
  <2>1. TruncDiv(e, p) = e \div p
    BY <1>2 DEF TruncDiv
  <2>2. e \div p \in Nat /\ p * (e \div p) <= e /\ e < p * (e \div p) + p
    BY <1>1, <1>2, Division
  <2> DEFINE q == p * (e \div p)
  <2>3. q \in Int
    BY <1>1, <2>2
  <2>4. Advanced(e) = e - q
    BY <2>1 DEF Advanced, p
  <2> HIDE DEF q
  <2>5. e - q \in 0 .. p - 1
    BY <1>1, <2>2, <2>3 DEF q
  <2> QED
    BY <1>1, <2>3, <2>4, <2>5 DEF p, q
<1>3. CASE e < 0
  <2> DEFINE f == -e
             q == f \div p
  <2>1. f \in Nat /\ q \in Nat /\ p * q <= f /\ f < p * q + p
    BY <1>1, <1>3, Division
  <2>2. TruncDiv(e, p) = -q
    BY <1>3 DEF TruncDiv
  <2> HIDE DEF q
  <2>3. Advanced(e) = e - p * (-q)
    BY <2>2 DEF Advanced, p
  <2>4. p * (-q) = -(p * q)
    BY <1>1, <2>1
  <2>5. p * q \in Int
    BY <1>1, <2>1
  <2>6. Advanced(e) \in -p + 1 .. 0
    BY <1>1, <2>1, <2>3, <2>4, <2>5
  <2> QED
    BY <1>1, <1>3, <2>6 DEF p
<1> QED
  BY <1>2, <1>3

-----------------------------------------------------------------------------
(* The options.                                                            *)

USE LoadAssumption

LEMMA OptionTypes ==
  ASSUME LoadTypeOK
  PROVE  /\ PeriodAsked \in Nat \ {0} /\ LOAD \in 0 .. PeriodAsked
         /\ period \in 0 .. UMod - 1 /\ load \in 0 .. UMod - 1 /\ timeout \in Nat
         /\ Fits /\ period > 0 => period = PeriodAsked /\ load = LOAD
<1> DEFINE P == asked.period
           L == asked.load
           A == P * Milli
<1>1. P \in Nat \ {0} /\ L \in 0 .. Percent /\ asked.timeout \in Nat
  BY DEF LoadTypeOK
<1>2. A \in Nat \ {0}
  BY <1>1
<1>3. PeriodAsked = A
  BY DEF PeriodAsked
<1> HIDE DEF P, L, A
<1>4. LOAD \in 0 .. A
  <2> DEFINE q == (A * L) \div Percent
  <2>1. A * L \in Nat
    BY <1>1, <1>2
  <2>2. q \in Nat /\ Percent * q <= A * L
    BY <2>1, Division
  <2>3. A * L <= Percent * A
    BY <1>1, <1>2
  <2>4. LOAD = q
    BY <1>3 DEF LOAD, L
  <2> HIDE DEF q
  <2>5. Percent * q < Percent * (A + 1)
    <3>1. Percent \in Nat \ {0}
      OBVIOUS
    <3>2. Percent * (A + 1) = Percent * A + Percent
      BY <1>2, <3>1
    <3> QED
      BY <1>1, <1>2, <2>2, <2>3, <3>1, <3>2
  <2>6. q < A + 1
    BY <1>2, <2>2, <2>5, CancelStrict
  <2> QED
    BY <1>2, <2>2, <2>4, <2>6
<1>5. PERIOD \in {0, A}
  BY <1>3 DEF PERIOD
<1>6. period \in 0 .. UMod - 1 /\ load \in 0 .. UMod - 1 /\ timeout \in Nat
  BY <1>1, <1>2, <1>4, <1>5 DEF period, load, timeout
<1>7. ASSUME Fits, period > 0 PROVE period = A /\ load = LOAD
  <2>1. A < UMod
    BY <1>3, <1>7 DEF Fits
  <2>2. LOAD % UMod = LOAD /\ A % UMod = A /\ 0 % UMod = 0
    BY <1>2, <1>4, <2>1
  <2> QED
    BY <1>5, <1>7, <2>2 DEF period, load
<1> QED
  BY <1>2, <1>3, <1>4, <1>6, <1>7

\* What usleep makes of its argument.
LEMMA Slept ==
  ASSUME NEW x \in Int, x < UMod
  PROVE  /\ x % UMod \in Nat /\ x % UMod >= x
         /\ x >= 0 => x % UMod = x
<1>1. x % UMod \in 0 .. UMod - 1
  OBVIOUS
<1>2. x >= 0 => x % UMod = x
  OBVIOUS
<1> QED
  BY <1>1, <1>2

\* The two sleeps of a period, whatever the options.
LEMMA Phases ==
  ASSUME LoadTypeOK, period > 0, advance \in -period + 1 .. period - 1
  PROVE  /\ HighTime \in Int /\ LowTime \in Int
         /\ HighTime + LowTime = period - advance
         /\ advance >= 0 => HighTime \in 0 .. UMod - 1 /\ LowTime < UMod
         /\ Fits => HighTime >= 0 /\ LowTime >= 0
<1>1. period \in Nat \ {0} /\ period < UMod /\ load \in 0 .. UMod - 1
  BY OptionTypes
<1>2. load * advance \in Int
  BY <1>1
<1>3. loadReduction \in Int
  BY <1>1, <1>2, TruncDivInt DEF loadReduction
<1>4. HighTime \in Int /\ LowTime \in Int /\ HighTime + LowTime = period - advance
  BY <1>1, <1>3 DEF HighTime, LowTime
<1>5. ASSUME advance >= 0 PROVE HighTime \in 0 .. UMod - 1 /\ LowTime < UMod
  <2>1. advance \in 0 .. period - 1 /\ load \in Nat
    BY <1>1, <1>5
  <2>2. loadReduction \in 0 .. load
    BY <1>1, <2>1, ReductionBounded DEF loadReduction
  <2> QED
    BY <1>1, <1>5, <2>2 DEF HighTime, LowTime
<1>6. ASSUME Fits PROVE HighTime >= 0 /\ LowTime >= 0
  <2>1. load \in 0 .. period
    BY <1>6, OptionTypes
  <2>2. loadReduction <= load /\ advance - loadReduction <= period - load
    BY <1>1, <2>1, ReductionFits DEF loadReduction
  <2> QED
    BY <1>1, <1>3, <2>1, <2>2 DEF HighTime, LowTime
<1> QED
  BY <1>4, <1>5, <1>6

-----------------------------------------------------------------------------
(* The invariant.                                                          *)

Undisturbed == disturbed = {} /\ Fits

\* How far the program is, and how late, in each place of the loop.  While the
\* clock is not set it is never ahead of the periods it has counted; while
\* nothing else disturbs it, it is behind by the delays of one period only.
InStep ==
  CASE watchdog \in {"loop", "check"} ->
         /\ "clock" \notin disturbed => real >= time
         /\ Undisturbed => real = time + delay /\ delay < period
    [] watchdog = "high" ->
         /\ "clock" \notin disturbed => advance >= 0 /\ real - advance >= time
         /\ Undisturbed => real = time + advance
         /\ delay = 0
    [] watchdog = "low" ->
         /\ "clock" \notin disturbed => advance >= 0 /\ real >= time + advance + HighTime
         /\ Undisturbed => real = time + advance + HighTime + delay

\* The loop of the watchdog; time is a number of periods, and the timeout has
\* not expired the last time it was looked at.
Phased ==
  /\ period > 0
  /\ \E n \in Nat : time = period * n
  /\ timeout > 0 => time < timeout * Micro + (IF watchdog = "check" THEN period ELSE 0)
  /\ watchdog \in {"high", "low"} => advance \in -period + 1 .. period - 1
  /\ InStep

LoadInv ==
  /\ LoadTypeOK
  /\ "clock" \notin disturbed => clock = 0
  /\ watchdog = "off" => time = 0 /\ real = 0 /\ delay = 0
  /\ watchdog \in {"loop", "high", "low", "check"} => Phased
  /\ TimeoutKept

LEMMA LoadInitially == LoadInit => LoadInv
<1> SUFFICES ASSUME LoadInit PROVE LoadInv
  OBVIOUS
<1>1. LoadTypeOK
  <2>1. level \in [Threads -> {"off", "high", "low", "failed"}]
    BY DEF LoadInit
  <2>2. HIGH \in {0, 1} /\ pending \in BOOLEAN /\ ended \in BOOLEAN
    BY Zenon DEF LoadInit
  <2>3. asked \in [period : Periods, load : Loads, timeout : Timeouts]
    BY Zenon DEF LoadInit
  <2> QED
    BY <2>1, <2>2, <2>3 DEF LoadInit, LoadTypeOK
<1> QED
  BY <1>1 DEF LoadInit, LoadInv, TimeoutKept

\* Steps that leave the watchdog where it is, the clock as it is and the time
\* it has taken.
LEMMA OthersStep ==
  ASSUME LoadInv, LoadTypeOK',
         UNCHANGED <<asked, watchdog, advance, time, real, clock, delay, disturbed>>
  PROVE  LoadInv'
<1>1. UNCHANGED <<PeriodAsked, LOAD, PERIOD, period, load, timeout, loadReduction, HighTime>>
  BY DEF PeriodAsked, LOAD, PERIOD, period, load, timeout, loadReduction, HighTime
<1> QED
  BY <1>1 DEF LoadInv, Phased, InStep, Undisturbed, Fits, TimeoutKept

LEMMA StartStep ==
  ASSUME LoadInv, StartWatchdog
  PROVE  LoadInv'
<1>1. time = 0 /\ real = 0 /\ delay = 0
  BY DEF StartWatchdog, LoadInv
<1>2. UNCHANGED <<period, timeout>>
  BY DEF StartWatchdog, period, PERIOD, LOAD, PeriodAsked, timeout
<1>3. LoadTypeOK' /\ UNCHANGED <<asked, advance, time, real, clock, delay, disturbed>>
  BY <1>2 DEF StartWatchdog, LoadInv, LoadTypeOK, signal
<1>4. period \in Nat /\ timeout \in Nat /\ Micro \in Nat \ {0}
  BY OptionTypes DEF LoadInv
<1>5. CASE period > 0
  <2>1. watchdog' = "loop"
    BY <1>5 DEF StartWatchdog
  <2>2. time = period * 0
    BY <1>1, <1>4
  <2>3. timeout > 0 => 0 < timeout * Micro
    BY <1>4
  <2>4. Phased'
    BY <1>3, <1>1, <1>2, <1>4, <1>5, <2>1, <2>2, <2>3 DEF Phased, InStep
  <2> QED
    BY <1>3, <2>1, <2>4 DEF LoadInv, TimeoutKept
<1>6. CASE ~(period > 0)
  <2>1. watchdog' \in {"sleep", "forever"}
    BY <1>6 DEF StartWatchdog
  <2> QED
    BY <1>3, <2>1 DEF LoadInv, TimeoutKept
<1> QED
  BY <1>5, <1>6

LEMMA ReadStep ==
  ASSUME LoadInv, ReadClock
  PROVE  LoadInv'
<1>1. LoadTypeOK /\ Phased /\ watchdog = "loop"
  BY DEF LoadInv, ReadClock
<1>2. /\ watchdog' = "high" /\ advance' = Advanced(real + clock) /\ delay' = 0
      /\ UNCHANGED <<asked, HIGH, time, level, pending, ended, real, clock, disturbed>>
  BY DEF ReadClock, signal
<1>3. UNCHANGED <<period, timeout>> /\ (Fits' <=> Fits)
  BY <1>2 DEF period, PERIOD, LOAD, PeriodAsked, timeout, Fits
<1>4. period \in Nat \ {0} /\ real \in Nat /\ clock \in Int /\ time \in Nat /\ delay \in Nat
  BY <1>1, OptionTypes DEF Phased, LoadTypeOK
<1>5. /\ Advanced(real + clock) \in -period + 1 .. period - 1
      /\ real + clock >= 0 =>
           /\ Advanced(real + clock) >= 0
           /\ Advanced(real + clock) = (real + clock) - period * ((real + clock) \div period)
  <2> DEFINE e == real + clock
  <2>1. e \in Int
    BY <1>4
  <2> HIDE DEF e
  <2>2. /\ Advanced(e) \in -period + 1 .. period - 1
        /\ e >= 0 => Advanced(e) >= 0 /\ Advanced(e) = e - period * (e \div period)
    BY <1>4, <2>1, AdvanceInPeriod
  <2> QED
    BY <2>2, Zenon DEF e
<1>6. PICK n \in Nat : time = period * n
  BY <1>1 DEF Phased
<1>7. LoadTypeOK'
  BY <1>1, <1>2, <1>3, <1>5 DEF LoadTypeOK
<1>8. ASSUME "clock" \notin disturbed
      PROVE  advance' >= 0 /\ real - advance' >= time /\ (Undisturbed => real = time + advance')
  <2> DEFINE q == real \div period
  <2>1. clock = 0 /\ real >= time
    BY <1>1, <1>8 DEF LoadInv, Phased, InStep
  <2>2. advance' >= 0 /\ advance' = real - period * q
    BY <1>2, <1>4, <1>5, <2>1
  <2>3. q \in Nat /\ real < period * q + period
    BY <1>4, Division
  <2> HIDE DEF q
  <2>4. n <= q
    <3>1. period * n < period * (q + 1)
      BY <1>4, <1>6, <2>1, <2>3
    <3> QED
      BY <1>4, <2>3, <3>1, CancelStrict
  <2>5. period * n <= period * q
    BY <1>4, <2>3, <2>4
  <2>6. ASSUME Undisturbed PROVE real = time + advance'
    <3>1. real = time + delay /\ delay < period
      BY <1>1, <2>6 DEF Phased, InStep
    <3>2. advance' \in 0 .. period - 1
      BY <1>2, <1>4, <1>5, <2>2
    <3>3. period * q < period * (n + 1)
      BY <1>4, <1>6, <2>2, <2>3, <3>1, <3>2
    <3>4. q = n
      BY <1>4, <2>3, <2>4, <3>3, CancelStrict
    <3> QED
      BY <1>4, <1>6, <2>2, <3>4
  <2> QED
    BY <1>4, <1>6, <2>2, <2>3, <2>5, <2>6
<1>9. Phased'
  <2>1. InStep'
    BY <1>2, <1>3, <1>8 DEF InStep, Undisturbed
  <2> QED
    BY <1>1, <1>2, <1>3, <1>5, <1>6, <2>1 DEF Phased
<1> QED
  BY <1>2, <1>7, <1>9 DEF LoadInv, TimeoutKept

\* The options are what they were, and with them all that is computed from them.
LEMMA OptionsStay ==
  ASSUME asked' = asked
  PROVE  UNCHANGED <<PeriodAsked, LOAD, PERIOD, period, load, timeout>> /\ (Fits' <=> Fits)
  BY DEF PeriodAsked, LOAD, PERIOD, period, load, timeout, Fits

LEMMA HighStep ==
  ASSUME LoadInv, SleepHigh
  PROVE  LoadInv'
<1>1. LoadTypeOK /\ Phased /\ watchdog = "high"
  BY DEF LoadInv, SleepHigh
<1>2. PICK late \in Delays : real' = real + (HighTime % UMod) + late /\ delay' = late
  BY DEF SleepHigh, Usleep
<1>3. /\ watchdog' = "low" /\ HIGH' = 0
      /\ UNCHANGED <<asked, advance, time, level, pending, ended, clock, disturbed>>
  BY DEF SleepHigh, signal
<1>4. UNCHANGED <<period, load, timeout>> /\ (Fits' <=> Fits)
  BY <1>3, OptionsStay
<1>5. HighTime' = HighTime
  BY <1>3, <1>4 DEF HighTime, loadReduction
<1>6. /\ period \in Nat \ {0} /\ real \in Nat /\ time \in Nat /\ late \in Nat
      /\ advance \in -period + 1 .. period - 1
  BY <1>1, OptionTypes DEF Phased, LoadTypeOK
<1>7. /\ HighTime \in Int
      /\ advance >= 0 => HighTime \in 0 .. UMod - 1
  BY <1>1, <1>6, Phases
<1>8. HighTime % UMod \in Nat
  BY <1>7
<1>9. ASSUME "clock" \notin disturbed
      PROVE  /\ real' >= time + advance + HighTime
             /\ Undisturbed => real' = time + advance + HighTime + delay'
  <2>1. advance >= 0 /\ real - advance >= time /\ (Undisturbed => real = time + advance)
    BY <1>1, <1>9 DEF Phased, InStep
  <2>2. HighTime \in 0 .. UMod - 1
    BY <1>7, <2>1
  <2>3. HighTime % UMod = HighTime
    BY <2>2
  <2> QED
    BY <1>2, <1>6, <2>1, <2>2, <2>3
<1>10. LoadTypeOK'
  BY <1>1, <1>2, <1>3, <1>4, <1>6, <1>8 DEF LoadTypeOK
<1>11. Phased'
  <2>1. "clock" \notin disturbed => advance >= 0
    BY <1>1 DEF Phased, InStep
  <2>2. InStep'
    BY <1>3, <1>4, <1>5, <1>9, <2>1 DEF InStep, Undisturbed
  <2> QED
    BY <1>1, <1>3, <1>4, <2>2 DEF Phased
<1> QED
  BY <1>3, <1>10, <1>11 DEF LoadInv, TimeoutKept

LEMMA LowStep ==
  ASSUME LoadInv, SleepLow
  PROVE  LoadInv'
<1>1. LoadTypeOK /\ Phased /\ watchdog = "low"
  BY DEF LoadInv, SleepLow
<1>2. PICK late \in Delays : real' = real + (LowTime % UMod) + late /\ delay' = delay + late
  BY DEF SleepLow, Usleep
<1>3. /\ watchdog' = "check" /\ HIGH' = 1 /\ time' = time + period /\ advance' = 0
      /\ disturbed' = IF delay' < period THEN disturbed ELSE disturbed \cup {"delay"}
      /\ UNCHANGED <<asked, level, pending, ended, clock>>
  BY DEF SleepLow, Resumed, signal
<1>4. UNCHANGED <<period, load, timeout>> /\ (Fits' <=> Fits)
  BY <1>3, OptionsStay
<1>5. /\ period \in Nat \ {0} /\ real \in Nat /\ time \in Nat /\ late \in Nat
      /\ delay \in Nat /\ advance \in -period + 1 .. period - 1
  BY <1>1, OptionTypes DEF Phased, LoadTypeOK
<1>6. /\ HighTime \in Int /\ LowTime \in Int /\ HighTime + LowTime = period - advance
      /\ advance >= 0 => LowTime < UMod
      /\ Fits => LowTime >= 0
  BY <1>1, <1>5, Phases
<1>7. LowTime % UMod \in Nat
  BY <1>6
<1>8. ASSUME "clock" \notin disturbed
      PROVE  /\ real' >= time'
             /\ Undisturbed => real' = time' + delay'
  <2>1. /\ advance >= 0 /\ real >= time + advance + HighTime
        /\ Undisturbed => real = time + advance + HighTime + delay
    BY <1>1, <1>8 DEF Phased, InStep
  <2>2. LowTime < UMod
    BY <1>6, <2>1
  <2>3. LowTime % UMod >= LowTime /\ (LowTime >= 0 => LowTime % UMod = LowTime)
    BY <1>6, <2>2, Slept
  <2>4. Undisturbed => LowTime >= 0
    BY <1>6 DEF Undisturbed
  <2> QED
    BY <1>2, <1>3, <1>5, <1>6, <1>7, <2>1, <2>3, <2>4
<1>9. LoadTypeOK'
  BY <1>1, <1>2, <1>3, <1>4, <1>5, <1>7 DEF LoadTypeOK
<1>10. Phased'
  <2>1. InStep'
    BY <1>3, <1>4, <1>8 DEF InStep, Undisturbed
  <2>2. PICK n \in Nat : time = period * n
    BY <1>1 DEF Phased
  <2>3. n + 1 \in Nat /\ time' = period * (n + 1)
    BY <1>3, <1>5, <2>2
  <2>4. timeout > 0 => time' < timeout * Micro + period
    <3>1. timeout * Micro \in Nat
      BY <1>1, OptionTypes
    <3> QED
      BY <1>1, <1>3, <1>5, <3>1 DEF Phased
  <2> QED
    BY <1>1, <1>3, <1>4, <2>1, <2>3, <2>4 DEF Phased
<1> QED
  BY <1>3, <1>9, <1>10 DEF LoadInv, TimeoutKept

LEMMA CheckStep ==
  ASSUME LoadInv, Expire \/ Continue
  PROVE  LoadInv'
<1>1. LoadTypeOK /\ Phased /\ watchdog = "check"
  BY DEF LoadInv, Expire, Continue
<1>2. /\ watchdog' = IF Expired THEN "gone" ELSE "loop"
      /\ pending' = (pending \/ Expired)
      /\ UNCHANGED <<asked, HIGH, advance, time, level, ended, real, clock, delay, disturbed>>
  BY DEF Expire, Continue, signal, LoadInv, LoadTypeOK
<1>3. UNCHANGED <<period, load, timeout>> /\ (Fits' <=> Fits)
  BY <1>2, OptionsStay
<1>4. /\ period \in Nat \ {0} /\ timeout \in Nat /\ time \in Nat /\ real \in Nat
      /\ delay \in Nat /\ Micro \in Nat \ {0}
  BY <1>1, OptionTypes DEF Phased, LoadTypeOK
<1>5. LoadTypeOK'
  BY <1>1, <1>2, <1>3 DEF LoadTypeOK
<1> DEFINE q == time \div Micro
<1>6. q \in Nat /\ Micro * q <= time /\ time < Micro * q + Micro
  BY <1>4, Division
<1>7. Expired <=> timeout > 0 /\ q >= timeout
  BY DEF Expired
<1> HIDE DEF q
<1>8. CASE Expired
  <2>1. timeout * Micro <= time
    BY <1>4, <1>6, <1>7, <1>8
  <2>2. /\ "clock" \notin disturbed => real >= time
        /\ Undisturbed => real = time + delay /\ delay < period
        /\ time < timeout * Micro + period
    BY <1>1, <1>7, <1>8 DEF Phased, InStep
  <2>3. timeout * Micro \in Nat
    BY <1>4
  <2>4. TimeoutKept'
    BY <1>2, <1>3, <1>4, <2>1, <2>2, <2>3 DEF TimeoutKept, Undisturbed
  <2> QED
    BY <1>1, <1>2, <1>5, <1>8, <2>4 DEF LoadInv
<1>9. CASE ~Expired
  <2>1. timeout > 0 => time < timeout * Micro
    <3>1. timeout > 0 => Micro * (q + 1) <= Micro * timeout
      BY <1>4, <1>6, <1>7, <1>9
    <3> QED
      BY <1>4, <1>6, <3>1
  <2>2. InStep'
    BY <1>1, <1>2, <1>3, <1>9 DEF Phased, InStep, Undisturbed
  <2>3. \E n \in Nat : time' = period' * n
    BY <1>1, <1>2, <1>3 DEF Phased
  <2>4. Phased'
    BY <1>1, <1>2, <1>3, <1>4, <1>9, <2>1, <2>2, <2>3 DEF Phased
  <2> QED
    BY <1>1, <1>2, <1>5, <1>9, <2>4 DEF LoadInv, TimeoutKept
<1> QED
  BY <1>8, <1>9

LEMMA TimeoutStep ==
  ASSUME LoadInv, SleepTimeout
  PROVE  LoadInv'
<1>1. PICK late \in Delays : real' = real + timeout * Micro + late /\ delay' = late
  BY DEF SleepTimeout
<1>2. /\ watchdog' = "forever" /\ pending' = TRUE
      /\ UNCHANGED <<asked, HIGH, advance, time, level, ended, clock, disturbed>>
  BY DEF SleepTimeout
<1>3. UNCHANGED <<period, timeout>>
  BY <1>2, OptionsStay
<1>4. timeout * Micro \in Nat
  BY OptionTypes DEF LoadInv
<1>5. LoadTypeOK'
  BY <1>1, <1>2, <1>3, <1>4 DEF LoadInv, LoadTypeOK
<1> QED
  BY <1>2, <1>5 DEF LoadInv, TimeoutKept

LEMMA ClockStep ==
  ASSUME LoadInv, SetClock
  PROVE  LoadInv'
<1>1. /\ watchdog = "loop" /\ watchdog' = "loop" /\ clock' \in Int
      /\ disturbed' = disturbed \cup {"clock"}
      /\ UNCHANGED <<asked, HIGH, advance, time, level, pending, ended, real, delay>>
  BY DEF SetClock, signal
<1>2. UNCHANGED <<period, timeout>>
  BY <1>1, OptionsStay
<1>3. LoadTypeOK'
  BY <1>1, <1>2 DEF LoadInv, LoadTypeOK
<1> QED
  BY <1>1, <1>2, <1>3 DEF LoadInv, Phased, InStep, Undisturbed, TimeoutKept

LEMMA WorkersStep ==
  ASSUME LoadInv, \/ Terminate \/ End
                  \/ \E w \in Threads : StartLoad(w) \/ LevelNext(w)
  PROVE  LoadInv'
<1>1. UNCHANGED <<asked, HIGH, watchdog, advance, time, real, clock, delay, disturbed>>
  BY DEF Terminate, End, StartLoad, LevelNext, SeesLow, SeesHigh
<1>2. UNCHANGED period
  BY <1>1, OptionsStay
<1>3. LoadTypeOK'
  BY <1>1, <1>2 DEF LoadInv, LoadTypeOK, Terminate, End, StartLoad, LevelNext, SeesLow,
                    SeesHigh, signal
<1> QED
  BY <1>1, <1>3, OthersStep

THEOREM LoadInvariant == LoadSpec => []LoadInv
<1>1. LoadInv /\ [LoadNext]_lvars => LoadInv'
  <2> SUFFICES ASSUME LoadInv, [LoadNext]_lvars PROVE LoadInv'
    OBVIOUS
  <2>1. CASE UNCHANGED lvars
    <3>1. UNCHANGED <<asked, HIGH, watchdog, advance, time, level, pending, ended, real,
                      clock, delay, disturbed>>
      BY <2>1 DEF lvars, signal
    <3>2. UNCHANGED period
      BY <3>1, OptionsStay
    <3>3. LoadTypeOK'
      BY <3>1, <3>2 DEF LoadInv, LoadTypeOK
    <3> QED
      BY <3>1, <3>3, OthersStep
  <2> QED
    BY <2>1, StartStep, ReadStep, HighStep, LowStep, CheckStep, TimeoutStep, ClockStep,
       WorkersStep DEF LoadNext, WatchdogNext
<1> QED
  BY <1>1, LoadInitially, PTL DEF LoadSpec

-----------------------------------------------------------------------------
\* The options are within their widths, and the variables in their ranges.
THEOREM LoadTypeCorrect == LoadSpec => []LoadTypeOK
<1>1. LoadInv => LoadTypeOK
  BY DEF LoadInv
<1> QED
  BY <1>1, LoadInvariant, PTL

\* No sleep of a period is negative, wherever the clock is set: for any period
\* that fits its type, any load and any clock.
THEOREM SleepsAlwaysFit == LoadSpec => []SleepsFit
<1>1. LoadInv => SleepsFit
  BY Phases DEF LoadInv, Phased, SleepsFit
<1> QED
  BY <1>1, LoadInvariant, PTL

\* The delays of the sleeps do not add up.
THEOREM NeverDrifts == LoadSpec => []NoDrift
<1>1. LoadInv => NoDrift
  BY DEF LoadInv, Phased, InStep, Undisturbed, NoDrift
<1> QED
  BY <1>1, LoadInvariant, PTL

\* The timeout is kept: never early, and late by less than two periods.
THEOREM TimeoutAlwaysKept == LoadSpec => []TimeoutKept
<1>1. LoadInv => TimeoutKept
  BY DEF LoadInv
<1> QED
  BY <1>1, LoadInvariant, PTL

-----------------------------------------------------------------------------
\* There is a low phase only where there are phases, or no load at all.
Interrupted ==
  HIGH = 0 \/ (\E w \in Threads : level[w] = "low") => period > 0 \/ asked.load = 0

LEMMA InterruptedInitially ==
  ASSUME LoadInit, HIGH = 0
  PROVE  asked.load = 0
<1>1. LOAD = 0
  BY DEF LoadInit
<1>2. /\ asked.period \in Nat \ {0} /\ asked.load \in Nat
      /\ Milli \in Nat /\ Percent \in Nat \ {0} /\ Percent <= Milli
  <2>1. asked.period \in Periods /\ asked.load \in Loads
    BY Zenon DEF LoadInit
  <2>2. Milli \in Nat /\ Percent \in Nat \ {0} /\ Percent <= Milli
    OBVIOUS
  <2>3. asked.period \in Nat \ {0}
    BY <2>1
  <2>4. asked.load \in 0 .. Percent
    BY <2>1, Zenon
  <2> QED
    BY <2>2, <2>3, <2>4
<1>3. PeriodAsked \in Nat /\ PeriodAsked >= Percent
  <2>1. asked.period * Milli = Milli + (asked.period - 1) * Milli
    BY <1>2
  <2>2. (asked.period - 1) * Milli \in Nat
    BY <1>2
  <2> QED
    BY <1>2, <2>1, <2>2 DEF PeriodAsked
<1>4. SUFFICES ASSUME asked.load >= 1 PROVE FALSE
  BY <1>2
<1>5. PeriodAsked * asked.load \in Nat /\ PeriodAsked * asked.load >= PeriodAsked
  <2>1. PeriodAsked * asked.load = PeriodAsked + PeriodAsked * (asked.load - 1)
    BY <1>2, <1>3
  <2>2. PeriodAsked * (asked.load - 1) \in Nat
    BY <1>2, <1>3, <1>4
  <2> QED
    BY <1>3, <2>1, <2>2
<1>6. PeriodAsked * asked.load < Percent * LOAD + Percent
  BY <1>2, <1>5, Division DEF LOAD
<1> QED
  BY <1>1, <1>2, <1>3, <1>5, <1>6

LEMMA InterruptedStep ==
  ASSUME LoadInv, Interrupted, [LoadNext]_lvars
  PROVE  Interrupted'
<1>1. asked' = asked /\ period' = period
  <2>1. asked' = asked
    BY DEF LoadNext, WatchdogNext, LevelNext, StartWatchdog, ReadClock, SleepHigh, SleepLow,
           Expire, Continue, SleepTimeout, StartLoad, SeesLow, SeesHigh, Terminate, End,
           SetClock, lvars
  <2> QED
    BY <2>1, OptionsStay
<1>2. CASE SleepHigh
  <2>1. period > 0
    BY <1>2 DEF SleepHigh, LoadInv, Phased
  <2> QED
    BY <1>1, <2>1 DEF Interrupted
<1>3. CASE SleepLow
  <2>1. level' = level /\ HIGH' = 1
    BY <1>3 DEF SleepLow, Resumed
  <2> QED
    BY <1>1, <2>1 DEF Interrupted
<1>4. ASSUME NEW w \in Threads, StartLoad(w) \/ LevelNext(w)
      PROVE  Interrupted'
  <2>1. HIGH' = HIGH
    BY <1>4 DEF StartLoad, LevelNext, SeesLow, SeesHigh
  <2>2. \A v \in Threads : level'[v] = "low" => level[v] = "low" \/ HIGH = 0
    BY <1>4 DEF StartLoad, LevelNext, SeesLow, SeesHigh, LoadInv, LoadTypeOK
  <2> QED
    BY <1>1, <2>1, <2>2 DEF Interrupted
<1>5. CASE UNCHANGED <<HIGH, level>>
  BY <1>1, <1>5 DEF Interrupted
<1>6. UNCHANGED <<HIGH, level>> \/ SleepHigh \/ SleepLow
        \/ \E w \in Threads : StartLoad(w) \/ LevelNext(w)
  BY DEF LoadNext, WatchdogNext, StartWatchdog, ReadClock, Expire, Continue, SleepTimeout,
         Terminate, End, SetClock, lvars
<1> QED
  BY <1>2, <1>3, <1>4, <1>5, <1>6

\* A worker with low load naps, unless a load of 0 was asked for: for every
\* period there is, as a period is no shorter than a hundred microseconds.
THEOREM NapsNeverEmpty == LoadSpec => []NapsAreSleeps
<1>1. LoadInit => Interrupted
  <2> SUFFICES ASSUME LoadInit PROVE Interrupted
    OBVIOUS
  <2>1. \A w \in Threads : level[w] # "low"
    BY DEF LoadInit
  <2> QED
    BY <2>1, InterruptedInitially DEF Interrupted
<1>2. LoadInv /\ Interrupted /\ [LoadNext]_lvars => Interrupted'
  BY InterruptedStep
<1>3. LoadInv /\ Interrupted => NapsAreSleeps
  <2> SUFFICES ASSUME LoadInv, Interrupted, Fits, asked.load # 0,
                      NEW w \in Threads, level[w] = "low"
               PROVE  Nap > 0
    BY DEF NapsAreSleeps
  <2>1. period > 0 /\ LoadTypeOK
    BY DEF Interrupted, LoadInv
  <2>2. period = asked.period * Milli
    BY <2>1, OptionTypes DEF PeriodAsked
  <2>3. /\ asked.period \in Nat \ {0}
        /\ Milli \in Nat /\ Percent \in Nat \ {0} /\ Percent <= Milli
    BY <2>1 DEF LoadTypeOK
  <2>4. asked.period * Milli = Milli + (asked.period - 1) * Milli
    BY <2>3
  <2>5. (asked.period - 1) * Milli \in Nat
    BY <2>3
  <2>6. period \in Nat /\ period >= Percent
    BY <2>2, <2>3, <2>4, <2>5
  <2>7. Nap \in Nat /\ period < Percent * Nap + Percent
    BY <2>3, <2>6, Division DEF Nap
  <2> QED
    BY <2>3, <2>6, <2>7
<1> QED
  BY <1>1, <1>2, <1>3, LoadInvariant, PTL DEF LoadSpec

-----------------------------------------------------------------------------
(* With a timeout the watchdog ends.                                       *)

LEMMA WatchdogLeftDescends ==
  ASSUME LoadInv, LoadInv',
         \/ WatchdogPart' < WatchdogPart
         \/ /\ WatchdogPart' = WatchdogPart
            /\ \/ Remaining(timeout * Micro - time)' < Remaining(timeout * Micro - time)
               \/ /\ Remaining(timeout * Micro - time)' = Remaining(timeout * Micro - time)
                  /\ PeriodLeft' < PeriodLeft
  PROVE  Descends(3, WatchdogLeft, WatchdogLeft')
<1> DEFINE M == Remaining(timeout * Micro - time)
<1>1. M \in Nat
  <2>1. timeout * Micro - time \in Int
    BY OptionTypes DEF LoadInv, LoadTypeOK
  <2> QED
    BY <2>1 DEF Remaining
<1>2. M' \in Nat
  <2>1. timeout' = asked'.timeout % UMod /\ asked'.timeout \in Nat
    BY DEF LoadInv, LoadTypeOK, timeout
  <2>2. timeout' \in Nat
    BY <2>1
  <2>3. timeout' * Micro - time' \in Int
    BY <2>2 DEF LoadInv, LoadTypeOK
  <2> QED
    BY <2>3 DEF Remaining
<1>3. /\ WatchdogPart \in Nat /\ WatchdogPart' \in Nat
      /\ PeriodLeft \in Nat /\ PeriodLeft' \in Nat
  BY DEF WatchdogPart, PeriodLeft
<1>4. WatchdogLeft = <<WatchdogPart, M, PeriodLeft>> /\ WatchdogLeft' = <<WatchdogPart', M', PeriodLeft'>>
  BY DEF WatchdogLeft
<1> HIDE DEF M
<1>5. {WatchdogLeft, WatchdogLeft'} \subseteq Measures(3)
  BY <1>1, <1>2, <1>3, <1>4 DEF Measures
<1>6. \E m \in 1 .. 3 : /\ WatchdogLeft'[m] < WatchdogLeft[m]
                       /\ \A l \in 1 .. m - 1 : WatchdogLeft'[l] = WatchdogLeft[l]
  <2>1. /\ WatchdogLeft[1] = WatchdogPart /\ WatchdogLeft[2] = M /\ WatchdogLeft[3] = PeriodLeft
        /\ WatchdogLeft'[1] = WatchdogPart' /\ WatchdogLeft'[2] = M' /\ WatchdogLeft'[3] = PeriodLeft'
    BY <1>4
  <2>2. CASE WatchdogPart' < WatchdogPart
    BY <2>1, <2>2
  <2>3. CASE WatchdogPart' = WatchdogPart /\ M' < M
    BY <2>1, <2>3
  <2>4. CASE WatchdogPart' = WatchdogPart /\ M' = M /\ PeriodLeft' < PeriodLeft
    <3>1. \A l \in 1 .. 3 - 1 : l = 1 \/ l = 2
      OBVIOUS
    <3> QED
      BY <2>1, <2>4, <3>1
  <2> QED
    BY <2>2, <2>3, <2>4 DEF M
<1> QED
  BY <1>5, <1>6 DEF Descends

\* The steps of the watchdog that take it from one place to the next.
LEMMA WatchdogDescends ==
  ASSUME LoadInv, LoadInv', timeout > 0, StartWatchdog \/ WatchdogNext
  PROVE  Descends(3, WatchdogLeft, WatchdogLeft')
<1>1. asked' = asked
  BY DEF StartWatchdog, WatchdogNext, ReadClock, SleepHigh, SleepLow, Expire, Continue,
         SleepTimeout
<1>2. timeout' = timeout
  BY <1>1 DEF timeout
<1>3. CASE StartWatchdog \/ Expire \/ SleepTimeout
  <2>1. \/ watchdog = "off" /\ watchdog' \in {"loop", "sleep", "forever"}
        \/ watchdog \in {"check", "sleep"} /\ watchdog' \in {"gone", "forever"}
    BY <1>3 DEF StartWatchdog, Expire, SleepTimeout
  <2>2. WatchdogPart' < WatchdogPart
    BY <2>1 DEF WatchdogPart
  <2> QED
    BY <2>2, WatchdogLeftDescends
<1>4. CASE ReadClock \/ SleepHigh \/ Continue
  <2>1. /\ \/ watchdog = "check" /\ watchdog' = "loop"
           \/ watchdog = "loop" /\ watchdog' = "high"
           \/ watchdog = "high" /\ watchdog' = "low"
        /\ time' = time
    BY <1>4 DEF ReadClock, SleepHigh, Continue
  <2>2. WatchdogPart' = WatchdogPart /\ PeriodLeft' < PeriodLeft
    BY <2>1 DEF WatchdogPart, PeriodLeft
  <2>3. Remaining(timeout * Micro - time)' = Remaining(timeout * Micro - time)
    BY <1>2, <2>1
  <2> QED
    BY <2>2, <2>3, WatchdogLeftDescends
<1>5. CASE SleepLow
  <2>1. watchdog = "low" /\ watchdog' = "check" /\ time' = time + period
    BY <1>5 DEF SleepLow
  <2>2. WatchdogPart' = WatchdogPart
    BY <2>1 DEF WatchdogPart
  <2>3. Remaining(timeout * Micro - time)' < Remaining(timeout * Micro - time)
    <3> DEFINE total == timeout * Micro
    <3>1. total \in Nat
      BY OptionTypes DEF LoadInv
    <3>2. total' = total
      BY <1>2
    <3>3. time < total /\ period > 0
      <4>1. Phased
        BY <2>1 DEF LoadInv
      <4>2. time < total + 0 /\ period > 0
        BY <2>1, <4>1 DEF Phased
      <4> QED
        BY <3>1, <4>2
    <3>4. time \in Nat /\ period \in Nat
      BY OptionTypes DEF LoadInv, LoadTypeOK
    <3> HIDE DEF total
    <3>5. Remaining(total - (time + period)) < Remaining(total - time)
      BY <3>1, <3>3, <3>4 DEF Remaining
    <3> QED
      BY <2>1, <3>2, <3>5 DEF total
  <2> QED
    BY <2>2, <2>3, WatchdogLeftDescends
<1> QED
  BY <1>3, <1>4, <1>5 DEF WatchdogNext

\* With a timeout every step of the watchdog brings its end nearer: for every
\* period, load and timeout, however late the sleeps and however the clock is
\* set.
THEOREM TimeoutNeverPutOff == LoadSpec => TimeoutComesNearer
<1> DEFINE GetsOn ==
      timeout > 0 => IF watchdog' = watchdog
                     THEN WatchdogLeft' = WatchdogLeft
                     ELSE Descends(3, WatchdogLeft, WatchdogLeft')
<1>1. LoadInv /\ LoadInv' /\ [LoadNext]_lvars => [GetsOn]_lvars
  <2> SUFFICES ASSUME LoadInv, LoadInv', LoadNext PROVE GetsOn
    OBVIOUS
  <2>1. CASE StartWatchdog \/ WatchdogNext
    <3>1. watchdog' # watchdog
      BY <2>1 DEF StartWatchdog, WatchdogNext, ReadClock, SleepHigh, SleepLow, Expire, Continue,
                  SleepTimeout
    <3> QED
      BY <2>1, <3>1, WatchdogDescends
  <2>2. CASE Terminate \/ End \/ SetClock \/ \E w \in Threads : StartLoad(w) \/ LevelNext(w)
    <3>1. UNCHANGED <<asked, watchdog, time>>
      BY <2>2 DEF Terminate, End, SetClock, StartLoad, LevelNext, SeesLow, SeesHigh
    <3>2. WatchdogLeft' = WatchdogLeft
      BY <3>1 DEF WatchdogLeft, WatchdogPart, PeriodLeft, timeout
    <3> QED
      BY <3>1, <3>2
  <2> QED
    BY <2>1, <2>2 DEF LoadNext
<1> QED
  BY <1>1, LoadInvariant, PTL DEF LoadSpec, TimeoutComesNearer

=============================================================================
