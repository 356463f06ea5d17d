---------------------------- MODULE LoadControl ----------------------------
(***************************************************************************)
(* FIRESTARTER's load: the watchdog, which is the main thread once the     *)
(* workers work, switches the shared variable HIGH between the two phases  *)
(* of a period and ends the process after a timeout; the workers change    *)
(* between the high load kernel and low_load_function as they see HIGH     *)
(* change.                                                                 *)
(*                                                                         *)
(* The watchdog corrects each period by what the wall clock says has gone  *)
(* by.  A sleep may last longer than asked for, the clock may be set, and  *)
(* the options are cut to the width of useconds_t.                         *)
(***************************************************************************)
EXTENDS Descent

CONSTANTS
  Threads,          \* the workers
  KernelFails,      \* a kernel may report an error
  Milli, Percent, Micro,   \* 1000, 100 and 1000000 in the program
  UMod,             \* values of an unsigned int and of a useconds_t: 2^32
  Periods, Loads, Timeouts,   \* what -p, -l and -t may say; no -t is 0
  Delays,           \* by how much a sleep may be longer than asked for
  Clocks,           \* by how much the wall clock may be wrong when it is set
  MaxTime           \* bound: a run without a timeout waits at this time

ASSUME LoadAssumption ==
  /\ KernelFails \in BOOLEAN
  /\ {Milli, Percent, Micro, UMod} \subseteq Nat \ {0} /\ Percent <= Milli
  /\ Periods \subseteq Nat \ {0} /\ Loads \subseteq 0 .. Percent
  /\ Timeouts \subseteq Nat /\ Delays \subseteq Nat /\ Clocks \subseteq Int
  /\ MaxTime \in Nat

VARIABLES
  asked,      \* the options -p, -l and -t
  HIGH,
  watchdog,   \* where the main thread is in watchdog_timer
  advance, time,
  level,      \* what each worker runs
  pending,    \* SIGTERM is pending for the process
  ended,      \* the process is gone
  real,       \* microseconds since start_ts was taken
  clock,      \* the wall clock's error
  delay,      \* history: by how much the sleeps of this period were late
  disturbed   \* history: "delay" by a period or more, "clock" was set

signal == <<pending, ended>>
lvars == <<asked, HIGH, watchdog, advance, time, level, signal, real, clock,
           delay, disturbed>>

-----------------------------------------------------------------------------
(* The options.                                                            *)

\* PERIOD and LOAD in microseconds, before a period of 0 stands for no phases.
PeriodAsked == asked.period * Milli
LOAD == (PeriodAsked * asked.load) \div Percent
PERIOD == IF LOAD \in {0, PeriodAsked} THEN 0 ELSE PeriodAsked

\* watchdog_arg, as the watchdog reads it.
period == PERIOD % UMod
load == LOAD % UMod
timeout == asked.timeout % UMod

\* Mutated: the nap is a hundredth of the load.
NapOfLoad == load \div Percent

\* low_load_function: nap = period/100
Nap == period \div Percent

-----------------------------------------------------------------------------
(* The watchdog.                                                           *)

\* C division rounds towards zero.
TruncDiv(a, b) == IF a >= 0 THEN a \div b ELSE -((-a) \div b)

\* Mutated: not the part of a period that has gone by, but all of it.
AdvanceTotal(elapsed) == elapsed

\* Mutated: what has gone by is not subtracted.
AdvanceIgnored(elapsed) == 0

\* advance = ... % period
Advanced(elapsed) == elapsed - period * TruncDiv(elapsed, period)

loadReduction == TruncDiv(load * advance, period)

\* Mutated: the low phase is not shortened.
LowTimeUncorrected == period - load

\* load - load_reduction and idle - idle_reduction
HighTime == load - loadReduction
LowTime == (period - load) - (advance - loadReduction)

\* usleep takes an unsigned argument and sleeps at least as long.
Usleep(duration, late) == real + (duration % UMod) + late

StartWatchdog ==
  /\ watchdog = "off"
  /\ watchdog' = IF period > 0 THEN "loop" ELSE IF timeout > 0 THEN "sleep" ELSE "forever"
  /\ UNCHANGED <<asked, HIGH, advance, time, level, signal, real, clock, delay, disturbed>>

ReadClock ==
  /\ watchdog = "loop" /\ (timeout = 0 => time < MaxTime)
  /\ watchdog' = "high"
  /\ advance' = Advanced(real + clock)
  /\ delay' = 0
  /\ UNCHANGED <<asked, HIGH, time, level, signal, real, clock, disturbed>>

\* "interrupt high load routine"
SleepHigh ==
  /\ watchdog = "high" /\ watchdog' = "low"
  /\ \E late \in Delays : real' = Usleep(HighTime, late) /\ delay' = late
  /\ HIGH' = 0
  /\ UNCHANGED <<asked, advance, time, level, signal, clock, disturbed>>

\* Mutated: the high load is not resumed.
ResumedNot == HIGH

\* *high = 1
Resumed == 1

\* "interrupt low load routine"
SleepLow ==
  /\ watchdog = "low" /\ watchdog' = "check"
  /\ \E late \in Delays : real' = Usleep(LowTime, late) /\ delay' = delay + late
  /\ HIGH' = Resumed
  /\ time' = time + period
  /\ disturbed' = IF delay' < period THEN disturbed ELSE disturbed \cup {"delay"}
  \* not read again
  /\ advance' = 0
  /\ UNCHANGED <<asked, level, signal, clock>>

\* Mutated: the timeout is taken for microseconds.
ExpiredEarly == timeout > 0 /\ time >= timeout

\* Mutated: the last period before the timeout does not end it.
ExpiredLate == timeout > 0 /\ time \div Micro > timeout

\* (timeout > 0) && (time/1000000 >= timeout)
Expired == timeout > 0 /\ time \div Micro >= timeout

\* kill and pthread_exit
Expire ==
  /\ watchdog = "check" /\ Expired
  /\ watchdog' = "gone" /\ pending' = TRUE
  /\ UNCHANGED <<asked, HIGH, advance, time, level, ended, real, clock, delay, disturbed>>

Continue ==
  /\ watchdog = "check" /\ ~Expired
  /\ watchdog' = "loop"
  /\ UNCHANGED <<asked, HIGH, advance, time, level, signal, real, clock, delay, disturbed>>

\* No phases: sleep(timeout), kill, and sleep on.
SleepTimeout ==
  /\ watchdog = "sleep" /\ watchdog' = "forever"
  /\ \E late \in Delays : real' = real + timeout * Micro + late /\ delay' = late
  /\ pending' = TRUE
  /\ UNCHANGED <<asked, HIGH, advance, time, level, ended, clock, disturbed>>

-----------------------------------------------------------------------------
(* The workers.                                                            *)

\* The command to work: thread() enters its loop over the two load levels.
StartLoad(w) ==
  /\ level[w] = "off"
  /\ level' = [level EXCEPT ![w] = "high"]
  /\ UNCHANGED <<asked, HIGH, watchdog, advance, time, signal, real, clock, delay, disturbed>>

\* The kernel returns when HIGH is 0; a kernel that fails ends its thread.
SeesLow(w) ==
  /\ level[w] = "high" /\ HIGH = 0
  /\ \/ level' = [level EXCEPT ![w] = "low"]
     \/ KernelFails /\ level' = [level EXCEPT ![w] = "failed"]
  /\ UNCHANGED <<asked, HIGH, watchdog, advance, time, signal, real, clock, delay, disturbed>>

\* low_load_function
SeesHigh(w) ==
  /\ level[w] = "low" /\ HIGH # 0
  /\ level' = [level EXCEPT ![w] = "high"]
  /\ UNCHANGED <<asked, HIGH, watchdog, advance, time, signal, real, clock, delay, disturbed>>

-----------------------------------------------------------------------------
(* Signals and the clock.                                                  *)

Living == {w \in Threads : level[w] \in {"high", "low"}}

\* A user or a runner ends the program.
Terminate ==
  /\ ~pending /\ pending' = TRUE
  /\ UNCHANGED <<asked, HIGH, watchdog, advance, time, level, ended, real, clock, delay, disturbed>>

\* Mutated: the signal was blocked before the workers were created, which have
\* inherited the mask.
TakesSignalEarlyMask == watchdog = "off"

\* The watchdog blocks SIGTERM in the main thread, for good.
TakesSignal == watchdog = "off" \/ Living # {}

\* sigterm_handler calls exit; and a process ends with its last thread.
End ==
  /\ \/ pending /\ TakesSignal
     \/ watchdog = "gone" /\ Living = {}
  /\ ended' = TRUE
  /\ UNCHANGED <<asked, HIGH, watchdog, advance, time, level, pending, real, clock, delay, disturbed>>

\* The clock is set between two readings of it.
SetClock ==
  /\ watchdog = "loop"
  /\ clock' \in Clocks \ {clock}
  /\ disturbed' = disturbed \cup {"clock"}
  /\ UNCHANGED <<asked, HIGH, watchdog, advance, time, level, signal, real, delay>>

-----------------------------------------------------------------------------
\* The first sleep is still ahead, and the load level follows from -l.
LoadInit ==
  /\ asked \in [period : Periods, load : Loads, timeout : Timeouts]
  /\ HIGH = IF LOAD = 0 THEN 0 ELSE 1
  /\ watchdog = "off" /\ advance = 0 /\ time = 0
  /\ level = [w \in Threads |-> "off"]
  /\ pending = FALSE /\ ended = FALSE
  /\ real = 0 /\ clock = 0 /\ delay = 0 /\ disturbed = {}

WatchdogNext ==
  ReadClock \/ SleepHigh \/ SleepLow \/ Expire \/ Continue \/ SleepTimeout
LevelNext(w) == SeesLow(w) \/ SeesHigh(w)

LoadNext ==
  \/ StartWatchdog \/ WatchdogNext \/ Terminate \/ End \/ SetClock
  \/ \E w \in Threads : StartLoad(w) \/ LevelNext(w)

LoadSpec == LoadInit /\ [][LoadNext]_lvars

-----------------------------------------------------------------------------
(* Properties.                                                             *)

LoadTypeOK ==
  /\ asked \in [period : Periods, load : Loads, timeout : Timeouts]
  /\ HIGH \in {0, 1}
  /\ watchdog \in {"off", "loop", "high", "low", "check", "sleep", "gone", "forever"}
  /\ advance = 0 \/ advance \in -period + 1 .. period - 1
  /\ time \in Nat
  /\ level \in [Threads -> {"off", "high", "low", "failed"}]
  /\ pending \in BOOLEAN /\ ended \in BOOLEAN
  /\ real \in Nat /\ clock \in Int /\ delay \in Nat
  /\ disturbed \subseteq {"delay", "clock"}

\* The period fits a useconds_t: it is less than 72 minutes.
Fits == PeriodAsked < UMod

\* The two sleeps of a period last what the clock has left of it and neither
\* is negative, which usleep would take for a very long time: not by the two
\* divisions that round, and not when the clock was set back or ahead.
SleepsFit ==
  watchdog \in {"high", "low"} /\ Fits =>
    /\ HighTime >= 0 /\ LowTime >= 0
    /\ HighTime + LowTime = period - advance

\* The sleeps of a period end late, but their delays do not add up over the
\* periods: when a period is over the program is behind by its own two only.
NoDrift ==
  watchdog \in {"loop", "check"} /\ Fits /\ disturbed = {} /\ time > 0 =>
    real = time + delay /\ delay < period

\* The timeout is kept although it is compared with a sum of periods and not
\* with the clock: unless the clock is set, the process is never ended before
\* it; and less than two periods after it, unless delays swallow a period.
TimeoutKept ==
  watchdog = "gone" =>
    /\ "clock" \notin disturbed => real >= timeout * Micro
    /\ disturbed = {} /\ Fits => real < timeout * Micro + 2 * period

\* What is left of the watchdog when there is a timeout: of the function, of
\* the timeout, and of a period.
WatchdogPart ==
  CASE watchdog = "off" -> 2
    [] watchdog \in {"gone", "forever"} -> 0
    [] OTHER -> 1

PeriodLeft ==
  CASE watchdog = "check" -> 4
    [] watchdog = "loop" -> 3
    [] watchdog = "high" -> 2
    [] OTHER -> 1

WatchdogLeft == <<WatchdogPart, Remaining(timeout * Micro - time), PeriodLeft>>

\* With a timeout each step of the watchdog brings its end nearer, however the
\* clock is set and however late the sleeps are, and no other step puts it off.
TimeoutComesNearer ==
  [][timeout > 0 => IF watchdog' = watchdog
                    THEN WatchdogLeft' = WatchdogLeft
                    ELSE Descends(3, WatchdogLeft, WatchdogLeft')]_lvars

\* The naps of a worker with low load are not empty, unless that is all it has
\* (-l 0): then it polls HIGH without a pause.
NapsAreSleeps ==
  \A w \in Threads : level[w] = "low" /\ Fits /\ asked.load # 0 => Nap > 0

\* README:55 "threads will be idle in the remaining time", which for -l 0 is
\* all of it: a thread without high load sleeps between two looks at HIGH.
LowIsIdle == \A w \in Threads : level[w] = "low" /\ Fits => Nap > 0
=============================================================================
