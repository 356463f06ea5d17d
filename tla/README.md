# Iconoclast: specifications, checks and proofs

Iconoclast measures what programs cost in energy: a small tool reads the RAPL
energy counters of an Intel processor around the run of a command, a handful of
multi-threaded benchmarks are run under it at different clock frequencies by
shell scripts, and a Python script turns the reports into data. This directory
holds TLA+ specifications of that program, the TLC configurations that check
them, and proofs that TLAPS checks.

Paths in this file are relative to the root of the repository.

## 1. The system

| Part | State it keeps | Operations | Talks to |
|---|---|---|---|
| **Power tool, measurement**: `Tools/Power/src/main.c`, `rapl_monitor.c` | `struct PowerState` (last register values, accumulated energy), start and end times, the timer, signal dispositions, the child | `resuse_start`, `rapl_init`, `fork`/`execvp`, `wait3`, `rapl_finalize`; the SIGUSR1 handler `refresh` -> `rapl_refresh` | the RAPL registers (`pread` on `/dev/cpu/0/msr`), the kernel (timer, signals, child), and *itself*: the handler shares `struct PowerState` with the code it interrupts, with no protection |
| **Power tool, report**: `main.c` (`summarize`, `get_args`) | `res.elapsed`, the stdio buffer | `summarize`, once at the end and, with `-v`, from the handler | standard output, through a buffer the child inherits; the formatter |
| **Formatter**: `Scripts/power_formatter.py` | the records parsed so far | `parse_file` per file, `main` | the report files |
| **tlp_vs_ilp**: `Benchmarks/tlp_vs_ilp/src` | jobs, policy, thread handles | split of jobs, `pthread_create`, `pthread_join` | its workers, which never end |
| **Threaded benchmarks**: `proxy_code`, `threaded_nop_loops`, `threaded_empty_loops`, `threaded_usleep_loop` | thread handles, shared arguments | create and join | their workers; whoever kills them |
| **FIRESTARTER**: `Benchmarks/FIRESTARTER/main.c`, `work.c` (a third-party stress test, included in the tree) | `mydata_t`: one command word per worker and one acknowledgement word for all; the load variable | `init`, `_work`, `thread`, `watchdog_timer`, `low_load_function` | shared memory between master and workers; SIGTERM |
| **Runners**: `Experiments/*/runner.sh`, `Benchmarks/*/experiment/runner.sh`, `Tools/Power/sleep_runner.sh` | the clock frequency, background jobs | set a frequency, start a measurement, sleep, `pkill` | all of the above |
| **Compute targets**: `Targets/StandardCandle`, `Targets/NaiveMatMul` | three arrays, loop indices, counters | options, allocation, the matrix kernel, waiting | nothing |
| Paper, plots, recorded data | none | | |

### What is hard in it

* **One structure, two writers.** The timer is armed *before* `rapl_init`
  (`main.c:133`), and never disarmed. `rapl_refresh` may run between any two
  accesses the main program makes to `pkg_reg_value` and `pkg_pwr`, including
  the load and the store of one `+=`. "TODO disable signal"
  (`rapl_monitor.c:63`) is not done.
* **Narrow counters in wide arithmetic.** The registers have 32 bits, the
  differences are taken in 64: a wraparound adds 2^64 - 2^32 units.
* **Waiting for hardware.** Three loops spin until the register changes.
* **Signals.** Terminal signals go to the tool and to the command; the tool
  ignores them only after `fork`, one after the other. Each refresh interrupts
  `wait3`.
* **One buffer, two writers, two processes.** The handler of a verbose run
  prints while the main program prints; the child inherits the buffer.
* **A wall clock** is used for durations.
* **Unchecked failures.** `read_msr` reports a failed read and returns an
  uninitialised value; no benchmark looks at the result of `pthread_create`.
* **One word for all answers.** FIRESTARTER's workers all acknowledge in the
  same `ack`, which the master clears and spins on.
* **Periods against a clock.** The watchdog corrects its sleeps, which may last
  too long, by a wall clock, which may be set, in truncating divisions whose
  results are passed on as unsigned.
* **Measurements that nobody waits for.** Most runners start a measurement in
  the background, of the whole processor, and change the clock frequency after a
  sleep.

What makes each part correct: the *measurement* must not lose the energy
consumed between its two time stamps, whatever interleaves, nor inflate it
without bound, and it must end and outlive Ctrl-C; the *report and formatter*
must hand on what was measured or nothing; the *job split* must hand out every
job once and never stop half-way; the *worker protocol* must not lose an
acknowledgement or wait for one that never comes; the *watchdog* must keep the
load it is asked for and stop in time; a *threaded benchmark* must not take away
the arguments its threads read; a *compute target* must do all of the work whose
power is measured, inside its arrays, and end; a *runner* must not disturb a
measurement that is under way. `PROJECT.json` lists, under `hazards`, each place where one of
these could break, with the property that watches it.

## 2. Modules

```
Descent               what it is for a step to leave less to be done
RaplArithmetic        the arithmetic of rapl_monitor.c
  PowerMonitor        the tool: main program, handler, command, signals, registers
    (INSTANCE) EnergyMeter     what a user is promised; implemented by PowerMonitor
    PowerInvariant    the inductive invariants of the reported energy
      MCPowerMonitor          instances for TLC
      PowerMonitorProofs      types, bounds, accounts; it implements EnergyMeter
PowerReport           runs of the tool, their text, the formatter
  MCPowerReport
  PowerReportProofs
JobDistribution       tlp_vs_ilp
  MCJobDistribution
  JobProofs
WorkerHandshake       FIRESTARTER's start-up
    (INSTANCE) LockStep        what it promises; implemented by WorkerHandshake
    WorkerHandshakeProofs
LoadControl           FIRESTARTER's watchdog, load phases, timeout, SIGTERM
    LoadControlProofs
Firestarter           both together: WorkerHandshake and LoadControl
  MCFirestarter
  FirestarterProofs   EXTENDS the proofs of its parts
ThreadedBenchmark     proxy_code and the three loop benchmarks, as processes
  ExperimentRunner    the scripts, the tool and the benchmarks together
    MCExperimentRunner
    ExperimentRunnerProofs
ComputeTargets        StandardCandle and NaiveMatMul
  MCComputeTargets
  ComputeTargetsProofs
```

`WorkerHandshake`, `LoadControl`, `ThreadedBenchmark` and `ComputeTargets` extend
`Descent`: each states what is left to be done as a tuple of numbers, the most
significant first (`StartUpLeft`, `WatchdogLeft`, `RunnerLeft`, `Left`).

### PowerMonitor and RaplArithmetic

`pc` is the statement the main program executes next: each access to shared
state is a step of its own (`keepPkg`, `keepPp0`, `prePkg`, ...), and the
non-atomic `pkg_pwr +=` is three (`LoadOperand` twice, in either order, and
`StorePower`), because the Makefile does not optimise. `hpc` is the handler:
while it is not `"idle"` every action of the main program is disabled
(`Goto`), as the handler runs on the same thread; in turn it enters between any
two of them (`RefreshEnter`).

| Variables | Code |
|---|---|
| `reg`, `pwr` | `pstate->pkg_reg_value`, `pp0_reg_value`; `pkg_pwr`, `pp0_pwr`, in energy units rather than joules |
| `first`, `tmp` | `initial_value` of `rapl_init`, and a reading between `read_msr` and the store |
| `snap`, `caseReads`, `testReads` | the locals of `rapl_finalize` |
| `loaded`, `sum`, `add` | the operands of `+=` in the processor |
| `hInit`, `hPkg` | the locals of `rapl_refresh` |
| `armed`, `pending` | the timer; SIGUSR1 pending (at most one) |
| `child`, `disp`, `inherited`, `sigchld` | the process model: child state and dispositions |
| `start`, `end` | `res.start`, `res.end`, an instant being identified with the energy consumed up to it |
| `energy` | the hardware: total consumption; a register shows it modulo `RegMod` |
| `stderr` | which of its two messages have been printed there: a read that failed (`read_msr`), a wraparound (`rapl_refresh`) |
| `begin`, `disturbed` | history, used by properties only |

`EnergyMeter` is the abstract specification: a window is opened, a job runs
inside it, the window is closed, and what is reported is at least the
consumption of the window and at most three times all consumption, or nothing is
reported. `PowerMonitor` maps its program counters to four phases and is shown
to implement it.

### PowerReport

A runner (`Begin`, `Collect`) starts the tool several times, each with a file
for its output, and gives the files to the formatter (`Format`, `Parse`,
`PrintData`). The tool prints through a buffer (`Put`) that holds
`BufferLines` lines; a line the main program is in the middle of
(`PrintBegins` .. `PrintEnds`) is torn by a summary printed from the handler;
`Fork` copies the buffer and `ExecFails` flushes the copy, as `exit` does in the
child; `ForkFails` is the tool that exits without a report. Times are seconds
and microseconds with C's division; the formatter accepts digits and no sign.
Energies are represented by the *version* of the metrics they are printed from:
what is metered is `PowerMonitor`'s subject.

### JobDistribution

Both loops of `run_benchmark`, for any `-j` and `-p`. `created` are the handles
`pthread_create` has set, `refused` those it has not; joining a handle that was
never set has any outcome (`JoinGarbage`).

### WorkerHandshake, LoadControl and Firestarter

`WorkerHandshake` is `init` and `_work` of `main.c` against `thread` of
`work.c`. `master` is the statement of the main thread, `phase` the command its
loop gives (`INIT` and `WAIT` in `init`, `WORK` in `_work`), `t` the loop index;
`ack` and `comm` are `mdp->ack` and `mdp->thread_comm`. A worker polls for its
first command, heeds each new one once (`old`) and acknowledges it, at `INIT`
between allocation and the call of its init function. What may go wrong is in
`Faults`: a thread is not created (the master, which does not look, spins for
ever), memory is not to be had (the worker answers `THREAD_INIT_FAILURE` *and
goes on* to write to the null pointer, while the master exits), the init
function fails (the thread ends after it has acknowledged). `LockStep` is the
promise: each worker takes three steps, and none begins one before all have
taken the one before.

`LoadControl` is `watchdog_timer` and the two loops of the workers over `HIGH`.
`real` is the time that has passed since `start_ts`, `clock` the error of the
wall clock, `advance`, `period`, `load`, `time` are the program's; PERIOD, LOAD
and the timeout are cut to 32 bits where the program passes them on (`UMod`).
`usleep` takes its argument modulo `UMod` and sleeps at least as long
(`Delays`). `SIGTERM` is pending until some thread that does not block it takes
it: the watchdog blocks it in the main thread, for good.

`Firestarter` composes them: a worker that answers the command to work enters
its load loop in the same step, the watchdog starts when `_work` has returned,
and nothing moves once the process has ended.

Assumed: stores to `ack`, `thread_comm` and `HIGH` are seen in the order of the
program (not all of them are volatile, but the Makefile says `-O0` and the
processor is an x86); the product of PERIOD and LOAD fits
a long; the init functions and kernels of the generated files, which today only
return success, may report the errors that `work.c` looks for.

### ThreadedBenchmark and ExperimentRunner

A measurement `m` is one run of the power tool with one benchmark process.
`ThreadedBenchmark` has the process: `Exec`, `PrintUsage` when main rejects the
options, the creation of threads (unchecked), the loop that joins them, the
return of `run_benchmark`, on whose stack the arguments are. Threads of
`proxy_code` end (`EndWork`), those of the three loop benchmarks only when the
process is killed (`Signal`).

`ExperimentRunner` has the scripts, in five kinds:

| `script` | Source | What it does |
|---|---|---|
| `threaded` | `Experiments/threaded_nop_loops`, `threaded_usleep_loops`, `Benchmarks/threaded_nop_loops/experiment` | background, sleep, `pkill lbench` for each frequency and number of threads |
| `proxy` | `Experiments/proxy_code` | background and no `pkill`; the loop has one pass (`head -n 1`) |
| `policy` | `Benchmarks/tlp_vs_ilp/experiment` | background and `pkill`; it passes `-p $POLICY` where the variable is `policy`, so the benchmark prints its usage |
| `sleep` | `Experiments/sleep` | background, a short sleep; `sleep` is given an option it does not have, and is over at once |
| `foreground` | `Experiments/prime95`, `FIRESTARTER`, `lavaMD`, `linpack`, `miniMD`, `Tools/Power/sleep_runner.sh` | waits for the tool |

`tool`, `frequency`, `n` and `shell` are the state of the tool, the processor
and the script; `seen` and `overlapped` are history. How long a sleep is, is
abstracted to what it is long enough for (`Settled`): a tool that starts, threads
that are created, a rejected command line, a report that is written, but not a
benchmark that runs on. Some scripts have their two loops the other way round,
which the properties do not tell apart. The runner of `threaded_empty_loops` is
not there: `Experiments/threaded_nop_loops` starts that benchmark's `lbench`, and
its results are named after the other.

### ComputeTargets

`pc` is the loop the program is in. An `int` has `IntMax` and wraps around (the
Makefiles do not optimise), a `uint64_t` is a number modulo `Wide`, and a
`float` is the place it comes from, and negative if nothing has been written
there; `c[x*n+y]` is the set of pairs that were added up, so that it shows what
went into it. `b`, which the program never writes, contributes negative
places. `assert` is compiled in. An access that leaves its array is recorded
in `stray` and may crash; nothing is said of such a run afterwards.

## 3. Runs

| Run | Question | Result |
|---|---|---|
| `power_no_wrap` | Every interleaving, no register wraps: is the reported energy bounded from below and above, and more tightly without a timer; can SIGINT or SIGQUIT end the tool while it measures; is `EnergyMeter` implemented? | holds |
| `power_wrap` | A register of three values that wraps twice in a run: does the accumulated energy still telescope; is a wrong report announced; does the tool end; does it survive Ctrl-C while it waits? | holds, one unannounced wraparound excepted; liveness under fairness |
| `power_bad_reads` | Is a report that is out of bounds for a read that failed announced on stderr? | holds |
| `power_captured` | "Everything after this line depends on captured metrics" | **violated** |
| `power_interrupted` | "Have signals kill the child but not the self if possible" | **violated** |
| `power_report` | What the formatter reads from quiet runs is what happened; quiet runs never make it give up | holds |
| `power_report_verbose` | The output of the power tool can be parsed | **violated** with `-v` |
| `job_distribution` | Jobs are split without loss or not at all, and no worker runs when the program gives up; handles that were never set | holds |
| `firestarter` | Is the start-up a barrier that ends; do the phases keep their period and the process its timeout, whatever fails, is late or is set; does each step lead there? | holds; liveness under fairness |
| `firestarter_idle` | "threads will be idle in the remaining time" | **violated** with `-l 0` |
| `experiment_runner` | Does a measurement ever share the processor or see another's frequency; does every script end with its measurements; do arguments outlive their readers? | holds; liveness under fairness |
| `compute_targets` | Is every element computed, inside the arrays; does each step lead to the end of the program? | holds, unless the square of the size overflows |

**Properties of the measurement.** `NeverUnderReports` and
`NeverMoreThanThreefold` bound the captured energy from the moment `resuse_end`
returns, for every placement of refreshes: it is at least what was consumed
between the two time stamps, and at most three times *all* that has been
consumed in the run. Both allow for a register that has wrapped around, and for
a read that failed if stderr tells of it (`power_bad_reads`). Three is reached:
a refresh inside `rapl_finalize` adds the last interval, the extrapolation sets
`pkg_reg_value` back to `pkg_pre`, so that a second refresh adds the interval
again, and then the difference to the old `pkg_init` is added as well.
`AccountingTelescopes` says that as long as no refresh falls *inside*
`rapl_init` or `rapl_finalize`, first reading plus accumulated energy is the
last reading, modulo 2^64, whatever wraps; it is proved for reads that fail, too. `OneSilentWrap` says that
without a warning on stderr the result is exact before `rapl_finalize` and off
by at most one wrap after it. With `-i 0`, or a negative interval, there are no
refreshes: `UntimedCountsOnce` says that then nothing is counted twice; that the
captured metrics do stay then, which is what is left of finding 1, is proved
(`UntimedMetricsStay`). `MeasuredRunSurvives` is what is left of finding 2: from
the wait for the command until the first signal is restored neither SIGINT nor
SIGQUIT ends the tool.

**Properties of the report.** `QuietRunsParse`: no file of a run without `-v`
has a line twice, whatever is killed, set or cannot be forked or executed.
`RecordsFaithful`: the record has the time the command took (nothing if the
clock was set back), a power exactly when that is positive, and nothing at all
if the tool was killed or could not fork. `PowerMatchesEnergy`: power times time is energy,
unless a refresh came late. No property is about the line "Command line" of a
verbose run, which is written twice when the command cannot be executed: the
formatter does not read it.

**Properties of the job split.** `EveryJobGiven`; `AllOrNothing`: although the
split is looked at only inside the loop that creates the workers, the program
gives up before it starts any or not at all; `NeverJoinsGarbage` says why the
wrong bound of the join loop is harmless: the join of the first worker never
returns. Proved besides: `Balanced`, the loads are as the policy says, and
`RunsUntilKilled`.

**Properties of FIRESTARTER.** `FullLoad`: the phases and the
timeout begin with every worker that was asked for at work or stopped by its
kernel, although no result of `pthread_create` is looked at: a run that lacks a
thread never gets so far (`StartUpEnds` names that as its only exception).
`ImplementsLockStep`: one word of answers is enough, and no worker takes a step
before all have taken the one before, so that none loads the processor before all
are initialised (`AllInitialisedBeforeWork`, proved). `SleepsFit`: neither sleep
of a period is negative and together they last what the clock has left of the
period, whatever the two divisions truncate and also when the clock was set back.
`NoDrift`: delays do not add up over the periods. `TimeoutKept`: not before the
timeout, and less than two periods after it. `NapsAreSleeps`: a worker with low
load does not poll `HIGH` without a pause, unless the load asked for is 0 (see
finding 4).
`LowPhaseEnds`, `TimeoutEnds`: what has to happen; the timeout is outlived only
when there are no phases and no worker is left to take the signal.
`AnswerIsComing`: the master spins only on an answer that a worker is on its way
to, or that of a thread that was not created or has failed. `StartUpGetsOn`,
`TimeoutComesNearer`: every step of the start-up, but the spinning, leaves less
to be done, and every step of the watchdog leaves less of the timeout, whatever
the clock does, so that neither goes round for ever.

**Properties of the experiments.** `MeasuredAlone`: a measurement sees only the
frequency its file is named after and shares the processor with no other. The
reasons differ, and none of them is a wait in the scripts that measure in the
background: `threaded` kills its benchmark, `proxy` and `policy` make one
measurement, `sleep` measures a command that fails at once. `EveryCellReported`:
a script ends and all it began is reported, unless the tool fails or a benchmark
is stuck on a handle that was never set. `ArgumentsOutliveThreads`:
`run_benchmark` of `proxy_code` returns after the last of its threads, also when
some were not created. `NoneLeftBehind`: a script neither goes on nor ends while
what it has measured is not reported, but for the one of `proxy_code`, which ends
and leaves its tool to report. `RunnerGetsOn`: every step of a script, a tool, a
benchmark or a thread leaves less to be done of the measurement the script is at.

**Properties of the targets.** `StaysInBounds` and `ResultsComputed`, also for
sizes of zero and less, which StandardCandle accepts; `GetsOn`: every step leaves
less to be done, which needs that the counters of the last wait, compared for
equality while one rises and the other falls, never pass each other
(`CountersMeet`, proved). Only a last state is without a step, so that the
programs end if they are scheduled.
"Initialize numbers to some arbitrary value" is true of the first matrix only:
`ResultsComputed` names the elements of the second as the only unwritten ones that
get into a result.

### Findings

1. *Captured metrics change* (`power_captured`). The timer runs on after
   `resuse_end`: energy consumed after the command is added to what is printed.
2. *A signal between `fork` and `signal`* (`power_interrupted`) kills the tool
   while its command may run on.
3. *Verbose reports cannot be parsed* (`power_report_verbose`): a run longer
   than the refresh interval prints "Real Time" twice, on which the formatter
   exits, dropping the whole batch of files.
4. *An idle run that is not idle* (`firestarter_idle`). `-l 0` sets PERIOD to 0,
   and the nap of a worker without high load is a hundredth of it: the threads,
   which the README of FIRESTARTER calls idle, poll with `usleep(0)`.

### Bounds, and why they suffice

* `MaxPkg`, `MaxPp0`: energy units per domain. Two units are enough for a
  refresh and `rapl_finalize` to count different intervals in each order. Past
  the bound the package register still advances while a loop waits for it
  (`Awaited`), so that no wait is cut off by the bound.
* `MaxReads`: `case_reads` and `test_reads` start at 3; one or two rounds of the
  loops give the quotients below, at and above one that the estimate tells
  apart. The counters saturate there.
* `MaxPower`: the timer falls silent when more than this has been summed up; 100
  is out of reach where nothing wraps. With failing reads (`power_bad_reads`) it
  keeps the sum, which has no bound of its own, finite, and is 0: refreshes
  happen until one, or `rapl_finalize`, has summed up anything.
* `BadReads`: {1}, a value the register has not reached when the tool starts and
  is past later, so that it may be too large or too small.
* `RegMod`, `WordMod`: 16 and 64 where nothing is to wrap, 4 and 8 where reads
  fail; 3 and 8 where every wrap is to happen within a few units.
* `Booted`, `Intervals`, `Dispositions`: the register at the start, `-i` of -1,
  0 and 15, and what the parent left.
* `PowerReport`: seconds of two "microseconds" and minutes of two seconds, so
  that five instants cover borrow, carry into minutes, equal and reversed clocks
  (the run starts at 1, so the clock can be set back); two versions of the
  metrics put one refresh anywhere, or two before the metrics are captured;
  two runs, so that a batch has a file before and after; a buffer of seven
  lines, so that one report fits, as it does in the program, and it fills in
  the middle of the second.
* `firestarter`: three workers, so that one is neither first nor last; a
  millisecond of four microseconds, a second of two milliseconds and loads in
  quarters, so that both divisions truncate; periods below and above the nap's
  resolution and one whose 20 microseconds do not fit an unsigned of 16
  (`UMod`); delays of 3, which is less than a period and twice which is not;
  clocks set back and ahead by more and less than a period; `MaxTime` 8 is a
  bound on the run without a timeout only: the watchdog waits there.
* `experiment_runner`: `MaxThreads` is 4 as in the scripts; three frequencies, so
  that one has a neighbour on each side.
* `compute_targets`: ints of five bits, so that squares of sizes from -3 to 8
  are right, negative, too small and zero; 3 for 2^30 and 16 for 2^64 are enough
  for each of the four counting loops to run, and for counters that have missed
  each other to wrap around.
* `Jobs` -1 to 21: both rejections, each number of round robin workers, more
  than 16 jobs, up to six packed workers with each remainder.

### Fairness

`FairSpec` assumes: the package register never stops advancing (a powered
processor consumes); a handler that was entered finishes (weak); the main program
gets the processor between refreshes (strong: the timer disables it again and
again, but its period is a whole number of seconds); the command ends when it is
let (`power_wrap` asks what the *tool* does; a command that runs for ever is
measured for ever). Nothing is assumed of the timer or the terminal: refreshes
may come for ever or never.

FIRESTARTER's `Fairness` is weak fairness of the main thread, of each worker and
of the delivery of a signal that some thread does not block: threads are
scheduled preemptively and sleeps end. Nothing is assumed of who sends SIGTERM or
sets the clock. The runner's is weak fairness of the script and of each
measurement: processes are scheduled, threads of `proxy_code`, which count a
finite number of cycles, end.

## 4. Proofs

Every theorem is proved for all values of the constants that satisfy the
assumptions in the modules, so for 32-bit registers and 64-bit words, any number
of reads, refreshes and jobs.

**Reported energy** (`PowerInvariant`, `PowerMonitorProofs`). No assumption on
reads: what a failed one leaves behind is any value, and `ReportInv` holds as long
as stderr does not tell of one (`ReportInvariant`). The bounds
are not inductive: a refresh inside `rapl_finalize` separates `pkg_reg_value`
from the locals. `ReportInv` follows `pwr - reg`, which a refresh leaves
unchanged when nothing wraps (it adds to both what it adds to one), from its
value when `rapl_init` returns through the three steps of the `+=`, with the
operands already loaded as part of the statement, and relates each local to the
time at which it was read. It is stated for a domain whose energy still fits its
register. `ReportsEnough` and `ReportsAtMostThreefold` follow from it.

**Refinement** (`PowerMonitorProofs`). `KeepsPromise`: the initial states map
to initial states and every step to a step of `EnergyMeter` or a stutter, with
`ReportInv` giving the guard of `Report`. `EnergyMeter` has no messages, so this
one assumes that no read fails (`BadReads = {}`).

**Without the timer, and under signals** (`PowerInvariant`,
`PowerMonitorProofs`). `NeverTimed`: with `-i 0` or less the timer is not armed
and no refresh leaves a trace, from which `UntimedIsKept` follows for any reads;
with `ReportInv` and `AccountsInv` it makes the sum exact for each domain from
the store of its `+=` on (`ChargedOnce`), and `UntimedIsCountedOnce` follows as
long as stderr does not tell of a failed read. `ShieldInv` follows the two
dispositions through both calls of `signal`; `WaitsUndisturbed` follows.

**Accounts** (`PowerInvariant`, `PowerMonitorProofs`). Assumption: none on reads
or wraparounds. `AccountingTelescopes` is not inductive, as between the two
stores of a refresh, or of the `+=`, neither register value nor sum is final.
`AccountsInv` adds what the handler holds (`SteadyInv`) and states the account
(`Tally`) relative to the reading the program has kept: `reg` while it waits,
`snap["init"]` from the copy in `rapl_finalize` on, with the operands of the
`+=` already loaded, and `FinalTally` once `rapl_finalize`, which does not look
for wraparounds, has stored. The step is a lemma about remainders (`Telescope`:
adding the difference of two readings, taken modulo `WordMod`, moves the sum to
the later reading) and one about a single difference (`DeltaCases`: it wraps by
one word at most). `AlwaysTelescopes` and `WrapsSilentlyOnce` follow.

**Report and formatter** (`PowerReportProofs`), for any number of runs, refreshes
and kills, commands that cannot be forked or executed, any times, and any buffer
that a report fits into. `ReadBack` says which lines of a quiet run's report are in the
buffer by the line the main program is at (`Quiet`: the file stays empty until
`exit`, as the report does not fill the buffer and nothing is inherited or
printed before it), that what is printed of the time is what the command took
(`Timed`, by the carry of `resuse_end` and the two truncating divisions of
`summarize`, also of a negative time), that the files are whole reports or empty
(`Filed`), and that the formatter's records are those of the files read so far.
The formatter's match is by label and the labels differ, so a whole report has
one line of each (`QuietRunsAreRead`), and what the lines say is what the records
say (`RecordsAreFaithful`, `PowerIsEnergyByTime`). `ToolOutputParses` is false: a
verbose run breaks it.

**Job split** (`JobProofs`). `JobInv` says how much the workers before the
current one run together (`Before`), that round robin decides about an uneven
split at the first worker, and that the handles set and refused are exactly those
asked for. `JobTypeCorrect`, `JobsAllGiven`, `GivesUpEarly`, `LoadsBalanced`,
`JoinsWhatWasSet` and `RunsForEver` follow; the last two rest on one lemma: it
is the first handle that is joined.

**FIRESTARTER.** *Start-up* (`WorkerHandshakeProofs`), for any number of workers
and any faults: `HandshakeInv` splits the workers at `t` into those that have
answered the command of the loop, the one whose turn it is, and those still in
the state the loop before has left them in, and ties `ack` to the one whose turn
it is; without that nothing says whose answer it is. `BarrierBeforeWork` and
`KeepsLockStep` (the refinement) follow. *Load* (`LoadControlProofs`), for any
widths, options, delays and clocks: lemmas on the two truncating divisions give
`SleepsAlwaysFit`; `LoadInv` says how far behind the periods the program is in
each place of the loop, from which `NeverDrifts` and `TimeoutAlwaysKept` follow.
`NapsNeverEmpty` has an invariant of its own: there is a low phase only with
phases or without load. *Composition* (`FirestarterProofs`): every step of the
process is a step or a stutter of each part (`Composition`), so both parts'
theorems hold of it (`PartsKeepTheirPromises`, `TypeCorrect`); `LoadIsFull`
needs both and is proved of the whole.

**Experiments** (`ExperimentRunnerProofs`), for any numbers of frequencies and
threads. `IInv`: a process lives only while its tool waits for it; only the
current measurement is under way, and none while the frequency changes; a script
that pauses has nothing running; a thread that runs is yet to be joined
(`YetToJoin`). `AlwaysAlone` and `ArgumentsStay` follow. `TypesHold` is proved on
top of it, with a lemma on the division and the remainder that take a cell of
the loops to a frequency and a number of threads.

**Targets** (`ComputeTargetsProofs`), for any widths, sizes and iterations.
`TargetInv` has the ranges of the loops, the sizes of the arrays, the part of the
first matrix that is filled and the part of the third that is computed, up to
the partial sum. An index of a row and a column is below the square of the size,
and determines both, by lemmas about nonlinear arithmetic. `TypeCorrect`,
`NeverStrays` and `ComputesEverything` follow.

**Progress.** A program with a liveness property ends because its steps get on and
because they are taken. The second is fairness, which TLC checks; the first is
proved, for all values of the constants: no step but those of waiting makes the
tuple of what is left larger or leaves it as it is (`Descends`). That this is
enough is `NoInfiniteDescent` (in `ComputeTargetsProofs`): there is no infinite
descending sequence of such tuples. It rests on the lexicographic product of the
library, and on the natural numbers being well-founded, which is proved by mapping
them to their initial segments: the library's theorem on the strict subsets of
finite sets needs no operator as a parameter.

* Targets: the stages of the program, then iterations, rows, columns and the
  distance of the counters. `CountersNeverPass` comes first: without the parity
  of their distance they would miss each other (`StepsGetOn`).
* Start-up: the loops of the master, the threads a loop still has to ask, the way
  to the answer it waits for, and the init functions under way. The tuple falls
  because of `HandshakeInv`: only the worker whose turn it is moves, but for the
  init functions (`EachStepGetsOn`). `NoAnswerIsLost` says that what it waits for
  can be given. A lost wake-up would show in either.
* Watchdog: whether it has ended, what is left of the timeout, and the place in
  the loop. It says nothing about the clock, and holds whatever it is set to
  (`TimeoutNeverPutOff`).
* The process as a whole: `PartsGetOn`, by the composition.
* Experiments: measurements, the place in the script, the tool, the process, its
  loop and its threads (`EachStepGetsOn` of `ExperimentRunnerProofs`). A step of
  an earlier measurement would leave the tuple as it is, so this needs that there
  is only one at a time (`OneTool`); `EveryReportIsWritten` needs `Begun`, that
  all earlier ones have been started, and `Rejected`, that the benchmark of the
  `policy` script never comes to its threads.

**Model-checked only**: the six liveness properties (`Terminates`,
`InterruptedRunIsReported`, `StartUpEnds`, `LowPhaseEnds`, `TimeoutEnds`,
`EveryCellReported`). They rest on fairness, and so on ENABLED, which is
outside the prover's reach; for all but the first two and `LowPhaseEnds` the part
that is not about fairness is proved, see *Progress*. The tool has no such measure:
it waits for registers, a command and signals that are not its own. Every safety
property and every action property of a passing run is proved.

**Proved only**, and in no run: the type invariants of `PowerReport`,
`ComputeTargets` and `ExperimentRunner`, `ReportInv` and the other strengthenings,
and `UntimedMetricsStay`, `Balanced`, `RunsUntilKilled`,
`AllInitialisedBeforeWork` and `CountersMeet`.

## 5. Not modelled

* Rounding of doubles: `Extrapolate` is exact where the program computes in
  doubles, and energies are whole units, not multiples of `energy_units`, which
  `rapl_init` sets once to a constant.
* A refresh while `exit` runs or between the two assignments of `elapsed`;
  `printf` called in a handler while its lock is held.
* The energy the hardware consumes once the tool is gone.
* Lines the measured command itself writes to the file: a command that prints
  "Real Time" would confuse the formatter like a verbose run does.
* `get_args` of the power tool other than its result, and a stack too small for
  the handles of millions of jobs.
* FIRESTARTER's choice of a kernel and of processors (`evaluate_environment`,
  `x86.c`, `generic.c`), rejected options, and the generated kernels
  (`*_functions.c`): loops that end when `HIGH` is 0. `THREAD_STOP`, which the
  program never sends. A product of PERIOD and LOAD that overflows a long.
  The allocations and size checks of `init` before it creates the first thread
  (`main.c:215-219`), which end the process before the protocol begins. The
  nanoseconds that are cut from the difference of two clocks (`main.c:162`).
* What the scripts do besides: `modprobe`, directories, names of files; an
  operator who interrupts one or starts two. `Settled` is an assumption about
  durations, not a result: a tool that needs longer than a sleep to start is not
  looked at, and that `sleep`, given an option it does not have, is over within
  three seconds is assumed with it. A benchmark that cannot be executed is not told
  from one that rejects its command line.
* Scripts of the kinds above under other names: the `rerunner.sh` files, which
  repeat single measurements, `Benchmarks/rodinia_multi`, `Benchmarks/linpack`,
  `Benchmarks/minimd`, `Benchmarks/deqn` and `Tools/Power/minimd_runner.sh`.
* What the targets compute: a `float` is where it comes from, whatever the
  operation, also where `NaiveMatMul` announces a "matmul" and adds.
* The paper, the plots, the recorded data and the one-line text filters have no
  behaviour of their own.

## 6. Plan

The system's parts with state of their own are modelled. What could follow:

1. Abstract specifications for `ExperimentRunner` (a sequence of measurements,
   each of one frequency) and `JobDistribution` (every job to one worker), and the
   refinements proved.
2. Durations in `ExperimentRunner` in place of `Settled`, to say which sleeps of
   which script are too short for which benchmark.
3. The power tool around FIRESTARTER: a command that is itself ended by a
   timeout, measured with refreshes.
