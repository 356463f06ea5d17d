-------------------------- MODULE ExperimentRunner --------------------------
(***************************************************************************)
(* The scripts that run the experiments.  For each frequency and number of *)
(* threads a script sets the clock frequency of the processor, starts the  *)
(* power tool on a benchmark with its output in a file, and goes on when   *)
(* the tool is done, or after a sleep, with or without killing the         *)
(* benchmark.  The power tool measures the whole processor, from its start *)
(* to the end of the command.                                              *)
(***************************************************************************)
EXTENDS ThreadedBenchmark

CONSTANTS
  Frequencies,   \* how many freq_avail.sh finds
  MaxThreads,    \* 4: the scripts count from it to 1
  Scripts        \* those that are looked at

ASSUME RunnerAssumption ==
  /\ Frequencies \in Nat \ {0} /\ MaxThreads \in Nat \ {0}
  /\ Scripts \subseteq {"threaded", "proxy", "sleep", "policy", "foreground"}
  /\ Measurements = 1 .. Frequencies * MaxThreads

VARIABLES
  script, shell,   \* the script and where it is
  n,               \* its current measurement
  frequency,       \* of the processor
  tool,            \* each run of the power tool
  seen,            \* history: the frequencies a measurement has seen
  overlapped       \* history: those that ran at the same time as another

svars == <<script, shell, n, frequency>>
tvars == <<tool, seen, overlapped>>
vars == <<bvars, svars, tvars>>

-----------------------------------------------------------------------------
(* What the scripts say.                                                   *)

\* Mutated: all frequencies, and not the first line of them.
CellsAll(s) == IF s = "policy" THEN 1 ELSE Frequencies * MaxThreads

\* The loops: proxy_code and tlp_vs_ilp have one pass only.
Cells(s) == IF s \in {"proxy", "policy"} THEN 1 ELSE Frequencies * MaxThreads

\* Some scripts have the loops the other way round, which makes no difference to
\* what follows.
FrequencyOf(m) == ((m - 1) \div MaxThreads) + 1

ThreadsOf(m) == MaxThreads - ((m - 1) % MaxThreads)

\* Mutated: every script waits for its benchmark.
BackgroundNever(s) == FALSE

\* "&"
Background(s) == s # "foreground"

\* Mutated: the loops go on when the script does.
KillsPolicyOnly(s) == s = "policy"

\* pkill lbench
Kills(s) == s \in {"threaded", "policy"}

\* The command: sleep is given an option it does not have, and -p of tlp_vs_ilp
\* a variable that is not set.
Command(m) ==
  CASE script = "threaded" -> Exec(m, "loop", ThreadsOf(m))
    [] script = "proxy" -> Exec(m, "proxy", MaxThreads)
    [] script = "policy" -> Exec(m, "loop", 0)
    [] OTHER -> Exec(m, "other", 0)

\* A program from elsewhere comes to an end by itself.
EndOther(m) ==
  /\ state[m] = "main" /\ program[m] = "other"
  /\ state' = [state EXCEPT ![m] = "returned"]
  /\ UNCHANGED <<program, threads, thread, created, working>>

-----------------------------------------------------------------------------
(* A run of the power tool.                                                *)

Measuring(m) == tool[m] \in {"started", "waiting"}

\* The tool cannot open the registers, and there is no measurement.
Fail(m) ==
  /\ tool[m] = "started"
  /\ tool' = [tool EXCEPT ![m] = "failed"]
  /\ UNCHANGED <<bvars, svars, seen, overlapped>>

Execute(m) ==
  /\ tool[m] = "started"
  /\ tool' = [tool EXCEPT ![m] = "waiting"]
  /\ Command(m)
  /\ UNCHANGED <<svars, seen, overlapped>>

\* wait3 returns, and the report goes to the file.
Report(m) ==
  /\ tool[m] = "waiting" /\ ~Alive(m)
  /\ tool' = [tool EXCEPT ![m] = "reported"]
  /\ Reap(m)
  /\ UNCHANGED <<svars, seen, overlapped>>

-----------------------------------------------------------------------------
(* The script.                                                             *)

SetFrequency ==
  /\ shell = "frequency" /\ shell' = "start"
  /\ frequency' = FrequencyOf(n)
  /\ seen' = [m \in Measurements |->
                IF Measuring(m) THEN seen[m] \cup {FrequencyOf(n)} ELSE seen[m]]
  /\ UNCHANGED <<bvars, script, n, tool, overlapped>>

Start ==
  /\ shell = "start"
  /\ shell' = IF Background(script) THEN "delay" ELSE "wait"
  /\ tool' = [tool EXCEPT ![n] = "started"]
  /\ seen' = [seen EXCEPT ![n] = {frequency}]
  /\ LET others == {m \in Measurements : Measuring(m)}
     IN overlapped' = overlapped \cup others \cup (IF others = {} THEN {} ELSE {n})
  /\ UNCHANGED <<bvars, script, n, frequency>>

\* The sleeps of a script, of seconds or minutes, are long enough for what does
\* not wait itself: a tool to start, a benchmark to create its threads or to
\* find its arguments wrong, a report to be written.
Settled ==
  \A m \in Measurements :
    /\ tool[m] # "started"
    /\ tool[m] = "waiting" => state[m] \in {"join", "stuck"}

Go(next) ==
  IF next <= Cells(script) THEN shell' = "frequency" /\ n' = next
                           ELSE shell' = "done" /\ UNCHANGED n

\* sleep $DELAY
Delay ==
  /\ shell = "delay" /\ Settled
  /\ IF Kills(script) THEN shell' = "kill" /\ UNCHANGED n ELSE Go(n + 1)
  /\ UNCHANGED <<bvars, script, frequency, tvars>>

\* Every process of that name.
Kill ==
  /\ shell = "kill" /\ shell' = "pause"
  /\ Signal("loop")
  /\ UNCHANGED <<script, n, frequency, tvars>>

\* In the foreground.
Wait ==
  /\ shell = "wait" /\ ~Measuring(n)
  /\ shell' = "pause"
  /\ UNCHANGED <<bvars, script, n, frequency, tvars>>

Pause ==
  /\ shell = "pause" /\ Settled
  /\ Go(n + 1)
  /\ UNCHANGED <<bvars, script, frequency, tvars>>

Script == SetFrequency \/ Start \/ Delay \/ Kill \/ Wait \/ Pause

-----------------------------------------------------------------------------
Init ==
  /\ BenchmarkInit
  /\ script \in Scripts /\ shell = "frequency" /\ n = 1 /\ frequency = 0
  /\ tool = [m \in Measurements |-> "no"]
  /\ seen = [m \in Measurements |-> {}] /\ overlapped = {}

Measure(m) ==
  \/ Fail(m) \/ Execute(m) \/ Report(m)
  \/ Alive(m) /\ (BenchmarkNext(m) \/ EndOther(m)) /\ UNCHANGED <<svars, tvars>>

\* Nothing is left to do, except for a tool whose benchmark is stuck.
Rest ==
  /\ shell = "done"
  /\ \A m \in Measurements : Measuring(m) => state[m] = "stuck"
  /\ UNCHANGED vars

Next == Script \/ (\E m \in Measurements : Measure(m)) \/ Rest

\* All processes are scheduled, and the threads of proxy_code come to an end.
Fairness == WF_vars(Script) /\ \A m \in Measurements : WF_vars(Measure(m))

Spec == Init /\ [][Next]_vars /\ Fairness

-----------------------------------------------------------------------------
(* Properties.                                                             *)

TypeOK ==
  /\ BenchmarkTypeOK
  /\ script \in Scripts /\ n \in 1 .. Cells(script) /\ frequency \in 0 .. Frequencies
  /\ shell \in {"frequency", "start", "delay", "kill", "wait", "pause", "done"}
  /\ tool \in [Measurements -> {"no", "started", "waiting", "reported", "failed"}]
  /\ seen \in [Measurements -> SUBSET (1 .. Frequencies)]
  /\ overlapped \subseteq Measurements

\* A measurement sees the frequency its file is named after and no other, and
\* shares the processor with no other measurement.  The scripts have different
\* reasons: they wait, they kill, they make one measurement only, or theirs is
\* over at once.
MeasuredAlone ==
  /\ \A m \in Measurements : seen[m] \subseteq {FrequencyOf(m)}
  /\ overlapped = {}

\* A script does not go on before the report of its measurement is written, nor
\* end, although four of the five do not wait for it; the power tool that a
\* proxy script leaves behind reports by itself.
NoneLeftBehind ==
  \A m \in 1 .. Cells(script) :
    m < n \/ (shell = "done" /\ script # "proxy") => tool[m] \in {"reported", "failed"}

\* What is left: measurements; of a measurement, the script's part and the
\* tool's; and of the benchmark it runs, its stages, its loops over the threads,
\* and the threads.
ShellLeft ==
  CASE shell = "frequency" -> 5
    [] shell = "start" -> 4
    [] shell \in {"delay", "wait"} -> 3
    [] shell = "kill" -> 2
    [] shell = "pause" -> 1
    [] shell = "done" -> 0

ToolLeft ==
  CASE tool[n] = "no" -> 3
    [] tool[n] = "started" -> 2
    [] tool[n] = "waiting" -> 1
    [] OTHER -> 0

StateLeft ==
  CASE state[n] = "main" -> 3
    [] state[n] = "create" -> 2
    [] state[n] = "join" -> 1
    [] OTHER -> 0

RunnerLeft ==
  <<Cells(script) - n, ShellLeft, ToolLeft, StateLeft, Remaining(threads[n] - thread[n]),
    Cardinality(working[n])>>

\* Each step of a script, a tool, a benchmark or a thread gets on, and belongs to
\* the measurement the script is at: nothing that was measured before still
\* moves, and none of them goes round for ever.
RunnerGetsOn == [][Descends(6, RunnerLeft, RunnerLeft')]_vars

\* The script ends, and every measurement it has begun is reported, although
\* the loops never end by themselves.  Except: the tool could not measure, or
\* it waits for a benchmark that joins a handle that was never set.
AllReported ==
  /\ shell = "done"
  /\ \A m \in 1 .. Cells(script) : tool[m] \in {"reported", "failed"} \/ state[m] = "stuck"
EveryCellReported == <>AllReported
=============================================================================
