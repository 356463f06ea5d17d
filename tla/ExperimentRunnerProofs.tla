----------------------- MODULE ExperimentRunnerProofs -----------------------
(***************************************************************************)
(* For any numbers of frequencies and threads: measurements neither overlap *)
(* nor see a frequency that is not theirs, run_benchmark never returns      *)
(* while a thread still reads the arguments on its stack, a script goes on  *)
(* only when its measurement is over, and every step leaves less to do.     *)
(***************************************************************************)
EXTENDS ExperimentRunner, FiniteSetTheorems, TLAPS

States == {"none", "main", "create", "join", "stuck", "returned", "crashed", "killed"}

Shape ==
  /\ state \in [Measurements -> States]
  /\ program \in [Measurements -> {"none", "proxy", "loop", "other"}]
  /\ threads \in [Measurements -> Int] /\ thread \in [Measurements -> Int]
  /\ created \in [Measurements -> SUBSET Int] /\ working \in [Measurements -> SUBSET Int]
  /\ tool \in [Measurements -> {"no", "started", "waiting", "reported", "failed"}]
  /\ seen \in [Measurements -> SUBSET Int]
  /\ script \in {"threaded", "proxy", "sleep", "policy", "foreground"}
  /\ shell \in {"frequency", "start", "delay", "kill", "wait", "pause", "done"}
  /\ n \in Int /\ (script \in {"proxy", "policy"} => n = 1)

\* A process lives while the power tool waits for it.
NoTool == \A m \in Measurements : tool[m] # "waiting" => state[m] = "none"

\* There is one measurement at most, and none while the frequency changes.
OneTool ==
  /\ \A m \in Measurements : Measuring(m) => m = n
  /\ shell \in {"frequency", "start"} => \A m \in Measurements : ~Measuring(m)

Untouched ==
  /\ shell = "start" => frequency = FrequencyOf(n)
  /\ \A m \in Measurements : seen[m] \subseteq {FrequencyOf(m)}
  /\ overlapped = {}

\* What is measured, and what of it is over when a program is not one of ours.
Measured ==
  \A m \in Measurements : tool[m] = "waiting" =>
    /\ script = "threaded" => program[m] = "loop"
    /\ script \in {"sleep", "foreground"} => program[m] = "other"
    /\ program[m] = "other" => state[m] \in {"main", "returned"}

\* Where a script is, nothing runs any more once it pauses.
Stages ==
  /\ shell = "delay" => script # "foreground"
  /\ shell = "wait" => script = "foreground"
  /\ shell = "kill" => Kills(script) /\ \A m \in Measurements : tool[m] # "started"
  /\ shell = "pause" =>
       /\ script \in {"threaded", "policy", "foreground"}
       /\ script = "threaded" => \A m \in Measurements : tool[m] # "started" /\ ~Alive(m)
       /\ script = "foreground" => \A m \in Measurements : ~Measuring(m)

\* A thread that runs is yet to be joined.
YetToJoin ==
  \A m \in Measurements :
    /\ state[m] \in {"none", "main", "returned"} => working[m] = {}
    /\ state[m] \in {"none", "main"} => thread[m] = 0
    /\ state[m] \in {"create", "join"} =>
         0 <= thread[m] /\ thread[m] <= threads[m]
    /\ state[m] = "create" => \A w \in working[m] : 0 <= w /\ w < thread[m]
    /\ state[m] = "join" => \A w \in working[m] : thread[m] <= w /\ w < threads[m]

IInv == Shape /\ NoTool /\ OneTool /\ Untouched /\ Measured /\ Stages /\ YetToJoin

-----------------------------------------------------------------------------
\* What a measurement is named after is a number.
LEMMA CellsAreNumbers ==
  ASSUME NEW m \in Int
  PROVE  FrequencyOf(m) \in Int /\ ThreadsOf(m) \in Int
  BY RunnerAssumption DEF FrequencyOf, ThreadsOf

LEMMA MeasurementsAreNumbers == Measurements \subseteq Int
<1>1. Frequencies * MaxThreads \in Int BY RunnerAssumption
<1> QED BY <1>1, RunnerAssumption

\* The invariant holds at the start of a script.
LEMMA Starts == Init => IInv
<1> SUFFICES ASSUME Init PROVE IInv
  OBVIOUS
<1> USE DEF Init, BenchmarkInit
<1>1. Shape BY RunnerAssumption DEF Shape, States
<1>2. NoTool /\ OneTool BY DEF NoTool, OneTool, Measuring
<1>3. Untouched /\ Measured /\ Stages BY DEF Untouched, Measured, Stages
<1>4. YetToJoin BY DEF YetToJoin
<1> QED BY <1>1, <1>2, <1>3, <1>4 DEF IInv

-----------------------------------------------------------------------------
(* What the processes do.                                                  *)

\* A process that goes on, or ends, is waited for all along: the scripts that
\* pause have killed theirs.
LEMMA ProcessKeepsOrder ==
  ASSUME IInv, NEW m \in Measurements, Alive(m),
         NEW after \in States, after # "none",
         program[m] = "other" => after \in {"main", "returned"},
         state' = [state EXCEPT ![m] = after],
         UNCHANGED <<program, svars, tvars>>
  PROVE  (NoTool /\ OneTool /\ Untouched /\ Measured /\ Stages)'
<1> USE DEF IInv, Shape, svars, tvars
<1>1. tool[m] = "waiting" BY DEF NoTool, Alive
<1>2. NoTool' BY <1>1 DEF NoTool
<1>3. OneTool' /\ Untouched' BY DEF OneTool, Untouched, Measuring
<1>4. Measured' BY <1>1 DEF Measured
<1>5. shell = "pause" => script # "threaded" BY DEF Stages
<1>6. Stages' BY <1>5 DEF Stages, Kills, Measuring
<1> QED BY <1>2, <1>3, <1>4, <1>6

\* What it does to its threads is of no concern to the others.
LEMMA ThreadsKeepOrder ==
  ASSUME IInv, NEW m \in Measurements, Alive(m),
         NEW after \in States \ {"none", "main"},
         program[m] = "other" => after = "returned",
         NEW i \in Int, NEW c \in SUBSET Int, NEW w \in SUBSET Int,
         state' = [state EXCEPT ![m] = after], thread' = [thread EXCEPT ![m] = i],
         created' = [created EXCEPT ![m] = c], working' = [working EXCEPT ![m] = w],
         UNCHANGED <<program, threads, svars, tvars>>,
         after = "returned" => w = {},
         after \in {"create", "join"} => 0 <= i /\ i <= threads[m],
         after = "create" => \A v \in w : 0 <= v /\ v < i,
         after = "join" => \A v \in w : i <= v /\ v < threads[m]
  PROVE  IInv'
<1>1. Shape' BY DEF IInv, Shape, svars, tvars, States
<1>2. (NoTool /\ OneTool /\ Untouched /\ Measured /\ Stages)' BY ProcessKeepsOrder
<1>3. YetToJoin' BY DEF IInv, YetToJoin, Shape
<1> QED BY <1>1, <1>2, <1>3 DEF IInv

LEMMA ProcessStep ==
  ASSUME IInv, NEW m \in Measurements, Alive(m), BenchmarkNext(m) \/ EndOther(m),
         UNCHANGED <<svars, tvars>>
  PROVE  IInv'
<1> DEFINE Becomes(after, i, c, w) ==
      /\ state' = [state EXCEPT ![m] = after] /\ thread' = [thread EXCEPT ![m] = i]
      /\ created' = [created EXCEPT ![m] = c] /\ working' = [working EXCEPT ![m] = w]
      /\ UNCHANGED <<program, threads>>
<1>0. /\ state[m] \in States /\ threads[m] \in Int /\ thread[m] \in Int
      /\ created[m] \in SUBSET Int /\ working[m] \in SUBSET Int
  BY DEF IInv, Shape
<1>1. /\ state[m] \in {"none", "main", "returned"} => working[m] = {}
      /\ state[m] = "main" => thread[m] = 0
      /\ state[m] \in {"create", "join"} => 0 <= thread[m] /\ thread[m] <= threads[m]
      /\ state[m] = "create" => \A w \in working[m] : 0 <= w /\ w < thread[m]
      /\ state[m] = "join" => \A w \in working[m] : thread[m] <= w /\ w < threads[m]
  BY DEF IInv, YetToJoin
<1>2. program[m] = "other" => state[m] = "main"
  BY DEF IInv, NoTool, Measured, Alive
<1>3. /\ state = [state EXCEPT ![m] = state[m]]
      /\ thread = [thread EXCEPT ![m] = thread[m]]
      /\ created = [created EXCEPT ![m] = created[m]]
      /\ working = [working EXCEPT ![m] = working[m]]
  BY DEF IInv, Shape
<1>4. ASSUME NEW after \in States \ {"none", "main"},
             program[m] = "other" => after = "returned",
             NEW i \in Int, NEW c \in SUBSET Int, NEW w \in SUBSET Int,
             Becomes(after, i, c, w),
             after = "returned" => w = {},
             after \in {"create", "join"} => 0 <= i /\ i <= threads[m],
             after = "create" => \A v \in w : 0 <= v /\ v < i,
             after = "join" => \A v \in w : i <= v /\ v < threads[m]
      PROVE  IInv'
  BY <1>4, ThreadsKeepOrder
<1>5. CASE PrintUsage(m) \/ EndOther(m)
  <2>1. Becomes("returned", thread[m], created[m], working[m]) /\ state[m] = "main"
    BY <1>3, <1>5 DEF PrintUsage, EndOther
  <2>2. working[m] = {} BY <1>1, <2>1
  <2> HIDE DEF Becomes
  <2> QED BY <1>0, <1>4, <2>1, <2>2 DEF States
<1>6. CASE RunBenchmark(m)
  <2>1. Becomes("create", thread[m], created[m], working[m])
    BY <1>3, <1>6 DEF RunBenchmark
  <2>2. thread[m] = 0 /\ working[m] = {} /\ threads[m] >= 1 /\ program[m] # "other"
    BY <1>1, <1>6 DEF RunBenchmark
  <2> HIDE DEF Becomes
  <2> QED BY <1>0, <1>4, <2>1, <2>2 DEF States
<1>7. CASE Create(m)
  <2>1. /\ state[m] = "create" /\ thread[m] < threads[m] /\ program[m] # "other"
        /\ 0 <= thread[m] /\ \A w \in working[m] : 0 <= w /\ w < thread[m]
    BY <1>1, <1>2, <1>7 DEF Create
  <2>2. PICK c \in SUBSET Int, w \in {working[m], working[m] \cup {thread[m]}} :
          Becomes("create", thread[m] + 1, c, w)
    <3>1. CASE UNCHANGED <<created, working>>
      BY <1>0, <1>3, <1>7, <3>1 DEF Create
    <3>2. CASE /\ created' = [created EXCEPT ![m] = @ \cup {thread[m]}]
               /\ working' = [working EXCEPT ![m] = @ \cup {thread[m]}]
      <4>1. Becomes("create", thread[m] + 1, created[m] \cup {thread[m]}, working[m] \cup {thread[m]})
        BY <1>3, <1>7, <3>2 DEF Create
      <4> HIDE DEF Becomes
      <4> QED BY <1>0, <4>1
    <3> QED BY <1>7, <3>1, <3>2 DEF Create
  <2>3. w \in SUBSET Int /\ \A v \in w : 0 <= v /\ v < thread[m] + 1
    BY <1>0, <2>1
  <2>4. 0 <= thread[m] + 1 /\ thread[m] + 1 <= threads[m] /\ thread[m] + 1 \in Int
    BY <1>0, <2>1
  <2> HIDE DEF Becomes
  <2> QED BY <1>4, <2>1, <2>2, <2>3, <2>4 DEF States
<1>8. CASE StartJoining(m)
  <2>1. Becomes("join", 0, created[m], working[m])
    BY <1>3, <1>8 DEF StartJoining
  <2>2. /\ thread[m] = threads[m] /\ 0 <= threads[m] /\ program[m] # "other"
        /\ \A w \in working[m] : 0 <= w /\ w < threads[m]
    BY <1>1, <1>2, <1>8 DEF StartJoining
  <2> HIDE DEF Becomes
  <2> QED BY <1>0, <1>4, <2>1, <2>2 DEF States
<1>9. CASE \E w \in working[m] : EndWork(m, w)
  <2>1. PICK w \in working[m] : EndWork(m, w) BY <1>9
  <2>2. Becomes(state[m], thread[m], created[m], working[m] \ {w})
    BY <1>3, <2>1 DEF EndWork
  <2>3. state[m] \in States \ {"none", "main", "returned"} /\ program[m] # "other"
    BY <1>0, <1>1, <2>1 DEF EndWork
  <2>4. working[m] \ {w} \in SUBSET Int BY <1>0
  <2>5. /\ state[m] = "create" => \A v \in working[m] \ {w} : 0 <= v /\ v < thread[m]
        /\ state[m] = "join" => \A v \in working[m] \ {w} : thread[m] <= v /\ v < threads[m]
    BY <1>1
  <2> HIDE DEF Becomes
  <2> QED BY <1>0, <1>1, <1>4, <2>2, <2>3, <2>4, <2>5
<1>10. CASE Join(m)
  <2>1. /\ state[m] = "join" /\ thread[m] < threads[m] /\ thread[m] \notin working[m]
        /\ program[m] # "other"
    BY <1>2, <1>10 DEF Join, Joined
  <2>2. \A v \in working[m] : thread[m] + 1 <= v /\ v < threads[m]
    BY <1>0, <1>1, <2>1
  <2>3. thread[m] + 1 \in Int /\ 0 <= thread[m] + 1 /\ thread[m] + 1 <= threads[m]
    BY <1>0, <1>1, <2>1
  <2>4. CASE thread' = [thread EXCEPT ![m] = @ + 1] /\ UNCHANGED state
    <3>1. Becomes("join", thread[m] + 1, created[m], working[m])
      BY <1>3, <1>10, <2>1, <2>4 DEF Join
    <3> HIDE DEF Becomes
    <3> QED BY <1>0, <1>4, <2>1, <2>2, <2>3, <3>1 DEF States
  <2>5. CASE \E end \in {"stuck", "crashed"} :
               state' = [state EXCEPT ![m] = end] /\ UNCHANGED thread
    <3>1. PICK end \in {"stuck", "crashed"} : Becomes(end, thread[m], created[m], working[m])
      BY <1>3, <1>10, <2>5 DEF Join
    <3> HIDE DEF Becomes
    <3> QED BY <1>0, <1>4, <2>1, <3>1 DEF States
  <2> QED BY <1>10, <2>4, <2>5 DEF Join
<1>11. CASE Return(m)
  <2>1. Becomes("returned", thread[m], created[m], working[m])
    BY <1>3, <1>11 DEF Return
  <2>2. working[m] = {}
    <3>1. \A w \in working[m] : threads[m] <= w /\ w < threads[m] BY <1>1, <1>11 DEF Return
    <3> QED BY <1>0, <3>1
  <2> HIDE DEF Becomes
  <2> QED BY <1>0, <1>4, <2>1, <2>2 DEF States
<1> QED BY <1>5, <1>6, <1>7, <1>8, <1>9, <1>10, <1>11 DEF BenchmarkNext

-----------------------------------------------------------------------------
(* What the power tool does.                                               *)

\* No script has gone on to pause while its measurement is not over.
LEMMA ToolStep ==
  ASSUME IInv, NEW m \in Measurements, Fail(m) \/ Execute(m) \/ Report(m)
  PROVE  IInv'
<1> USE DEF IInv, svars
<1>1. CASE Fail(m)
  <2> USE <1>1 DEF Fail, bvars
  <2>1. Shape' BY DEF Shape
  <2>2. NoTool' BY DEF NoTool, Shape
  <2>3. OneTool' BY DEF OneTool, Measuring, Shape
  <2>4. Untouched' /\ YetToJoin' BY DEF Untouched, YetToJoin
  <2>5. Measured' BY DEF Measured, Shape
  <2>6. Stages' BY DEF Stages, Measuring, Alive, Shape
  <2> QED BY <2>1, <2>2, <2>3, <2>4, <2>5, <2>6
<1>2. CASE Execute(m)
  <2>1. /\ tool[m] = "started" /\ tool' = [tool EXCEPT ![m] = "waiting"]
        /\ UNCHANGED <<script, shell, n, frequency, seen, overlapped>>
    BY <1>2 DEF Execute
  <2>2. state[m] = "none" BY <2>1 DEF NoTool
  <2>3. PICK what \in {"proxy", "loop", "other"}, count \in Int : Exec(m, what, count)
    BY <1>2, CellsAreNumbers, MeasurementsAreNumbers, RunnerAssumption DEF Execute, Command, Shape
  <2>4. /\ script = "threaded" => program'[m] = "loop"
        /\ script \in {"sleep", "foreground"} => program'[m] = "other"
    BY <1>2 DEF Execute, Command, Exec, Shape
  <2>5. Shape' BY <2>1, <2>3 DEF Shape, Exec, States
  <2>6. NoTool' BY <2>1, <2>3 DEF NoTool, Exec, Shape
  <2>7. OneTool' /\ Untouched' BY <2>1 DEF OneTool, Untouched, Measuring, Shape
  <2>8. Measured' BY <2>1, <2>3, <2>4 DEF Measured, Exec, Shape
  <2>9. shell = "pause" => script # "threaded" /\ script # "foreground"
    BY <2>1 DEF Stages, Measuring
  <2>10. Stages' BY <2>1, <2>9 DEF Stages, Kills, Shape
  <2>11. YetToJoin' BY <2>2, <2>3 DEF YetToJoin, Exec, Shape
  <2> QED BY <2>5, <2>6, <2>7, <2>8, <2>10, <2>11
<1>3. CASE Report(m)
  <2> USE <1>3 DEF Report, Reap
  <2>1. Shape' BY DEF Shape, States
  <2>2. NoTool' BY DEF NoTool, Shape
  <2>3. OneTool' /\ Untouched' BY DEF OneTool, Untouched, Measuring, Shape
  <2>4. Measured' BY DEF Measured, Shape
  <2>5. Stages' BY DEF Stages, Measuring, Alive, Shape
  <2>6. YetToJoin' BY DEF YetToJoin, Shape
  <2> QED BY <2>1, <2>2, <2>3, <2>4, <2>5, <2>6
<1> QED BY <1>1, <1>2, <1>3

-----------------------------------------------------------------------------
(* What the script does.                                                   *)

\* Nothing is being measured when a script goes on to its next measurement.
LEMMA GoesOnAlone ==
  ASSUME IInv, Go(n + 1), \/ script \in {"proxy", "policy"}
                          \/ \A m \in Measurements : ~Measuring(m),
         UNCHANGED <<bvars, script, frequency, tvars>>
  PROVE  IInv'
<1> USE DEF IInv, bvars, tvars
<1>1. n \in Int /\ (script \in {"proxy", "policy"} => n = 1) BY DEF Shape
<1>2. script \in {"proxy", "policy"} => Cells(script) = 1 BY DEF Cells
<1>3. \/ shell' = "done" /\ n' = n
      \/ /\ shell' = "frequency" /\ n' = n + 1 /\ script \notin {"proxy", "policy"}
         /\ \A m \in Measurements : ~Measuring(m)
  BY <1>1, <1>2 DEF Go
<1>4. Shape' BY <1>3 DEF Shape
<1>5. NoTool' /\ Measured' /\ YetToJoin' BY DEF NoTool, Measured, YetToJoin
<1>6. OneTool' BY <1>3 DEF OneTool, Measuring
<1>7. Untouched' /\ Stages' BY <1>3 DEF Untouched, Stages
<1> QED BY <1>4, <1>5, <1>6, <1>7

LEMMA ScriptStep ==
  ASSUME IInv, Script
  PROVE  IInv'
<1> USE DEF IInv
<1>1. CASE SetFrequency
  <2> USE <1>1 DEF SetFrequency, bvars
  <2>1. \A m \in Measurements : ~Measuring(m) BY DEF OneTool
  <2>2. seen' = seen BY <2>1 DEF Shape
  <2>3. Shape' BY <2>2 DEF Shape
  <2>4. NoTool' /\ Measured' /\ YetToJoin' BY DEF NoTool, Measured, YetToJoin
  <2>5. OneTool' BY <2>1 DEF OneTool, Measuring
  <2>6. Untouched' /\ Stages' BY <2>2 DEF Untouched, Stages
  <2> QED BY <2>3, <2>4, <2>5, <2>6
<1>2. CASE Start
  <2> USE <1>2 DEF Start, bvars
  <2>1. \A m \in Measurements : ~Measuring(m) BY DEF OneTool
  <2>2. overlapped' = {} BY <2>1 DEF Untouched
  <2>3. n \in Int /\ frequency = FrequencyOf(n) /\ frequency \in Int
    BY CellsAreNumbers DEF Shape, Untouched
  <2>4. Shape' BY <2>3 DEF Shape, Background
  <2>5. NoTool' BY <2>1 DEF NoTool, Measuring, Shape
  <2>6. OneTool' BY <2>1 DEF OneTool, Measuring, Shape, Background
  <2>7. Untouched' BY <2>2, <2>3 DEF Untouched, Shape, Background
  <2>8. Measured' BY <2>1 DEF Measured, Measuring, Shape
  <2>9. Stages' BY DEF Stages, Background
  <2>10. YetToJoin' BY DEF YetToJoin
  <2> QED BY <2>4, <2>5, <2>6, <2>7, <2>8, <2>9, <2>10
<1>3. CASE Delay
  <2>1. shell = "delay" /\ Settled /\ script # "foreground" /\ UNCHANGED <<bvars, script, frequency, tvars>>
    BY <1>3 DEF Delay, Stages
  <2>2. CASE Kills(script)
    <3>1. shell' = "kill" /\ n' = n BY <1>3, <2>2 DEF Delay
    <3> USE <2>1, <3>1 DEF bvars, tvars
    <3>2. Shape' BY DEF Shape
    <3>3. NoTool' /\ Measured' /\ YetToJoin' BY DEF NoTool, Measured, YetToJoin
    <3>4. OneTool' /\ Untouched' BY DEF OneTool, Untouched, Measuring
    <3>5. Stages' BY <2>2 DEF Stages, Settled, Kills
    <3> QED BY <3>2, <3>3, <3>4, <3>5
  <2>3. CASE ~Kills(script)
    <3>1. script \in {"proxy", "sleep"} BY <2>1, <2>3 DEF Kills, Shape
    <3>2. script = "sleep" => \A m \in Measurements : ~Measuring(m)
      BY <2>1 DEF Measured, Settled, Measuring
    <3>3. Go(n + 1) BY <1>3, <2>3 DEF Delay
    <3> QED BY <2>1, <3>1, <3>2, <3>3, GoesOnAlone
  <2> QED BY <2>2, <2>3
<1>4. CASE Kill
  <2>1. /\ shell = "kill" /\ shell' = "pause" /\ UNCHANGED <<script, n, frequency, tvars>>
        /\ UNCHANGED <<program, threads, thread, created>>
        /\ state' = [m \in Measurements |->
                       IF Alive(m) /\ program[m] = "loop" THEN "killed" ELSE state[m]]
        /\ working' = [m \in Measurements |->
                         IF Alive(m) /\ program[m] = "loop" THEN {} ELSE working[m]]
    BY <1>4 DEF Kill, Signal
  <2> USE <2>1 DEF tvars
  <2>2. Kills(script) /\ \A m \in Measurements : tool[m] # "started" BY DEF Stages
  <2>3. Shape' BY DEF Shape, States
  <2>4. NoTool' BY DEF NoTool, Alive
  <2>5. OneTool' /\ Untouched' BY DEF OneTool, Untouched, Measuring
  <2>6. Measured' BY DEF Measured, Alive
  <2>7. ASSUME script = "threaded", NEW m \in Measurements, state'[m] \in {"main", "create", "join", "stuck"}
        PROVE  FALSE
    <3>1. Alive(m) /\ program[m] # "loop" BY <2>7 DEF Alive
    <3>2. tool[m] = "waiting" BY <3>1 DEF NoTool, Alive
    <3> QED BY <2>7, <3>1, <3>2 DEF Measured
  <2>8. Stages' BY <2>2, <2>7 DEF Stages, Kills, Alive
  <2>9. YetToJoin' BY DEF YetToJoin, Alive
  <2> QED BY <2>3, <2>4, <2>5, <2>6, <2>8, <2>9
<1>5. CASE Wait
  <2> USE <1>5 DEF Wait, bvars, tvars
  <2>1. \A m \in Measurements : ~Measuring(m) BY DEF OneTool
  <2>2. Shape' BY DEF Shape
  <2>3. NoTool' /\ Measured' /\ YetToJoin' BY DEF NoTool, Measured, YetToJoin
  <2>4. OneTool' /\ Untouched' BY DEF OneTool, Untouched, Measuring
  <2>5. Stages' BY <2>1 DEF Stages, Measuring
  <2> QED BY <2>2, <2>3, <2>4, <2>5
<1>6. CASE Pause
  <2>1. shell = "pause" /\ Settled /\ Go(n + 1) /\ UNCHANGED <<bvars, script, frequency, tvars>>
    BY <1>6 DEF Pause
  <2>2. script = "policy" \/ \A m \in Measurements : ~Measuring(m)
    BY <2>1 DEF Stages, Settled, Measuring, Alive
  <2> QED BY <2>1, <2>2, GoesOnAlone
<1> QED BY <1>1, <1>2, <1>3, <1>4, <1>5, <1>6 DEF Script

-----------------------------------------------------------------------------
\* No step of a script, a tool or a benchmark breaks the invariant.
LEMMA Steps == IInv /\ [Next]_vars => IInv'
<1> SUFFICES ASSUME IInv, [Next]_vars PROVE IInv'
  OBVIOUS
<1>1. CASE UNCHANGED vars
  BY <1>1 DEF vars, bvars, svars, tvars, IInv, Shape, NoTool, OneTool, Untouched, Measured,
              Stages, YetToJoin, Measuring, Alive
<1>2. ASSUME NEW m \in Measurements, Measure(m) PROVE IInv'
  BY <1>2, ToolStep, ProcessStep DEF Measure
<1> QED BY <1>1, <1>2, ScriptStep DEF Next, Rest

\* The order of the scripts, with what their benchmarks are up to.
THEOREM RunnerInvariant == Spec => []IInv
BY Starts, Steps, PTL DEF Spec

\* No measurement shares the processor with another, or sees a frequency that
\* is not its own, however many there are.
THEOREM AlwaysAlone == Spec => []MeasuredAlone
<1>1. IInv => MeasuredAlone BY DEF IInv, Untouched, MeasuredAlone
<1> QED BY <1>1, RunnerInvariant, PTL

\* run_benchmark does not return before the last of its threads has ended,
\* whichever of them could not be created.
THEOREM ArgumentsStay == Spec => []ArgumentsOutliveThreads
<1>1. IInv => ArgumentsOutliveThreads BY DEF IInv, YetToJoin, ArgumentsOutliveThreads
<1> QED BY <1>1, RunnerInvariant, PTL

-----------------------------------------------------------------------------
(* Types: the frequencies and numbers of threads of the loops are those     *)
(* there are.                                                              *)

\* The measurements of the loops are within their bounds.
LEMMA LoopsStayInside ==
  ASSUME NEW m \in Measurements
  PROVE  FrequencyOf(m) \in 1 .. Frequencies /\ ThreadsOf(m) \in 1 .. MaxThreads
<1> DEFINE q == (m - 1) \div MaxThreads
           r == (m - 1) % MaxThreads
<1>1. m \in Int /\ 1 <= m /\ m <= Frequencies * MaxThreads
  <2>1. Frequencies * MaxThreads \in Int BY RunnerAssumption
  <2> QED BY <2>1, RunnerAssumption
<1>2. q \in Nat /\ r \in 0 .. MaxThreads - 1 /\ m - 1 = MaxThreads * q + r
  BY <1>1, RunnerAssumption, Z3
<1>3. q < Frequencies
  <2> SUFFICES ASSUME q >= Frequencies PROVE FALSE
    BY <1>2, RunnerAssumption
  <2> HIDE DEF q, r
  <2>1. MaxThreads * q >= MaxThreads * Frequencies BY <1>2, RunnerAssumption, Z3
  <2>2. MaxThreads * Frequencies = Frequencies * MaxThreads BY RunnerAssumption, Z3
  <2>3. MaxThreads * q \in Int /\ MaxThreads * Frequencies \in Int BY <1>2, RunnerAssumption, Z3
  <2> QED BY <1>1, <1>2, <2>1, <2>2, <2>3
<1>4. FrequencyOf(m) = q + 1 /\ ThreadsOf(m) = MaxThreads - r BY DEF FrequencyOf, ThreadsOf
<1> HIDE DEF q, r
<1> QED BY <1>2, <1>3, <1>4, RunnerAssumption

\* A process that has not got to its threads has set no handle.
Bare == \A m \in Measurements : state[m] \in {"none", "main"} => created[m] = {}

Typed == TypeOK /\ Bare

LEMMA TypedInit == Init => Typed
<1> SUFFICES ASSUME Init PROVE Typed
  OBVIOUS
<1> USE DEF Init, BenchmarkInit
<1>1. BenchmarkTypeOK BY DEF BenchmarkTypeOK
<1>2. 1 \in 1 .. Cells(script) /\ frequency \in 0 .. Frequencies
  <2>1. Frequencies * MaxThreads \in Nat \ {0} BY RunnerAssumption, Z3
  <2> QED BY <2>1, RunnerAssumption DEF Cells
<1> QED BY <1>1, <1>2 DEF Typed, TypeOK, Bare

LEMMA AddsAt ==
  ASSUME NEW S, NEW f \in [S -> SUBSET Int], NEW m \in S, NEW x,
         NEW g, g = [f EXCEPT ![m] = @ \cup {x}]
  PROVE  \A o \in S : g[o] = IF o = m THEN f[o] \cup {x} ELSE f[o]
OBVIOUS

\* The threads of a process are among those it was asked for.
LEMMA ProcessTyped ==
  ASSUME IInv, Typed, NEW m \in Measurements, BenchmarkNext(m) \/ EndOther(m)
  PROVE  (BenchmarkTypeOK /\ Bare)'
<1> USE DEF Typed, TypeOK, BenchmarkTypeOK, Bare
<1>0. threads[m] \in Nat /\ thread[m] \in Nat /\ created[m] \subseteq 0 .. threads[m] - 1
      /\ working[m] \subseteq created[m]
      /\ created \in [Measurements -> SUBSET Int] /\ working \in [Measurements -> SUBSET Int]
  BY DEF IInv, Shape
<1>1. CASE PrintUsage(m) \/ RunBenchmark(m) \/ StartJoining(m) \/ Return(m) \/ EndOther(m)
  BY <1>0, <1>1 DEF PrintUsage, RunBenchmark, StartJoining, Return, EndOther
<1>2. CASE Create(m)
  <2>1. thread[m] \in 0 .. threads[m] - 1 BY <1>0, <1>2 DEF Create
  <2>2. thread' \in [Measurements -> Nat] BY <1>0, <1>2 DEF Create
  <2>3. UNCHANGED <<state, program, threads>> /\ state[m] = "create" BY <1>2 DEF Create
  <2>4. CASE UNCHANGED <<created, working>> BY <2>2, <2>3, <2>4
  <2>5. CASE /\ created' = [created EXCEPT ![m] = @ \cup {thread[m]}]
             /\ working' = [working EXCEPT ![m] = @ \cup {thread[m]}]
    <3>1. \A o \in Measurements :
            created'[o] = IF o = m THEN created[o] \cup {thread[m]} ELSE created[o]
      BY <1>0, <2>5, AddsAt
    <3>2. \A o \in Measurements :
            working'[o] = IF o = m THEN working[o] \cup {thread[m]} ELSE working[o]
      BY <1>0, <2>5, AddsAt
    <3>3. \A o \in Measurements : created[o] \subseteq 0 .. threads[o] - 1
      OBVIOUS
    <3>4. \A o \in Measurements : working[o] \subseteq created[o]
      OBVIOUS
    <3>5. \A o \in Measurements : created'[o] \subseteq 0 .. threads[o] - 1
      <4> HIDE DEF Typed, TypeOK, BenchmarkTypeOK, Bare
      <4> QED BY <2>1, <3>1, <3>3
    <3>6. \A o \in Measurements : working'[o] \subseteq created'[o]
      <4> HIDE DEF Typed, TypeOK, BenchmarkTypeOK, Bare
      <4> QED BY <3>1, <3>2, <3>4
    <3>7. \A o \in Measurements : state[o] \in {"none", "main"} => created'[o] = {}
      BY <2>3, <3>1
    <3> QED BY <2>2, <2>3, <3>5, <3>6, <3>7
  <2> QED BY <1>2, <2>4, <2>5 DEF Create
<1>3. CASE \E w \in working[m] : EndWork(m, w)
  BY <1>0, <1>3 DEF EndWork
<1>4. CASE Join(m)
  <2>1. thread[m] + 1 \in Nat BY <1>0
  <2> QED BY <1>0, <1>4, <2>1 DEF Join
<1> QED BY <1>1, <1>2, <1>3, <1>4 DEF BenchmarkNext

LEMMA ToolTyped ==
  ASSUME IInv, Typed, NEW m \in Measurements, Fail(m) \/ Execute(m) \/ Report(m)
  PROVE  Typed'
<1> USE DEF Typed, TypeOK, BenchmarkTypeOK, Bare, svars
<1>0. created \in [Measurements -> SUBSET Int] /\ working \in [Measurements -> SUBSET Int]
  BY DEF IInv, Shape
<1>1. CASE Fail(m) BY <1>1 DEF Fail, bvars
<1>2. CASE Execute(m)
  <2>1. /\ tool' = [tool EXCEPT ![m] = "waiting"] /\ state[m] = "none" /\ created[m] = {}
        /\ UNCHANGED <<script, shell, n, frequency, seen, overlapped>>
    BY <1>2 DEF Execute, IInv, NoTool
  <2>2. PICK what \in {"proxy", "loop", "other"}, count \in Nat : Exec(m, what, count)
    <3>1. ThreadsOf(m) \in Nat /\ MaxThreads \in Nat BY LoopsStayInside, RunnerAssumption
    <3>2. Command(m) BY <1>2 DEF Execute
    <3> HIDE DEF Typed, TypeOK, BenchmarkTypeOK, Bare, svars
    <3> QED BY <3>1, <3>2 DEF Command
  <2>3. created[m] \subseteq 0 .. count - 1 BY <2>1
  <2>4. /\ state' = [state EXCEPT ![m] = "main"]
        /\ program' = [program EXCEPT ![m] = what]
        /\ threads' = [threads EXCEPT ![m] = count]
        /\ UNCHANGED <<thread, created, working>>
    BY <2>2 DEF Exec
  <2>5. \A o \in Measurements :
          created'[o] \subseteq 0 .. threads'[o] - 1 /\ working'[o] \subseteq created'[o]
    <3> SUFFICES ASSUME NEW o \in Measurements
                 PROVE  /\ created[o] \subseteq 0 .. threads'[o] - 1
                        /\ working[o] \subseteq created[o]
      BY <2>4
    <3>1. CASE o = m BY <2>3, <2>4, <3>1
    <3>2. CASE o # m BY <2>4, <3>2
    <3> QED BY <3>1, <3>2
  <2>6. Bare' BY <2>1, <2>4
  <2>7. BenchmarkTypeOK' BY <2>4, <2>5
  <2> QED BY <2>1, <2>6, <2>7
<1>3. CASE Report(m) BY <1>0, <1>3 DEF Report, Reap
<1> QED BY <1>1, <1>2, <1>3

\* There are as many cells as the loops have passes, and a frequency for each.
LEMMA ScriptTyped ==
  ASSUME IInv, Typed, Script
  PROVE  Typed'
<1> USE DEF Typed, TypeOK, BenchmarkTypeOK, Bare
<1>1. Cells(script) \in Nat BY RunnerAssumption, Z3 DEF Cells
<1>2. 1 .. Cells(script) \subseteq Measurements
  <2>1. Frequencies * MaxThreads \in Nat \ {0} BY RunnerAssumption, Z3
  <2> QED BY <2>1, RunnerAssumption DEF Cells
<1>3. FrequencyOf(n) \in 1 .. Frequencies BY <1>2, LoopsStayInside
<1>4. ASSUME Go(n + 1) PROVE n' \in 1 .. Cells(script) /\ shell' \in {"frequency", "done"}
  BY <1>1, <1>4 DEF Go
<1>5. CASE SetFrequency
  BY <1>3, <1>5 DEF SetFrequency, bvars
<1>6. CASE Start
  <2>1. frequency = FrequencyOf(n) BY <1>6 DEF Start, IInv, Untouched
  <2>2. overlapped' \subseteq Measurements BY <1>2, <1>6 DEF Start
  <2> QED BY <1>3, <1>6, <2>1, <2>2 DEF Start, bvars, Background
<1>7. CASE Delay BY <1>4, <1>7 DEF Delay, bvars, tvars
<1>8. CASE Kill
  <2>1. created' = created /\ working' \in [Measurements -> SUBSET Int]
    BY <1>8 DEF Kill, Signal, IInv, Shape
  <2> QED BY <1>8, <2>1 DEF Kill, Signal, Alive, tvars
<1>9. CASE Wait BY <1>9 DEF Wait, bvars, tvars
<1>10. CASE Pause BY <1>4, <1>10 DEF Pause, bvars, tvars
<1> QED BY <1>5, <1>6, <1>7, <1>8, <1>9, <1>10 DEF Script

LEMMA StepsTyped == IInv /\ Typed /\ [Next]_vars => Typed'
<1> SUFFICES ASSUME IInv, Typed, [Next]_vars PROVE Typed'
  OBVIOUS
<1>1. CASE UNCHANGED vars
  BY <1>1 DEF vars, bvars, svars, tvars, Typed, TypeOK, BenchmarkTypeOK, Bare
<1>2. ASSUME NEW m \in Measurements, BenchmarkNext(m) \/ EndOther(m),
             UNCHANGED <<svars, tvars>>
      PROVE  Typed'
  BY <1>2, ProcessTyped DEF Typed, TypeOK, svars, tvars
<1>3. ASSUME NEW m \in Measurements, Measure(m) PROVE Typed'
  BY <1>2, <1>3, ToolTyped DEF Measure
<1> QED BY <1>1, <1>3, ScriptTyped DEF Next, Rest

\* Both invariants hold of all that a script, its tools and benchmarks can do.
LEMMA TypedInvariant == Spec => [](IInv /\ Typed)
BY Starts, Steps, TypedInit, StepsTyped, PTL DEF Spec

\* A script names only frequencies and numbers of threads that there are, and a
\* process never has more threads than it was asked for.
THEOREM TypesHold == Spec => []TypeOK
<1>1. Typed => TypeOK BY DEF Typed
<1> QED BY <1>1, TypedInvariant, PTL

\* A script is at one of the measurements that there are.
LEMMA AtMeasurement ==
  ASSUME Typed
  PROVE  n \in Measurements /\ n \in Int
<1>1. Cells(script) \in Int /\ 1 .. Cells(script) \subseteq Measurements
  <2>1. Frequencies * MaxThreads \in Nat \ {0} BY RunnerAssumption, Z3
  <2> QED BY <2>1, RunnerAssumption DEF Cells
<1> QED BY <1>1 DEF Typed, TypeOK

-----------------------------------------------------------------------------
(* No script leaves a measurement behind, but proxy.sh its only one.        *)

\* The benchmark of the script with a policy rejects its command line.
Rejected ==
  script = "policy" =>
    \A m \in Measurements : tool[m] = "waiting" =>
      threads[m] = 0 /\ state[m] \in {"main", "returned", "killed"}

Begun ==
  /\ \A m \in Measurements : m < n => tool[m] # "no"
  /\ shell \notin {"frequency", "start"} => tool[n] # "no"
  /\ shell = "done" => n = Cells(script)
  /\ shell = "done" /\ script # "proxy" => \A m \in Measurements : ~Measuring(m)

LEMMA BegunInit == Init => Rejected /\ Begun
<1> SUFFICES ASSUME Init PROVE Rejected /\ Begun
  OBVIOUS
<1>1. \A m \in Measurements : ~(m < 1) BY RunnerAssumption
<1> QED BY <1>1 DEF Init, Rejected, Begun

\* It does not come to its threads.
LEMMA ProcessRejected ==
  ASSUME IInv, Typed, Rejected, NEW m \in Measurements, BenchmarkNext(m) \/ EndOther(m),
         Alive(m), UNCHANGED <<svars, tvars>>
  PROVE  Rejected'
<1>1. /\ tool[m] = "waiting" /\ state[m] \in {"main", "create", "join", "stuck"}
      /\ state \in [Measurements -> States] /\ threads' = threads
  BY DEF IInv, NoTool, Shape, Alive, BenchmarkNext, PrintUsage, RunBenchmark, Create,
         StartJoining, EndWork, Join, Return, EndOther
<1>2. /\ state'[m] = state[m] \/ (state[m] = "main" /\ threads[m] = 0 => state'[m] = "returned")
      /\ \A o \in Measurements : o # m => state'[o] = state[o]
  BY <1>1 DEF BenchmarkNext, PrintUsage, RunBenchmark, Create, StartJoining, EndWork, Join,
              Return, EndOther
<1> QED BY <1>1, <1>2 DEF Rejected, svars, tvars

\* The steps of a tool: what was begun is not taken back.
LEMMA ToolBegun ==
  ASSUME IInv, Typed, Rejected, Begun,
         NEW m \in Measurements, Fail(m) \/ Execute(m) \/ Report(m)
  PROVE  Rejected' /\ Begun'
<1> USE DEF svars
<1>1. /\ tool \in [Measurements -> {"no", "started", "waiting", "reported", "failed"}]
      /\ state \in [Measurements -> States] /\ threads \in [Measurements -> Int]
  BY DEF IInv, Shape
<1>2. n \in Measurements BY AtMeasurement
<1>3. /\ UNCHANGED <<script, shell, n>> /\ Measuring(m)
      /\ \E after \in {"failed", "waiting", "reported"} :
           /\ tool' = [tool EXCEPT ![m] = after]
           /\ after = "waiting" => tool[m] = "started"
  BY DEF Fail, Execute, Report, Measuring
<1>4. Begun' BY <1>1, <1>2, <1>3 DEF Begun, Measuring
<1>5. Rejected'
  <2>1. CASE Fail(m) BY <1>1, <2>1 DEF Fail, Rejected, bvars
  <2>2. CASE Execute(m)
    <3>1. script = "policy" => Exec(m, "loop", 0) BY <2>2 DEF Execute, Command
    <3> QED BY <1>1, <1>3, <2>2, <3>1 DEF Execute, Exec, Rejected
  <2>3. CASE Report(m) BY <1>1, <2>3 DEF Report, Reap, Rejected
  <2> QED BY <2>1, <2>2, <2>3
<1> QED BY <1>4, <1>5

\* A script that has slept goes on when there is nothing left of its measurement,
\* or ends.
LEMMA GoesOnBegun ==
  ASSUME IInv, Typed, Begun, shell \notin {"frequency", "start"}, Go(n + 1),
         script = "proxy" \/ \A m \in Measurements : ~Measuring(m),
         UNCHANGED <<script, tool>>
  PROVE  Begun'
<1>1. n \in Int /\ Measurements \subseteq Int BY AtMeasurement, MeasurementsAreNumbers
<1>2. tool[n] # "no" BY DEF Begun
<1>3. CASE shell' = "done" /\ n' = n
  <2>1. n = Cells(script)
    <3>1. Cells(script) \in Int BY RunnerAssumption, Z3 DEF Cells
    <3>2. ~(n + 1 <= Cells(script)) BY <1>3 DEF Go
    <3>3. n \in 1 .. Cells(script) BY DEF Typed, TypeOK
    <3> QED BY <1>1, <3>1, <3>2, <3>3
  <2> QED BY <1>2, <1>3, <2>1 DEF Begun, Measuring
<1>4. CASE shell' = "frequency" /\ n' = n + 1
  <2>1. \A m \in Measurements : m < n + 1 => m < n \/ m = n BY <1>1
  <2> QED BY <1>2, <1>4, <2>1 DEF Begun
<1> QED BY <1>3, <1>4 DEF Go

LEMMA ScriptBegun ==
  ASSUME IInv, Typed, Rejected, Begun, Script
  PROVE  Rejected' /\ Begun'
<1>0. /\ tool \in [Measurements -> {"no", "started", "waiting", "reported", "failed"}]
      /\ n \in Measurements
      /\ script \in {"threaded", "proxy", "sleep", "policy", "foreground"}
  BY AtMeasurement DEF IInv, Shape
<1>1. CASE SetFrequency
  BY <1>1 DEF SetFrequency, bvars, Rejected, Begun
<1>2. CASE Start
  BY <1>0, <1>2 DEF Start, bvars, Rejected, Begun, Background
<1>3. CASE Delay
  <2>1. shell = "delay" /\ Settled /\ script # "foreground" /\ UNCHANGED <<bvars, script, tool>>
    BY <1>3 DEF Delay, tvars, IInv, Stages
  <2>2. Rejected' BY <2>1 DEF Rejected, bvars
  <2>3. CASE Kills(script)
    <3>1. shell' = "kill" /\ n' = n BY <1>3, <2>3 DEF Delay
    <3> QED BY <2>1, <2>2, <3>1 DEF Begun
  <2>4. CASE ~Kills(script)
    <3>1. Go(n + 1) BY <1>3, <2>4 DEF Delay
    <3>2. script \in {"proxy", "sleep"} BY <1>0, <2>1, <2>4 DEF Kills
    <3>3. script = "sleep" => \A m \in Measurements : ~Measuring(m)
      BY <2>1 DEF IInv, Measured, Settled, Measuring
    <3> QED BY <2>1, <2>2, <3>1, <3>2, <3>3, GoesOnBegun
  <2> QED BY <2>3, <2>4
<1>4. CASE Kill
  <2>1. /\ shell = "kill" /\ shell' = "pause" /\ UNCHANGED <<script, n, tool, threads>>
        /\ \A m \in Measurements : state'[m] = state[m] \/ state'[m] = "killed"
    BY <1>4 DEF Kill, Signal, tvars
  <2> QED BY <2>1 DEF Rejected, Begun
<1>5. CASE Wait
  BY <1>5 DEF Wait, bvars, tvars, Rejected, Begun
<1>6. CASE Pause
  <2>1. shell = "pause" /\ Settled /\ Go(n + 1) /\ UNCHANGED <<bvars, script, tool>>
    BY <1>6 DEF Pause, tvars
  <2>2. Rejected' BY <2>1 DEF Rejected, bvars
  <2>3. \A m \in Measurements : ~Measuring(m)
    <3>1. script \in {"threaded", "policy", "foreground"} BY <2>1 DEF IInv, Stages
    <3>2. script # "policy" => \A m \in Measurements : ~Measuring(m)
      BY <2>1, <3>1 DEF IInv, Stages, Settled, Measuring, Alive
    <3>3. script = "policy" => \A m \in Measurements : ~Measuring(m)
      BY <2>1 DEF Rejected, Settled, Measuring
    <3> QED BY <3>2, <3>3
  <2> QED BY <2>1, <2>2, <2>3, GoesOnBegun
<1> QED BY <1>1, <1>2, <1>3, <1>4, <1>5, <1>6 DEF Script

\* For any numbers of frequencies and threads: when a script goes on, or ends,
\* the reports of what it has measured are written, or will never be; the script
\* that starts proxy_code once is the only one to end earlier.
THEOREM EveryReportIsWritten == Spec => []NoneLeftBehind
<1>1. IInv /\ Typed /\ Rejected /\ Begun /\ [Next]_vars => (Rejected /\ Begun)'
  <2> SUFFICES ASSUME IInv, Typed, Rejected, Begun, [Next]_vars PROVE (Rejected /\ Begun)'
    OBVIOUS
  <2>1. CASE UNCHANGED vars
    BY <2>1 DEF vars, bvars, svars, tvars, Rejected, Begun, Measuring
  <2>2. ASSUME NEW m \in Measurements, Alive(m), BenchmarkNext(m) \/ EndOther(m),
               UNCHANGED <<svars, tvars>>
        PROVE  (Rejected /\ Begun)'
    <3>1. Begun' BY <2>2 DEF svars, tvars, Begun, Measuring
    <3> QED BY <2>2, <3>1, ProcessRejected
  <2>3. ASSUME NEW m \in Measurements, Measure(m) PROVE (Rejected /\ Begun)'
    BY <2>2, <2>3, ToolBegun DEF Measure
  <2> QED BY <2>1, <2>3, ScriptBegun DEF Next, Rest
<1>2. IInv /\ Typed /\ Begun => NoneLeftBehind
  <2> SUFFICES ASSUME IInv, Typed, Begun, NEW m \in 1 .. Cells(script),
                      m < n \/ (shell = "done" /\ script # "proxy")
               PROVE  tool[m] \in {"reported", "failed"}
    BY DEF NoneLeftBehind
  <2>1. m \in Measurements
    <3>1. Frequencies * MaxThreads \in Nat \ {0} BY RunnerAssumption, Z3
    <3> QED BY <3>1, RunnerAssumption DEF Cells
  <2>2. ~Measuring(m)
    <3>1. m < n => m # n BY <2>1
    <3> QED BY <2>1, <3>1 DEF IInv, OneTool, Begun
  <2>3. tool[m] # "no"
    <3>1. CASE m < n BY <2>1, <3>1 DEF Begun
    <3>2. CASE ~(m < n) /\ shell = "done"
      <4>1. n = Cells(script) /\ tool[n] # "no" BY <3>2 DEF Begun
      <4>2. Cells(script) \in Int BY RunnerAssumption, Z3 DEF Cells
      <4> QED BY <3>2, <4>1, <4>2
    <3> QED BY <3>1, <3>2
  <2> QED BY <2>1, <2>2, <2>3 DEF IInv, Shape, Measuring
<1> QED BY <1>1, <1>2, BegunInit, TypedInvariant, PTL DEF Spec

-----------------------------------------------------------------------------
(* Every step gets on, and with it the measurement a script is at.          *)

\* What the threads of its process still have to do.
Loop == Remaining(threads[n] - thread[n])
Threads == Cardinality(working[n])

Numbers ==
  /\ Cells(script) - n \in Nat /\ n \in Int
  /\ ShellLeft \in Nat /\ ToolLeft \in Nat /\ StateLeft \in Nat
  /\ Loop \in Nat /\ IsFiniteSet(working[n]) /\ Threads \in Nat

\* What is left is a tuple of numbers.
LEMMA PartsAreNumbers == IInv /\ Typed => Numbers
<1> SUFFICES ASSUME IInv, Typed PROVE Numbers
  OBVIOUS
<1>1. n \in Measurements BY AtMeasurement
<1>2. Cells(script) - n \in Nat /\ n \in Int
  <2>1. Cells(script) \in Int BY RunnerAssumption, Z3 DEF Cells
  <2> QED BY <2>1 DEF Typed, TypeOK
<1>3. ShellLeft \in Nat
  <2>1. shell \in {"frequency", "start", "delay", "kill", "wait", "pause", "done"}
    BY DEF IInv, Shape
  <2> QED BY <2>1 DEF ShellLeft
<1>4. ToolLeft \in Nat /\ StateLeft \in Nat BY DEF ToolLeft, StateLeft
<1>5. threads[n] \in Nat /\ thread[n] \in Nat /\ working[n] \subseteq 0 .. threads[n] - 1
  BY <1>1 DEF Typed, TypeOK, BenchmarkTypeOK
<1>6. Loop \in Nat BY <1>5 DEF Loop, Remaining
<1>7. IsFiniteSet(working[n])
  <2>1. IsFiniteSet(0 .. threads[n] - 1)
    <3>1. threads[n] - 1 \in Int /\ 0 \in Int BY <1>5
    <3> QED BY <3>1, FS_Interval
  <2> QED BY <1>5, <2>1, FS_Subset
<1> QED BY <1>2, <1>3, <1>4, <1>6, <1>7, FS_CardinalityType DEF Numbers, Threads

LEMMA RunnerLeftDescends ==
  ASSUME IInv, Typed, IInv', Typed', script' = script,
         \/ n < n'
         \/ n' = n /\ ShellLeft' < ShellLeft
         \/ n' = n /\ ShellLeft' = ShellLeft /\ ToolLeft' < ToolLeft
         \/ n' = n /\ ShellLeft' = ShellLeft /\ ToolLeft' = ToolLeft /\ StateLeft' < StateLeft
         \/ n' = n /\ ShellLeft' = ShellLeft /\ ToolLeft' = ToolLeft /\ StateLeft' = StateLeft
            /\ Loop' < Loop
         \/ n' = n /\ ShellLeft' = ShellLeft /\ ToolLeft' = ToolLeft /\ StateLeft' = StateLeft
            /\ Loop' = Loop /\ Threads' < Threads
  PROVE  Descends(6, RunnerLeft, RunnerLeft')
<1> DEFINE cells == Cells(script) - n
<1>0. Numbers /\ Numbers'
  BY PartsAreNumbers, PTL
<1>1. /\ cells \in Nat /\ ShellLeft \in Nat /\ ToolLeft \in Nat /\ StateLeft \in Nat
      /\ Loop \in Nat /\ Threads \in Nat
  BY <1>0 DEF Numbers
<1>2. /\ cells' \in Nat /\ ShellLeft' \in Nat /\ ToolLeft' \in Nat /\ StateLeft' \in Nat
      /\ Loop' \in Nat /\ Threads' \in Nat
  BY <1>0 DEF Numbers
<1>3. (n < n' => cells' < cells) /\ (n' = n => cells' = cells)
  <2>1. n \in Int /\ n' \in Int BY <1>0 DEF Numbers
  <2>2. Cells(script) \in Int /\ Cells(script)' = Cells(script)
    BY RunnerAssumption, Z3 DEF Cells
  <2> QED BY <2>1, <2>2
<1>4. /\ RunnerLeft = <<cells, ShellLeft, ToolLeft, StateLeft, Loop, Threads>>
      /\ RunnerLeft' = <<cells', ShellLeft', ToolLeft', StateLeft', Loop', Threads'>>
  BY DEF RunnerLeft, Loop, Threads
<1> HIDE DEF cells
<1>5. {RunnerLeft, RunnerLeft'} \subseteq Measures(6)
  BY <1>1, <1>2, <1>4 DEF Measures
<1>6. /\ RunnerLeft[1] = cells /\ RunnerLeft[2] = ShellLeft /\ RunnerLeft[3] = ToolLeft
      /\ RunnerLeft[4] = StateLeft /\ RunnerLeft[5] = Loop /\ RunnerLeft[6] = Threads
      /\ RunnerLeft'[1] = cells' /\ RunnerLeft'[2] = ShellLeft' /\ RunnerLeft'[3] = ToolLeft'
      /\ RunnerLeft'[4] = StateLeft' /\ RunnerLeft'[5] = Loop' /\ RunnerLeft'[6] = Threads'
  BY <1>4
<1> DEFINE Falls(m) == /\ RunnerLeft'[m] < RunnerLeft[m]
                       /\ \A l \in 1 .. m - 1 : RunnerLeft'[l] = RunnerLeft[l]
<1>7. CASE n < n'
  <2>1. Falls(1) BY <1>3, <1>6, <1>7
  <2> QED BY <1>5, <2>1 DEF Descends
<1>8. CASE n' = n /\ ShellLeft' < ShellLeft
  <2>1. Falls(2) BY <1>3, <1>6, <1>8
  <2> QED BY <1>5, <2>1 DEF Descends
<1>9. CASE n' = n /\ ShellLeft' = ShellLeft /\ ToolLeft' < ToolLeft
  <2>1. \A l \in 1 .. 3 - 1 : l = 1 \/ l = 2 OBVIOUS
  <2>2. Falls(3) BY <1>3, <1>6, <1>9, <2>1
  <2> QED BY <1>5, <2>2 DEF Descends
<1>10. CASE n' = n /\ ShellLeft' = ShellLeft /\ ToolLeft' = ToolLeft /\ StateLeft' < StateLeft
  <2>1. \A l \in 1 .. 4 - 1 : l = 1 \/ l = 2 \/ l = 3 OBVIOUS
  <2>2. Falls(4) BY <1>3, <1>6, <1>10, <2>1
  <2> QED BY <1>5, <2>2 DEF Descends
<1>11. CASE n' = n /\ ShellLeft' = ShellLeft /\ ToolLeft' = ToolLeft /\ StateLeft' = StateLeft
            /\ Loop' < Loop
  <2>1. \A l \in 1 .. 5 - 1 : l = 1 \/ l = 2 \/ l = 3 \/ l = 4 OBVIOUS
  <2>2. Falls(5) BY <1>3, <1>6, <1>11, <2>1
  <2> QED BY <1>5, <2>2 DEF Descends
<1>12. CASE n' = n /\ ShellLeft' = ShellLeft /\ ToolLeft' = ToolLeft /\ StateLeft' = StateLeft
            /\ Loop' = Loop /\ Threads' < Threads
  <2>1. \A l \in 1 .. 6 - 1 : l = 1 \/ l = 2 \/ l = 3 \/ l = 4 \/ l = 5 OBVIOUS
  <2>2. Falls(6) BY <1>3, <1>6, <1>12, <2>1
  <2> QED BY <1>5, <2>2 DEF Descends
<1> QED BY <1>7, <1>8, <1>9, <1>10, <1>11, <1>12

\* The steps of a script lead to its next stage or its next measurement.
LEMMA ScriptDescends ==
  ASSUME IInv, Typed, IInv', Typed', Script
  PROVE  Descends(6, RunnerLeft, RunnerLeft')
<1>1. n \in Int BY PartsAreNumbers DEF Numbers
<1>2. script' = script
  BY DEF Script, SetFrequency, Start, Delay, Kill, Wait, Pause
<1>3. ASSUME Go(n + 1), shell \in {"delay", "pause"}
      PROVE  n < n' \/ (n' = n /\ ShellLeft' < ShellLeft)
  BY <1>1, <1>3 DEF Go, ShellLeft
<1>4. CASE SetFrequency
  BY <1>2, <1>4, RunnerLeftDescends DEF SetFrequency, ShellLeft
<1>5. CASE Start
  <2>1. n' = n /\ ShellLeft' < ShellLeft
    BY <1>5 DEF Start, ShellLeft, Background
  <2> QED BY <1>2, <2>1, RunnerLeftDescends
<1>6. CASE Delay
  <2>1. n < n' \/ (n' = n /\ ShellLeft' < ShellLeft)
    <3>1. CASE Kills(script) BY <1>6, <3>1 DEF Delay, ShellLeft
    <3>2. CASE ~Kills(script) BY <1>3, <1>6, <3>2 DEF Delay
    <3> QED BY <3>1, <3>2
  <2> QED BY <1>2, <2>1, RunnerLeftDescends
<1>7. CASE Kill
  <2>1. n' = n /\ ShellLeft' < ShellLeft
    BY <1>7 DEF Kill, ShellLeft
  <2> QED BY <1>2, <2>1, RunnerLeftDescends
<1>8. CASE Wait
  <2>1. n' = n /\ ShellLeft' < ShellLeft
    BY <1>8 DEF Wait, ShellLeft
  <2> QED BY <1>2, <2>1, RunnerLeftDescends
<1>9. CASE Pause
  <2>1. n < n' \/ (n' = n /\ ShellLeft' < ShellLeft)
    BY <1>3, <1>9 DEF Pause
  <2> QED BY <1>2, <2>1, RunnerLeftDescends
<1> QED BY <1>4, <1>5, <1>6, <1>7, <1>8, <1>9 DEF Script

\* Only the tool of the measurement a script is at takes steps.
LEMMA ToolDescends ==
  ASSUME IInv, Typed, IInv', Typed', NEW m \in Measurements, Fail(m) \/ Execute(m) \/ Report(m)
  PROVE  Descends(6, RunnerLeft, RunnerLeft')
<1>1. m = n
  BY DEF IInv, OneTool, Measuring, Fail, Execute, Report
<1>2. UNCHANGED <<script, shell, n>>
  BY DEF Fail, Execute, Report, svars
<1>3. ToolLeft' < ToolLeft
  <2>1. tool \in [Measurements -> {"no", "started", "waiting", "reported", "failed"}]
    BY DEF IInv, Shape
  <2>2. \/ tool[n] = "started" /\ tool'[n] \in {"failed", "waiting"}
        \/ tool[n] = "waiting" /\ tool'[n] = "reported"
    BY <1>1, <2>1 DEF Fail, Execute, Report
  <2> QED BY <1>2, <2>2 DEF ToolLeft
<1>4. ShellLeft' = ShellLeft BY <1>2 DEF ShellLeft
<1> QED BY <1>2, <1>3, <1>4, RunnerLeftDescends

\* Only its process takes steps, and so do the threads of its process.
LEMMA ProcessDescends ==
  ASSUME IInv, Typed, IInv', Typed', NEW m \in Measurements, Alive(m),
         BenchmarkNext(m) \/ EndOther(m), UNCHANGED <<svars, tvars>>
  PROVE  Descends(6, RunnerLeft, RunnerLeft')
<1>1. m = n
  BY DEF IInv, NoTool, OneTool, Measuring, Alive
<1>2. script' = script /\ n' = n /\ ShellLeft' = ShellLeft /\ ToolLeft' = ToolLeft
  BY DEF svars, tvars, ShellLeft, ToolLeft
<1>3. /\ state \in [Measurements -> States] /\ n \in Measurements
      /\ thread \in [Measurements -> Int] /\ working \in [Measurements -> SUBSET Int]
      /\ threads[n] \in Int /\ thread[n] \in Int
  BY AtMeasurement DEF IInv, Shape
<1>4. CASE PrintUsage(m) \/ EndOther(m)
  <2>1. state[n] = "main" /\ state'[n] = "returned"
    BY <1>1, <1>3, <1>4 DEF PrintUsage, EndOther
  <2>2. StateLeft' < StateLeft BY <1>2, <2>1 DEF StateLeft
  <2> QED BY <1>2, <2>2, RunnerLeftDescends
<1>5. CASE RunBenchmark(m)
  <2>1. state[n] = "main" /\ state'[n] = "create"
    BY <1>1, <1>3, <1>5 DEF RunBenchmark
  <2>2. StateLeft' < StateLeft BY <1>2, <2>1 DEF StateLeft
  <2> QED BY <1>2, <2>2, RunnerLeftDescends
<1>6. CASE Create(m)
  <2>1. /\ UNCHANGED <<state, threads>> /\ thread[n] < threads[n]
        /\ thread'[n] = thread[n] + 1
    BY <1>1, <1>3, <1>6 DEF Create
  <2>2. StateLeft' = StateLeft BY <1>2, <2>1 DEF StateLeft
  <2>3. Loop' < Loop BY <1>2, <1>3, <2>1 DEF Loop, Remaining
  <2> QED BY <1>2, <2>2, <2>3, RunnerLeftDescends
<1>7. CASE StartJoining(m)
  <2>1. state[n] = "create" /\ state'[n] = "join"
    BY <1>1, <1>3, <1>7 DEF StartJoining
  <2>2. StateLeft' < StateLeft BY <1>2, <2>1 DEF StateLeft
  <2> QED BY <1>2, <2>2, RunnerLeftDescends
<1>8. CASE \E w \in working[m] : EndWork(m, w)
  <2>1. PICK w \in working[m] : EndWork(m, w) BY <1>8
  <2>2. UNCHANGED <<state, threads, thread>> /\ working'[n] = working[n] \ {w} /\ w \in working[n]
    BY <1>1, <1>3, <2>1 DEF EndWork
  <2>3. StateLeft' = StateLeft /\ Loop' = Loop
    BY <1>2, <2>2 DEF StateLeft, Loop
  <2>4. Threads' < Threads
    <3>1. IsFiniteSet(working[n]) /\ Threads \in Nat BY PartsAreNumbers DEF Numbers
    <3>2. Cardinality(working[n] \ {w}) = Cardinality(working[n]) - 1
      BY <2>2, <3>1, FS_RemoveElement
    <3>3. Threads' = Threads - 1 BY <1>2, <2>2, <3>2 DEF Threads
    <3> QED BY <3>1, <3>3
  <2> QED BY <1>2, <2>3, <2>4, RunnerLeftDescends
<1>9. CASE Join(m)
  <2>1. state[n] = "join" /\ thread[n] < threads[n] /\ threads' = threads
    BY <1>1, <1>9 DEF Join
  <2>2. CASE thread' = [thread EXCEPT ![m] = @ + 1] /\ UNCHANGED state
    <3>1. thread'[n] = thread[n] + 1 BY <1>1, <1>3, <2>2
    <3>2. StateLeft' = StateLeft BY <1>2, <2>2 DEF StateLeft
    <3>3. Loop' < Loop BY <1>2, <1>3, <2>1, <3>1 DEF Loop, Remaining
    <3> QED BY <1>2, <3>2, <3>3, RunnerLeftDescends
  <2>3. CASE \E end \in {"stuck", "crashed"} : state' = [state EXCEPT ![m] = end]
    <3>1. state'[n] \in {"stuck", "crashed"} BY <1>1, <1>3, <2>3
    <3>2. StateLeft' < StateLeft BY <1>2, <2>1, <3>1 DEF StateLeft
    <3> QED BY <1>2, <3>2, RunnerLeftDescends
  <2> QED BY <1>9, <2>2, <2>3 DEF Join
<1>10. CASE Return(m)
  <2>1. state[n] = "join" /\ state'[n] = "returned"
    BY <1>1, <1>3, <1>10 DEF Return
  <2>2. StateLeft' < StateLeft BY <1>2, <2>1 DEF StateLeft
  <2> QED BY <1>2, <2>2, RunnerLeftDescends
<1> QED BY <1>4, <1>5, <1>6, <1>7, <1>8, <1>9, <1>10 DEF BenchmarkNext

\* For any numbers of frequencies and threads: no step of a script, of a power
\* tool, of a benchmark or of its threads can be taken for ever, and none is that
\* of an earlier measurement.
THEOREM EachStepGetsOn == Spec => RunnerGetsOn
<1>1. IInv /\ Typed /\ (IInv /\ Typed)' /\ [Next]_vars
      => [Descends(6, RunnerLeft, RunnerLeft')]_vars
  <2> SUFFICES ASSUME IInv, Typed, IInv', Typed', Next, vars' # vars
               PROVE  Descends(6, RunnerLeft, RunnerLeft')
    OBVIOUS
  <2>1. ~Rest BY DEF Rest
  <2>2. ASSUME NEW m \in Measurements, Measure(m)
        PROVE  Descends(6, RunnerLeft, RunnerLeft')
    BY <2>2, ToolDescends, ProcessDescends DEF Measure
  <2> QED BY <2>1, <2>2, ScriptDescends DEF Next
<1> QED BY <1>1, TypedInvariant, PTL DEF Spec, RunnerGetsOn
=============================================================================
