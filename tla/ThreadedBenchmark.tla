------------------------- MODULE ThreadedBenchmark -------------------------
(***************************************************************************)
(* The benchmarks that put a number of threads under the same load: the    *)
(* threads of proxy_code work and sleep in turns and come to an end, those *)
(* of threaded_nop_loops, threaded_empty_loops and threaded_usleep_loop    *)
(* run until the process is killed.                                        *)
(*                                                                         *)
(* Each measurement of an experiment starts a process of its own.          *)
(***************************************************************************)
EXTENDS Descent, FiniteSets

CONSTANTS
  Measurements,   \* the processes
  CreateFails     \* pthread_create may fail

ASSUME BenchmarkAssumption == CreateFails \in BOOLEAN

VARIABLES
  state,     \* of the process, by the place in main and run_benchmark
  program,   \* "proxy", "loop", or "other" for one from elsewhere
  threads, thread,
  created,   \* the handles that are set
  working    \* the threads that run

bvars == <<state, program, threads, thread, created, working>>

Alive(m) == state[m] \in {"main", "create", "join", "stuck"}

-----------------------------------------------------------------------------
\* exec: what the command line asks for; no threads stands for arguments that
\* main rejects.
Exec(m, what, count) ==
  /\ state' = [state EXCEPT ![m] = "main"]
  /\ program' = [program EXCEPT ![m] = what]
  /\ threads' = [threads EXCEPT ![m] = count]
  /\ UNCHANGED <<thread, created, working>>

\* "args.threads < 1", an unknown option, or one that lacks its argument.
PrintUsage(m) ==
  /\ state[m] = "main" /\ program[m] # "other" /\ threads[m] < 1
  /\ state' = [state EXCEPT ![m] = "returned"]
  /\ UNCHANGED <<program, threads, thread, created, working>>

RunBenchmark(m) ==
  /\ state[m] = "main" /\ program[m] # "other" /\ threads[m] >= 1
  /\ state' = [state EXCEPT ![m] = "create"]
  /\ UNCHANGED <<program, threads, thread, created, working>>

\* The result of pthread_create is not looked at.
Create(m) ==
  /\ state[m] = "create" /\ thread[m] < threads[m]
  /\ thread' = [thread EXCEPT ![m] = @ + 1]
  /\ \/ /\ created' = [created EXCEPT ![m] = @ \cup {thread[m]}]
        /\ working' = [working EXCEPT ![m] = @ \cup {thread[m]}]
     \/ CreateFails /\ UNCHANGED <<created, working>>
  /\ UNCHANGED <<state, program, threads>>

StartJoining(m) ==
  /\ state[m] = "create" /\ thread[m] = threads[m]
  /\ state' = [state EXCEPT ![m] = "join"]
  /\ thread' = [thread EXCEPT ![m] = 0]
  /\ UNCHANGED <<program, threads, created, working>>

\* proxy_benchmark has done its macro_cycles; the loops have no end.
EndWork(m, w) ==
  /\ program[m] = "proxy" /\ w \in working[m]
  /\ working' = [working EXCEPT ![m] = @ \ {w}]
  /\ UNCHANGED <<state, program, threads, thread, created>>

\* Mutated: the first handle is left out.
JoinedNext(n) == n + 1

\* The handle the n-th round of the second loop joins.
Joined(n) == n

\* A thread is joined when it has ended.  A handle that was not set may be that
\* of no thread, make the process wait for ever, or crash it.
Join(m) ==
  LET w == Joined(thread[m])
  IN /\ state[m] = "join" /\ thread[m] < threads[m]
     /\ w \notin working[m]
     /\ \/ thread' = [thread EXCEPT ![m] = @ + 1] /\ UNCHANGED state
        \/ /\ w \notin created[m]
           /\ \E end \in {"stuck", "crashed"} : state' = [state EXCEPT ![m] = end]
           /\ UNCHANGED thread
     /\ UNCHANGED <<program, threads, created, working>>

\* run_benchmark returns, and with it goes what its threads have been given.
Return(m) ==
  /\ state[m] = "join" /\ thread[m] = threads[m]
  /\ state' = [state EXCEPT ![m] = "returned"]
  /\ UNCHANGED <<program, threads, thread, created, working>>

\* wait3 of the parent: nothing is left of the process.
Reap(m) ==
  /\ state' = [state EXCEPT ![m] = "none"]
  /\ program' = [program EXCEPT ![m] = "none"]
  /\ threads' = [threads EXCEPT ![m] = 0] /\ thread' = [thread EXCEPT ![m] = 0]
  /\ created' = [created EXCEPT ![m] = {}] /\ working' = [working EXCEPT ![m] = {}]

\* A signal that ends every process that runs a program of this name.
Signal(what) ==
  LET hit == {m \in Measurements : Alive(m) /\ program[m] = what}
  IN /\ state' = [m \in Measurements |-> IF m \in hit THEN "killed" ELSE state[m]]
     /\ working' = [m \in Measurements |-> IF m \in hit THEN {} ELSE working[m]]
     /\ UNCHANGED <<program, threads, thread, created>>

BenchmarkNext(m) ==
  \/ PrintUsage(m) \/ RunBenchmark(m) \/ Create(m) \/ StartJoining(m)
  \/ (\E w \in working[m] : EndWork(m, w)) \/ Join(m) \/ Return(m)

BenchmarkInit ==
  /\ state = [m \in Measurements |-> "none"]
  /\ program = [m \in Measurements |-> "none"]
  /\ threads = [m \in Measurements |-> 0] /\ thread = [m \in Measurements |-> 0]
  /\ created = [m \in Measurements |-> {}] /\ working = [m \in Measurements |-> {}]

-----------------------------------------------------------------------------
(* Properties.                                                             *)

BenchmarkTypeOK ==
  /\ state \in [Measurements -> {"none", "main", "create", "join", "stuck", "returned",
                                 "crashed", "killed"}]
  /\ program \in [Measurements -> {"none", "proxy", "loop", "other"}]
  /\ threads \in [Measurements -> Nat] /\ thread \in [Measurements -> Nat]
  /\ \A m \in Measurements :
       /\ created[m] \subseteq 0 .. threads[m] - 1 /\ working[m] \subseteq created[m]

\* The threads of proxy_code read their arguments from the stack frame of
\* run_benchmark: it does not return before the last of them has ended, also
\* when some could not be created.
ArgumentsOutliveThreads ==
  \A m \in Measurements : state[m] = "returned" => working[m] = {}
=============================================================================
