-------------------------- MODULE JobDistribution --------------------------
(***************************************************************************)
(* tlp_vs_ilp: a number of jobs is distributed over worker threads, four   *)
(* jobs at most per worker, either round robin or packed.  A worker with k *)
(* jobs runs nop_benchmark_k, a loop of k instructions that never ends.    *)
(*                                                                         *)
(* pthread_create may fail, which the program does not look at.  The loop  *)
(* that joins runs over the jobs, not over the workers, and the handles of *)
(* workers that were not created hold whatever the stack held.             *)
(***************************************************************************)
EXTENDS Integers

CONSTANTS
  Jobs,       \* what -j may say: atoi, so any int
  Policies    \* what -p may say

ASSUME JobsAssumption == Jobs \subseteq Int /\ Policies \subseteq Int

ROBIN == 1
PACKED == 2
Kernels == 1 .. 4     \* the jobs there is a nop_benchmark_k for

VARIABLES
  jobs, policy,
  pc,         \* the main thread
  threads,    \* the workers wanted
  thread,     \* the index of both loops
  created,    \* the indices whose handle pthread_create has set
  load,       \* what each worker runs: load[i] = k for nop_benchmark_k
  given,      \* history: jobs of the workers asked for so far
  refused     \* history: the indices whose pthread_create has failed

vars == <<jobs, policy, pc, threads, thread, created, load, given, refused>>

Smaller(a, b) == IF a < b THEN a ELSE b

-----------------------------------------------------------------------------
\* main: too few jobs or an unknown policy print the usage and exit.  A -p
\* that is not given leaves policy 0.
Accept ==
  /\ pc = "main"
  /\ jobs >= 1 /\ policy \in {ROBIN, PACKED}
  /\ pc' = "create"
  /\ threads' = IF policy = ROBIN THEN Smaller(jobs, 4) ELSE 1 + (jobs - 1) \div 4
  /\ UNCHANGED <<jobs, policy, thread, created, load, given, refused>>

PrintUsage ==
  /\ pc = "main"
  /\ ~(jobs >= 1 /\ policy \in {ROBIN, PACKED})
  /\ pc' = "exited"
  /\ UNCHANGED <<jobs, policy, threads, thread, created, load, given, refused>>

\* Mutated: the worker that is being created is taken for one that has its jobs.
MyJobsServed ==
  IF policy = ROBIN THEN jobs \div threads ELSE Smaller(jobs - (thread + 1) * 4, 4)

\* my_jobs
MyJobs ==
  IF policy = ROBIN THEN jobs \div threads ELSE Smaller(jobs - thread * 4, 4)

\* Mutated: an uneven split is not looked at.
SupportedUneven == MyJobs \in Kernels

\* Mutated: the switch has no default.
SupportedAnyKernel == policy = ROBIN => jobs % threads = 0

\* "Uneven distribution not supported", and the default of the switch.
Supported ==
  /\ policy = ROBIN => jobs % threads = 0
  /\ MyJobs \in Kernels

\* One round of the loop that creates: pthread_create starts a worker, or
\* fails and leaves the handle as it was.
Create ==
  /\ pc = "create" /\ thread < threads /\ Supported
  /\ \/ /\ created' = created \cup {thread}
        /\ load' = [load EXCEPT ![thread] = MyJobs]
        /\ UNCHANGED refused
     \/ refused' = refused \cup {thread} /\ UNCHANGED <<created, load>>
  /\ thread' = thread + 1
  /\ given' = given + MyJobs
  /\ UNCHANGED <<jobs, policy, pc, threads>>

Reject ==
  /\ pc = "create" /\ thread < threads /\ ~Supported
  /\ pc' = "exited"
  /\ UNCHANGED <<jobs, policy, threads, thread, created, load, given, refused>>

StartJoining ==
  /\ pc = "create" /\ thread = threads
  /\ pc' = "join" /\ thread' = 0
  /\ UNCHANGED <<jobs, policy, threads, created, load, given, refused>>

\* Mutated: the handles are joined in the reverse order.
JoinedReversed(n) == jobs - 1 - n

\* The handle the n-th round of the second loop joins.
Joined(n) == n

\* A created worker is waited for, for ever: its loop does not end.
JoinWorker ==
  /\ pc = "join" /\ thread < jobs /\ Joined(thread) \in created
  /\ UNCHANGED vars

\* The handle was never set: pthread_join may find no such thread, may find
\* another one to wait for, or may crash.
JoinGarbage ==
  /\ pc = "join" /\ thread < jobs /\ Joined(thread) \notin created
  /\ \/ thread' = thread + 1 /\ UNCHANGED pc
     \/ UNCHANGED <<thread, pc>>
     \/ pc' = "crashed" /\ UNCHANGED thread
  /\ UNCHANGED <<jobs, policy, threads, created, load, given, refused>>

Return ==
  /\ pc = "join" /\ thread = jobs
  /\ pc' = "returned"
  /\ UNCHANGED <<jobs, policy, threads, thread, created, load, given, refused>>

Stopped == pc \in {"exited", "crashed", "returned"} /\ UNCHANGED vars

-----------------------------------------------------------------------------
Init ==
  /\ jobs \in Jobs /\ policy \in Policies
  /\ pc = "main" /\ threads = 0 /\ thread = 0
  /\ created = {} /\ load = [i \in 0 .. jobs - 1 |-> 0]
  /\ given = 0 /\ refused = {}

Next == Accept \/ PrintUsage \/ Create \/ Reject \/ StartJoining \/ JoinWorker
        \/ JoinGarbage \/ Return \/ Stopped

Spec == Init /\ [][Next]_vars

-----------------------------------------------------------------------------
(* Properties.                                                             *)

TypeOK ==
  /\ jobs \in Int /\ policy \in Int
  /\ pc \in {"main", "create", "join", "exited", "crashed", "returned"}
  /\ threads \in Nat /\ thread \in Nat
  /\ created \subseteq 0 .. threads - 1
  /\ load \in [0 .. jobs - 1 -> Kernels \cup {0}]
  /\ given \in Nat /\ refused \subseteq 0 .. threads - 1

\* Once all workers are asked for, each job is handed to exactly one of them,
\* whatever the policy, and the handles suffice for the workers.
EveryJobGiven ==
  pc = "join" => given = jobs /\ threads <= jobs

\* Round robin gives all workers the same number of jobs; packed fills every
\* worker but the last.
Balanced ==
  \A i, j \in created :
    i < j => IF policy = ROBIN THEN load[i] = load[j] ELSE load[i] = 4

\* The program gives up before it has started any worker, never in between,
\* although it looks at the split only inside the loop that creates them.
AllOrNothing == pc = "exited" => created = {} /\ refused = {}

\* The joins of handles that were never set do not happen while every
\* pthread_create succeeds: the join of the first worker never returns.
NeverJoinsGarbage ==
  pc = "join" /\ refused = {} /\ thread < jobs => Joined(thread) \in created

\* So the benchmark does not end by itself: it runs until it is killed.
RunsUntilKilled == refused = {} => pc \notin {"crashed", "returned"}
=============================================================================
