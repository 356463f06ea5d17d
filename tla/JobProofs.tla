----------------------------- MODULE JobProofs -----------------------------
(***************************************************************************)
(* Proofs about JobDistribution, for any number of jobs.                   *)
(***************************************************************************)
EXTENDS JobDistribution, TLAPS

USE JobsAssumption

-----------------------------------------------------------------------------
(* The invariant.                                                          *)

\* What the i-th worker runs.
Share(i) ==
  IF policy = ROBIN THEN jobs \div threads ELSE Smaller(jobs - i * 4, 4)

\* What the workers before the i-th run together.
Before(i) ==
  IF policy = ROBIN THEN i * (jobs \div threads) ELSE Smaller(i * 4, jobs)

Split ==
  /\ jobs \in Nat \ {0} /\ policy \in {ROBIN, PACKED}
  /\ threads = IF policy = ROBIN THEN Smaller(jobs, 4) ELSE 1 + (jobs - 1) \div 4

\* Round robin decides before the first worker whether the split is even.
Even == jobs % threads = 0 /\ jobs \div threads \in Kernels

Creating ==
  /\ Split /\ thread \in 0 .. threads
  /\ given = Before(thread)
  /\ policy = ROBIN /\ thread > 0 => Even
  /\ created \cup refused = 0 .. thread - 1
  /\ \A i \in created : load[i] = Share(i)

Joining ==
  /\ Split /\ thread \in 0 .. jobs
  /\ given = jobs
  /\ created \cup refused = 0 .. threads - 1
  /\ refused = {} => thread = 0
  /\ \A i \in created : load[i] = Share(i)

Untouched == created = {} /\ refused = {}

\* The strengthening that every step preserves.
JobInv ==
  /\ jobs \in Int /\ policy \in Int
  /\ pc \in {"main", "create", "join", "exited", "crashed", "returned"}
  /\ threads \in Nat /\ thread \in Nat /\ given \in Nat
  /\ load \in [0 .. jobs - 1 -> Kernels \cup {0}]
  /\ pc = "main" => Untouched /\ thread = 0 /\ given = 0 /\ threads = 0
  /\ pc = "create" => Creating
  /\ pc = "join" => Joining
  /\ pc = "exited" => Untouched
  /\ pc \in {"crashed", "returned"} => Joining /\ refused # {}

-----------------------------------------------------------------------------
(* The arithmetic.                                                         *)

\* There are no more workers than jobs.
LEMMA WorkersFit ==
  ASSUME Split
  PROVE  threads \in 1 .. jobs
BY DEF Split, Smaller, ROBIN, PACKED

\* Round robin starts four workers at most.
LEMMA FewWorkers ==
  ASSUME Split, policy = ROBIN
  PROVE  threads \in 1 .. 4
BY DEF Split, Smaller

\* A packed worker has one to four jobs, and they add up.
LEMMA PackedShare ==
  ASSUME Split, policy # ROBIN, NEW i \in 0 .. threads - 1
  PROVE  /\ Share(i) \in Kernels
         /\ Before(i + 1) = Before(i) + Share(i)
         /\ i + 1 < threads => Share(i) = 4
BY DEF Split, Share, Before, Smaller, Kernels

\* So do the equal shares of round robin.
LEMMA RobinShare ==
  ASSUME Split, policy = ROBIN, NEW i \in 0 .. threads - 1
  PROVE  Before(i + 1) = Before(i) + Share(i)
<1>1. jobs \div threads \in Int
  BY WorkersFit DEF Split
<1> DEFINE q == jobs \div threads
<1>2. q \in Int /\ i \in Int
  BY <1>1, WorkersFit DEF Split
<1> HIDE DEF q
<1>3. (i + 1) * q = i * q + q
  BY <1>2
<1> QED
  BY <1>3 DEF Share, Before, q

\* All shares together are the jobs.
LEMMA AllShares ==
  ASSUME Split, policy = ROBIN => Even
  PROVE  Before(threads) = jobs
<1>1. CASE policy = ROBIN
  <2>1. threads \in {1, 2, 3, 4}
    BY <1>1, FewWorkers
  <2>2. jobs \in Nat /\ jobs % threads = 0
    BY <1>1 DEF Even, Split
  <2>3. threads * (jobs \div threads) = jobs
    <3>1. CASE threads = 1
      BY <2>2, <3>1
    <3>2. CASE threads = 2
      BY <2>2, <3>2
    <3>3. CASE threads = 3
      BY <2>2, <3>3
    <3>4. CASE threads = 4
      BY <2>2, <3>4
    <3> QED
      BY <2>1, <3>1, <3>2, <3>3, <3>4
  <2> QED
    BY <1>1, <2>3 DEF Before
<1>2. CASE policy # ROBIN
  BY <1>2 DEF Split, Before, Smaller
<1> QED
  BY <1>1, <1>2

-----------------------------------------------------------------------------
(* The invariant is inductive.                                             *)

\* The initial state satisfies it.
LEMMA JobInit == Init => JobInv
<1> SUFFICES ASSUME Init PROVE JobInv
  OBVIOUS
<1>1. load \in [0 .. jobs - 1 -> Kernels \cup {0}]
  BY DEF Init
<1> QED
  BY <1>1 DEF Init, JobInv, Untouched

\* Every step preserves it.
LEMMA JobNext == JobInv /\ [Next]_vars => JobInv'
<1> SUFFICES ASSUME JobInv, [Next]_vars PROVE JobInv'
  OBVIOUS
<1>1. ASSUME Accept PROVE JobInv'
  <2>1. Split'
    BY <1>1 DEF Accept, JobInv, Split, ROBIN, PACKED, Smaller
  <2>2. threads' \in Nat /\ threads' >= 1
    BY <1>1 DEF Accept, JobInv, Smaller
  <2>3. Before(0)' = 0
    <3>1. jobs' \in Nat /\ jobs' > 0
      BY <2>1 DEF Split
    <3>2. jobs' \div threads' \in Int
      BY <2>2, <3>1
    <3>3. 0 * (jobs' \div threads') = 0 /\ Smaller(0 * 4, jobs') = 0
      BY <3>1, <3>2 DEF Smaller
    <3> QED
      BY <3>3 DEF Before
  <2>4. Creating'
    BY <1>1, <2>1, <2>2, <2>3 DEF Accept, JobInv, Creating, Untouched
  <2> QED
    BY <1>1, <2>2, <2>4 DEF Accept, JobInv
<1>2. ASSUME PrintUsage PROVE JobInv'
  BY <1>2 DEF PrintUsage, JobInv, Untouched
<1>3. ASSUME Create PROVE JobInv'
  <2>1. Creating /\ thread < threads /\ Supported /\ MyJobs = Share(thread)
    BY <1>3 DEF Create, JobInv, MyJobs, Share
  <2>2. Split' /\ thread' \in 0 .. threads' /\ thread' > 0
    <3>1. Split'
      BY <1>3, <2>1 DEF Create, Creating, Split
    <3>2. threads \in Int /\ thread \in 0 .. threads - 1
      BY <2>1, WorkersFit DEF Creating
    <3> QED
      BY <1>3, <3>1, <3>2 DEF Create
  <2>3. MyJobs \in Kernels /\ thread \in 0 .. jobs - 1
    BY <2>1, WorkersFit DEF Creating, Supported, Split
  <2>4. policy = ROBIN => Even
    BY <2>1 DEF Supported, MyJobs, Even
  <2>5. Before(thread + 1) = Before(thread) + Share(thread)
    <3>1. Split /\ thread \in 0 .. threads - 1
      BY <2>1, WorkersFit DEF Creating
    <3> QED
      BY <3>1, PackedShare, RobinShare
  <2>6. given' = Before(thread)'
    BY <1>3, <2>1, <2>5 DEF Create, Creating, Before
  <2>7. load' \in [0 .. jobs - 1 -> Kernels \cup {0}]
    BY <1>3, <2>3 DEF Create, JobInv
  <2>8. \A i \in created' : load'[i] = Share(i)'
    <3>1. \A i \in created : i \in 0 .. thread - 1 /\ load[i] = Share(i)
      BY <2>1 DEF Creating
    <3>2. \A i : Share(i)' = Share(i)
      BY <1>3 DEF Create, Share
    <3>3. thread \in Int /\ thread \in DOMAIN load
      BY <2>3 DEF JobInv
    <3>4. \A i \in created : i # thread
      BY <3>1, <3>3
    <3>5. CASE created' = created /\ load' = load
      BY <3>1, <3>2, <3>5
    <3>6. CASE /\ created' = created \cup {thread}
               /\ load' = [load EXCEPT ![thread] = MyJobs]
      <4>1. load'[thread] = Share(thread)
        BY <2>1, <3>3, <3>6
      <4>2. \A i \in created : load'[i] = Share(i)
        BY <3>1, <3>4, <3>6
      <4> QED
        BY <3>2, <3>6, <4>1, <4>2
    <3> QED
      BY <1>3, <3>5, <3>6 DEF Create
  <2>9. created' \cup refused' = 0 .. thread' - 1
    <3>1. created \cup refused = 0 .. thread - 1 /\ thread \in Nat
      BY <2>1 DEF Creating, JobInv
    <3>2. created' \cup refused' = (created \cup refused) \cup {thread}
      BY <1>3 DEF Create
    <3> QED
      BY <1>3, <3>1, <3>2 DEF Create
  <2>10. Even' \/ policy' # ROBIN
    BY <1>3, <2>4 DEF Create, Even
  <2>11. Creating'
    BY <2>2, <2>6, <2>8, <2>9, <2>10 DEF Creating
  <2> QED
    BY <1>3, <2>3, <2>7, <2>11 DEF Create, JobInv, Kernels
<1>4. ASSUME Reject PROVE JobInv'
  <2>1. Creating /\ thread < threads /\ ~Supported
    BY <1>4 DEF Reject, JobInv
  <2>2. thread \in 0 .. threads - 1
    BY <2>1, WorkersFit DEF Creating, Split
  <2>3. CASE policy # ROBIN
    BY <2>1, <2>2, <2>3, PackedShare DEF Creating, Supported, MyJobs, Share
  <2>4. CASE policy = ROBIN
    <3>1. thread = 0
      BY <2>1, <2>2, <2>4 DEF Creating, Supported, MyJobs, Even
    <3>2. Untouched
      BY <2>1, <3>1 DEF Creating, Untouched
    <3> QED
      BY <1>4, <3>2 DEF Reject, JobInv, Untouched
  <2> QED
    BY <2>3, <2>4
<1>5. ASSUME StartJoining PROVE JobInv'
  <2>1. Creating /\ thread = threads
    BY <1>5 DEF StartJoining, JobInv
  <2>2. threads \in 1 .. jobs
    BY <2>1, WorkersFit DEF Creating
  <2>3. given = jobs
    BY <2>1, <2>2, AllShares DEF Creating
  <2>4. Joining'
    BY <1>5, <2>1, <2>2, <2>3 DEF StartJoining, Creating, Joining, Split, Share
  <2> QED
    BY <1>5, <2>4 DEF StartJoining, JobInv
<1>6. ASSUME JoinWorker PROVE JobInv'
  BY <1>6 DEF JoinWorker, vars, JobInv, Creating, Joining, Untouched, Split, Even,
     Before, Share
<1>7. ASSUME JoinGarbage PROVE JobInv'
  <2>1. Joining /\ refused # {} /\ thread < jobs
    <3>1. Joining /\ thread < jobs /\ thread \notin created
      BY <1>7 DEF JoinGarbage, JobInv, Joined
    <3>2. threads \in 1 .. jobs
      BY <3>1, WorkersFit DEF Joining
    <3>3. refused # {}
      <4> SUFFICES ASSUME refused = {} PROVE FALSE
        OBVIOUS
      <4>1. created = 0 .. threads - 1 /\ thread = 0
        BY <3>1 DEF Joining
      <4> QED
        BY <3>1, <3>2, <4>1
    <3> QED
      BY <3>1, <3>3
  <2>2. Joining' /\ refused' # {}
    BY <1>7, <2>1 DEF JoinGarbage, Joining, Split, Share
  <2> QED
    BY <1>7, <2>2 DEF JoinGarbage, JobInv
<1>8. ASSUME Return PROVE JobInv'
  <2>1. Joining /\ refused # {}
    BY <1>8 DEF Return, JobInv, Joining, Split
  <2>2. Joining' /\ refused' # {}
    BY <1>8, <2>1 DEF Return, Joining, Split, Share
  <2> QED
    BY <1>8, <2>2 DEF Return, JobInv
<1>9. CASE UNCHANGED vars
  BY <1>9 DEF vars, JobInv, Creating, Joining, Untouched, Split, Even, Before, Share
<1> QED
  BY <1>1, <1>2, <1>3, <1>4, <1>5, <1>6, <1>7, <1>8, <1>9 DEF Next, Stopped

\* It holds always.
LEMMA JobInvariant == Spec => []JobInv
BY JobInit, JobNext, PTL DEF Spec

-----------------------------------------------------------------------------
(* What follows from it.                                                   *)

\* The variables keep their types: in particular each worker runs one of the
\* four kernels there are.
THEOREM JobTypeCorrect == Spec => []TypeOK
<1>1. JobInv => TypeOK
  <2> SUFFICES ASSUME JobInv
               PROVE  created \subseteq 0 .. threads - 1 /\ refused \subseteq 0 .. threads - 1
    BY DEF JobInv, TypeOK
  <2>1. CASE pc = "create"
    <3>1. created \cup refused = 0 .. thread - 1 /\ thread \in 0 .. threads /\ threads \in Nat
      BY <2>1 DEF JobInv, Creating
    <3>2. 0 .. thread - 1 \subseteq 0 .. threads - 1
      BY <3>1
    <3> QED
      BY <3>1, <3>2
  <2>2. CASE Joining
    BY <2>2 DEF Joining
  <2>3. CASE Untouched
    BY <2>3 DEF Untouched
  <2> QED
    BY <2>1, <2>2, <2>3 DEF JobInv
<1> QED
  BY <1>1, JobInvariant, PTL

\* Every job is given to exactly one worker, for any number of jobs.
THEOREM JobsAllGiven == Spec => []EveryJobGiven
<1>1. JobInv => EveryJobGiven
  BY WorkersFit DEF JobInv, Joining, EveryJobGiven
<1> QED
  BY <1>1, JobInvariant, PTL

\* The program exits before its first worker or not at all.
THEOREM GivesUpEarly == Spec => []AllOrNothing
<1>1. JobInv => AllOrNothing
  BY DEF JobInv, Untouched, AllOrNothing
<1> QED
  BY <1>1, JobInvariant, PTL

\* The loads are balanced as the policy says.
THEOREM LoadsBalanced == Spec => []Balanced
<1>1. JobInv => Balanced
  <2> SUFFICES ASSUME JobInv, NEW i \in created, NEW j \in created, i < j
               PROVE  IF policy = ROBIN THEN load[i] = load[j] ELSE load[i] = 4
    BY DEF Balanced
  <2>1. /\ Split /\ load[i] = Share(i) /\ load[j] = Share(j)
        /\ i \in 0 .. threads - 1 /\ j \in 0 .. threads - 1
    BY DEF JobInv, Creating, Joining, Untouched
  <2>2. policy = ROBIN => Share(i) = Share(j)
    BY DEF Share
  <2>3. policy # ROBIN => Share(i) = 4
    BY <2>1, PackedShare DEF Split
  <2> QED
    BY <2>1, <2>2, <2>3
<1> QED
  BY <1>1, JobInvariant, PTL

\* While every creation succeeds, the first join is of a worker that was
\* created, and there it stays.
LEMMA FirstJoin ==
  ASSUME JobInv, refused = {}, pc = "join"
  PROVE  thread \in created
<1>1. Joining
  BY DEF JobInv
<1>2. threads \in 1 .. jobs
  BY <1>1, WorkersFit DEF Joining
<1>3. created = 0 .. threads - 1 /\ thread = 0
  BY <1>1 DEF Joining
<1> QED
  BY <1>2, <1>3

\* A handle that was not set is joined only after pthread_create has failed.
THEOREM JoinsWhatWasSet == Spec => []NeverJoinsGarbage
<1>1. JobInv => NeverJoinsGarbage
  BY FirstJoin DEF NeverJoinsGarbage, Joined
<1> QED
  BY <1>1, JobInvariant, PTL

\* Only then does the benchmark end by itself.
THEOREM RunsForEver == Spec => []RunsUntilKilled
<1>1. JobInv => RunsUntilKilled
  BY DEF RunsUntilKilled, JobInv
<1> QED
  BY <1>1, JobInvariant, PTL
=============================================================================
