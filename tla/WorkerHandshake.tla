-------------------------- MODULE WorkerHandshake --------------------------
(***************************************************************************)
(* FIRESTARTER's start-up: the master creates the worker threads and leads *)
(* them through initialisation, waiting and work by writing a command for  *)
(* one worker and spinning on a single word, ack, that all workers write.  *)
(*                                                                         *)
(* A thread may not be created, its buffer may not be allocated, and its   *)
(* init function may report an error; the master looks at the second only, *)
(* and the worker goes on to write to the buffer it did not get.           *)
(***************************************************************************)
EXTENDS Descent, FiniteSets

CONSTANTS
  NumThreads,   \* NUM_THREADS
  Faults        \* what may fail

ASSUME HandshakeAssumption ==
  /\ NumThreads \in Nat \ {0}
  /\ Faults \subseteq {"create", "alloc", "init"}

Workers == 0 .. NumThreads - 1
Command == {"INIT", "WAIT", "WORK"}
FAILURE == -1     \* THREAD_INIT_FAILURE, which no id + 1 is equal to

VARIABLES
  master,   \* the main thread, in init and _work
  phase, t, \* the loop it is in, by the command that loop gives, and its index
  ack, comm,      \* mdp->ack, mdp->thread_comm
  worker,   \* where each worker is in thread()
  old       \* the command each worker has heeded last

hvars == <<master, phase, t, ack, comm, worker, old>>

-----------------------------------------------------------------------------
(* The master: the loops over the threads in init and in _work.            *)

\* mdp->ack = 0
Clear ==
  /\ master = "clear" /\ master' = "command"
  /\ ack' = 0
  /\ UNCHANGED <<phase, t, comm, worker, old>>

Give ==
  /\ master = "command"
  /\ master' = IF phase = "INIT" THEN "create" ELSE "spin"
  /\ comm' = [comm EXCEPT ![t] = phase]
  /\ UNCHANGED <<phase, t, ack, worker, old>>

\* i = pthread_create(...), and nobody looks at i.
Create ==
  /\ master = "create" /\ master' = "spin"
  /\ \/ worker' = [worker EXCEPT ![t] = "polling"]
     \/ "create" \in Faults /\ worker' = [worker EXCEPT ![t] = "failed"]
  /\ UNCHANGED <<phase, t, ack, comm, old>>

\* The loop that follows: two in init, one in _work.
After(command) == IF command = "INIT" THEN "WAIT" ELSE "WORK"

\* Mutated: the master does not wait for the answer.
AnsweredAtOnce == TRUE

\* while (!mdp->ack)
Answered == ack # 0

Spin == master = "spin" /\ ~Answered /\ UNCHANGED hvars

\* "Error: Initialization of threads failed"
GiveUp ==
  /\ master = "spin" /\ Answered
  /\ phase = "INIT" /\ ack = FAILURE
  /\ master' = "exited"
  /\ UNCHANGED <<phase, t, ack, comm, worker, old>>

NextThread ==
  /\ master = "spin" /\ Answered
  /\ ~(phase = "INIT" /\ ack = FAILURE)
  /\ t < NumThreads - 1
  /\ t' = t + 1 /\ master' = "clear"
  /\ UNCHANGED <<phase, ack, comm, worker, old>>

\* The loop ends, and ack is cleared behind it.
NextLoop ==
  /\ master = "spin" /\ Answered
  /\ ~(phase = "INIT" /\ ack = FAILURE)
  /\ t = NumThreads - 1
  /\ ack' = 0
  /\ IF phase = "WORK"
     THEN master' = "launched" /\ UNCHANGED <<phase, t>>
     ELSE master' = "clear" /\ phase' = After(phase) /\ t' = 0
  /\ UNCHANGED <<comm, worker, old>>

-----------------------------------------------------------------------------
(* A worker.                                                               *)

\* while (global_data->thread_comm[id] != THREAD_INIT)
Poll(w) ==
  /\ worker[w] = "polling" /\ comm[w] = "INIT"
  /\ worker' = [worker EXCEPT ![w] = "loop"]
  /\ UNCHANGED <<master, phase, t, ack, comm, old>>

\* A command is heeded once: if (old != THREAD_...).
Heed(w) ==
  /\ worker[w] = "loop" /\ comm[w] # old[w]
  /\ worker' = [worker EXCEPT ![w] = "heeding"]
  /\ old' = [old EXCEPT ![w] = comm[w]]
  /\ UNCHANGED <<master, phase, t, ack, comm>>

\* Mutated: a worker answers with its id.
AnswerOffByOne(w) == w

\* id + 1
Answer(w) == w + 1

\* The answer, which at INIT comes between the allocation of the buffer and
\* the call of the init function.
Acknowledge(w) ==
  /\ worker[w] = "heeding"
  /\ \/ /\ ack' = Answer(w)
        /\ worker' = [worker EXCEPT ![w] = CASE old[w] = "INIT" -> "init"
                                             [] old[w] = "WAIT" -> "loop"
                                             [] old[w] = "WORK" -> "working"]
     \/ /\ old[w] = "INIT" /\ "alloc" \in Faults
        /\ ack' = FAILURE
        /\ worker' = [worker EXCEPT ![w] = "null"]
  /\ UNCHANGED <<master, phase, t, comm, old>>

\* The init function of the kernel: pthread_exit if it reports an error.
InitFunction(w) ==
  /\ worker[w] = "init"
  /\ \/ worker' = [worker EXCEPT ![w] = "loop"]
     \/ "init" \in Faults /\ worker' = [worker EXCEPT ![w] = "failed"]
  /\ UNCHANGED <<master, phase, t, ack, comm, old>>

\* The init function is called with a null pointer, unless the master has
\* read the answer and ended the process before.
WriteToNull(w) ==
  /\ worker[w] = "null"
  /\ master' = "crashed"
  /\ UNCHANGED <<phase, t, ack, comm, worker, old>>

-----------------------------------------------------------------------------
HandshakeInit ==
  /\ master = "clear" /\ phase = "INIT" /\ t = 0 /\ ack = 0
  /\ comm = [w \in Workers |-> "none"]
  /\ worker = [w \in Workers |-> "absent"]
  /\ old = [w \in Workers |-> "STOP"]

MasterNext == Clear \/ Give \/ Create \/ Spin \/ GiveUp \/ NextThread \/ NextLoop

\* The workers run as long as the process does.
WorkerNext(w) ==
  /\ master \notin {"exited", "crashed"}
  /\ Poll(w) \/ Heed(w) \/ Acknowledge(w) \/ InitFunction(w) \/ WriteToNull(w)

HandshakeNext == MasterNext \/ \E w \in Workers : WorkerNext(w)

HandshakeSpec == HandshakeInit /\ [][HandshakeNext]_hvars

-----------------------------------------------------------------------------
(* Properties.                                                             *)

HandshakeTypeOK ==
  /\ master \in {"clear", "command", "create", "spin", "launched", "exited",
                "crashed"}
  /\ phase \in Command /\ t \in Workers
  /\ ack \in Workers \cup {NumThreads, FAILURE}
  /\ comm \in [Workers -> Command \cup {"none"}]
  /\ worker \in [Workers -> {"absent", "polling", "loop", "heeding", "init",
                             "null", "working", "failed"}]
  /\ old \in [Workers -> Command \cup {"STOP"}]

\* "wait for threads to complete their initialization": no worker loads the
\* processor while another has not come back from its init function.
AllInitialisedBeforeWork ==
  \A v, w \in Workers :
    worker[v] = "working" => /\ old[w] \in {"WAIT", "WORK"}
                             /\ worker[w] \notin {"null", "failed"}

CanMove(w) ==
  \/ worker[w] = "polling" /\ comm[w] = "INIT"
  \/ worker[w] = "loop" /\ comm[w] # old[w]
  \/ worker[w] \in {"heeding", "init"}

\* The master never spins on an answer that has been cleared, or that nobody is
\* about to give: the thread it waits for can move, unless it is not there.
AnswerIsComing ==
  master = "spin" /\ ~Answered => CanMove(t) \/ worker[t] = "failed"

\* What is left of the start-up: of its loops, of the threads of a loop, of the
\* way to an answer, and of the init functions.
LoopsLeft ==
  IF master \in {"launched", "exited", "crashed"} THEN 0
  ELSE CASE phase = "INIT" -> 3 [] phase = "WAIT" -> 2 [] phase = "WORK" -> 1

AnswerLeft ==
  CASE master = "clear" -> 7
    [] master = "command" -> 6
    [] master = "create" -> 5
    [] master = "spin" /\ ~Answered ->
         CASE worker[t] = "polling" -> 4
           [] worker[t] \in {"init", "loop"} -> 3
           [] worker[t] = "heeding" -> 2
           [] OTHER -> 1
    [] OTHER -> 0

Initialising == {w \in Workers : worker[w] = "init"}

StartUpLeft == <<LoopsLeft, NumThreads - t, AnswerLeft, Cardinality(Initialising)>>

\* Whatever the workers do while the master is in its loops, every step but its
\* spinning gets on: no command is given or heeded twice, and no worker moves
\* without bringing the answer or the end of its init function nearer.
StartUpGetsOn == [][Descends(4, StartUpLeft, StartUpLeft')]_hvars

\* The commands a worker has answered.
Rank(command) == CASE command \in {"none", "STOP"} -> 0 [] command = "INIT" -> 1
                   [] command = "WAIT" -> 2 [] command = "WORK" -> 3

Answers(w) == IF worker[w] = "heeding" THEN Rank(old[w]) - 1 ELSE Rank(old[w])

Promise == INSTANCE LockStep WITH stage <- [w \in Workers |-> Answers(w)]

\* One word for the answers of all workers is enough: each command is answered
\* by the worker it was given to and by no other, in the order of the threads.
ImplementsLockStep == Promise!Spec
=============================================================================
