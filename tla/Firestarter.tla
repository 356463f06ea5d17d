---------------------------- MODULE Firestarter ----------------------------
(***************************************************************************)
(* FIRESTARTER: the start-up of WorkerHandshake, followed in the main      *)
(* thread by the watchdog of LoadControl.  A worker that has answered the  *)
(* command to work enters its load loop; the process may be ended at any   *)
(* time, and then nothing moves any more.                                  *)
(***************************************************************************)
EXTENDS WorkerHandshake, LoadControl

ASSUME SameThreads == Threads = Workers

vars == <<hvars, lvars>>

Running == ~ended /\ master \notin {"exited", "crashed"}

-----------------------------------------------------------------------------
\* init and _work, in the main thread.
StartUp == Running /\ MasterNext /\ UNCHANGED lvars

\* A worker: its commands, the last of which starts its load loop.
Work(w) ==
  /\ Running
  /\ \/ /\ WorkerNext(w)
        /\ IF worker'[w] = "working" THEN StartLoad(w) ELSE UNCHANGED lvars
     \/ LevelNext(w) /\ UNCHANGED hvars

\* Mutated: the watchdog is started before the workers.
LaunchedEarly == TRUE

\* _work has returned.
Launched == master = "launched"

Watch ==
  /\ Running
  /\ \/ Launched /\ StartWatchdog
     \/ WatchdogNext
  /\ UNCHANGED hvars

Environment == Running /\ (Terminate \/ SetClock) /\ UNCHANGED hvars

Exit == Running /\ End /\ UNCHANGED hvars

\* Nothing left to do, or nothing before the next signal.
Rest ==
  /\ ~Running \/ watchdog \in {"gone", "forever"} \/ (timeout = 0 /\ time >= MaxTime)
  /\ UNCHANGED vars

Init == HandshakeInit /\ LoadInit

Next == StartUp \/ (\E w \in Workers : Work(w)) \/ Watch \/ Environment \/ Exit \/ Rest

\* Every thread is scheduled, a sleep ends, and a signal that some thread does
\* not block is delivered.
Fairness ==
  /\ WF_vars(StartUp) /\ WF_vars(Watch) /\ WF_vars(Exit)
  /\ \A w \in Workers : WF_vars(Work(w))

Spec == Init /\ [][Next]_vars /\ Fairness

-----------------------------------------------------------------------------
(* Properties.                                                             *)

TypeOK == HandshakeTypeOK /\ LoadTypeOK

\* The start-up ends: with all workers at work, with an error, or by a signal.
\* The master spins for ever only on a thread that was not created or has left
\* after an error of its init function, and no timeout helps it then.
StartUpEnds ==
  <>(\/ ended \/ master \in {"launched", "exited", "crashed"}
     \/ \E w \in Workers : worker[w] = "failed")

\* When the phases and the timeout begin, every thread that was asked for is at
\* work, or has been stopped by its kernel: a run that could not create all its
\* threads never gets so far.
FullLoad ==
  watchdog # "off" => \A w \in Workers : worker[w] = "working" /\ level[w] # "off"

\* A low phase is always followed by a high one, unless the process ends.
LowPhase == watchdog # "off" /\ HIGH = 0 /\ period # 0
LowPhaseEnds == LowPhase ~> (HIGH = 1 \/ ended)

\* With a timeout the process ends.  The one way to outlive it: no phases (the
\* main thread sleeps on) and no worker left that does not block the signal.
TimeoutRuns == watchdog # "off" /\ timeout > 0
Outlived == period = 0 /\ Living = {}
TimeoutEnds == TimeoutRuns ~> (ended \/ Outlived)
=============================================================================
