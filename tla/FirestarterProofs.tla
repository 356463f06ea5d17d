------------------------- MODULE FirestarterProofs -------------------------
(***************************************************************************)
(* FIRESTARTER as a whole: it behaves as its start-up and as its load      *)
(* control do, so that what is proved of each of them holds of both        *)
(* together; and the load begins with every thread there is.               *)
(***************************************************************************)
EXTENDS Firestarter, WorkerHandshakeProofs, LoadControlProofs

-----------------------------------------------------------------------------
\* A step of the process is a step of the start-up, or leaves it alone.
LEMMA StartUpSteps ==
  ASSUME [Next]_vars
  PROVE  [HandshakeNext]_hvars
<1>1. CASE StartUp
  BY <1>1 DEF StartUp, HandshakeNext
<1>2. ASSUME NEW w \in Workers, Work(w) PROVE [HandshakeNext]_hvars
  <2>1. CASE WorkerNext(w)
    BY <2>1 DEF HandshakeNext
  <2>2. CASE UNCHANGED hvars
    BY <2>2
  <2> QED
    BY <1>2, <2>1, <2>2 DEF Work
<1>3. CASE Watch \/ Environment \/ Exit
  BY <1>3 DEF Watch, Environment, Exit
<1>4. CASE Rest \/ UNCHANGED vars
  BY <1>4 DEF Rest, vars
<1> QED
  BY <1>1, <1>2, <1>3, <1>4 DEF Next

\* A step of the process is a step of the load control, or leaves it alone.
LEMMA LoadSteps ==
  ASSUME [Next]_vars
  PROVE  [LoadNext]_lvars
<1>1. CASE StartUp
  BY <1>1 DEF StartUp
<1>2. ASSUME NEW w \in Workers, Work(w) PROVE [LoadNext]_lvars
  <2>1. CASE StartLoad(w) \/ LevelNext(w)
    BY <2>1, SameThreads DEF LoadNext
  <2>2. CASE UNCHANGED lvars
    BY <2>2
  <2> QED
    BY <1>2, <2>1, <2>2 DEF Work
<1>3. CASE Watch \/ Environment \/ Exit
  BY <1>3 DEF Watch, Environment, Exit, LoadNext
<1>4. CASE Rest \/ UNCHANGED vars
  BY <1>4 DEF Rest, vars
<1> QED
  BY <1>1, <1>2, <1>3, <1>4 DEF Next

\* The process is a start-up and a load control that never disagree.
THEOREM Composition == Spec => HandshakeSpec /\ LoadSpec
<1>1. Init => HandshakeInit /\ LoadInit
  BY DEF Init
<1>2. [Next]_vars => [HandshakeNext]_hvars /\ [LoadNext]_lvars
  BY StartUpSteps, LoadSteps
<1> QED
  BY <1>1, <1>2, PTL DEF Spec, HandshakeSpec, LoadSpec

\* Every variable of the process keeps its range.
THEOREM TypeCorrect == Spec => []TypeOK
<1>1. HandshakeInv /\ LoadTypeOK => TypeOK
  BY DEF HandshakeInv, TypeOK
<1> QED
  BY <1>1, Composition, StartUpInvariant, LoadTypeCorrect, PTL

\* What is proved of the parts holds of the process: the start-up is a barrier
\* and goes in lock step, and the watchdog keeps the phases and the timeout.
THEOREM PartsKeepTheirPromises ==
  Spec => /\ ImplementsLockStep
          /\ [](AllInitialisedBeforeWork /\ SleepsFit /\ NoDrift /\ TimeoutKept /\ NapsAreSleeps)
<1> QED
  BY Composition, BarrierBeforeWork, KeepsLockStep, SleepsAlwaysFit, NeverDrifts,
     TimeoutAlwaysKept, NapsNeverEmpty, PTL

\* The process is neither stuck nor does it go round in its start-up, and its
\* watchdog comes nearer to its end with every step; its other threads take
\* nothing of that back.
THEOREM PartsGetOn ==
  Spec => []AnswerIsComing /\ StartUpGetsOn /\ TimeoutComesNearer
<1> QED
  BY Composition, NoAnswerIsLost, EachStepGetsOn, TimeoutNeverPutOff, PTL

-----------------------------------------------------------------------------
\* The watchdog starts when _work has returned, and a worker that has answered
\* the command to work is in its load loop.
Begun ==
  /\ watchdog # "off" => master = "launched"
  /\ \A w \in Workers : worker[w] = "working" => level[w] # "off"

\* When _work has returned, every worker works.
LEMMA AllWork ==
  ASSUME HandshakeInv, master = "launched"
  PROVE  \A w \in Workers : worker[w] = "working"
<1>1. phase = "WORK" /\ t = NumThreads - 1 /\ HasAnswered(t)
  BY DEF HandshakeInv, Turn
<1>2. ASSUME NEW w \in Workers PROVE HasAnswered(w)
  <2>1. CASE w < t
    BY <2>1, <1>2 DEF HandshakeInv
  <2>2. CASE w = t
    BY <2>2, <1>1
  <2> QED
    BY <1>1, <1>2, <2>1, <2>2, HandshakeAssumption DEF Workers
<1> QED
  BY <1>1, <1>2 DEF HasAnswered

\* A thread that is in its load loop does not leave it for "off".
LEMMA BegunStep ==
  ASSUME HandshakeInv, HandshakeInv', LoadTypeOK, Begun, [Next]_vars
  PROVE  Begun'
<1>1. CASE StartUp
  <2>1. UNCHANGED <<watchdog, level>>
    BY <1>1 DEF StartUp, lvars
  <2>2. master # "launched"
    BY <1>1 DEF StartUp, MasterNext, Clear, Give, Create, Spin, GiveUp, NextThread, NextLoop
  <2>3. \A w \in Workers : worker'[w] = "working" => worker[w] = "working"
    BY <1>1 DEF StartUp, MasterNext, Clear, Give, Create, Spin, GiveUp, NextThread,
                NextLoop, hvars, HandshakeInv, HandshakeTypeOK
  <2> QED
    BY <2>1, <2>2, <2>3 DEF Begun
<1>2. ASSUME NEW w \in Workers, Work(w) PROVE Begun'
  <2>1. CASE WorkerNext(w) /\ worker'[w] = "working" /\ StartLoad(w)
    <3>1. worker[w] = "loop" \/ worker[w] = "heeding" \/ worker[w] = "init"
             \/ worker[w] = "polling" \/ worker[w] = "null"
      BY <2>1 DEF WorkerNext, Poll, Heed, Acknowledge, InitFunction, WriteToNull
    <3>2. watchdog = "off"
      BY <3>1, AllWork DEF Begun
    <3>3. watchdog' = watchdog /\ level'[w] = "high"
          /\ \A v \in Workers \ {w} : level'[v] = level[v]
      BY <2>1, SameThreads DEF StartLoad, LoadTypeOK
    <3>4. \A v \in Workers \ {w} : worker'[v] = worker[v]
      BY <2>1 DEF WorkerNext, Poll, Heed, Acknowledge, InitFunction, WriteToNull,
                  HandshakeInv, HandshakeTypeOK
    <3> QED
      BY <3>2, <3>3, <3>4 DEF Begun
  <2>2. CASE WorkerNext(w) /\ worker'[w] # "working" /\ UNCHANGED lvars
    <3>1. worker[w] # "working"
      BY <2>2 DEF WorkerNext, Poll, Heed, Acknowledge, InitFunction, WriteToNull
    <3>2. watchdog = "off"
      BY <3>1, AllWork DEF Begun
    <3>3. \A v \in Workers \ {w} : worker'[v] = worker[v]
      BY <2>2 DEF WorkerNext, Poll, Heed, Acknowledge, InitFunction, WriteToNull,
                  HandshakeInv, HandshakeTypeOK
    <3> QED
      BY <2>2, <3>2, <3>3 DEF Begun, lvars
  <2>3. CASE LevelNext(w) /\ UNCHANGED hvars
    <3>1. watchdog' = watchdog /\ master' = master /\ worker' = worker
      BY <2>3 DEF LevelNext, SeesLow, SeesHigh, hvars
    <3>2. \A v \in Workers : level'[v] = level[v] \/ level'[v] # "off"
      BY <2>3, SameThreads DEF LevelNext, SeesLow, SeesHigh, LoadTypeOK
    <3> QED
      BY <3>1, <3>2 DEF Begun
  <2> QED
    BY <1>2, <2>1, <2>2, <2>3 DEF Work
<1>3. CASE Watch
  <2>1. UNCHANGED hvars /\ UNCHANGED level
    BY <1>3 DEF Watch, StartWatchdog, WatchdogNext, ReadClock, SleepHigh, SleepLow, Expire,
                Continue, SleepTimeout
  <2>2. master = "launched"
    BY <1>3 DEF Watch, Launched, WatchdogNext, ReadClock, SleepHigh, SleepLow, Expire,
                Continue, SleepTimeout, Begun
  <2> QED
    BY <2>1, <2>2 DEF Begun, hvars
<1>4. CASE Environment \/ Exit
  <2>1. UNCHANGED hvars /\ UNCHANGED <<watchdog, level>>
    BY <1>4 DEF Environment, Exit, Terminate, SetClock, End
  <2> QED
    BY <2>1 DEF Begun, hvars
<1>5. CASE Rest \/ UNCHANGED vars
  BY <1>5 DEF Rest, vars, hvars, lvars, Begun
<1> QED
  BY <1>1, <1>2, <1>3, <1>4, <1>5 DEF Next

\* The phases and the timeout begin with every thread that was asked for at
\* work, for any number of threads and whatever faults there are.
THEOREM LoadIsFull == Spec => []FullLoad
<1>1. Init => Begun
  BY DEF Init, HandshakeInit, LoadInit, Begun
<1>2. HandshakeInv /\ HandshakeInv' /\ LoadTypeOK /\ Begun /\ [Next]_vars => Begun'
  BY BegunStep
<1>3. HandshakeInv /\ Begun => FullLoad
  BY AllWork DEF Begun, FullLoad
<1>4. Spec => []HandshakeInv /\ []LoadTypeOK
  BY Composition, StartUpInvariant, LoadTypeCorrect, PTL
<1> QED
  BY <1>1, <1>2, <1>3, <1>4, PTL DEF Spec
=============================================================================
