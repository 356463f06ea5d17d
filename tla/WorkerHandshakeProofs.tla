----------------------- MODULE WorkerHandshakeProofs -----------------------
(***************************************************************************)
(* The start-up of FIRESTARTER is a barrier, and implements LockStep, for  *)
(* any number of threads.  The invariant says of every worker whether it   *)
(* has answered the command of the current loop (those before t), has not  *)
(* been given it (those behind t), or is in between (t alone, and that is  *)
(* why one word for the answers is enough).                                *)
(***************************************************************************)
EXTENDS WorkerHandshake, FiniteSetTheorems, TLAPS

\* What a worker that has answered the command of the loop may be doing.
HasAnswered(w) ==
  /\ comm[w] = phase /\ old[w] = phase
  /\ worker[w] \in CASE phase = "INIT" -> {"init", "loop", "failed"}
                     [] phase = "WAIT" -> {"loop"}
                     [] phase = "WORK" -> {"working"}

\* The state the loop before has left it in.
Before(w) ==
  CASE phase = "INIT" -> comm[w] = "none" /\ old[w] = "STOP" /\ worker[w] = "absent"
    [] phase = "WAIT" -> comm[w] = "INIT" /\ old[w] = "INIT"
                         /\ worker[w] \in {"init", "loop", "failed"}
    [] phase = "WORK" -> comm[w] = "WAIT" /\ old[w] = "WAIT" /\ worker[w] = "loop"

\* It has been given the command and has not answered.
Asked(w) ==
  /\ comm[w] = phase
  /\ \/ old[w] = phase /\ worker[w] = "heeding"
     \/ CASE phase = "INIT" -> old[w] = "STOP" /\ worker[w] \in {"polling", "loop", "failed"}
          [] phase = "WAIT" -> old[w] = "INIT" /\ worker[w] \in {"init", "loop", "failed"}
          [] phase = "WORK" -> old[w] = "WAIT" /\ worker[w] = "loop"

NoBuffer(w) ==
  phase = "INIT" /\ comm[w] = "INIT" /\ old[w] = "INIT" /\ worker[w] = "null"

\* The worker whose turn it is.
Turn ==
  CASE master = "clear" -> Before(t)
    [] master = "command" -> ack = 0 /\ Before(t)
    [] master = "create" -> /\ phase = "INIT" /\ ack = 0 /\ comm[t] = "INIT"
                            /\ old[t] = "STOP" /\ worker[t] = "absent"
    [] master \in {"spin", "exited", "crashed"} ->
         \/ ack = 0 /\ Asked(t)
         \/ ack = t + 1 /\ HasAnswered(t)
         \/ ack = FAILURE /\ NoBuffer(t)
    [] master = "launched" -> phase = "WORK" /\ t = NumThreads - 1 /\ HasAnswered(t)

HandshakeInv ==
  /\ HandshakeTypeOK
  /\ \A w \in Workers : (w < t => HasAnswered(w)) /\ (w > t => Before(w))
  /\ Turn

USE HandshakeAssumption DEF Workers, Command, FAILURE

-----------------------------------------------------------------------------
\* The inductive step for the master: each of its actions leaves every worker
\* on the side of t it belongs to.
LEMMA MasterStep ==
  ASSUME HandshakeInv, MasterNext
  PROVE  HandshakeInv'
<1> USE DEF HandshakeInv, HandshakeTypeOK
<1>1. CASE Clear
  <2>1. HandshakeTypeOK' /\ master = "clear" /\ master' = "command" /\ ack' = 0
    BY <1>1 DEF Clear
  <2>2. \A w \in Workers : /\ HasAnswered(w)' = HasAnswered(w)
                          /\ Before(w)' = Before(w)
    BY <1>1 DEF Clear, HasAnswered, Before
  <2>3. t' = t
    BY <1>1 DEF Clear
  <2> QED
    BY <2>1, <2>2, <2>3 DEF Turn
<1>2. CASE Give
  BY <1>2 DEF Give, Turn, HasAnswered, Before, Asked
<1>3. CASE Create
  BY <1>3 DEF Create, Turn, HasAnswered, Before, Asked
<1>4. CASE Spin
  BY <1>4 DEF Spin, hvars, Turn, HasAnswered, Before, Asked, NoBuffer
<1>5. CASE GiveUp
  BY <1>5 DEF GiveUp, Answered, Turn, HasAnswered, Before, Asked, NoBuffer
<1>6. CASE NextThread
  <2>1. HandshakeTypeOK' /\ master' = "clear" /\ t' = t + 1
    BY <1>6 DEF NextThread
  <2>2. HasAnswered(t)
    BY <1>6 DEF NextThread, Answered, Turn, NoBuffer
  <2>3. \A w \in Workers : /\ HasAnswered(w)' = HasAnswered(w)
                          /\ Before(w)' = Before(w)
    BY <1>6 DEF NextThread, HasAnswered, Before
  <2>4. \A w \in Workers : (w < t' => HasAnswered(w)') /\ (w >= t' => Before(w)')
    BY <2>1, <2>2, <2>3
  <2>5. Before(t)'
    BY <2>1, <2>4
  <2> QED
    BY <2>1, <2>4, <2>5 DEF Turn
<1>7. CASE NextLoop
  <2>1. HasAnswered(t) /\ t = NumThreads - 1 /\ master = "spin"
    BY <1>7 DEF NextLoop, Answered, Turn, NoBuffer
  <2>2. \A w \in Workers : HasAnswered(w)
    BY <2>1
  <2>3. HandshakeTypeOK'
    BY <1>7 DEF NextLoop, After
  <2>4. CASE phase = "WORK"
    <3>1. master' = "launched" /\ UNCHANGED <<phase, t, comm, worker, old>>
      BY <1>7, <2>4 DEF NextLoop
    <3>2. \A w \in Workers : HasAnswered(w)'
      BY <2>2, <3>1 DEF HasAnswered
    <3> QED
      BY <2>1, <2>3, <2>4, <3>1, <3>2 DEF Turn
  <2>5. CASE phase # "WORK"
    <3>1. /\ master' = "clear" /\ t' = 0 /\ phase' = After(phase)
          /\ UNCHANGED <<comm, worker, old>>
      BY <1>7, <2>5 DEF NextLoop
    <3>2. \A w \in Workers : Before(w)'
      BY <2>2, <2>5, <3>1 DEF HasAnswered, Before, After
    <3>3. Before(t)'
      BY <3>1, <3>2
    <3> QED
      BY <2>3, <3>1, <3>2, <3>3 DEF Turn
  <2> QED
    BY <2>4, <2>5
<1> QED
  BY <1>1, <1>2, <1>3, <1>4, <1>5, <1>6, <1>7 DEF MasterNext

\* A worker that moves has either answered already, and leaves ack alone, or it
\* is the one whose turn it is.
LEMMA WhoMoves ==
  ASSUME HandshakeInv, NEW w \in Workers, WorkerNext(w)
  PROVE  /\ w < t => HasAnswered(w) /\ InitFunction(w)
         /\ w > t => Before(w) /\ InitFunction(w)
         /\ w = t /\ ~InitFunction(w) => master = "spin"
<1> USE DEF HandshakeInv, HandshakeTypeOK, WorkerNext, Poll, Heed, Acknowledge, WriteToNull
<1>1. w < t => HasAnswered(w) /\ InitFunction(w)
  BY DEF HasAnswered
<1>2. w > t => Before(w) /\ InitFunction(w)
  BY DEF Before
<1>3. w = t /\ ~InitFunction(w) => master = "spin"
  BY DEF Turn, Before, HasAnswered
<1> QED
  BY <1>1, <1>2, <1>3

\* The inductive step for a worker: only the one whose turn it is writes ack.
LEMMA WorkerStep ==
  ASSUME HandshakeInv, NEW w \in Workers, WorkerNext(w)
  PROVE  HandshakeInv'
<1> USE DEF HandshakeInv, HandshakeTypeOK
<1>1. CASE InitFunction(w)
  <2>1. /\ UNCHANGED <<master, phase, t, ack, comm, old>>
        /\ worker' \in [Workers -> {"absent", "polling", "init", "null", "loop", "working",
                                    "heeding", "failed"}]
        /\ \A v \in Workers : \/ worker'[v] = worker[v]
                              \/ worker[v] = "init" /\ worker'[v] \in {"loop", "failed"}
    <3>1. /\ worker[w] = "init" /\ UNCHANGED <<master, phase, t, ack, comm, old>>
          /\ \E after \in {"loop", "failed"} : worker' = [worker EXCEPT ![w] = after]
      BY <1>1 DEF InitFunction
    <3>2. PICK after \in {"loop", "failed"} : worker' = [worker EXCEPT ![w] = after]
      BY <3>1
    <3>3. worker' \in [Workers -> {"absent", "polling", "init", "null", "loop", "working",
                                  "heeding", "failed"}]
      BY <3>2
    <3>4. \A v \in Workers : worker'[v] = IF v = w THEN after ELSE worker[v]
      BY <3>2
    <3> QED
      BY <3>1, <3>3, <3>4
  <2>2. HandshakeTypeOK'
    BY <2>1
  <2>3. ASSUME NEW v \in Workers
        PROVE  /\ HasAnswered(v) => HasAnswered(v)'
               /\ Before(v) => Before(v)'
               /\ Asked(v) => Asked(v)'
               /\ NoBuffer(v) => NoBuffer(v)'
               /\ worker[v] = "absent" => worker'[v] = "absent"
    <3>1. HasAnswered(v) => HasAnswered(v)' BY <2>1 DEF HasAnswered
    <3>2. Before(v) => Before(v)' BY <2>1 DEF Before
    <3>3. Asked(v) => Asked(v)' BY <2>1 DEF Asked
    <3>4. NoBuffer(v) => NoBuffer(v)' BY <2>1 DEF NoBuffer
    <3> QED BY <2>1, <3>1, <3>2, <3>3, <3>4
  <2>4. Turn'
    BY <2>1, <2>3 DEF Turn
  <2> QED
    BY <2>1, <2>2, <2>3, <2>4
<1>2. CASE ~InitFunction(w)
  <2>1. w = t /\ master = "spin"
    BY <1>2, WhoMoves
  <2>2. UNCHANGED <<phase, t, comm>>
    BY <1>2 DEF WorkerNext, Poll, Heed, Acknowledge, WriteToNull
  <2>3. \A v \in Workers \ {w} : worker'[v] = worker[v] /\ old'[v] = old[v]
    BY <1>2 DEF WorkerNext, Poll, Heed, Acknowledge, WriteToNull
  <2>4. \A v \in Workers : (v < t' => HasAnswered(v)') /\ (v > t' => Before(v)')
    BY <2>1, <2>2, <2>3 DEF HasAnswered, Before
  <2>5. HandshakeTypeOK' /\ Turn'
    <3>1. CASE Poll(w)
      BY <3>1, <2>1 DEF Poll, Turn, HasAnswered, Asked, NoBuffer
    <3>2. CASE Heed(w)
      BY <3>2, <2>1 DEF Heed, Turn, HasAnswered, Asked, NoBuffer
    <3>3. CASE Acknowledge(w)
      <4>1. ack = 0 /\ Asked(t)
        BY <3>3, <2>1 DEF Acknowledge, Turn, HasAnswered, NoBuffer
      <4>2. old[t] = phase
        BY <3>3, <4>1, <2>1 DEF Acknowledge, Asked
      <4>3. HandshakeTypeOK'
        <5>1. ack' \in Workers \cup {NumThreads, FAILURE}
          BY <3>3 DEF Acknowledge, Answer
        <5>2. worker' \in [Workers -> {"absent", "polling", "loop", "heeding", "init",
                                      "null", "working", "failed"}]
          <6>1. old[w] \in Command
            BY <4>2, <2>1
          <6>2. worker'[w] \in {"init", "loop", "working", "null"}
            BY <6>1, <3>3 DEF Acknowledge
          <6> QED
            BY <6>2, <3>3 DEF Acknowledge
        <5> QED
          BY <5>1, <5>2, <3>3 DEF Acknowledge
      <4>4. \/ ack' = t + 1 /\ HasAnswered(t)'
            \/ ack' = FAILURE /\ NoBuffer(t)'
        BY <3>3, <4>1, <4>2, <2>1 DEF Acknowledge, Answer, Asked, HasAnswered, NoBuffer
      <4> QED
        BY <3>3, <4>3, <4>4, <2>1 DEF Acknowledge, Turn
    <3>4. CASE WriteToNull(w)
      BY <3>4, <2>1 DEF WriteToNull, Turn, HasAnswered, Asked, NoBuffer
    <3> QED
      BY <1>2, <3>1, <3>2, <3>3, <3>4 DEF WorkerNext
  <2> QED
    BY <2>4, <2>5
<1> QED
  BY <1>1, <1>2

THEOREM StartUpInvariant == HandshakeSpec => []HandshakeInv
<1>1. HandshakeInit => HandshakeInv
  BY DEF HandshakeInit, HandshakeInv, HandshakeTypeOK, Turn, Before
<1>2. HandshakeInv /\ [HandshakeNext]_hvars => HandshakeInv'
  <2> SUFFICES ASSUME HandshakeInv, [HandshakeNext]_hvars PROVE HandshakeInv'
    OBVIOUS
  <2>1. CASE MasterNext
    BY <2>1, MasterStep
  <2>2. CASE \E w \in Workers : WorkerNext(w)
    BY <2>2, WorkerStep
  <2>3. CASE UNCHANGED hvars
    BY <2>3 DEF hvars, HandshakeInv, HandshakeTypeOK, Turn, HasAnswered, Before,
                Asked, NoBuffer
  <2> QED
    BY <2>1, <2>2, <2>3 DEF HandshakeNext
<1> QED
  BY <1>1, <1>2, PTL DEF HandshakeSpec

-----------------------------------------------------------------------------
\* Where a worker may be: it has answered, has not been asked, or is the one
\* whose turn it is.
LEMMA Situations ==
  ASSUME HandshakeInv, NEW w \in Workers
  PROVE  \/ HasAnswered(w) \/ Before(w) \/ Asked(w) \/ NoBuffer(w)
         \/ phase = "INIT" /\ old[w] = "STOP" /\ worker[w] = "absent"
<1>1. CASE w = t
  BY <1>1 DEF HandshakeInv, HandshakeTypeOK, Turn
<1>2. CASE w # t
  BY <1>2 DEF HandshakeInv, HandshakeTypeOK
<1> QED
  BY <1>1, <1>2

\* No worker loads the processor before the last one has come back from its
\* init function, for any number of threads.
THEOREM BarrierBeforeWork == HandshakeSpec => []AllInitialisedBeforeWork
<1>1. HandshakeInv => AllInitialisedBeforeWork
  <2> SUFFICES ASSUME HandshakeInv, NEW v \in Workers, NEW w \in Workers,
                      worker[v] = "working"
               PROVE  /\ old[w] \in {"WAIT", "WORK"}
                      /\ worker[w] \notin {"null", "failed"}
    BY DEF AllInitialisedBeforeWork
  <2>1. phase \in Command
    BY DEF HandshakeInv, HandshakeTypeOK
  <2>2. phase = "WORK"
    BY <2>1, Situations DEF HasAnswered, Before, Asked, NoBuffer
  <2> QED
    BY <2>2, Situations DEF HasAnswered, Before, Asked, NoBuffer
<1> QED
  BY <1>1, StartUpInvariant, PTL

-----------------------------------------------------------------------------
(* The refinement.                                                         *)

\* The answers of the workers that have answered, and of the others.
LEMMA AnswersCounted ==
  ASSUME HandshakeInv, NEW w \in Workers
  PROVE  /\ HasAnswered(w) => Answers(w) = Rank(phase)
         /\ Before(w) => Answers(w) = Rank(phase) - 1
         /\ Asked(w) => Answers(w) = Rank(phase) - 1
         /\ NoBuffer(w) => Answers(w) = Rank(phase)
         /\ Rank(phase) \in 1 .. 3
<1>1. phase \in Command
  BY DEF HandshakeInv, HandshakeTypeOK
<1>2. CASE phase = "INIT"
  BY <1>2 DEF HasAnswered, Before, Asked, NoBuffer, Answers, Rank
<1>3. CASE phase = "WAIT"
  BY <1>3 DEF HasAnswered, Before, Asked, NoBuffer, Answers, Rank
<1>4. CASE phase = "WORK"
  BY <1>4 DEF HasAnswered, Before, Asked, NoBuffer, Answers, Rank
<1> QED
  BY <1>1, <1>2, <1>3, <1>4

\* A step of the start-up is a step of LockStep or leaves the answers alone.
LEMMA RefinesLockStep ==
  ASSUME HandshakeInv, HandshakeInv', [HandshakeNext]_hvars
  PROVE  [Promise!Next]_([w \in Workers |-> Answers(w)])
<1> DEFINE stage == [w \in Workers |-> Answers(w)]
           same == \A w \in Workers : Answers(w)' = Answers(w)
<1>1. same => stage' = stage
  OBVIOUS
<1>2. CASE MasterNext \/ UNCHANGED hvars
  <2>1. old' = old
    BY <1>2 DEF MasterNext, Clear, Give, Create, Spin, GiveUp, NextThread, NextLoop, hvars
  <2>2. \A w \in Workers : worker'[w] = "heeding" <=> worker[w] = "heeding"
    BY <1>2 DEF MasterNext, Clear, Give, Create, Spin, GiveUp, NextThread, NextLoop, hvars,
                HandshakeInv, HandshakeTypeOK, Turn
  <2> QED
    BY <1>1, <2>1, <2>2 DEF Answers
<1>3. ASSUME NEW w \in Workers, WorkerNext(w)
      PROVE  [Promise!Next]_stage
  <2>1. \A v \in Workers \ {w} : Answers(v)' = Answers(v)
    BY <1>3 DEF WorkerNext, Poll, Heed, Acknowledge, InitFunction, WriteToNull, Answers,
                HandshakeInv, HandshakeTypeOK
  <2>2. CASE Poll(w) \/ InitFunction(w) \/ WriteToNull(w)
    <3>1. old' = old /\ worker[w] # "heeding" /\ worker'[w] # "heeding"
      BY <2>2 DEF Poll, InitFunction, WriteToNull, HandshakeInv, HandshakeTypeOK
    <3>2. Answers(w)' = Answers(w)
      BY <3>1 DEF Answers
    <3> QED
      BY <1>1, <2>1, <3>2
  <2>3. CASE ~InitFunction(w) /\ (Heed(w) \/ Acknowledge(w))
    <3>1. w = t /\ master = "spin"
      BY <1>3, <2>3, WhoMoves DEF HandshakeInv, HandshakeTypeOK
    <3>2. Asked(t) /\ phase' = phase
      BY <2>3, <3>1 DEF Heed, Acknowledge, HandshakeInv, HandshakeTypeOK, Turn,
                        HasAnswered, NoBuffer
    <3>3. CASE Heed(w)
      <4>1. worker'[t] = "heeding" /\ old'[t] = phase
        BY <3>1, <3>2, <3>3 DEF Heed, Asked, HandshakeInv, HandshakeTypeOK
      <4>2. Answers(w)' = Rank(phase) - 1
        BY <3>1, <4>1 DEF Answers, Rank
      <4>3. Answers(w) = Rank(phase) - 1
        BY <3>1, <3>2, AnswersCounted
      <4>4. same
        BY <2>1, <4>2, <4>3
      <4> QED
        BY <1>1, <4>4
    <3>4. CASE Acknowledge(w)
      <4>1. Answers(w)' = Answers(w) + 1
        <5>1. worker[w] = "heeding" /\ old[w] = phase /\ old' = old
          BY <3>1, <3>2, <3>4 DEF Acknowledge, Asked, HandshakeInv, HandshakeTypeOK
        <5>2. worker'[w] # "heeding"
          BY <5>1, <3>4 DEF Acknowledge, HandshakeInv, HandshakeTypeOK
        <5>3. Answers(w)' = Rank(old[w])
          BY <5>1, <5>2 DEF Answers, Rank
        <5>4. Answers(w) = Rank(old[w]) - 1 /\ Rank(old[w]) \in 1 .. 3
          BY <5>1, AnswersCounted DEF Answers
        <5> QED
          BY <5>3, <5>4
      <4>2. Answers(t) = Rank(phase) - 1 /\ Rank(phase) \in 1 .. 3
        BY <3>1, <3>2, AnswersCounted
      <4>3. \A v \in Workers :
              Answers(v) = IF v < t THEN Answers(t) + 1 ELSE Answers(t)
        BY <3>1, <4>2, AnswersCounted DEF HandshakeInv, HandshakeTypeOK
      <4>4. stage' = [stage EXCEPT ![w] = @ + 1]
        <5>1. \A v \in Workers :
                Answers(v)' = IF v = w THEN Answers(w) + 1 ELSE Answers(v)
          BY <2>1, <4>1
        <5> QED
          BY <5>1
      <4>5. Promise!Advance(w)
        BY <3>1, <4>2, <4>3, <4>4 DEF Promise!Advance
      <4> QED
        BY <4>5 DEF Promise!Next
    <3> QED
      BY <2>3, <3>3, <3>4
  <2> QED
    BY <1>3, <2>2, <2>3 DEF WorkerNext
<1> QED
  BY <1>2, <1>3 DEF HandshakeNext

\* For any number of threads the start-up implements LockStep.
THEOREM KeepsLockStep == HandshakeSpec => ImplementsLockStep
<1>1. HandshakeInit => Promise!Init
  BY DEF HandshakeInit, Promise!Init, Answers, Rank
<1> QED
  BY <1>1, RefinesLockStep, StartUpInvariant, PTL
     DEF HandshakeSpec, ImplementsLockStep, Promise!Spec

-----------------------------------------------------------------------------
(* The start-up ends, unless a thread is missing.                          *)

\* The master never spins on an answer that nobody is about to give: for any
\* number of threads the only thread it may wait for in vain is one that was
\* not created, or has left its init function with an error.
THEOREM NoAnswerIsLost == HandshakeSpec => []AnswerIsComing
<1>1. HandshakeInv => AnswerIsComing
  <2> SUFFICES ASSUME HandshakeInv, master = "spin", ack = 0
               PROVE  CanMove(t) \/ worker[t] = "failed"
    BY DEF AnswerIsComing, Answered
  <2>1. Asked(t) /\ phase \in Command /\ t \in Workers
    BY DEF HandshakeInv, HandshakeTypeOK, Turn
  <2> QED
    BY <2>1 DEF Asked, CanMove
<1> QED
  BY <1>1, StartUpInvariant, PTL

LEMMA StartUpLeftDescends ==
  ASSUME HandshakeInv, HandshakeInv',
         \/ LoopsLeft' < LoopsLeft
         \/ /\ LoopsLeft' = LoopsLeft
            /\ \/ t < t'
               \/ /\ t' = t
                  /\ \/ AnswerLeft' < AnswerLeft
                     \/ /\ AnswerLeft' = AnswerLeft
                        /\ Cardinality(Initialising)' < Cardinality(Initialising)
  PROVE  Descends(4, StartUpLeft, StartUpLeft')
<1> DEFINE c == Cardinality(Initialising)
           n == NumThreads - t
<1>1. c \in Nat /\ c' \in Nat
  <2>1. IsFiniteSet(Workers)
    BY FS_Interval
  <2>2. IsFiniteSet(Initialising) /\ IsFiniteSet(Initialising')
    BY <2>1, FS_Subset DEF Initialising
  <2> QED
    BY <2>2, FS_CardinalityType
<1>2. /\ LoopsLeft \in Nat /\ LoopsLeft' \in Nat
      /\ AnswerLeft \in Nat /\ AnswerLeft' \in Nat
  <2>1. phase \in Command /\ phase' \in Command
    BY DEF HandshakeInv, HandshakeTypeOK
  <2> QED
    BY <2>1 DEF LoopsLeft, AnswerLeft
<1>3. t \in Workers /\ t' \in Workers /\ NumThreads \in Nat
  BY DEF HandshakeInv, HandshakeTypeOK
<1>4. n \in Nat /\ n' \in Nat /\ (t < t' => n' < n) /\ (t' = t => n' = n)
  <2>1. n = NumThreads - t /\ n' = NumThreads - t'
    OBVIOUS
  <2>2. \A x, y \in Workers : /\ NumThreads - x \in Nat
                              /\ x < y => NumThreads - y < NumThreads - x
    BY <1>3
  <2> HIDE DEF n
  <2> QED
    BY <1>3, <2>1, <2>2
<1>5. /\ StartUpLeft = <<LoopsLeft, n, AnswerLeft, c>>
      /\ StartUpLeft' = <<LoopsLeft', n', AnswerLeft', c'>>
  BY DEF StartUpLeft
<1> HIDE DEF c, n
<1>6. {StartUpLeft, StartUpLeft'} \subseteq Measures(4)
  BY <1>1, <1>2, <1>4, <1>5 DEF Measures
<1>7. \E m \in 1 .. 4 : /\ StartUpLeft'[m] < StartUpLeft[m]
                       /\ \A l \in 1 .. m - 1 : StartUpLeft'[l] = StartUpLeft[l]
  <2>1. /\ StartUpLeft[1] = LoopsLeft /\ StartUpLeft[2] = n
        /\ StartUpLeft[3] = AnswerLeft /\ StartUpLeft[4] = c
        /\ StartUpLeft'[1] = LoopsLeft' /\ StartUpLeft'[2] = n'
        /\ StartUpLeft'[3] = AnswerLeft' /\ StartUpLeft'[4] = c'
    BY <1>5
  <2>2. CASE LoopsLeft' < LoopsLeft
    BY <2>1, <2>2
  <2>3. CASE LoopsLeft' = LoopsLeft /\ n' < n
    BY <2>1, <2>3
  <2>4. CASE LoopsLeft' = LoopsLeft /\ n' = n /\ AnswerLeft' < AnswerLeft
    <3>1. \A l \in 1 .. 3 - 1 : l = 1 \/ l = 2
      OBVIOUS
    <3> QED
      BY <2>1, <2>4, <3>1
  <2>5. CASE LoopsLeft' = LoopsLeft /\ n' = n /\ AnswerLeft' = AnswerLeft /\ c' < c
    <3>1. \A l \in 1 .. 4 - 1 : l = 1 \/ l = 2 \/ l = 3
      OBVIOUS
    <3> QED
      BY <2>1, <2>5, <3>1
  <2> QED
    BY <1>4, <2>2, <2>3, <2>4, <2>5 DEF c
<1> QED
  BY <1>6, <1>7 DEF Descends

\* The master's steps: its loops, their threads, and the way to an answer.
LEMMA MasterDescends ==
  ASSUME HandshakeInv, HandshakeInv', MasterNext, ~Spin
  PROVE  Descends(4, StartUpLeft, StartUpLeft')
<1>1. phase \in Command /\ t \in Workers
  BY DEF HandshakeInv, HandshakeTypeOK
<1>2. CASE Clear
  <2>1. master = "clear" /\ master' = "command" /\ UNCHANGED <<phase, t>>
    BY <1>2 DEF Clear
  <2>2. LoopsLeft' = LoopsLeft /\ AnswerLeft' < AnswerLeft
    BY <1>1, <2>1 DEF LoopsLeft, AnswerLeft
  <2> QED
    BY <2>1, <2>2, StartUpLeftDescends
<1>3. CASE Give
  <2>1. master = "command" /\ master' \in {"create", "spin"} /\ UNCHANGED <<phase, t>>
    BY <1>3 DEF Give
  <2>2. LoopsLeft' = LoopsLeft
    BY <1>1, <2>1 DEF LoopsLeft
  <2>3. AnswerLeft = 6 /\ AnswerLeft' < 6
    BY <2>1 DEF AnswerLeft
  <2> QED
    BY <2>1, <2>2, <2>3, StartUpLeftDescends
<1>4. CASE Create
  <2>1. master = "create" /\ master' = "spin" /\ UNCHANGED <<phase, t>>
    BY <1>4 DEF Create
  <2>2. LoopsLeft' = LoopsLeft
    BY <1>1, <2>1 DEF LoopsLeft
  <2>3. AnswerLeft = 5 /\ AnswerLeft' < 5
    BY <2>1 DEF AnswerLeft
  <2> QED
    BY <2>1, <2>2, <2>3, StartUpLeftDescends
<1>5. CASE GiveUp
  <2>1. master = "spin" /\ master' = "exited"
    BY <1>5 DEF GiveUp
  <2>2. LoopsLeft' < LoopsLeft
    BY <1>1, <2>1 DEF LoopsLeft
  <2> QED
    BY <2>2, StartUpLeftDescends
<1>6. CASE NextThread
  <2>1. master = "spin" /\ master' = "clear" /\ t' = t + 1 /\ phase' = phase
    BY <1>6 DEF NextThread
  <2>2. LoopsLeft' = LoopsLeft /\ t < t'
    BY <1>1, <2>1 DEF LoopsLeft
  <2> QED
    BY <2>2, StartUpLeftDescends
<1>7. CASE NextLoop
  <2>1. /\ master = "spin"
        /\ \/ phase = "WORK" /\ master' = "launched"
           \/ phase # "WORK" /\ master' = "clear" /\ phase' = After(phase)
    BY <1>7 DEF NextLoop
  <2>2. LoopsLeft' < LoopsLeft
    BY <1>1, <2>1 DEF LoopsLeft, After
  <2> QED
    BY <2>2, StartUpLeftDescends
<1> QED
  BY <1>2, <1>3, <1>4, <1>5, <1>6, <1>7 DEF MasterNext

\* The end of an init function, which may come at any time.
LEMMA InitDescends ==
  ASSUME HandshakeInv, HandshakeInv', NEW w \in Workers, InitFunction(w)
  PROVE  Descends(4, StartUpLeft, StartUpLeft')
<1>1. /\ worker[w] = "init" /\ UNCHANGED <<master, phase, t, ack>>
      /\ \E after \in {"loop", "failed"} : worker' = [worker EXCEPT ![w] = after]
  BY DEF InitFunction
<1>2. PICK after \in {"loop", "failed"} : worker' = [worker EXCEPT ![w] = after]
  BY <1>1
<1>3. \A v \in Workers : worker'[v] = IF v = w THEN after ELSE worker[v]
  BY <1>2 DEF HandshakeInv, HandshakeTypeOK
<1>4. LoopsLeft' = LoopsLeft
  BY <1>1 DEF LoopsLeft
<1>5. AnswerLeft' <= AnswerLeft /\ AnswerLeft \in Nat /\ AnswerLeft' \in Nat
  <2>1. t \in Workers
    BY DEF HandshakeInv, HandshakeTypeOK
  <2>2. worker'[t] = worker[t] \/ (worker[t] = "init" /\ worker'[t] \in {"loop", "failed"})
    BY <1>1, <1>3, <2>1
  <2> QED
    BY <1>1, <2>2 DEF AnswerLeft, Answered
<1>6. Cardinality(Initialising)' < Cardinality(Initialising)
  <2>1. Initialising' = Initialising \ {w} /\ w \in Initialising
    BY <1>1, <1>3 DEF Initialising
  <2>2. IsFiniteSet(Initialising)
    <3>1. IsFiniteSet(Workers)
      BY FS_Interval
    <3> QED
      BY <3>1, FS_Subset DEF Initialising
  <2>3. Cardinality(Initialising \ {w}) = Cardinality(Initialising) - 1
    BY <2>1, <2>2, FS_RemoveElement
  <2>4. Cardinality(Initialising) \in Nat
    BY <2>2, FS_CardinalityType
  <2> QED
    BY <2>1, <2>3, <2>4
<1> QED
  BY <1>1, <1>4, <1>5, <1>6, StartUpLeftDescends

\* The other steps of a worker, all of them on the way to the answer the master
\* is spinning on, but the one that ends the process.
LEMMA WorkerDescends ==
  ASSUME HandshakeInv, HandshakeInv', NEW w \in Workers, WorkerNext(w), ~InitFunction(w)
  PROVE  Descends(4, StartUpLeft, StartUpLeft')
<1>1. w = t /\ master = "spin" /\ phase \in Command
  BY WhoMoves DEF HandshakeInv, HandshakeTypeOK
<1>2. CASE WriteToNull(w)
  <2>1. master' = "crashed"
    BY <1>2 DEF WriteToNull
  <2>2. LoopsLeft' < LoopsLeft
    BY <1>1, <2>1 DEF LoopsLeft
  <2> QED
    BY <2>2, StartUpLeftDescends
<1>3. CASE ~WriteToNull(w)
  <2>1. UNCHANGED <<master, phase, t>>
    BY <1>3 DEF WorkerNext, Poll, Heed, Acknowledge
  <2>2. LoopsLeft' = LoopsLeft
    BY <1>1, <2>1 DEF LoopsLeft
  <2>3. ack = 0 /\ Asked(t)
    BY <1>1, <1>3 DEF WorkerNext, Poll, Heed, Acknowledge, HandshakeInv, HandshakeTypeOK, Turn,
                      HasAnswered, NoBuffer
  <2>4. worker \in [Workers -> {"absent", "polling", "loop", "heeding", "init", "null",
                                "working", "failed"}]
    BY DEF HandshakeInv, HandshakeTypeOK
  <2>5. AnswerLeft' < AnswerLeft
    <3>1. CASE Poll(w)
      <4>1. worker[t] = "polling" /\ worker'[t] = "loop" /\ ack' = ack
        BY <1>1, <2>4, <3>1 DEF Poll
      <4> QED
        BY <1>1, <2>1, <2>3, <4>1 DEF AnswerLeft, Answered
    <3>2. CASE Heed(w)
      <4>1. worker[t] = "loop" /\ worker'[t] = "heeding" /\ ack' = ack
        BY <1>1, <2>4, <3>2 DEF Heed
      <4> QED
        BY <1>1, <2>1, <2>3, <4>1 DEF AnswerLeft, Answered
    <3>3. CASE Acknowledge(w)
      <4>1. worker[t] = "heeding" /\ ack' # 0
        BY <1>1, <3>3 DEF Acknowledge, Answer
      <4> QED
        BY <1>1, <2>1, <2>3, <4>1 DEF AnswerLeft, Answered
    <3> QED
      BY <1>3, <3>1, <3>2, <3>3 DEF WorkerNext
  <2> QED
    BY <2>1, <2>2, <2>5, StartUpLeftDescends
<1> QED
  BY <1>2, <1>3

\* For any number of threads every step of the start-up but the spinning gets
\* on, so that it takes finitely many of them.
THEOREM EachStepGetsOn == HandshakeSpec => StartUpGetsOn
<1>1. HandshakeInv /\ HandshakeInv' /\ [HandshakeNext]_hvars
      => [Descends(4, StartUpLeft, StartUpLeft')]_hvars
  <2> SUFFICES ASSUME HandshakeInv, HandshakeInv', HandshakeNext, hvars' # hvars
               PROVE  Descends(4, StartUpLeft, StartUpLeft')
    OBVIOUS
  <2>1. ~Spin
    BY DEF Spin
  <2>2. CASE MasterNext
    BY <2>1, <2>2, MasterDescends
  <2>3. ASSUME NEW w \in Workers, WorkerNext(w)
        PROVE  Descends(4, StartUpLeft, StartUpLeft')
    BY <2>3, InitDescends, WorkerDescends
  <2> QED
    BY <2>2, <2>3 DEF HandshakeNext
<1> QED
  BY <1>1, StartUpInvariant, PTL DEF HandshakeSpec, StartUpGetsOn

=============================================================================
