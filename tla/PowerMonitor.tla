---------------------------- MODULE PowerMonitor ----------------------------
(***************************************************************************)
(* The energy monitor of Tools/Power: one process that reads the RAPL      *)
(* energy registers around the run of a command.                           *)
(*                                                                         *)
(* Three things run at once.  The hardware advances the registers.  The    *)
(* main program runs run_command (main.c) with rapl_init and rapl_finalize *)
(* (rapl_monitor.c).  A POSIX timer sends the process SIGUSR1, whose       *)
(* handler runs rapl_refresh on the same struct PowerState: the handler    *)
(* preempts the main program between any two of its accesses to the        *)
(* structure, and the main program stands still while it runs.  A terminal *)
(* may send SIGINT and SIGQUIT to the process and to the command.          *)
(*                                                                         *)
(* An instant is identified with the energy counted up to it: start and    *)
(* end, the two gettimeofday results, hold the counters at those instants. *)
(***************************************************************************)
EXTENDS RaplArithmetic

CONSTANTS
  MaxPkg, MaxPp0,   \* bound: energy counted per domain before the last waits
  MaxReads,         \* bound: reads a waiting loop of rapl_finalize counts
  MaxPower,         \* bound: the timer is quiet once more has been summed up
  BadReads,         \* what an MSR read that fails may leave in its result
  Booted,           \* what a register may hold when the monitor starts
  Intervals,        \* values of -i (seconds) the monitor may be started with
  Dispositions      \* signal dispositions the parent may have left

ASSUME BoundAssumption ==
  /\ MaxPkg \in Nat /\ MaxPp0 \in Nat /\ MaxPower \in Nat
  /\ MaxReads \in Nat /\ MaxReads >= 3
  /\ BadReads \subseteq 0 .. WordMod - 1
  /\ Booted \subseteq 0 .. RegMod - 1
  /\ Intervals \subseteq Int /\ Dispositions \subseteq {"default", "ignore"}

Domain == {"pkg", "pp0"}
Snapshot == {"init", "pre", "post", "exit"}
Signal == {"INT", "QUIT"}
Disposition == {"default", "ignore"}
ZeroEnergy == [d \in Domain |-> 0]

VARIABLES
  energy,      \* what each domain has consumed: the registers without wrap
  pc,          \* the statement the main program executes next
  hpc,         \* the same for the SIGUSR1 handler, "idle" when it is not on
  reg,         \* pstate->pkg_reg_value, pstate->pp0_reg_value
  pwr,         \* pstate->pkg_pwr, pstate->pp0_pwr, in energy units
  first, tmp,  \* rapl_init: initial_value, and a reading not yet stored
  snap,        \* rapl_finalize: pkg_init, pp0_init, pkg_pre, ...
  caseReads, testReads,
  loaded,      \* operands of the += in rapl_finalize already in registers
  sum, add,    \* those operands: the old pkg_pwr and the increment
  hInit, hPkg, \* rapl_refresh: pkg_reg_init, pp0_reg_init; pkg_reg_curr
  stderr,      \* what has been printed there: "misread" for "Screwed up rapl
               \* read!!", "wrapped" for "Wrap around detected!"
  interval,    \* args->interval
  armed, pending,  \* the timer is running; SIGUSR1 is pending
  child,       \* the command
  inherited,   \* dispositions of SIGINT and SIGQUIT the process started with
  disp,        \* their current dispositions
  sigchld,     \* the disposition of SIGCHLD the process started with
  start, end,  \* res->start and res->end
  shown,       \* what summarize has printed
  begin,       \* history: the registers as rapl_init left them
  disturbed    \* history: a refresh has run inside rapl_init or rapl_finalize

pstate == <<reg, pwr>>
initFrame == <<first, tmp>>
reads == <<caseReads, testReads>>
operands == <<loaded, sum, add>>
frames == <<initFrame, snap, reads, operands>>
refresher == <<hpc, hInit, hPkg, pending>>
handler == <<refresher, stderr>>
config == <<interval, inherited, sigchld>>
process == <<armed, child, disp, config>>
history == <<begin, disturbed>>
records == <<start, end, shown, history>>

vars == <<energy, pc, pstate, frames, handler, process, records>>

Terminal == {"exit", "failed", "killed"}
Alive == pc \notin Terminal

\* rapl_init from the first statement after which a refresh leaves a trace.
InsideInit == {"zeroPp0", "first", "readPkg", "storePkg", "readPp0",
               "storePp0", "test"}

\* rapl_finalize from the first use of a value a refresh can make stale.
InsideFinalize == {"keepPp0", "prePkg", "prePp0", "spinCase", "postPkg",
                   "postPp0", "spinTest", "exitPkg", "exitPp0", "estPkg",
                   "estPp0", "addPkg", "addPp0"}

\* From the return of rapl_init to the call of rapl_finalize.
Metering == {"start", "fork", "ignoreInt", "ignoreQuit", "wait", "end",
             "keepPkg"}

\* The main program after resuse_end has captured its metrics (main.c:152).
Captured == {"restoreInt", "restoreQuit", "sumEnergy", "sumPower", "exit"}

Location == {"open", "arm", "units", "zeroPkg", "failed", "killed"}
            \cup InsideInit \cup Metering \cup InsideFinalize \cup Captured

-----------------------------------------------------------------------------
(* The hardware.                                                           *)

\* Mutated: the register is not implemented.
RegisterUnimplemented(d) == 0

\* What an energy status register holds.
Register(d) == energy[d] % RegMod


\* What read_msr may return for it: what pread has read or, after a complaint,
\* what its uninitialized local happens to hold.
Reading(d) ==
  [value : {Register(d)}, said : {{}}]
    \cup [value : BadReads, said : {{"misread"}}]

\* fprintf(stderr, ...)
Says(messages) == stderr' = stderr \cup messages

MaxEnergy(d) == IF d = "pkg" THEN MaxPkg ELSE MaxPp0

\* A loop of the program waits for the package register to change.
Awaited(d) ==
  /\ d = "pkg"
  /\ \/ /\ pc \in InsideInit \ {"zeroPp0", "first"}
        /\ energy[d] % RegMod = first
     \/ pc = "spinCase" /\ energy[d] % RegMod = snap["pre"][d]
     \/ pc = "spinTest" /\ energy[d] % RegMod = snap["post"][d]

\* A domain consumes one unit.  Past the bound the counter advances only
\* while the program waits for it, so that no wait is cut off by the bound.
\* What the hardware does after the process is gone is left out.
Tick(d) ==
  /\ Alive
  /\ energy[d] < MaxEnergy(d) \/ Awaited(d)
  /\ energy' = [energy EXCEPT ![d] = @ + 1]
  /\ UNCHANGED <<pc, pstate, frames, handler, process, records>>

-----------------------------------------------------------------------------
(* The main program: run_command and resuse_start.                         *)

\* The main program moves on; it cannot while the handler runs.
Goto(from, to) ==
  /\ pc = from
  /\ hpc = "idle"
  /\ pc' = to

OpenMsr ==
  /\ Goto("open", "arm") \/ Goto("open", "failed")
  /\ UNCHANGED <<energy, pstate, frames, handler, process, records>>

\* Mutated: the timer is armed for a negative interval as well.
ArmTimerAnySign ==
  /\ \/ Goto("arm", "units") /\ armed' = (interval # 0)
     \/ Goto("arm", "failed") /\ UNCHANGED armed
  /\ UNCHANGED <<energy, pstate, frames, handler, child, disp, config, records>>

\* sigaction, timer_create and timer_settime.  The last one's result is not
\* looked at: it disarms the timer for 0 and rejects a negative interval.
ArmTimer ==
  /\ \/ Goto("arm", "units") /\ armed' = (interval > 0)
     \/ Goto("arm", "failed") /\ UNCHANGED armed
  /\ UNCHANGED <<energy, pstate, frames, handler, child, disp, config, records>>

(* rapl_init.                                                              *)

\* The units scale what is reported: a read of them that fails is as good as
\* any, but for what it prints.
ReadUnits ==
  /\ Goto("units", "zeroPkg")
  /\ Says({}) \/ (BadReads # {} /\ Says({"misread"}))
  /\ UNCHANGED <<energy, pstate, frames, refresher, process, records>>

ZeroPower(d) ==
  /\ CASE d = "pkg" -> Goto("zeroPkg", "zeroPp0")
       [] d = "pp0" -> Goto("zeroPp0", "first")
  /\ pwr' = [pwr EXCEPT ![d] = 0]
  /\ UNCHANGED <<energy, reg, frames, handler, process, records>>

ReadFirst ==
  /\ Goto("first", "readPkg")
  /\ \E r \in Reading("pkg") : first' = r.value /\ Says(r.said)
  /\ UNCHANGED <<energy, pstate, tmp, snap, reads, operands, refresher,
                 process, records>>

InitRead(d) ==
  /\ CASE d = "pkg" -> Goto("readPkg", "storePkg")
       [] d = "pp0" -> Goto("readPp0", "storePp0")
  /\ \E r \in Reading(d) : tmp' = r.value /\ Says(r.said)
  /\ UNCHANGED <<energy, pstate, first, snap, reads, operands, refresher,
                 process, records>>

InitStore(d) ==
  /\ CASE d = "pkg" -> Goto("storePkg", "readPp0")
       [] d = "pp0" -> Goto("storePp0", "test")
  /\ reg' = [reg EXCEPT ![d] = tmp]
  /\ UNCHANGED <<energy, pwr, frames, handler, process, records>>

\* while (pstate->pkg_reg_value == initial_value)
TestFresh ==
  /\ \/ /\ reg["pkg"] = first
        /\ Goto("test", "readPkg")
        /\ UNCHANGED <<initFrame, begin>>
     \/ /\ reg["pkg"] # first
        /\ Goto("test", "start")
        /\ first' = 0 /\ tmp' = 0      \* the frame is popped
        /\ begin' = reg
  /\ UNCHANGED <<energy, pstate, snap, reads, operands, handler, process, start,
                 end, shown, disturbed>>

RecordStart ==
  /\ Goto("start", "fork")
  /\ start' = energy
  /\ UNCHANGED <<energy, pstate, frames, handler, process, end, shown, history>>

Fork ==
  /\ \/ Goto("fork", "failed") /\ UNCHANGED child
     \/ Goto("fork", "ignoreInt") /\ child' = "forked"
  /\ UNCHANGED <<energy, pstate, frames, handler, armed, disp, config, records>>

\* Mutated: SIGINT keeps its disposition.
IgnoreQuitOnly(s) ==
  /\ CASE s = "INT"  -> Goto("ignoreInt", "ignoreQuit")
       [] s = "QUIT" -> Goto("ignoreQuit", "wait")
  /\ disp' = [disp EXCEPT !["QUIT"] = "ignore"]
  /\ UNCHANGED <<energy, pstate, frames, handler, armed, child, config, records>>

\* signal(SIGINT, SIG_IGN) and signal(SIGQUIT, SIG_IGN) before resuse_end.
IgnoreSignal(s) ==
  /\ CASE s = "INT"  -> Goto("ignoreInt", "ignoreQuit")
       [] s = "QUIT" -> Goto("ignoreQuit", "wait")
  /\ disp' = [disp EXCEPT ![s] = "ignore"]
  /\ UNCHANGED <<energy, pstate, frames, handler, armed, child, config, records>>

\* Mutated: wait3 with WNOHANG, whose result 0 ends the loop.
WaitNoHang ==
  /\ Goto("wait", "end")
  /\ child' = IF child = "zombie" THEN "reaped" ELSE child
  /\ UNCHANGED <<energy, pstate, frames, handler, armed, disp, config, records>>

\* wait3 returns the command's pid.  When a signal interrupts it, it returns
\* -1 and the loop calls it again, which changes nothing.
Wait ==
  /\ child = "zombie"
  /\ Goto("wait", "end")
  /\ child' = "reaped"
  /\ UNCHANGED <<energy, pstate, frames, handler, armed, disp, config, records>>

\* With SIGCHLD ignored there is never a child to reap: wait3 fails with
\* ECHILD once the command has ended, and the loop spins for ever.
WaitFails ==
  /\ child = "vanished"
  /\ Goto("wait", "wait")
  /\ UNCHANGED vars

RecordEnd ==
  /\ Goto("end", "keepPkg")
  /\ end' = energy
  /\ UNCHANGED <<energy, pstate, frames, handler, process, start, shown, history>>

-----------------------------------------------------------------------------
(* The main program: rapl_finalize.  "TODO disable signal" is not done: a  *)
(* refresh may run between any two of these actions.                       *)

\* A const local of rapl_finalize set from the structure.
Keep(d) ==
  /\ CASE d = "pkg" -> Goto("keepPkg", "keepPp0")
       [] d = "pp0" -> Goto("keepPp0", "prePkg")
  /\ snap' = [snap EXCEPT !["init"][d] = reg[d]]
  /\ UNCHANGED <<energy, pstate, initFrame, reads, operands, handler, process,
                 records>>

\* A const local of rapl_finalize set from a register.
ReadInto(at, slot, d, to) ==
  /\ Goto(at, to)
  /\ \E r \in Reading(d) :
       snap' = [snap EXCEPT ![slot][d] = r.value] /\ Says(r.said)
  /\ UNCHANGED <<energy, pstate, initFrame, reads, operands, refresher,
                 process, records>>

FinalizeReads ==
  \/ ReadInto("prePkg", "pre", "pkg", "prePp0")
  \/ ReadInto("prePp0", "pre", "pp0", "spinCase")
  \/ ReadInto("postPkg", "post", "pkg", "postPp0")
  \/ ReadInto("postPp0", "post", "pp0", "spinTest")
  \/ ReadInto("exitPkg", "exit", "pkg", "exitPp0")
  \/ ReadInto("exitPp0", "exit", "pp0", "estPkg")

\* Counting stops at MaxReads: a bound of the model, not of the program.
Counted(n) == IF n < MaxReads THEN n + 1 ELSE n

\* while (read_msr(...) == pkg_pre) ++case_reads
SpinCase ==
  /\ \E r \in Reading("pkg") :
       /\ Says(r.said)
       /\ IF r.value = snap["pre"]["pkg"]
          THEN Goto("spinCase", "spinCase") /\ caseReads' = Counted(caseReads)
          ELSE Goto("spinCase", "postPkg") /\ UNCHANGED caseReads
  /\ UNCHANGED <<energy, pstate, initFrame, snap, testReads, operands, refresher,
                 process, records>>

\* while (read_msr(...) == pkg_post) ++test_reads
SpinTest ==
  /\ \E r \in Reading("pkg") :
       /\ Says(r.said)
       /\ IF r.value = snap["post"]["pkg"]
          THEN Goto("spinTest", "spinTest") /\ testReads' = Counted(testReads)
          ELSE Goto("spinTest", "exitPkg") /\ UNCHANGED testReads
  /\ UNCHANGED <<energy, pstate, initFrame, snap, caseReads, operands, refresher,
                 process, records>>

Estimate(d) ==
  /\ CASE d = "pkg" -> Goto("estPkg", "estPp0")
       [] d = "pp0" -> Goto("estPp0", "addPkg")
  /\ reg' = [reg EXCEPT ![d] = Extrapolate(snap["pre"][d], snap["post"][d],
                                           snap["exit"][d],
                                           caseReads, testReads)]
  /\ UNCHANGED <<energy, pwr, frames, handler, process, records>>

\* pkg_pwr += (pkg_reg_value - pkg_init) * energy_units is no atomic update:
\* both operands are loaded from memory (the Makefile does not optimise), in
\* an order C leaves open, and then one is stored.
LoadOperand(d) ==
  /\ CASE d = "pkg" -> Goto("addPkg", "addPkg")
       [] d = "pp0" -> Goto("addPp0", "addPp0")
  /\ \/ /\ "sum" \notin loaded
        /\ loaded' = loaded \cup {"sum"}
        /\ sum' = pwr[d]
        /\ UNCHANGED add
     \/ /\ "add" \notin loaded
        /\ loaded' = loaded \cup {"add"}
        /\ add' = Delta(reg[d], snap["init"][d])
        /\ UNCHANGED sum
  /\ UNCHANGED <<energy, pstate, initFrame, snap, reads, handler, process,
                 records>>

EmptySnap == [s \in Snapshot |-> ZeroEnergy]

StorePower(d) ==
  /\ loaded = {"sum", "add"}
  /\ CASE d = "pkg" -> Goto("addPkg", "addPp0")
       [] d = "pp0" -> Goto("addPp0", "restoreInt")
  /\ pwr' = [pwr EXCEPT ![d] = sum + add]
  /\ loaded' = {} /\ sum' = 0 /\ add' = 0
  /\ IF d = "pkg" THEN UNCHANGED <<snap, reads>>
     ELSE snap' = EmptySnap /\ caseReads' = 3 /\ testReads' = 3  \* popped
  /\ UNCHANGED <<energy, reg, initFrame, handler, process, records>>

-----------------------------------------------------------------------------
(* The main program: the end of run_command, and summarize.                *)

RestoreSignal(s) ==
  /\ CASE s = "INT"  -> Goto("restoreInt", "restoreQuit")
       [] s = "QUIT" -> Goto("restoreQuit", "sumEnergy")
  /\ disp' = [disp EXCEPT ![s] = inherited[s]]
  /\ UNCHANGED <<energy, pstate, frames, handler, armed, child, config, records>>

SummarizeEnergy ==
  /\ Goto("sumEnergy", "sumPower")
  /\ shown' = [shown EXCEPT !.energy = pwr]
  /\ UNCHANGED <<energy, pstate, frames, handler, process, start, end, history>>

\* The power is printed as pkg_pwr / secs: pkg_pwr is read a second time.
SummarizePower ==
  /\ Goto("sumPower", "exit")
  /\ shown' = [shown EXCEPT !.power = pwr["pkg"]]
  /\ UNCHANGED <<energy, pstate, frames, handler, process, start, end, history>>

-----------------------------------------------------------------------------
(* The SIGUSR1 handler: refresh and rapl_refresh.                          *)

\* The timer expires; an expiration that finds SIGUSR1 pending adds nothing.
Expire ==
  /\ Alive /\ armed
  /\ \A d \in Domain : pwr[d] <= MaxPower
  /\ pending' = TRUE
  /\ UNCHANGED <<energy, pc, pstate, frames, hpc, hInit, hPkg, stderr, process,
                 records>>

\* SIGUSR1 is blocked while its handler runs.
RefreshEnter ==
  /\ Alive /\ pending /\ hpc = "idle"
  /\ pending' = FALSE
  /\ hpc' = "readPkg"
  /\ hInit' = reg
  /\ disturbed' = (disturbed \/ pc \in InsideInit \cup InsideFinalize)
  /\ UNCHANGED <<energy, pc, pstate, frames, hPkg, stderr, process, start, end,
                 shown, begin>>

RefreshReadPkg ==
  /\ Alive /\ hpc = "readPkg"
  /\ hpc' = "update"
  /\ \E r \in Reading("pkg") : hPkg' = r.value /\ Says(r.said)
  /\ UNCHANGED <<energy, pc, pstate, frames, hInit, pending, process, records>>

\* Mutated: the operands of the difference swapped.
IncrementReversed(curr, init) == Delta(init, curr)

\* (curr - init) * energy_units, which is 0 until rapl_init reads the units.
Increment(curr, init) == IF pc = "units" THEN 0 ELSE Delta(curr, init)

\* Mutated: the warning looks at the power plane only.
WarningPp0Only(init, curr) ==
  IF init["pp0"] > curr["pp0"] THEN {"wrapped"} ELSE {}

\* What rapl_refresh says of a register that has wrapped around.
Warning(init, curr) ==
  IF \E d \in Domain : init[d] > curr[d] THEN {"wrapped"} ELSE {}

\* The second read, the warning, the two stores and the two increments: the
\* main program is suspended, so nothing comes between them.
RefreshUpdate ==
  /\ Alive /\ hpc = "update"
  /\ \E r \in Reading("pp0") :
       LET curr == [d \in Domain |-> IF d = "pkg" THEN hPkg ELSE r.value]
       IN /\ reg' = curr
          /\ pwr' = [d \in Domain |-> pwr[d] + Increment(curr[d], hInit[d])]
          /\ Says(r.said \cup Warning(hInit, curr))
  /\ hpc' = "idle"
  /\ hInit' = ZeroEnergy /\ hPkg' = 0    \* the frame is popped
  /\ UNCHANGED <<energy, pc, frames, pending, process, records>>

-----------------------------------------------------------------------------
(* The command and the terminal.                                           *)

\* A command that has ended is a zombie until it is reaped, or is gone at
\* once when SIGCHLD is ignored.
Ended == IF sigchld = "ignore" THEN "vanished" ELSE "zombie"

ChildExec ==
  /\ child = "forked"
  /\ child' \in {"running", Ended}      \* execvp fails: the child exits
  /\ UNCHANGED <<energy, pc, pstate, frames, handler, armed, disp, config,
                 records>>

ChildExit ==
  /\ child = "running"
  /\ child' = Ended
  /\ UNCHANGED <<energy, pc, pstate, frames, handler, armed, disp, config,
                 records>>

\* Ctrl-C or Ctrl-\: the signal goes to the monitor and to the command.  The
\* command was forked with the inherited dispositions; the program it runs
\* may handle the signal.
Interrupt(s) ==
  /\ Alive
  /\ pc' = IF disp[s] = "default" THEN "killed" ELSE pc
  /\ child' \in IF inherited[s] = "ignore" THEN {child}
                ELSE CASE child = "forked" -> {Ended}
                       [] child = "running" -> {child, Ended}
                       [] OTHER -> {child}
  /\ UNCHANGED <<energy, pstate, frames, handler, armed, disp, config, records>>

-----------------------------------------------------------------------------
\* A shell starts a background job with SIGINT and SIGQUIT both ignored.
Init ==
  /\ energy \in [Domain -> Booted]
  /\ pc = "open" /\ hpc = "idle"
  /\ reg = ZeroEnergy /\ pwr = ZeroEnergy
  /\ first = 0 /\ tmp = 0
  /\ snap = EmptySnap /\ caseReads = 3 /\ testReads = 3
  /\ loaded = {} /\ sum = 0 /\ add = 0
  /\ hInit = ZeroEnergy /\ hPkg = 0
  /\ stderr = {}
  /\ interval \in Intervals
  /\ armed = FALSE /\ pending = FALSE
  /\ child = "none"
  /\ inherited \in {[s \in Signal |-> h] : h \in Dispositions}
  /\ disp = inherited
  /\ sigchld \in Dispositions
  /\ start = ZeroEnergy /\ end = ZeroEnergy
  /\ shown = [energy |-> ZeroEnergy, power |-> 0]
  /\ begin = ZeroEnergy /\ disturbed = FALSE

PerDomain(d) ==
  ZeroPower(d) \/ InitRead(d) \/ InitStore(d) \/ Keep(d) \/ Estimate(d)
  \/ LoadOperand(d) \/ StorePower(d)

Main ==
  \/ OpenMsr \/ ArmTimer \/ ReadUnits \/ ReadFirst \/ TestFresh \/ RecordStart
  \/ Fork \/ Wait \/ WaitFails \/ RecordEnd
  \/ FinalizeReads \/ SpinCase \/ SpinTest
  \/ SummarizeEnergy \/ SummarizePower
  \/ \E d \in Domain : PerDomain(d)
  \/ \E s \in Signal : IgnoreSignal(s) \/ RestoreSignal(s)

Handler == RefreshEnter \/ RefreshReadPkg \/ RefreshUpdate

Command == ChildExec \/ ChildExit

\* The process is gone.
Stopped == ~Alive /\ UNCHANGED vars

Next ==
  \/ \E d \in Domain : Tick(d)
  \/ Main \/ Expire \/ Handler \/ Command
  \/ \E s \in Signal : Interrupt(s)
  \/ Stopped

Spec == Init /\ [][Next]_vars

\* The package register never stops advancing; the handler, once entered,
\* runs to its end; the main program gets the processor between refreshes,
\* which the timer spaces by at least a second; the command ends.
Fairness ==
  /\ WF_vars(Tick("pkg"))
  /\ SF_vars(Main)
  /\ WF_vars(RefreshReadPkg) /\ WF_vars(RefreshUpdate)
  /\ WF_vars(Command)

FairSpec == Spec /\ Fairness
-----------------------------------------------------------------------------
(* Properties.                                                             *)

RegValue == 0 .. RegMod - 1
Word == 0 .. WordMod - 1

Misread == "misread" \in stderr
Warned == "wrapped" \in stderr

\* Every variable holds a value of its C type (pwr a whole number of units).
TypeOK ==
  /\ energy \in [Domain -> Nat]
  /\ pc \in Location /\ hpc \in {"idle", "readPkg", "update"}
  /\ reg \in [Domain -> Word] /\ pwr \in [Domain -> Nat]
  /\ first \in Word /\ tmp \in Word
  /\ snap \in [Snapshot -> [Domain -> Word]]
  /\ caseReads \in 3 .. MaxReads /\ testReads \in 3 .. MaxReads
  /\ loaded \subseteq {"sum", "add"} /\ sum \in Nat /\ add \in Word
  /\ hInit \in [Domain -> Word] /\ hPkg \in Word
  /\ stderr \subseteq {"misread", "wrapped"}
  /\ interval \in Intervals /\ armed \in BOOLEAN /\ pending \in BOOLEAN
  /\ child \in {"none", "forked", "running", "zombie", "vanished", "reaped"}
  /\ inherited \in [Signal -> Disposition] /\ disp \in [Signal -> Disposition]
  /\ sigchld \in Disposition
  /\ start \in [Domain -> Nat] /\ end \in [Domain -> Nat]
  /\ shown \in [energy : [Domain -> Nat], power : Nat]
  /\ begin \in [Domain -> Word] /\ disturbed \in BOOLEAN

\* However refreshes interleave with the main program, the energy it holds
\* when resuse_end returns, and any value it holds later, is at least what
\* the domain consumed between the two gettimeofday calls, unless the
\* register wrapped around or a read that failed was complained of:
\* rapl_finalize and rapl_refresh may count an interval twice but never lose
\* one, and no energy is wrong for a failed read that stderr does not tell.
NeverUnderReports ==
  ~Misread /\ pc \in Captured =>
    \A d \in Domain : energy[d] < RegMod => pwr[d] >= end[d] - start[d]

\* The increments of the refreshes and of rapl_finalize telescope: when no
\* refresh ran inside rapl_init or rapl_finalize, initial reading plus
\* accumulated energy is the latest reading, in uint64_t arithmetic, even
\* across wraparounds and failed reads.
Unsettled(d) == IF d = "pkg" THEN {"estPp0", "addPkg"} ELSE {"addPkg", "addPp0"}
AccountingTelescopes ==
  \A d \in Domain :
    ~disturbed /\ pc \in (Metering \cup InsideFinalize \cup Captured) \ Unsettled(d)
      => (begin[d] + pwr[d]) % WordMod = reg[d] % WordMod

\* A wraparound that makes the energy wrong is announced on stderr, except
\* the one that rapl_finalize, which does not look for it, may run into.
OneSilentWrap ==
  \A d \in Domain :
    ~disturbed /\ ~Warned =>
      /\ pc \in Metering => begin[d] + pwr[d] = reg[d]
      /\ pc \in Captured => begin[d] + pwr[d] - reg[d] \in {0, WordMod}

\* A refresh inside rapl_finalize makes it count an interval again, but what is
\* captured is never more than three times all that the domain has consumed,
\* unless a read that failed was complained of.
NeverMoreThanThreefold ==
  ~Misread /\ pc \in Captured =>
    \A d \in Domain : energy[d] < RegMod => pwr[d] <= 3 * energy[d]

\* With -i 0, or a negative interval that timer_settime rejects, no interval is
\* counted twice: what is reported is at most what the domain consumed since
\* rapl_init read its registers, unless a read that failed was complained of.
UntimedCountsOnce ==
  interval <= 0 /\ ~Misread /\ pc \in Captured =>
    \A d \in Domain : energy[d] < RegMod => pwr[d] <= energy[d] - begin[d]

\* The monitor as EnergyMeter sees it.
Phase ==
  CASE pc = "exit" -> "done"
    [] pc \in {"failed", "killed"} -> "aborted"
    [] pc \in (Captured \ {"exit"}) \cup InsideFinalize \cup {"keepPkg"} -> "closed"
    [] pc \in Metering \ {"start", "keepPkg"} -> "open"
    [] OTHER -> "idle"

Job ==
  CASE child = "none" -> "none"
    [] child \in {"forked", "running"} -> "running"
    [] OTHER -> "ended"

\* What a monitor that is killed has printed is lost in its output buffer.
Reported == IF pc = "exit" THEN shown.energy ELSE ZeroEnergy

Meter == INSTANCE EnergyMeter WITH
  Capacity <- RegMod, consumed <- energy, phase <- Phase, job <- Job,
  from <- start, to <- end, report <- Reported

\* The monitor keeps the promise of EnergyMeter: the command runs inside the
\* window, and what is printed is bounded by what was consumed around it,
\* whatever the timer and the terminal do.
ImplementsEnergyMeter == Meter!Spec

\* When SIGCHLD is not ignored the monitor stops in the end, whatever signals
\* arrive while it waits for the registers or for the command.
Terminates == sigchld = "default" ~> ~Alive

\* Once the monitor waits for the command, Ctrl-C ends the command and not
\* the measurement: it still captures and reports what the command consumed.
InterruptedRunIsReported ==
  pc = "wait" /\ sigchld = "default" ~> pc \in Captured

\* main.c:152: "Everything after this line depends on captured metrics".  The
\* metrics are captured when resuse_end returns, and stay as they are.
CapturedMetricsStay == [][(pc \in Captured) => (pwr' = pwr)]_vars

\* They do when the timer never runs: nothing else writes to the structure.
UntimedMetricsStay ==
  [][(interval <= 0 /\ pc \in Captured) => (pwr' = pwr)]_vars

\* main.c:182: "Have signals kill the child but not the self if possible".
\* A terminal signal never ends the monitor while the command runs.
SignalsKillOnlyChild ==
  [][(child \in {"forked", "running"} /\ Alive) => pc' # "killed"]_vars

\* From the moment it waits for the command until its metrics are captured and
\* the first signal is restored, neither SIGINT nor SIGQUIT kills the monitor,
\* whatever dispositions it was started with: only the way from the fork to the
\* second signal() is open, and what comes after the restoring.
Shielded == {"wait", "end", "keepPkg", "restoreInt"} \cup InsideFinalize
MeasuredRunSurvives == [][(pc \in Shielded) => pc' # "killed"]_vars
=============================================================================
