---------------------------- MODULE PowerReport ----------------------------
(***************************************************************************)
(* The text of the energy report and the script that reads it back.        *)
(*                                                                         *)
(* A runner starts the power tool several times, each time with its        *)
(* standard output in a file of its own, and then gives all the files to   *)
(* power_formatter.py.  The tool writes through a stdio buffer, which the  *)
(* command inherits as a copy when it is forked; the SIGUSR1 handler of a  *)
(* verbose run prints into the same buffer, at any time; the wall clock    *)
(* may be set while a command runs.                                        *)
(*                                                                         *)
(* What is metered is the subject of PowerMonitor.  Here the metrics are   *)
(* represented by their version: every refresh, and rapl_finalize, makes a *)
(* new one, and a line that prints an energy carries the version printed.  *)
(***************************************************************************)
EXTENDS Integers, Sequences

CONSTANTS
  Second, Minute,  \* microseconds in a second, seconds in a minute
  Clocks,          \* what the wall clock may say when the tool is started
  MaxNow,          \* bound: the latest wall clock time
  MaxVersion,      \* bound: refreshes stop at this version of the metrics
  MaxRuns,         \* bound: runs of the tool
  BufferLines      \* lines the stdio buffer holds: about 180

\* The labels of a report, in the order summarize prints them.
Label == <<"real", "sys", "user", "pkg", "pp0", "power">>

ASSUME ReportAssumption ==
  /\ Second \in Nat \ {0} /\ Minute \in Nat \ {0}
  /\ Clocks \subseteq Nat /\ MaxNow \in Nat /\ MaxVersion \in Nat /\ MaxRuns \in Nat
  /\ BufferLines \in Nat /\ BufferLines > Len(Label)

VARIABLES
  now,       \* the wall clock, in microseconds
  pc,        \* what the runner's current process does next
  verbose,   \* args.verbose of the current run
  child,     \* the command
  version,   \* of the metrics in res.pstate
  start, elapsed,    \* res.start, res.elapsed
  line,      \* the line of the report the main program prints next
  halfway,   \* that line is partly in the buffer: "no", "yes" or "torn"
  pending,   \* and what it says
  buffer, childBuffer,   \* of stdout, in the tool and in its child
  file,      \* what has reached the output file
  late,      \* history: a refresh came after the metrics were captured
  took,      \* history: the time between RecordStart and Capture
  files,     \* the output files of the runs so far
  data       \* what power_formatter.py has parsed of them

clock == <<now, start, elapsed>>
metrics == <<version, late, took>>
main == <<line, halfway, pending>>
text == <<buffer, childBuffer, file>>
batch == <<files, data>>
vars == <<pc, verbose, child, clock, metrics, main, text, batch>>

Time == [sec |-> now \div Second, usec |-> now % Second]
NoTime == [sec |-> 0, usec |-> 0]
Micros(t) == t.sec * Second + t.usec

-----------------------------------------------------------------------------
(* The report.                                                             *)

\* C division rounds towards zero.
Quotient(a, b) == IF a >= 0 THEN a \div b ELSE -((-a) \div b)
Remainder(a, b) == a - b * Quotient(a, b)

\* Mutated: no borrow from the seconds.
DifferenceNoBorrow(to, from) ==
  [sec |-> to.sec - from.sec, usec |-> to.usec - from.usec]

\* res->elapsed, "manually carry a one from the seconds field".
Difference(to, from) ==
  LET borrow == IF to.usec < from.usec THEN 1 ELSE 0
  IN [sec |-> to.sec - from.sec - borrow,
      usec |-> to.usec - from.usec + borrow * Second]

\* Mutated: the power is computed from the whole seconds.
PrintedWholeSeconds(label) ==
  CASE label = "real" ->
         [label |-> label, min |-> Quotient(elapsed.sec, Minute),
          sec |-> Remainder(elapsed.sec, Minute), usec |-> elapsed.usec]
    [] label \in {"pkg", "pp0"} -> [label |-> label, energy |-> version]
    [] label = "power" ->
         [label |-> label, energy |-> version, time |-> elapsed.sec * Second]
    [] OTHER -> [label |-> label]

\* A line of the report: its label and what is printed behind it.
Printed(label) ==
  CASE label = "real" ->
         [label |-> label, min |-> Quotient(elapsed.sec, Minute),
          sec |-> Remainder(elapsed.sec, Minute), usec |-> elapsed.usec]
    [] label \in {"pkg", "pp0"} -> [label |-> label, energy |-> version]
    [] label = "power" ->
         [label |-> label, energy |-> version, time |-> Micros(elapsed)]
    [] OTHER -> [label |-> label]

\* if (secs > 0)
Skipped(label) == label = "power" /\ Micros(elapsed) <= 0

Torn == [label |-> "torn"]
Register == [label |-> "register"]

\* summarize(&res, true), as the handler calls it.
Summary ==
  LET labels == IF Skipped("power") THEN SubSeq(Label, 1, 5) ELSE Label
  IN [i \in DOMAIN labels |-> Printed(labels[i])] \o <<Register, Register>>

\* printf appends to the buffer, which is written out whenever it is full.
Put(lines) ==
  LET all == buffer \o lines
      full == BufferLines * (Len(all) \div BufferLines)
  IN /\ file' = file \o SubSeq(all, 1, full)
     /\ buffer' = SubSeq(all, full + 1, Len(all))

-----------------------------------------------------------------------------
(* The tool.                                                               *)

Running == pc \in {"command", "start", "fork", "wait", "summary"}

\* The runner starts the tool; its variables are those of a new process.
Begin ==
  /\ pc = "idle" /\ Len(files) < MaxRuns
  /\ pc' = "command"
  /\ verbose' \in BOOLEAN
  /\ child' = "none" /\ version' = 0 /\ late' = FALSE /\ took' = 0
  /\ start' = NoTime /\ elapsed' = NoTime
  /\ line' = 1 /\ halfway' = "no" /\ pending' = Torn
  /\ buffer' = <<>> /\ childBuffer' = <<>> /\ file' = <<>>
  /\ now' \in Clocks
  /\ UNCHANGED batch

PrintCommand ==
  /\ pc = "command" /\ pc' = "start"
  /\ IF verbose THEN Put(<<[label |-> "command"]>>) ELSE UNCHANGED <<buffer, file>>
  /\ UNCHANGED <<verbose, child, clock, metrics, main, childBuffer, batch>>

RecordStart ==
  /\ pc = "start" /\ pc' = "fork"
  /\ start' = Time
  /\ UNCHANGED <<verbose, child, now, elapsed, metrics, main, text, batch>>

Fork ==
  /\ pc = "fork" /\ pc' = "wait"
  /\ child' = "forked" /\ childBuffer' = buffer
  /\ UNCHANGED <<verbose, clock, metrics, main, buffer, file, batch>>

\* No process can be forked: exit writes the buffer out, and there is no report.
ForkFails ==
  /\ pc = "fork" /\ pc' = "failed"
  /\ file' = file \o buffer /\ buffer' = <<>>
  /\ UNCHANGED <<verbose, child, clock, metrics, main, childBuffer, batch>>

\* resuse_end: the end of the command, rapl_finalize, the elapsed time.
Capture ==
  /\ pc = "wait" /\ child = "ended"
  /\ pc' = "summary"
  /\ elapsed' = Difference(Time, start)
  /\ version' = version + 1
  /\ took' = now - Micros(start)
  /\ UNCHANGED <<verbose, child, now, start, late, main, text, batch>>

\* The main program has put a part of a line into the buffer.  What is
\* printed was evaluated before.
PrintBegins ==
  /\ pc = "summary" /\ line <= Len(Label) /\ ~Skipped(Label[line])
  /\ halfway = "no" /\ halfway' = "yes"
  /\ pending' = Printed(Label[line])
  /\ UNCHANGED <<pc, verbose, child, clock, metrics, line, text, batch>>

PrintEnds ==
  /\ pc = "summary" /\ halfway # "no"
  /\ Put(<<IF halfway = "yes" THEN pending ELSE Torn>>)
  /\ halfway' = "no" /\ pending' = Torn
  /\ line' = line + 1
  /\ UNCHANGED <<pc, verbose, child, clock, metrics, childBuffer, batch>>

PrintSkipped ==
  /\ pc = "summary" /\ line <= Len(Label) /\ Skipped(Label[line])
  /\ line' = line + 1
  /\ UNCHANGED <<pc, verbose, child, clock, metrics, halfway, pending, text, batch>>

\* main returns: exit writes the buffer out.
Exit ==
  /\ pc = "summary" /\ line > Len(Label)
  /\ pc' = "exited"
  /\ file' = file \o buffer /\ buffer' = <<>>
  /\ UNCHANGED <<verbose, child, clock, metrics, main, childBuffer, batch>>

\* A signal ends the tool: what is in the buffer is lost.
Kill ==
  /\ Running /\ pc' = "killed"
  /\ buffer' = <<>>
  /\ UNCHANGED <<verbose, child, clock, metrics, main, childBuffer, file, batch>>

\* Mutated: the handler prints whether the run is verbose or not.
ReportsRefreshAlways == TRUE

\* if (sh_args->verbose)
ReportsRefresh == verbose

\* The handler, from the time the timer is armed: new metrics and, in a
\* verbose run, a summary, which breaks a line the main program is in the
\* middle of.
Refresh ==
  /\ Running /\ pc # "command" /\ version < MaxVersion
  /\ version' = version + 1
  /\ late' = (late \/ pc = "summary")
  /\ IF ReportsRefresh
     THEN /\ halfway' = IF halfway = "no" THEN "no" ELSE "torn"
          /\ LET lines == [Summary EXCEPT
                             ![1] = IF halfway = "no" THEN @ ELSE Torn]
             IN Put(lines)
     ELSE UNCHANGED <<halfway, buffer, file>>
  /\ UNCHANGED <<pc, verbose, child, clock, took, line, pending, childBuffer,
                 batch>>

-----------------------------------------------------------------------------
(* The command, and the clock.                                             *)

ChildRuns ==
  /\ child = "forked" /\ child' = "running"
  /\ childBuffer' = <<>>
  /\ UNCHANGED <<pc, verbose, clock, metrics, main, buffer, file, batch>>

\* execvp fails: exit writes out the buffer the child has inherited.
ExecFails ==
  /\ child = "forked" /\ child' = "ended"
  /\ file' = file \o childBuffer /\ childBuffer' = <<>>
  /\ UNCHANGED <<pc, verbose, clock, metrics, main, buffer, batch>>

ChildEnds ==
  /\ child = "running" /\ child' = "ended"
  /\ UNCHANGED <<pc, verbose, clock, metrics, main, text, batch>>

\* Time passes, or the clock is set, between the two gettimeofday calls.
ClockMoves ==
  /\ pc = "wait"
  /\ now' \in 0 .. MaxNow
  /\ UNCHANGED <<pc, verbose, child, start, elapsed, metrics, main, text, batch>>

-----------------------------------------------------------------------------
(* The formatter.                                                          *)

\* The process is gone, and with it the command's part in the file.
Collect ==
  /\ pc \in {"exited", "failed", "killed"} /\ child # "forked"
  /\ pc' = "idle"
  /\ files' = Append(files, [lines |-> file, verbose |-> verbose, late |-> late,
                             reported |-> pc = "exited", took |-> took])
  \* forgotten, because Begin sets them again
  /\ verbose' = FALSE /\ child' = "none" /\ version' = 0 /\ late' = FALSE /\ took' = 0
  /\ now' = 0 /\ start' = NoTime /\ elapsed' = NoTime
  /\ line' = 1 /\ halfway' = "no" /\ pending' = Torn
  /\ buffer' = <<>> /\ childBuffer' = <<>> /\ file' = <<>>
  /\ UNCHANGED data

Format ==
  /\ pc = "idle" /\ files # <<>>
  /\ pc' = "format"
  /\ UNCHANGED <<verbose, child, clock, metrics, main, text, batch>>

\* The regular expressions accept digits only: no sign.
Matches(l, label) ==
  /\ l.label = label
  /\ label = "real" => l.min >= 0 /\ l.sec >= 0 /\ l.usec >= 0

Matching(lines, label) == {i \in DOMAIN lines : Matches(lines[i], label)}

\* parse_file meets a second line with the same label: sys.exit.
Duplicate(lines) ==
  \E k \in DOMAIN Label : \E i, j \in Matching(lines, Label[k]) : i # j

RealTime(l) == (l.min * Minute + l.sec) * Second + l.usec

\* The PowerOutput of a file: for each label nothing (None) or its value.
PowerOutput(lines) ==
  [realtime |-> {RealTime(lines[i]) : i \in Matching(lines, "real")},
   energy |-> {lines[i] : i \in Matching(lines, "pkg")},
   power |-> {lines[i] : i \in Matching(lines, "power")}]

\* The name of the file lacks the CPU frequency: sys.exit.
Unnamed ==
  /\ pc = "format" /\ Len(data) < Len(files)
  /\ pc' = "unnamed"
  /\ UNCHANGED <<verbose, child, clock, metrics, main, text, batch>>

Parse ==
  /\ pc = "format" /\ Len(data) < Len(files)
  /\ LET lines == files[Len(data) + 1].lines
     IN IF Duplicate(lines)
        THEN pc' = "duplicate" /\ UNCHANGED data
        ELSE data' = Append(data, PowerOutput(lines)) /\ UNCHANGED pc
  /\ UNCHANGED <<verbose, child, clock, metrics, main, text, files>>

PrintData ==
  /\ pc = "format" /\ Len(data) = Len(files)
  /\ pc' = "printed"
  /\ UNCHANGED <<verbose, child, clock, metrics, main, text, batch>>

Finished == pc \in {"unnamed", "duplicate", "printed"} /\ UNCHANGED vars

-----------------------------------------------------------------------------
Init ==
  /\ now = 0 /\ pc = "idle" /\ verbose = FALSE /\ child = "none"
  /\ version = 0 /\ late = FALSE /\ took = 0
  /\ start = NoTime /\ elapsed = NoTime
  /\ line = 1 /\ halfway = "no" /\ pending = Torn
  /\ buffer = <<>> /\ childBuffer = <<>> /\ file = <<>>
  /\ files = <<>> /\ data = <<>>

Tool == Begin \/ PrintCommand \/ RecordStart \/ Fork \/ ForkFails \/ Capture
        \/ PrintBegins \/ PrintEnds \/ PrintSkipped \/ Exit \/ Kill \/ Refresh
Formatter == Collect \/ Format \/ Unnamed \/ Parse \/ PrintData
Next == Tool \/ ChildRuns \/ ExecFails \/ ChildEnds \/ ClockMoves \/ Formatter
        \/ Finished

Spec == Init /\ [][Next]_vars
-----------------------------------------------------------------------------
(* Properties.                                                             *)

Instant == [sec : Int, usec : 0 .. Second - 1]

\* Times are normalised as gettimeofday and "carry a one" leave them, and the
\* buffer is never full.
TypeOK ==
  /\ now \in Nat /\ start \in Instant /\ elapsed \in Instant
  /\ pc \in {"idle", "command", "start", "fork", "wait", "summary",
            "exited", "failed", "killed", "format", "unnamed", "duplicate", "printed"}
  /\ verbose \in BOOLEAN /\ late \in BOOLEAN /\ took \in Int
  /\ child \in {"none", "forked", "running", "ended"}
  /\ version \in Nat /\ line \in 1 .. Len(Label) + 1
  /\ halfway \in {"no", "yes", "torn"}
  /\ Len(buffer) < BufferLines /\ Len(childBuffer) < BufferLines
  /\ Len(files) <= MaxRuns /\ Len(data) <= Len(files)

\* power_formatter.py gives up on a whole batch when a file has a line twice.
\* No run without -v ever makes it do so: not by its refreshes, not by a
\* command that cannot be forked or executed, not by being killed.
QuietRunsParse ==
  pc = "duplicate" => files[Len(data) + 1].verbose

\* What the formatter reads from a run without -v is what happened: the time
\* the command took, unless the clock was set back, and a power exactly when
\* that time is positive; and nothing at all when the tool was killed or could
\* not fork.
RecordsFaithful ==
  \A i \in DOMAIN data : ~files[i].verbose =>
    LET f == files[i]
    IN /\ data[i].realtime = IF f.reported /\ f.took >= 0 THEN {f.took} ELSE {}
       /\ data[i].energy # {} <=> f.reported
       /\ data[i].power # {} <=> f.reported /\ f.took > 0

\* The power of a record is its energy divided by its time, unless a refresh
\* came after resuse_end had returned.
PowerMatchesEnergy ==
  \A i \in DOMAIN data :
    ~files[i].verbose /\ ~files[i].late =>
      \A power \in data[i].power :
        /\ data[i].realtime = {power.time}
        /\ \E energy \in data[i].energy : power.energy = energy.energy

\* power_formatter.py:3 "A simple parser for power tool output": the output
\* of the power tool, with -v or without, can be parsed.
ToolOutputParses == pc # "duplicate"
=============================================================================
