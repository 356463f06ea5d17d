------------------------- MODULE PowerReportProofs -------------------------
(***************************************************************************)
(* Proofs about PowerReport: that a quiet run is read back as it was, for  *)
(* any number of runs, refreshes, kills and commands that cannot be forked *)
(* or executed, any time they take, and any size of the buffer that a      *)
(* report fits into.                                                       *)
(***************************************************************************)
EXTENDS PowerReport, TLAPS

-----------------------------------------------------------------------------
(* The invariant.                                                          *)

\* Everything that is ever printed.
Line ==
  [label : {"command", "register", "torn", "sys", "user"}]
    \cup [label : {"real"}, min : Int, sec : Int, usec : Int]
    \cup [label : {"pkg", "pp0"}, energy : Nat]
    \cup [label : {"power"}, energy : Nat, time : Int]

\* A file, and what the formatter makes of it.
File == [lines : Seq(Line), verbose : BOOLEAN, late : BOOLEAN, reported : BOOLEAN,
         took : Int]
Record == [realtime : SUBSET Int, energy : SUBSET Line, power : SUBSET Line]

\* Only the last line of a report may be missing.
Lines(time) == IF time <= 0 THEN 5 ELSE 6

\* The k-th line of a report says what it has to, where v is the version of
\* the metrics unless a refresh came late.
Says(l, k, time, v, unsure) ==
  /\ l.label = Label[k]
  /\ k = 1 => /\ RealTime(l) = time
              /\ l.min >= 0 /\ l.sec >= 0 /\ l.usec >= 0 <=> time >= 0
  /\ k = 4 /\ ~unsure => l.energy = v
  /\ k = 6 => l.time = time
  /\ k = 6 /\ ~unsure => l.energy = v

\* The first n lines of a report, and no more.
Complete(lines, n, time, v, unsure) ==
  /\ Len(lines) = n
  /\ \A k \in 1 .. n : Says(lines[k], k, time, v, unsure)

Shape ==
  /\ TypeOK
  /\ {buffer, childBuffer, file} \subseteq Seq(Line) /\ pending \in Line
  /\ files \in Seq(File)
  /\ data \in Seq(Record)

\* A run has its place among the files; a line is left halfway only in a
\* summary, and is one that is printed.
Stages ==
  /\ pc \in {"command", "start", "fork", "wait", "summary", "exited", "failed", "killed"} =>
       Len(files) < MaxRuns
  /\ halfway # "no" => /\ pc \in {"summary", "killed"}
                       /\ line <= 6
                       /\ line = 6 => Micros(elapsed) > 0

\* A quiet run has nothing to print before its summary, and its summary fits
\* the buffer.
Quiet ==
  ~verbose =>
    /\ childBuffer = <<>>
    /\ pc \in {"command", "start", "fork", "wait", "failed", "killed"} => buffer = <<>>
    /\ pc \in {"command", "start", "fork", "wait", "failed", "killed", "summary"} => file = <<>>
    /\ pc \in {"command", "start", "fork", "wait"} => line = 1 /\ halfway = "no" /\ ~late
    /\ pc = "summary" =>
         /\ halfway \in {"no", "yes"}
         /\ line <= 6 => Complete(buffer, line - 1, took, version, late)
         /\ line = 7 => Complete(buffer, Lines(took), took, version, late)
         /\ halfway = "yes" => /\ line <= Lines(took)
                               /\ Says(pending, line, took, version, late)
    /\ pc = "exited" => Complete(file, Lines(took), took, version, late)

\* What is printed of the time is what the command took.
Timed == pc = "summary" => Micros(elapsed) = took

\* The files of quiet runs.
Filed ==
  \A i \in DOMAIN files : ~files[i].verbose =>
    IF files[i].reported
    THEN \E v \in Nat : Complete(files[i].lines, Lines(files[i].took), files[i].took, v, files[i].late)
    ELSE files[i].lines = <<>>

\* The formatter reads the files in their order, and not before the last.
Formatted ==
  /\ pc \notin {"format", "unnamed", "duplicate", "printed"} => data = <<>>
  /\ \A i \in DOMAIN data : data[i] = PowerOutput(files[i].lines)
  /\ pc = "duplicate" => /\ Len(data) < Len(files)
                         /\ Duplicate(files[Len(data) + 1].lines)

ReadBack == Shape /\ Stages /\ Quiet /\ Timed /\ Filed /\ Formatted

USE ReportAssumption
USE DEF clock, metrics, main, text, batch, vars

-----------------------------------------------------------------------------
(* Arithmetic of times.                                                    *)

LEMMA DivMod ==
  ASSUME NEW a \in Nat, NEW b \in Nat \ {0}
  PROVE  /\ a \div b \in Nat /\ a % b \in 0 .. b - 1
         /\ a = b * (a \div b) + (a % b)
<1> DEFINE q == a \div b
           r == a % b
<1>1. r = a - b * q
  BY Z3
<1>2. r \in 0 .. b - 1
  OBVIOUS
<1>3. q \in Int
  OBVIOUS
<1> HIDE DEF q, r
<1>4. q < 0 => b * q <= -b
  BY <1>3
<1>5. b * q \in Int
  BY <1>3
<1>6. q \in Nat /\ r \in 0 .. b - 1 /\ a = b * q + r
  BY <1>1, <1>2, <1>3, <1>4, <1>5
<1> QED
  BY <1>6 DEF q, r

\* gettimeofday.
LEMMA TimeTyped ==
  ASSUME now \in Nat
  PROVE  Time \in Instant /\ Micros(Time) = now
<1>1. /\ now \div Second \in Nat /\ now % Second \in 0 .. Second - 1
      /\ now = Second * (now \div Second) + (now % Second)
  BY DivMod
<1>2. Time \in Instant
  BY <1>1 DEF Time, Instant
<1> QED
  BY <1>1, <1>2 DEF Time, Micros

\* The carry keeps microseconds in their range and loses nothing.
LEMMA DifferenceTyped ==
  ASSUME NEW to \in Instant, NEW from \in Instant
  PROVE  /\ Difference(to, from) \in Instant
         /\ Micros(Difference(to, from)) = Micros(to) - Micros(from)
<1> DEFINE s == to.sec - from.sec
           u == to.usec - from.usec
<1>1. /\ s \in Int /\ u \in Int /\ -Second < u /\ u < Second
      /\ Micros(to) - Micros(from) = s * Second + u
  <2>1. /\ to.sec \in Int /\ to.usec \in 0 .. Second - 1
        /\ from.sec \in Int /\ from.usec \in 0 .. Second - 1
    BY DEF Instant
  <2>2. /\ to.sec * Second \in Int /\ from.sec * Second \in Int
        /\ s * Second = to.sec * Second - from.sec * Second
    BY <2>1, Z3
  <2>3. Micros(to) - Micros(from) = s * Second + u
    <3> DEFINE a == to.sec * Second
               b == from.sec * Second
    <3>1. Micros(to) = a + to.usec /\ Micros(from) = b + from.usec
      BY DEF Micros
    <3>2. a \in Int /\ b \in Int /\ s * Second = a - b BY <2>2
    <3>3. to.usec \in Int /\ from.usec \in Int /\ u = to.usec - from.usec BY <2>1
    <3> HIDE DEF a, b, s, u
    <3> QED BY <3>1, <3>2, <3>3
  <2> QED BY <2>1, <2>3
<1>2. CASE to.usec < from.usec
  <2>1. Difference(to, from) = [sec |-> s - 1, usec |-> u + Second]
    BY <1>2 DEF Difference, Instant
  <2>2. (s - 1) * Second + (u + Second) = s * Second + u
    BY <1>1
  <2>3. s - 1 \in Int /\ u + Second \in 0 .. Second - 1
    <3>1. to.usec \in 0 .. Second - 1 /\ from.usec \in 0 .. Second - 1
      BY DEF Instant
    <3> QED
      BY <1>1, <1>2, <3>1
  <2>4. Difference(to, from) \in Instant
    BY <2>1, <2>3 DEF Instant
  <2>5. Micros(Difference(to, from)) = (s - 1) * Second + (u + Second)
    BY <2>1 DEF Micros
  <2> QED
    BY <1>1, <2>2, <2>4, <2>5
<1>3. CASE ~(to.usec < from.usec)
  <2>1. Difference(to, from) = [sec |-> s, usec |-> u]
    BY <1>3 DEF Difference, Instant
  <2>2. u \in 0 .. Second - 1
    <3>1. to.usec \in 0 .. Second - 1 /\ from.usec \in 0 .. Second - 1
      BY DEF Instant
    <3> QED
      BY <1>3, <3>1
  <2>3. Difference(to, from) \in Instant
    BY <1>1, <2>1, <2>2 DEF Instant
  <2>4. Micros(Difference(to, from)) = s * Second + u
    BY <2>1 DEF Micros
  <2> QED
    BY <1>1, <2>3, <2>4
<1> QED
  BY <1>2, <1>3

\* A time that is negative shows, in its minutes or its seconds.
LEMMA MinutesAndSeconds ==
  ASSUME NEW a \in Int
  PROVE  /\ Quotient(a, Minute) \in Int /\ Remainder(a, Minute) \in Int
         /\ Quotient(a, Minute) * Minute + Remainder(a, Minute) = a
         /\ a >= 0 <=> Quotient(a, Minute) >= 0 /\ Remainder(a, Minute) >= 0
<1> DEFINE q == Quotient(a, Minute)
<1>1. q \in Int /\ Minute * q \in Int /\ q * Minute = Minute * q
  <2>1. CASE a >= 0
    BY <2>1, DivMod DEF Quotient
  <2>2. CASE a < 0
    <3>1. -a \in Nat /\ Minute \in Nat \ {0}
      BY <2>2
    <3>2. (-a) \div Minute \in Nat
      BY <3>1, DivMod, Zenon
    <3> QED
      BY <2>2, <3>2 DEF Quotient
  <2> QED
    BY <2>1, <2>2
<1>2. Remainder(a, Minute) = a - Minute * q
  BY DEF Remainder
<1>3. CASE a >= 0
  <2>1. q = a \div Minute
    BY <1>3 DEF Quotient
  <2>2. q >= 0 /\ a = Minute * q + (a % Minute) /\ a % Minute \in 0 .. Minute - 1
    <3>1. a \in Nat /\ Minute \in Nat \ {0}
      BY <1>3
    <3>2. /\ a \div Minute \in Nat /\ a % Minute \in 0 .. Minute - 1
          /\ a = Minute * (a \div Minute) + (a % Minute)
      BY <3>1, DivMod, Zenon
    <3> QED
      BY <2>1, <3>2, SMTT(20)
  <2>3. Remainder(a, Minute) = a % Minute /\ a % Minute \in Nat
    BY <1>1, <1>2, <2>1, <2>2
  <2>4. q * Minute + Remainder(a, Minute) = a
    BY <1>1, <1>2
  <2> HIDE DEF q
  <2>5. q \in Int /\ q >= 0 /\ Remainder(a, Minute) \in Int /\ Remainder(a, Minute) >= 0
    BY <1>1, <2>2, <2>3
  <2> QED
    BY <1>3, <2>4, <2>5 DEF q
<1>4. CASE a < 0
  <2> DEFINE p == (-a) \div Minute
  <2>1. q = -p
    BY <1>4 DEF Quotient
  <2>2. p \in Nat /\ -a = Minute * p + ((-a) % Minute) /\ (-a) % Minute \in 0 .. Minute - 1
    <3>1. -a \in Nat /\ Minute \in Nat \ {0}
      BY <1>4
    <3> QED
      BY <3>1, DivMod, Zenon
  <2>3. Minute * q = -(Minute * p)
    BY <2>1, <2>2
  <2>4. Remainder(a, Minute) = -((-a) % Minute)
    BY <1>2, <2>2, <2>3
  <2>5. p > 0 \/ (-a) % Minute > 0
    BY <1>4, <2>2
  <2> QED
    BY <1>1, <1>2, <1>4, <2>1, <2>2, <2>4, <2>5
<1> QED
  BY <1>3, <1>4

\* What is printed of the real time is read as the time that has passed, if
\* it is not negative.
LEMMA RealLine ==
  ASSUME elapsed \in Instant
  PROVE  /\ Printed("real") \in [label : {"real"}, min : Int, sec : Int, usec : Int]
         /\ RealTime(Printed("real")) = Micros(elapsed)
         /\ /\ Printed("real").min >= 0 /\ Printed("real").sec >= 0
            /\ Printed("real").usec >= 0
            <=> Micros(elapsed) >= 0
<1> DEFINE s == elapsed.sec
           u == elapsed.usec
<1>1. s \in Int /\ u \in 0 .. Second - 1 /\ Micros(elapsed) = s * Second + u
  BY DEF Instant, Micros
<1>2. Printed("real") = [label |-> "real", min |-> Quotient(s, Minute),
                         sec |-> Remainder(s, Minute), usec |-> u]
  BY DEF Printed
<1>3. s * Second + u >= 0 <=> s >= 0
  <2>1. s >= 0 => s * Second >= 0
    BY <1>1
  <2>2. s < 0 => s * Second <= -Second
    BY <1>1
  <2>3. s * Second \in Int
    BY <1>1
  <2> QED
    BY <1>1, <2>1, <2>2, <2>3
<1> DEFINE q == Quotient(s, Minute)
           r == Remainder(s, Minute)
<1>4. q \in Int /\ r \in Int /\ q * Minute + r = s /\ (s >= 0 <=> q >= 0 /\ r >= 0)
  BY <1>1, MinutesAndSeconds
<1> HIDE DEF q, r
<1>5. Printed("real") = [label |-> "real", min |-> q, sec |-> r, usec |-> u]
  BY <1>2 DEF q, r
<1>6. RealTime(Printed("real")) = s * Second + u
  BY <1>4, <1>5 DEF RealTime
<1> QED
  BY <1>1, <1>3, <1>4, <1>5, <1>6

-----------------------------------------------------------------------------
(* Lines and buffers.                                                      *)

LEMMA Labels ==
  /\ Len(Label) = 6 /\ DOMAIN Label = 1 .. 6
  /\ \A j, k \in 1 .. 6 : Label[j] = Label[k] => j = k
  /\ \A k \in 1 .. 6 : /\ Label[k] = "real" <=> k = 1
                       /\ Label[k] = "pkg" <=> k = 4
                       /\ Label[k] = "power" <=> k = 6
<1>1. Len(Label) = 6 /\ DOMAIN Label = 1 .. 6
  BY DEF Label
<1>2. /\ Label[1] = "real" /\ Label[2] = "sys" /\ Label[3] = "user"
      /\ Label[4] = "pkg" /\ Label[5] = "pp0" /\ Label[6] = "power"
  BY DEF Label
<1> QED
  BY <1>1, <1>2

LEMMA PrintedTyped ==
  ASSUME elapsed \in Instant, version \in Nat, NEW k \in 1 .. 6
  PROVE  Printed(Label[k]) \in Line
<1>1. Micros(elapsed) \in Int
  BY DEF Micros, Instant
<1>2. CASE k = 1
  BY <1>2, RealLine DEF Label, Line
<1>3. CASE k \in {2, 3}
  <2>1. Printed(Label[k]) = [label |-> Label[k]] /\ Label[k] \in {"sys", "user"}
    BY <1>3 DEF Label, Printed
  <2> QED
    BY <2>1 DEF Line
<1>4. CASE k \in {4, 5}
  <2>1. /\ Printed(Label[k]) = [label |-> Label[k], energy |-> version]
        /\ Label[k] \in {"pkg", "pp0"}
    BY <1>4 DEF Label, Printed
  <2> QED
    BY <2>1 DEF Line
<1>5. CASE k = 6
  <2>1. Printed(Label[k]) = [label |-> "power", energy |-> version, time |-> Micros(elapsed)]
    BY <1>5 DEF Label, Printed
  <2> QED
    BY <1>1, <2>1 DEF Line
<1> QED
  BY <1>2, <1>3, <1>4, <1>5

\* What the main program prints after resuse_end.
LEMMA PrintedSays ==
  ASSUME elapsed \in Instant, version \in Nat, NEW k \in 1 .. 6, Micros(elapsed) = took
  PROVE  Says(Printed(Label[k]), k, took, version, late)
<1>1. Printed(Label[k]).label = Label[k]
  BY DEF Label, Printed
<1>2. CASE k = 1
  <2>1. Label[k] = "real"
    BY <1>2 DEF Label
  <2> QED
    BY <1>1, <1>2, <2>1, RealLine DEF Says
<1>3. CASE k = 4
  <2>1. Printed(Label[k]).energy = version
    BY <1>3 DEF Label, Printed
  <2> QED
    BY <1>1, <1>3, <2>1 DEF Says
<1>4. CASE k = 6
  <2>1. Printed(Label[k]).energy = version /\ Printed(Label[k]).time = took
    BY <1>4 DEF Label, Printed
  <2> QED
    BY <1>1, <1>4, <2>1 DEF Says
<1>5. CASE k \notin {1, 4, 6}
  BY <1>1, <1>5 DEF Says
<1> QED
  BY <1>2, <1>3, <1>4, <1>5

LEMMA OtherLines ==
  Torn \in Line /\ Register \in Line /\ [label |-> "command"] \in Line
BY DEF Torn, Register, Line

\* What the handler prints.
LEMMA SummaryTyped ==
  ASSUME elapsed \in Instant, version \in Nat
  PROVE  /\ Summary \in Seq(Line)
         /\ [Summary EXCEPT ![1] = Torn] \in Seq(Line)
         /\ [Summary EXCEPT ![1] = @] \in Seq(Line)
<1> DEFINE labels == IF Skipped("power") THEN SubSeq(Label, 1, 5) ELSE Label
           printed == [i \in DOMAIN labels |-> Printed(labels[i])]
<1>1. PICK n \in {5, 6} : DOMAIN labels = 1 .. n /\ \A i \in 1 .. n : labels[i] = Label[i]
  BY Labels DEF Label
<1>2. \A i \in 1 .. n : printed[i] \in Line
  <2> SUFFICES ASSUME NEW i \in 1 .. n PROVE printed[i] \in Line
    OBVIOUS
  <2>1. i \in 1 .. 6 /\ i \in DOMAIN labels /\ labels[i] = Label[i]
    <3> HIDE DEF labels
    <3> QED BY <1>1
  <2>2. printed[i] = Printed(Label[i])
    BY <2>1
  <2> QED
    BY <2>1, <2>2, PrintedTyped
<1>3. printed \in Seq(Line)
  <2>1. DOMAIN printed = 1 .. n /\ printed = [i \in 1 .. n |-> printed[i]]
    BY <1>1
  <2> HIDE DEF printed
  <2> QED
    BY <1>2, <2>1
<1>4. <<Register, Register>> \in Seq(Line)
  BY OtherLines
<1>5. Summary = printed \o <<Register, Register>>
  BY DEF Summary
<1> HIDE DEF labels, printed
<1>6. Summary \in Seq(Line)
  BY <1>3, <1>4, <1>5
<1> QED
  <2> DEFINE all == Summary
  <2>1. all \in Seq(Line)
    BY <1>6
  <2> HIDE DEF all
  <2>2. /\ Len(all) \in Nat /\ DOMAIN all = 1 .. Len(all)
        /\ all = [i \in 1 .. Len(all) |-> all[i]] /\ \A i \in 1 .. Len(all) : all[i] \in Line
    BY <2>1
  <2>3. [i \in 1 .. Len(all) |-> IF i = 1 THEN Torn ELSE all[i]] \in Seq(Line)
    BY <2>2, OtherLines
  <2>4. [all EXCEPT ![1] = Torn] = [i \in 1 .. Len(all) |-> IF i = 1 THEN Torn ELSE all[i]]
    BY <2>2, Zenon
  <2>5. [all EXCEPT ![1] = @] = all
    BY <2>2, Zenon
  <2> QED
    BY <2>1, <2>3, <2>4, <2>5 DEF all

\* However much is printed, less than a buffer of it is held back.
LEMMA PutTyped ==
  ASSUME buffer \in Seq(Line), file \in Seq(Line), NEW lines \in Seq(Line), Put(lines)
  PROVE  buffer' \in Seq(Line) /\ file' \in Seq(Line) /\ Len(buffer') < BufferLines
<1> DEFINE all == buffer \o lines
           full == BufferLines * (Len(all) \div BufferLines)
<1>1. all \in Seq(Line) /\ Len(all) \in Nat
  OBVIOUS
<1>2. BufferLines \in Nat \ {0}
  BY Labels
<1>3. file' = file \o SubSeq(all, 1, full) /\ buffer' = SubSeq(all, full + 1, Len(all))
  BY DEF Put
<1>4. full \in Nat /\ full <= Len(all) /\ Len(all) - full < BufferLines
  <2> DEFINE n == Len(all)
             q == n \div BufferLines
             r == n % BufferLines
  <2>1. q \in Nat /\ r \in 0 .. BufferLines - 1 /\ n = BufferLines * q + r
    BY <1>1, <1>2, DivMod, Zenon
  <2> HIDE DEF q, r, n
  <2>2. BufferLines * q \in Nat
    BY <1>2, <2>1
  <2>3. /\ BufferLines * q \in Nat /\ BufferLines * q <= n
        /\ n - BufferLines * q < BufferLines
    BY <1>2, <2>1, <2>2
  <2> QED
    BY <2>3, Zenon DEF q, n
<1> HIDE DEF all, full
<1>5. SubSeq(all, 1, full) \in Seq(Line)
  BY <1>1, <1>4
<1>6. /\ SubSeq(all, full + 1, Len(all)) \in Seq(Line)
      /\ Len(SubSeq(all, full + 1, Len(all))) = Len(all) - full
  BY <1>1, <1>4
<1> QED
  BY <1>1, <1>3, <1>4, <1>5, <1>6

\* As long as there is room in the buffer, nothing gets to the file.
LEMMA PutFits ==
  ASSUME buffer \in Seq(Line), file \in Seq(Line), NEW l \in Line, Put(<<l>>),
         Len(buffer) + 1 < BufferLines
  PROVE  /\ file' = file /\ Len(buffer') = Len(buffer) + 1
         /\ \A i \in 1 .. Len(buffer) : buffer'[i] = buffer[i]
         /\ buffer'[Len(buffer) + 1] = l
<1> DEFINE all == buffer \o <<l>>
           full == BufferLines * (Len(all) \div BufferLines)
<1>1. /\ all \in Seq(Line) /\ Len(all) = Len(buffer) + 1
      /\ \A i \in 1 .. Len(buffer) : all[i] = buffer[i]
      /\ all[Len(buffer) + 1] = l
  OBVIOUS
<1>2. BufferLines \in Nat \ {0}
  BY Labels
<1>3. file' = file \o SubSeq(all, 1, full) /\ buffer' = SubSeq(all, full + 1, Len(all))
  BY DEF Put
<1>4. full = 0
  <2> DEFINE n == Len(all)
             q == n \div BufferLines
             r == n % BufferLines
  <2>0. n \in Nat /\ n < BufferLines
    BY <1>1
  <2>1. q \in Nat /\ r \in 0 .. BufferLines - 1 /\ n = BufferLines * q + r
    BY <1>2, <2>0, DivMod, Zenon
  <2> HIDE DEF q, r, n
  <2>2. q >= 1 => BufferLines * q >= BufferLines
    BY <1>2, <2>1
  <2>3. BufferLines * q = 0
    BY <1>2, <2>0, <2>1, <2>2
  <2> QED
    BY <2>3, Zenon DEF q, n
<1> HIDE DEF all, full
<1>5. SubSeq(all, 1, full) = <<>> /\ SubSeq(all, full + 1, Len(all)) = all
  BY <1>1, <1>4
<1> QED
  <2>1. file \o <<>> = file
    OBVIOUS
  <2> QED
    BY <1>1, <1>3, <1>5, <2>1

-----------------------------------------------------------------------------
(* Types.                                                                  *)

LEMMA ShapeInit == Init => Shape
<1> SUFFICES ASSUME Init PROVE Shape
  OBVIOUS
<1>1. NoTime \in Instant
  BY DEF NoTime, Instant
<1>2. Len(<<>>) = 0 /\ 0 < BufferLines /\ 1 \in 1 .. Len(Label) + 1
  BY Labels
<1>3. now \in Nat /\ start \in Instant /\ elapsed \in Instant
  BY <1>1, <1>2 DEF Init
<1>4. version \in Nat /\ line \in 1 .. Len(Label) + 1 /\ took \in Int
  BY <1>1, <1>2 DEF Init
<1>5. Len(buffer) < BufferLines /\ Len(childBuffer) < BufferLines
  BY <1>1, <1>2 DEF Init
<1>6. Len(files) <= MaxRuns /\ Len(data) <= Len(files)
  BY <1>1, <1>2 DEF Init
<1>7. verbose \in BOOLEAN /\ late \in BOOLEAN
  BY DEF Init
<1>8. child \in {"none", "forked", "running", "ended"} /\ halfway \in {"no", "yes", "torn"}
  BY DEF Init
<1>9. TypeOK
  BY <1>3, <1>4, <1>5, <1>6, <1>7, <1>8 DEF Init, TypeOK
<1> QED
  BY <1>9, OtherLines DEF Init, Shape

LEMMA RecordTyped ==
  ASSUME NEW lines \in Seq(Line)
  PROVE  PowerOutput(lines) \in Record
<1>1. \A label : Matching(lines, label) \subseteq 1 .. Len(lines)
  BY DEF Matching
<1>2. \A i \in 1 .. Len(lines) : lines[i] \in Line
  OBVIOUS
<1>3. ASSUME NEW i \in Matching(lines, "real") PROVE RealTime(lines[i]) \in Int
  <2>1. lines[i] \in Line /\ lines[i].label = "real"
    BY <1>1, <1>2, <1>3 DEF Matching, Matches
  <2>2. lines[i].min \in Int /\ lines[i].sec \in Int /\ lines[i].usec \in Int
    BY <2>1 DEF Line
  <2>3. lines[i].min * Minute + lines[i].sec \in Int
    BY <2>2
  <2>4. (lines[i].min * Minute + lines[i].sec) * Second \in Int
    BY <2>3
  <2> QED
    BY <2>2, <2>4 DEF RealTime
<1> QED
  BY <1>1, <1>2, <1>3 DEF PowerOutput, Record

LEMMA ShapeNext ==
  ASSUME Shape, Stages, [Next]_vars
  PROVE  Shape'
<1>0. NoTime \in Instant /\ Torn \in Line
  BY OtherLines DEF NoTime, Instant
<1>22. Len(<<>>) = 0 /\ 0 < BufferLines
  BY Labels
<1> USE Labels DEF TypeOK, Shape
<1>1. CASE Begin
  <2>1. now' \in Nat /\ start' \in Instant /\ elapsed' \in Instant /\ verbose' \in BOOLEAN
    BY <1>0, <1>1 DEF Begin
  <2>2. line' \in 1 .. Len(Label) + 1 /\ Len(buffer') < BufferLines /\ Len(childBuffer') < BufferLines
    BY <1>1, <1>22 DEF Begin
  <2>3. {buffer', childBuffer', file'} \subseteq Seq(Line) /\ pending' \in Line
    BY <1>0, <1>1 DEF Begin
  <2> QED
    <3>1. version' \in Nat /\ took' \in Int
      BY <1>1 DEF Begin
    <3>4. late' \in BOOLEAN
      BY <1>1 DEF Begin
    <3>2. child' \in {"none", "forked", "running", "ended"} /\ halfway' \in {"no", "yes", "torn"}
      BY <1>1 DEF Begin
    <3>3. pc' = "command" /\ files' = files /\ data' = data
      BY <1>1 DEF Begin
    <3> QED
      BY <2>1, <2>2, <2>3, <3>1, <3>2, <3>3, <3>4
<1>2. CASE PrintCommand
  <2>1. <<[label |-> "command"]>> \in Seq(Line)
    BY OtherLines
  <2>2. buffer' \in Seq(Line) /\ file' \in Seq(Line) /\ Len(buffer') < BufferLines
    BY <1>2, <2>1, PutTyped DEF PrintCommand
  <2> QED
    BY <1>2, <2>2 DEF PrintCommand
<1>3. CASE RecordStart
  BY <1>3, TimeTyped DEF RecordStart
<1>4. CASE Fork
  BY <1>4 DEF Fork
<1>23. CASE ForkFails
  <2>1. /\ file \in Seq(Line) /\ buffer \in Seq(Line)
        /\ <<>> \in Seq(Line) /\ Len(<<>>) < BufferLines
    BY <1>0
  <2> QED
    BY <1>0, <1>23, <2>1 DEF ForkFails
<1>5. CASE Capture
  <2>1. elapsed' \in Instant
    BY <1>5, TimeTyped, DifferenceTyped DEF Capture
  <2>2. Micros(start) \in Int
    BY DEF Micros, Instant
  <2> QED
    BY <1>5, <2>1, <2>2 DEF Capture
<1>6. CASE PrintBegins
  <2>1. pending' \in Line
    BY <1>6, PrintedTyped DEF PrintBegins
  <2> QED
    BY <1>6, <2>1 DEF PrintBegins
<1>7. CASE PrintEnds
  <2>1. <<IF halfway = "yes" THEN pending ELSE Torn>> \in Seq(Line)
    BY <1>0
  <2>2. buffer' \in Seq(Line) /\ file' \in Seq(Line) /\ Len(buffer') < BufferLines
    BY <1>7, <2>1, PutTyped DEF PrintEnds
  <2>3. line' \in 1 .. 7
    BY <1>7 DEF PrintEnds, Stages
  <2> QED
    BY <1>0, <1>7, <2>2, <2>3 DEF PrintEnds
<1>8. CASE PrintSkipped
  BY <1>8 DEF PrintSkipped
<1>9. CASE Exit
  BY <1>9 DEF Exit
<1>10. CASE Kill
  BY <1>10 DEF Kill
<1>11. CASE Refresh
  <2>1. [Summary EXCEPT ![1] = IF halfway = "no" THEN @ ELSE Torn] \in Seq(Line)
    BY SummaryTyped
  <2>2. buffer' \in Seq(Line) /\ file' \in Seq(Line) /\ Len(buffer') < BufferLines
    BY <1>11, <2>1, PutTyped DEF Refresh
  <2>3. halfway' \in {"no", "yes", "torn"}
    BY <1>11 DEF Refresh
  <2>4. version' \in Nat /\ late' \in BOOLEAN
    BY <1>11 DEF Refresh
  <2>5. UNCHANGED <<pc, verbose, child, clock, took, line, pending, childBuffer, batch>>
    BY <1>11 DEF Refresh
  <2> QED
    BY <2>2, <2>3, <2>4, <2>5
<1>12. CASE ChildRuns
  BY <1>12 DEF ChildRuns
<1>13. CASE ExecFails
  BY <1>13 DEF ExecFails
<1>14. CASE ChildEnds
  BY <1>14 DEF ChildEnds
<1>15. CASE ClockMoves
  BY <1>15 DEF ClockMoves
<1>16. CASE Collect
  <2>1. file \in Seq(Line) /\ [lines |-> file, verbose |-> verbose, late |-> late,
                              reported |-> pc = "exited", took |-> took] \in File
    BY DEF File
  <2>2. files' \in Seq(File) /\ Len(files') = Len(files) + 1
    BY <1>16, <2>1 DEF Collect
  <2> QED
    <3>1. now' \in Nat /\ start' \in Instant /\ elapsed' \in Instant /\ verbose' \in BOOLEAN
      BY <1>0, <1>16 DEF Collect
    <3>2. line' \in 1 .. Len(Label) + 1 /\ Len(buffer') < BufferLines /\ Len(childBuffer') < BufferLines
      BY <1>16, <1>22 DEF Collect
    <3>3. {buffer', childBuffer', file'} \subseteq Seq(Line) /\ pending' \in Line
      BY <1>0, <1>16 DEF Collect
    <3>4. Len(files') <= MaxRuns /\ Len(data') <= Len(files')
      BY <1>16, <2>2 DEF Collect, Stages
    <3> QED
      <4>1. version' \in Nat /\ took' \in Int
        BY <1>16 DEF Collect
      <4>4. late' \in BOOLEAN
        BY <1>16 DEF Collect
      <4>2. child' \in {"none", "forked", "running", "ended"} /\ halfway' \in {"no", "yes", "torn"}
        BY <1>16 DEF Collect
      <4>3. pc' = "idle" /\ data' = data
        BY <1>16 DEF Collect
      <4> QED
        BY <2>2, <3>1, <3>2, <3>3, <3>4, <4>1, <4>2, <4>3, <4>4
<1>17. CASE Format
  BY <1>17 DEF Format
<1>18. CASE Unnamed
  BY <1>18 DEF Unnamed
<1>19. CASE Parse
  <2>1. CASE UNCHANGED data
    BY <1>19, <2>1 DEF Parse
  <2>2. CASE data' = Append(data, PowerOutput(files[Len(data) + 1].lines))
    <3>1. Len(data) + 1 \in 1 .. Len(files)
      BY <1>19 DEF Parse
    <3>2. files[Len(data) + 1].lines \in Seq(Line)
      <4>1. files[Len(data) + 1] \in File
        BY <3>1
      <4> QED
        BY <4>1 DEF File
    <3>3. data' \in Seq(Record) /\ Len(data') = Len(data) + 1
      BY <2>2, <3>2, RecordTyped
    <3> QED
      BY <1>19, <3>1, <3>3 DEF Parse
  <2> QED
    BY <1>19, <2>1, <2>2 DEF Parse
<1>20. CASE PrintData
  BY <1>20 DEF PrintData
<1>21. CASE Finished \/ UNCHANGED vars
  BY <1>21 DEF Finished
<1> QED
  BY <1>1, <1>2, <1>3, <1>4, <1>5, <1>6, <1>7, <1>8, <1>9, <1>10, <1>11, <1>12, <1>13,
     <1>14, <1>15, <1>16, <1>17, <1>18, <1>19, <1>20, <1>21, <1>23
     DEF Next, Tool, Formatter

-----------------------------------------------------------------------------
(* Stages and times.                                                       *)

LEMMA StagesNext ==
  ASSUME Shape, Stages, [Next]_vars
  PROVE  Stages'
<1> USE DEF Stages, Micros
<1>1. CASE Begin
  BY <1>1 DEF Begin
<1>2. CASE PrintCommand \/ RecordStart \/ Fork
  BY <1>2 DEF PrintCommand, RecordStart, Fork
<1>3. CASE Capture
  BY <1>3 DEF Capture
<1>4. CASE PrintBegins
  <2>1. line <= 6 /\ (line = 6 => Label[line] = "power")
    BY <1>4, Labels DEF PrintBegins, Shape, TypeOK
  <2>2. line = 6 => Micros(elapsed) > 0
    <3>1. Micros(elapsed) \in Int
      BY DEF Shape, TypeOK, Instant
    <3> QED
      BY <1>4, <2>1, <3>1 DEF PrintBegins, Skipped
  <2> QED
    BY <1>4, <2>1, <2>2 DEF PrintBegins
<1>5. CASE PrintEnds
  BY <1>5 DEF PrintEnds
<1>6. CASE PrintSkipped
  <2>1. halfway = "no"
    <3>1. Label[line] = "power" => line = 6
      BY <1>6, Labels DEF PrintSkipped, Shape, TypeOK
    <3>2. Micros(elapsed) \in Int /\ Micros(elapsed) <= 0
      BY <1>6 DEF PrintSkipped, Skipped, Shape, TypeOK, Instant
    <3> QED
      BY <1>6, <3>1, <3>2 DEF PrintSkipped, Skipped
  <2> QED
    BY <1>6, <2>1 DEF PrintSkipped
<1>7. CASE Exit \/ ForkFails
  BY <1>7, Labels DEF Exit, ForkFails, Shape, TypeOK
<1>8. CASE Kill
  BY <1>8 DEF Kill, Running
<1>9. CASE Refresh
  BY <1>9 DEF Refresh
<1>10. CASE ChildRuns \/ ExecFails \/ ChildEnds \/ ClockMoves
  BY <1>10 DEF ChildRuns, ExecFails, ChildEnds, ClockMoves
<1>11. CASE Collect
  BY <1>11 DEF Collect
<1>12. CASE Format \/ Unnamed \/ Parse \/ PrintData
  BY <1>12 DEF Format, Unnamed, Parse, PrintData
<1>13. CASE Finished \/ UNCHANGED vars
  BY <1>13 DEF Finished
<1> QED
  BY <1>1, <1>2, <1>3, <1>4, <1>5, <1>6, <1>7, <1>8, <1>9, <1>10, <1>11, <1>12, <1>13
     DEF Next, Tool, Formatter

LEMMA TimedNext ==
  ASSUME Shape, Timed, [Next]_vars
  PROVE  Timed'
<1>1. CASE Capture
  <2>1. /\ Time \in Instant /\ start \in Instant /\ Micros(Time) = now
        /\ Micros(Difference(Time, start)) = Micros(Time) - Micros(start)
    BY TimeTyped, DifferenceTyped DEF Shape, TypeOK
  <2>2. elapsed' = Difference(Time, start) /\ took' = now - Micros(start)
    BY <1>1 DEF Capture
  <2>3. Micros(elapsed') = took'
    BY <2>1, <2>2
  <2> QED
    BY <2>3 DEF Timed, Micros
<1>2. CASE elapsed' = elapsed /\ took' = took /\ (pc' = "summary" => pc = "summary")
  BY <1>2 DEF Timed, Micros
<1>3. CASE pc' # "summary"
  BY <1>3 DEF Timed
<1> QED
  BY <1>1, <1>2, <1>3
     DEF Next, Tool, Formatter, Begin, PrintCommand, RecordStart, Fork, ForkFails, PrintBegins,
         PrintEnds, PrintSkipped, Exit, Kill, Refresh, ChildRuns, ExecFails, ChildEnds,
         ClockMoves, Collect, Format, Unnamed, Parse, PrintData, Finished

-----------------------------------------------------------------------------
(* Runs without -v.                                                        *)

\* A refresh that comes late leaves what has been printed as it is.
LEMMA SaysLate ==
  ASSUME NEW l, NEW k, NEW time, NEW v, NEW w, NEW unsure, Says(l, k, time, v, unsure)
  PROVE  Says(l, k, time, w, TRUE)
BY DEF Says

LEMMA CompleteLate ==
  ASSUME NEW lines, NEW n, NEW time, NEW v, NEW w, NEW unsure,
         Complete(lines, n, time, v, unsure)
  PROVE  Complete(lines, n, time, w, TRUE)
BY SaysLate DEF Complete

\* A line is complete when the main program goes on with the next.
LEMMA QuietPrintEnds ==
  ASSUME Shape, Stages, Quiet, ~verbose, PrintEnds
  PROVE  Quiet'
<1>1. /\ pc = "summary" /\ halfway = "yes" /\ line \in 1 .. 6 /\ line <= Lines(took)
      /\ Says(pending, line, took, version, late)
      /\ Complete(buffer, line - 1, took, version, late)
  BY Labels DEF Shape, TypeOK, Stages, Quiet, PrintEnds
<1>2. Put(<<pending>>) /\ pending \in Line /\ Len(buffer) + 1 = line /\ line < BufferLines
  BY <1>1, Labels DEF PrintEnds, Complete, Shape
<1>3. /\ file' = file /\ Len(buffer') = line /\ buffer'[line] = pending
      /\ \A i \in 1 .. line - 1 : buffer'[i] = buffer[i]
  BY <1>1, <1>2, PutFits DEF Shape
<1>4. Complete(buffer', line, took, version, late)
  BY <1>1, <1>3 DEF Complete
<1>5. line = 6 => Lines(took) = 6
  BY <1>1 DEF Lines
<1>6. /\ line' = line + 1 /\ halfway' = "no" /\ pc' = pc /\ childBuffer' = childBuffer
      /\ took' = took /\ version' = version /\ late' = late /\ verbose' = verbose
  BY DEF PrintEnds
<1>7. line' <= 6 => Complete(buffer', line' - 1, took', version', late')
  BY <1>1, <1>4, <1>6
<1>8. line' = 7 => Complete(buffer', Lines(took'), took', version', late')
  BY <1>1, <1>4, <1>5, <1>6
<1> QED
  BY <1>1, <1>3, <1>6, <1>7, <1>8 DEF Quiet

LEMMA QuietNext ==
  ASSUME Shape, Stages, Timed, Quiet, [Next]_vars
  PROVE  Quiet'
<1> SUFFICES ASSUME ~verbose' PROVE Quiet'
  BY DEF Quiet
<1>1. CASE Begin
  BY <1>1 DEF Begin, Quiet
<1>2. CASE PrintCommand
  BY <1>2 DEF PrintCommand, Quiet
<1>3. CASE RecordStart \/ Fork
  BY <1>3 DEF RecordStart, Fork, Quiet
<1>4. CASE Capture
  <2>1. /\ buffer' = <<>> /\ file' = <<>> /\ childBuffer' = <<>> /\ line' = 1
        /\ halfway' = "no" /\ pc' = "summary"
    BY <1>4 DEF Capture, Quiet
  <2>2. Complete(buffer', 0, took', version', late')
    BY <2>1 DEF Complete
  <2>3. line' <= 6 => Complete(buffer', line' - 1, took', version', late')
    BY <2>1, <2>2
  <2> QED
    BY <2>1, <2>3 DEF Quiet
<1>5. CASE PrintBegins
  <2>1. /\ line \in 1 .. 6 /\ pc = "summary" /\ halfway' = "yes"
        /\ pending' = Printed(Label[line])
    BY <1>5, Labels DEF PrintBegins, Shape, TypeOK
  <2>2. Micros(elapsed) = took /\ took \in Int
    BY <2>1 DEF Timed, Shape, TypeOK
  <2>3. Says(pending', line, took, version, late)
    BY <2>1, <2>2, PrintedSays DEF Shape, TypeOK
  <2>4. line <= Lines(took)
    BY <1>5, <2>1, <2>2, Labels DEF PrintBegins, Skipped, Lines
  <2> QED
    BY <1>5, <2>1, <2>3, <2>4 DEF PrintBegins, Quiet
<1>6. CASE PrintEnds
  BY <1>6, QuietPrintEnds DEF PrintEnds
<1>7. CASE PrintSkipped
  <2>1. line = 6 /\ pc = "summary" /\ Micros(elapsed) <= 0
    BY <1>7, Labels DEF PrintSkipped, Skipped, Shape, TypeOK
  <2>2. Micros(elapsed) = took /\ took \in Int
    BY <2>1 DEF Timed, Shape, TypeOK
  <2>3. Lines(took) = 5 /\ halfway = "no"
    BY <2>1, <2>2 DEF Lines, Stages, Shape, TypeOK
  <2>4. Complete(buffer, 5, took, version, late)
    BY <1>7, <2>1 DEF Quiet, PrintSkipped
  <2> QED
    BY <1>7, <2>1, <2>3, <2>4 DEF PrintSkipped, Quiet
<1>8. CASE Exit
  <2>1. line = 7 /\ pc = "summary"
    BY <1>8, Labels DEF Exit, Shape, TypeOK
  <2>2. Complete(buffer, Lines(took), took, version, late) /\ file = <<>> /\ childBuffer = <<>>
    BY <1>8, <2>1 DEF Exit, Quiet
  <2>3. <<>> \o buffer = buffer
    BY DEF Shape
  <2> QED
    BY <1>8, <2>2, <2>3 DEF Exit, Quiet
<1>9. CASE Kill
  BY <1>9 DEF Kill, Running, Quiet
<1>16. CASE ForkFails
  <2>1. ~verbose => file' = <<>> \o <<>> /\ buffer' = <<>> /\ childBuffer' = <<>>
    BY <1>16 DEF ForkFails, Quiet
  <2> QED
    BY <1>16, <2>1 DEF ForkFails, Quiet
<1>10. CASE Refresh
  <2>1. /\ ~verbose /\ UNCHANGED <<pc, halfway, buffer, file, took, line, pending, childBuffer>>
        /\ pc \in {"start", "fork", "wait", "summary"} /\ late' = (late \/ pc = "summary")
    BY <1>10 DEF Refresh, Running, ReportsRefresh
  <2>2. CASE pc = "summary"
    <3>1. late' = TRUE
      BY <2>1, <2>2
    <3>2. line <= 6 => Complete(buffer, line - 1, took, version', TRUE)
      BY <2>1, <2>2, CompleteLate DEF Quiet
    <3>3. line = 7 => Complete(buffer, Lines(took), took, version', TRUE)
      BY <2>1, <2>2, CompleteLate DEF Quiet
    <3>4. halfway = "yes" => line <= Lines(took) /\ Says(pending, line, took, version', TRUE)
      BY <2>1, <2>2, SaysLate DEF Quiet
    <3> QED
      BY <2>1, <2>2, <3>1, <3>2, <3>3, <3>4 DEF Quiet
  <2>3. CASE pc # "summary"
    BY <2>1, <2>3 DEF Quiet
  <2> QED
    BY <2>2, <2>3
<1>11. CASE ExecFails
  <2>1. ~verbose /\ childBuffer = <<>>
    BY <1>11 DEF ExecFails, Quiet
  <2>2. file \o <<>> = file
    BY DEF Shape
  <2> QED
    BY <1>11, <2>1, <2>2 DEF ExecFails, Quiet
<1>12. CASE ChildRuns \/ ChildEnds \/ ClockMoves
  BY <1>12 DEF ChildRuns, ChildEnds, ClockMoves, Quiet
<1>13. CASE Collect
  BY <1>13 DEF Collect, Quiet
<1>14. CASE Format \/ Unnamed \/ Parse \/ PrintData
  BY <1>14 DEF Format, Unnamed, Parse, PrintData, Quiet
<1>15. CASE Finished \/ UNCHANGED vars
  BY <1>15 DEF Finished, Quiet
<1> QED
  BY <1>1, <1>2, <1>3, <1>4, <1>5, <1>6, <1>7, <1>8, <1>9, <1>10, <1>11, <1>12, <1>13,
     <1>14, <1>15, <1>16
     DEF Next, Tool, Formatter

-----------------------------------------------------------------------------
(* The files and what is made of them.                                     *)

LEMMA FiledNext ==
  ASSUME Shape, Quiet, Filed, [Next]_vars
  PROVE  Filed'
<1>1. CASE files' = files
  BY <1>1 DEF Filed
<1>2. CASE Collect
  <2> DEFINE new == [lines |-> file, verbose |-> verbose, late |-> late,
                     reported |-> pc = "exited", took |-> took]
  <2>1. /\ files' = Append(files, new) /\ files \in Seq(File)
        /\ Len(files') = Len(files) + 1 /\ files'[Len(files) + 1] = new
        /\ \A i \in 1 .. Len(files) : files'[i] = files[i]
    BY <1>2 DEF Collect, Shape
  <2>2. SUFFICES ASSUME NEW i \in DOMAIN files', ~files'[i].verbose
                 PROVE  IF files'[i].reported
                        THEN \E v \in Nat : Complete(files'[i].lines, Lines(files'[i].took),
                                                    files'[i].took, v, files'[i].late)
                        ELSE files'[i].lines = <<>>
    BY DEF Filed
  <2>3. CASE i \in 1 .. Len(files)
    BY <2>1, <2>2, <2>3 DEF Filed
  <2>4. CASE i = Len(files) + 1
    <3>1. /\ ~verbose /\ files'[i].lines = file /\ files'[i].took = took
          /\ files'[i].late = late /\ (files'[i].reported <=> pc = "exited")
      <4>1. files'[i] = new
        BY <2>1, <2>4
      <4>2. /\ new.verbose = verbose /\ new.lines = file /\ new.took = took
            /\ new.late = late
        OBVIOUS
      <4>3. new.reported = (pc = "exited")
        OBVIOUS
      <4> HIDE DEF new
      <4> QED
        BY <2>2, <4>1, <4>2, <4>3
    <3>2. CASE pc = "exited"
      <4>1. Complete(file, Lines(took), took, version, late) /\ version \in Nat
        BY <3>1, <3>2 DEF Quiet, Shape, TypeOK
      <4> QED
        BY <3>1, <3>2, <4>1
    <3>3. CASE pc \in {"failed", "killed"}
      BY <3>1, <3>3 DEF Quiet
    <3> QED
      BY <1>2, <3>2, <3>3 DEF Collect
  <2> QED
    BY <2>1, <2>3, <2>4
<1> QED
  BY <1>1, <1>2
     DEF Next, Tool, Formatter, Begin, PrintCommand, RecordStart, Fork, ForkFails, Capture,
         PrintBegins, PrintEnds, PrintSkipped, Exit, Kill, Refresh, ChildRuns, ExecFails, ChildEnds,
         ClockMoves, Format, Unnamed, Parse, PrintData, Finished

LEMMA FormattedNext ==
  ASSUME Shape, Formatted, [Next]_vars
  PROVE  Formatted'
<1>1. CASE Parse
  <2>1. /\ pc = "format" /\ Len(data) < Len(files) /\ files' = files
        /\ Len(data) \in Nat /\ Len(files) \in Nat
    BY <1>1 DEF Parse, Shape
  <2>2. CASE Duplicate(files[Len(data) + 1].lines)
    BY <1>1, <2>1, <2>2 DEF Parse, Formatted
  <2>3. CASE ~Duplicate(files[Len(data) + 1].lines)
    <3>1. data' = Append(data, PowerOutput(files[Len(data) + 1].lines)) /\ pc' = "format"
      BY <1>1, <2>1, <2>3 DEF Parse
    <3>2. /\ DOMAIN data' = 1 .. Len(data) + 1 /\ DOMAIN data = 1 .. Len(data)
          /\ data'[Len(data) + 1] = PowerOutput(files[Len(data) + 1].lines)
          /\ \A i \in 1 .. Len(data) : data'[i] = data[i]
      BY <3>1 DEF Shape
    <3>3. \A i \in DOMAIN data' : data'[i] = PowerOutput(files[i].lines)
      BY <2>1, <3>2 DEF Formatted
    <3> QED
      BY <2>1, <3>1, <3>3 DEF Formatted
  <2> QED
    BY <2>2, <2>3
<1>2. CASE Collect
  BY <1>2 DEF Collect, Formatted
<1>3. CASE Format \/ Unnamed \/ PrintData
  BY <1>3 DEF Format, Unnamed, PrintData, Formatted
<1>4. CASE Finished \/ UNCHANGED vars
  BY <1>4 DEF Finished, Formatted
<1>5. CASE Tool \/ ChildRuns \/ ExecFails \/ ChildEnds \/ ClockMoves
  <2>1. /\ files' = files /\ data' = data
        /\ pc' \in {"format", "unnamed", "duplicate", "printed"} => pc' = pc
    BY <1>5
       DEF Tool, Begin, PrintCommand, RecordStart, Fork, ForkFails, Capture,
           PrintBegins, PrintEnds, PrintSkipped, Exit, Kill, Refresh, ChildRuns, ExecFails, ChildEnds, ClockMoves
  <2>2. data = <<>> \/ pc' = pc
    BY <1>5
       DEF Formatted, Tool, Running, Begin, PrintCommand, RecordStart, Fork, ForkFails,
           Capture, PrintBegins, PrintEnds, PrintSkipped, Exit, Kill, Refresh, ChildRuns, ExecFails,
           ChildEnds, ClockMoves
  <2> QED
    BY <2>1, <2>2 DEF Formatted
<1> QED
  BY <1>1, <1>2, <1>3, <1>4, <1>5 DEF Next, Formatter

LEMMA ReadBackInit == Init => ReadBack
<1> SUFFICES ASSUME Init PROVE ReadBack
  OBVIOUS
<1>1. Shape
  BY ShapeInit
<1>2. Stages /\ Quiet /\ Timed
  BY DEF Init, Stages, Quiet, Timed
<1>3. Filed /\ Formatted
  BY DEF Init, Filed, Formatted
<1> QED
  BY <1>1, <1>2, <1>3 DEF ReadBack

\* From the metrics to the records of the formatter, whatever happens on the
\* way: the lines of a quiet run are those of one summary, in their order.
THEOREM ReadBackInvariant == Spec => []ReadBack
<1>1. ReadBack /\ [Next]_vars => ReadBack'
  BY ShapeNext, StagesNext, TimedNext, QuietNext, FiledNext, FormattedNext DEF ReadBack
<1> QED
  BY <1>1, ReadBackInit, PTL DEF Spec

\* The times of a run and of its report are normalised, and stay so whatever
\* the clock says; the buffer is never full.
THEOREM TypeCorrect == Spec => []TypeOK
<1>1. ReadBack => TypeOK
  BY DEF ReadBack, Shape
<1> QED
  BY <1>1, ReadBackInvariant, PTL

-----------------------------------------------------------------------------
\* In a complete report a label is found on its own line only.
LEMMA OnItsLine ==
  ASSUME NEW lines, NEW time \in Int, NEW v, NEW unsure,
         Complete(lines, Lines(time), time, v, unsure), lines \in Seq(Line)
  PROVE  /\ \A k \in 1 .. 6 : Matching(lines, Label[k]) \subseteq {k}
         /\ Matching(lines, "real") = IF time >= 0 THEN {1} ELSE {}
         /\ Matching(lines, "pkg") = {4}
         /\ Matching(lines, "power") = IF time > 0 THEN {6} ELSE {}
<1> DEFINE n == Lines(time)
<1>1. n \in {5, 6} /\ (n = 6 <=> time > 0)
  BY DEF Lines
<1>2. DOMAIN lines = 1 .. n /\ \A i \in 1 .. n : Says(lines[i], i, time, v, unsure)
  BY DEF Complete
<1>3. \A i \in 1 .. n : lines[i].label = Label[i]
  BY <1>2 DEF Says
<1>4. ASSUME NEW k \in 1 .. 6 PROVE Matching(lines, Label[k]) \subseteq {k}
  <2>1. \A i \in 1 .. n : lines[i].label = Label[k] => i = k
    BY <1>1, <1>3, Labels
  <2> QED
    BY <1>2, <2>1 DEF Matching, Matches
<1>5. ASSUME NEW k \in {4, 6} PROVE k \in Matching(lines, Label[k]) <=> k \in 1 .. n
  <2>1. Label[k] # "real" /\ k \in 1 .. 6
    BY Labels
  <2> QED
    BY <1>2, <1>3, <2>1 DEF Matching, Matches
<1>6. 1 \in Matching(lines, Label[1]) <=> time >= 0
  <2>1. 1 \in 1 .. n /\ Label[1] = "real"
    BY <1>1, Labels
  <2>2. lines[1].min >= 0 /\ lines[1].sec >= 0 /\ lines[1].usec >= 0 <=> time >= 0
    BY <1>2, <2>1 DEF Says
  <2> QED
    BY <1>2, <1>3, <2>1, <2>2 DEF Matching, Matches
<1>7. Label[1] = "real" /\ Label[4] = "pkg" /\ Label[6] = "power"
  BY Labels
<1>8. Matching(lines, "real") = IF time >= 0 THEN {1} ELSE {}
  BY <1>4, <1>6, <1>7
<1>9. Matching(lines, "pkg") = {4}
  BY <1>1, <1>4, <1>5, <1>7
<1>10. Matching(lines, "power") = IF time > 0 THEN {6} ELSE {}
  BY <1>1, <1>4, <1>5, <1>7
<1> QED
  BY <1>4, <1>8, <1>9, <1>10

LEMMA NothingMatches == \A label : Matching(<<>>, label) = {}
BY DEF Matching

\* No run without -v makes the formatter give up.
THEOREM QuietRunsAreRead == Spec => []QuietRunsParse
<1>1. ASSUME ReadBack PROVE QuietRunsParse
  <2> SUFFICES ASSUME pc = "duplicate", ~files[Len(data) + 1].verbose PROVE FALSE
    BY DEF QuietRunsParse
  <2> DEFINE f == files[Len(data) + 1]
  <2>1. Len(data) + 1 \in DOMAIN files /\ f \in File
    BY <1>1 DEF ReadBack, Shape, Formatted
  <2>2. Duplicate(f.lines)
    BY <1>1 DEF ReadBack, Formatted
  <2>3. f.lines \in Seq(Line) /\ f.took \in Int
    BY <2>1 DEF File
  <2>4. \A k \in 1 .. 6 : Matching(f.lines, Label[k]) \subseteq {k}
    <3>1. CASE f.reported
      <4>1. PICK v \in Nat : Complete(f.lines, Lines(f.took), f.took, v, f.late)
        BY <1>1, <2>1, <3>1 DEF ReadBack, Filed
      <4> HIDE DEF f
      <4> QED
        BY <2>3, <4>1, OnItsLine
    <3>2. CASE ~f.reported
      BY <1>1, <2>1, <3>2, NothingMatches DEF ReadBack, Filed
    <3> QED
      BY <3>1, <3>2
  <2> QED
    BY <2>2, <2>4, Labels DEF Duplicate
<1> QED
  BY <1>1, ReadBackInvariant, PTL

\* What a record says of a quiet run with the file f.
Told(record, f) ==
  IF f.reported
  THEN /\ record.realtime = IF f.took >= 0 THEN {f.took} ELSE {}
       /\ record.energy = {f.lines[4]}
       /\ record.power = IF f.took > 0 THEN {f.lines[6]} ELSE {}
       /\ f.took > 0 => /\ f.lines[6].time = f.took
                        /\ ~f.late => f.lines[6].energy = f.lines[4].energy
  ELSE record.realtime = {} /\ record.energy = {} /\ record.power = {}

LEMMA RecordSays ==
  ASSUME ReadBack, NEW i \in DOMAIN data, ~files[i].verbose
  PROVE  Told(data[i], files[i]) /\ files[i].took \in Int
<1> DEFINE f == files[i]
<1>1. i \in DOMAIN files /\ f \in File /\ data[i] = PowerOutput(f.lines)
  BY DEF ReadBack, Shape, TypeOK, Formatted
<1>2. f.lines \in Seq(Line) /\ f.took \in Int
  BY <1>1 DEF File
<1>3. CASE ~f.reported
  <2>1. f.lines = <<>>
    BY <1>1, <1>3 DEF ReadBack, Filed
  <2> QED
    BY <1>1, <1>2, <1>3, <2>1, NothingMatches DEF PowerOutput, Told
<1>4. CASE f.reported
  <2>1. PICK v \in Nat : Complete(f.lines, Lines(f.took), f.took, v, f.late)
    BY <1>1, <1>4 DEF ReadBack, Filed
  <2>2. /\ Matching(f.lines, "real") = IF f.took >= 0 THEN {1} ELSE {}
        /\ Matching(f.lines, "pkg") = {4}
        /\ Matching(f.lines, "power") = IF f.took > 0 THEN {6} ELSE {}
    BY <1>2, <2>1, OnItsLine
  <2>3. /\ Says(f.lines[1], 1, f.took, v, f.late) /\ Says(f.lines[4], 4, f.took, v, f.late)
        /\ f.took > 0 => Says(f.lines[6], 6, f.took, v, f.late)
    BY <1>2, <2>1 DEF Complete, Lines
  <2>4. RealTime(f.lines[1]) = f.took
    BY <2>3 DEF Says
  <2>5. f.took > 0 => /\ f.lines[6].time = f.took
                      /\ ~f.late => f.lines[6].energy = f.lines[4].energy
    BY <2>3 DEF Says
  <2> HIDE DEF f
  <2>6. /\ data[i].realtime = {RealTime(f.lines[j]) : j \in Matching(f.lines, "real")}
        /\ data[i].energy = {f.lines[j] : j \in Matching(f.lines, "pkg")}
        /\ data[i].power = {f.lines[j] : j \in Matching(f.lines, "power")}
    BY <1>1 DEF PowerOutput
  <2>7. /\ data[i].realtime = IF f.took >= 0 THEN {f.took} ELSE {}
        /\ data[i].energy = {f.lines[4]}
        /\ data[i].power = IF f.took > 0 THEN {f.lines[6]} ELSE {}
    BY <2>2, <2>4, <2>6
  <2> QED
    BY <1>2, <1>4, <2>5, <2>7 DEF f, Told
<1> QED
  BY <1>3, <1>4

\* The formatter records the time of a quiet run, and its power exactly when
\* that time is positive, and nothing of a run that was killed.
THEOREM RecordsAreFaithful == Spec => []RecordsFaithful
<1>1. ReadBack => RecordsFaithful
  <2> SUFFICES ASSUME ReadBack, NEW i \in DOMAIN data, ~files[i].verbose
               PROVE  LET f == files[i]
                      IN /\ data[i].realtime = IF f.reported /\ f.took >= 0 THEN {f.took} ELSE {}
                         /\ data[i].energy # {} <=> f.reported
                         /\ data[i].power # {} <=> f.reported /\ f.took > 0
    BY DEF RecordsFaithful
  <2>1. Told(data[i], files[i])
    BY RecordSays
  <2> QED
    BY <2>1 DEF Told
<1> QED
  BY <1>1, ReadBackInvariant, PTL

\* The power that is recorded of a quiet run is its energy by its time, as
\* long as no refresh comes after resuse_end.
THEOREM PowerIsEnergyByTime == Spec => []PowerMatchesEnergy
<1>1. ReadBack => PowerMatchesEnergy
  <2> SUFFICES ASSUME ReadBack, NEW i \in DOMAIN data, ~files[i].verbose, ~files[i].late,
                      NEW power \in data[i].power
               PROVE  /\ data[i].realtime = {power.time}
                      /\ \E energy \in data[i].energy : power.energy = energy.energy
    BY DEF PowerMatchesEnergy
  <2>1. Told(data[i], files[i]) /\ files[i].took \in Int
    BY RecordSays
  <2>2. files[i].reported /\ files[i].took > 0 /\ power = files[i].lines[6]
    BY <2>1 DEF Told
  <2> QED
    BY <2>1, <2>2 DEF Told
<1> QED
  BY <1>1, ReadBackInvariant, PTL
=============================================================================
