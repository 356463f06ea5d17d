--------------------------- MODULE PowerInvariant ---------------------------
(***************************************************************************)
(* The inductive invariant behind the bounds on what PowerMonitor reports. *)
(*                                                                         *)
(* Two quantities carry it.  A refresh adds the same amount to pwr and to  *)
(* reg, so their difference changes only where the main program stores to  *)
(* one of them; and every register value the program holds was read at     *)
(* some instant, so such values are ordered like their instants.           *)
(***************************************************************************)
EXTENDS PowerMonitor

\* The register of d has not wrapped around.
Fits(d) == energy[d] < RegMod

By(d, pkg, pp0) == IF d = "pkg" THEN pkg ELSE pp0

\* Locations of the main program, by what it has done for domain d.
Stored(d) == Captured \cup By(d, {"addPp0"}, {})
Zeroed(d) == (InsideInit \cup Metering \cup InsideFinalize)
             \ (By(d, {"addPp0"}, {"zeroPp0"}))
Opened(d) == (Metering \ {"start"}) \cup By(d, {}, {"keepPp0"})
Kept(d) == InsideFinalize \ By(d, {"addPp0"}, {"keepPp0"})
PreRead(d) == Kept(d) \ ({"keepPp0", "prePkg"} \cup By(d, {}, {"prePp0"}))
PostRead(d) == PreRead(d) \ ({"prePp0", "spinCase", "postPkg"}
                             \cup By(d, {}, {"postPp0"}))
Estimated(d) == By(d, {"estPp0", "addPkg"}, {"addPkg", "addPp0"})
Storing(d) == By(d, "storePkg", "storePp0")
Adding(d) == By(d, "addPkg", "addPp0")
Printed == {"sumPower", "exit"}

\* What the handler and the registers of the processor hold.
HandlerInv ==
  /\ hpc # "idle" => hInit = reg
  /\ pc \notin {"addPkg", "addPp0", "killed"} => loaded = {}
  /\ hpc = "update" /\ Fits("pkg") =>
       reg["pkg"] <= hPkg /\ hPkg <= energy["pkg"]

\* What the program holds was read in the past.
PastInv(d) ==
  /\ reg[d] <= energy[d] /\ start[d] <= energy[d] /\ end[d] <= energy[d]
  /\ pc = Storing(d) => tmp <= energy[d]
  /\ pc \in Kept(d) => snap["init"][d] <= energy[d]
  /\ pc \in PreRead(d) =>
       /\ snap["pre"][d] <= energy[d]
       /\ snap["init"][d] <= snap["pre"][d] /\ end[d] <= snap["pre"][d]
  /\ pc \in PostRead(d) => snap["post"][d] <= energy[d]
  /\ pc \in Estimated(d) => snap["init"][d] <= reg[d] /\ end[d] <= reg[d]

\* Nothing consumed since start is missing.
LowerInv(d) ==
  /\ pc \in Opened(d) => reg[d] <= pwr[d] + start[d]
  /\ pc \in Kept(d) => snap["init"][d] <= pwr[d] + start[d]
  /\ pc = Adding(d) /\ "sum" \in loaded => snap["init"][d] <= sum + start[d]
  /\ pc = Adding(d) /\ "add" \in loaded => end[d] <= add + snap["init"][d]
  /\ pc \in Stored(d) => end[d] <= pwr[d] + start[d]
  /\ pc \in Printed => end[d] <= shown.energy[d] + start[d]

\* Nothing is counted too often.
UpperInv(d) ==
  /\ pc \in Zeroed(d) => pwr[d] <= reg[d] + energy[d]
  /\ pc = Storing(d) => pwr[d] <= reg[d] + tmp
  /\ pc \in PreRead(d) \ Estimated(d) => pwr[d] <= reg[d] + snap["pre"][d]
  /\ pc = Adding(d) /\ "sum" \in loaded => sum <= reg[d] + energy[d]
  /\ pc = Adding(d) /\ "add" \in loaded => add + snap["init"][d] <= reg[d]
  /\ pc \in Stored(d) => pwr[d] <= reg[d] + 2 * energy[d]
  /\ pc \in Printed => shown.energy[d] <= 3 * energy[d]

Bracketed(d) == PastInv(d) /\ LowerInv(d) /\ UpperInv(d)

\* A refresh is at work on what the main program left, and has marked what it
\* disturbs.
SteadyInv ==
  /\ hpc # "idle" => hInit = reg
  /\ hpc # "idle" /\ pc \in InsideInit \cup InsideFinalize => disturbed
  /\ pc \notin {"addPkg", "addPp0", "killed"} => loaded = {}

\* What has been added since rapl_init makes the reading v of d: up to whole
\* words, and exactly when no wraparound has been announced.
Tally(d, v) ==
  /\ (begin[d] + pwr[d]) % WordMod = v % WordMod
  /\ ~Warned => begin[d] + pwr[d] = v

\* The same once rapl_finalize, which announces nothing, may have wrapped.
FinalTally(d) ==
  /\ (begin[d] + pwr[d]) % WordMod = reg[d] % WordMod
  /\ ~Warned => begin[d] + pwr[d] - reg[d] \in {0, WordMod}

AccountInv(d) ==
  ~disturbed =>
    /\ pc \in InsideInit \ By(d, {}, {"zeroPp0"}) => pwr[d] = 0
    /\ pc \in Metering \cup By(d, {}, {"keepPp0"}) => Tally(d, reg[d])
    /\ pc \in Kept(d) => Tally(d, snap["init"][d])
    /\ pc \in Kept(d) \ Estimated(d) => snap["init"][d] = reg[d]
    /\ pc = Adding(d) /\ "sum" \in loaded => sum = pwr[d]
    /\ pc = Adding(d) /\ "add" \in loaded => add = Delta(reg[d], snap["init"][d])
    /\ pc \in Stored(d) => FinalTally(d)

\* The command is forked after the window opens and reaped before it closes.
Unforked == {"open", "arm", "units", "zeroPkg", "start", "fork"} \cup InsideInit
ProcessInv ==
  /\ pc \in Unforked => child = "none"
  /\ pc = "end" => child = "reaped"

\* The strengthening of NeverUnderReports and NeverMoreThanThreefold that
\* every step of the monitor preserves.
ReportInv == HandlerInv /\ \A d \in Domain : Fits(d) => Bracketed(d)

\* The strengthening of AccountingTelescopes and OneSilentWrap.
AccountsInv == SteadyInv /\ \A d \in Domain : AccountInv(d)

\* A timer that was never armed has left no trace.
NeverTimed ==
  interval <= 0 => ~armed /\ ~pending /\ hpc = "idle" /\ ~disturbed /\ ~Warned

\* Then what a domain is charged is what lies between its first reading and its
\* estimate.
ChargedOnce ==
  interval <= 0 =>
    \A d \in Domain : pc \in Stored(d) /\ Fits(d) => begin[d] + pwr[d] = reg[d]

\* The signals are ignored one after the other, and both until the first is
\* restored.
ShieldInv ==
  /\ pc \in Shielded \cup {"ignoreQuit"} => disp["INT"] = "ignore"
  /\ pc \in Shielded => disp["QUIT"] = "ignore"
=============================================================================
