SPECIFICATION Spec
CONSTANTS
  NumThreads = 3
  Faults <- AnyFault
  Threads <- Workers
  KernelFails = TRUE
  Milli = 4
  Percent = 4
  Micro = 8
  UMod = 16
  Periods = {1, 2, 5}
  Loads = {0, 1, 4}
  Timeouts = {0, 2}
  Delays = {0, 3}
  Clocks <- SomeClocks
  MaxTime = 8
INVARIANT
  LowIsIdle
