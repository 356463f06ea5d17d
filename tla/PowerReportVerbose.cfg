SPECIFICATION Spec
CONSTANTS
  Second = 2
  Minute = 2
  Clocks = {0}
  MaxNow = 1
  MaxVersion = 2
  MaxRuns = 1
  BufferLines = 7
INVARIANT
  ToolOutputParses
