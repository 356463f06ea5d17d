SPECIFICATION Spec
CONSTANTS
  Second = 2
  Minute = 2
  Clocks = {1}
  MaxNow = 5
  MaxVersion = 2
  MaxRuns = 2
  BufferLines = 7
INVARIANTS
  QuietRunsParse
  RecordsFaithful
  PowerMatchesEnergy
