SPECIFICATION Spec
CONSTANTS
  Measurements <- SomeMeasurements
  CreateFails = TRUE
  Frequencies = 3
  MaxThreads = 4
  Scripts <- AllScripts
INVARIANTS
  ArgumentsOutliveThreads
  MeasuredAlone
  NoneLeftBehind
PROPERTIES
  RunnerGetsOn
  EveryCellReported
