SPECIFICATION Spec
CONSTANTS
  RegMod = 16
  WordMod = 64
  MaxPkg = 2
  MaxPp0 = 1
  MaxReads = 4
  MaxPower = 100
  BadReads = {}
  Booted = {0, 1}
  Intervals <- AnyInterval
  Dispositions = {"default", "ignore"}
INVARIANTS
  TypeOK
  NeverUnderReports
  NeverMoreThanThreefold
  UntimedCountsOnce
PROPERTIES
  ImplementsEnergyMeter
  MeasuredRunSurvives
