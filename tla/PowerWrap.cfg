SPECIFICATION FairSpec
CONSTANTS
  RegMod = 3
  WordMod = 8
  MaxPkg = 3
  MaxPp0 = 0
  MaxReads = 3
  MaxPower = 100
  BadReads = {}
  Booted = {1}
  Intervals = {0, 15}
  Dispositions = {"default", "ignore"}
INVARIANTS
  AccountingTelescopes
  OneSilentWrap
PROPERTIES
  Terminates
  InterruptedRunIsReported
