SPECIFICATION Spec
CONSTANTS
  RegMod = 16
  WordMod = 64
  MaxPkg = 2
  MaxPp0 = 0
  MaxReads = 3
  MaxPower = 100
  BadReads = {}
  Booted = {0}
  Intervals = {15}
  Dispositions = {"default"}
PROPERTY
  SignalsKillOnlyChild
