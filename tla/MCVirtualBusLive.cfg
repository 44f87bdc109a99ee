SPECIFICATION Spec
CONSTANTS
  p1 = p1
  p2 = p2
  p3 = p3
  d1 = d1
  Procs = {p1, p2, p3}
  Devices = {d1}
  Aliases = {}
  NoAlias = NoAlias
  NoProc = NoProc
  MaxToken = 2
  MaxDeviceID = 1
  Ceilings = {1}
  MaxEmpty = 1
PROPERTIES EveryCallReturns
