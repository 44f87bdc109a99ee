SPECIFICATION Spec
CONSTANTS
  p1 = p1
  p2 = p2
  p3 = p3
  d1 = d1
  d2 = d2
  x1 = x1
  Procs = {p1, p2, p3}
  Devices = {d1, d2}
  Aliases = {x1}
  NoAlias = NoAlias
  NoProc = NoProc
  MaxToken = 2
  MaxDeviceID = 2
  Ceilings = {1, 2}
  MaxEmpty = 2
INVARIANTS TypeOK AddressesMatchList LeaseFencesRemoval RemovalHasOneOwner SignalledMeansGone NumberFreedAfterDrain StaleCleanupIsNoOp
SYMMETRY Perms
PROPERTIES ImplementsRegistry
