SPECIFICATION FairSpec
CONSTANTS
  p1 = p1
  p2 = p2
  p3 = p3
  Callers = {p1, p2}
  Payloads = {"none"}
  MaxId = 1
  MaxBus = 2
  MaxAdds = 2
  MaxRemovals = 2
PROPERTY EveryRequestReturns
PROPERTY EmptyBusGoes
CHECK_DEADLOCK FALSE
