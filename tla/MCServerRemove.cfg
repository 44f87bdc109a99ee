SPECIFICATION Spec
CONSTANTS
  p1 = p1
  p2 = p2
  p3 = p3
  Callers = {p1, p2, p3}
  Payloads = {"id"}
  MaxId = 1
  MaxBus = 2
  MaxAdds = 0
  MaxRemovals = 2
SYMMETRY CallerSymmetry
PROPERTY RemovedWhenReturned
CHECK_DEADLOCK FALSE
