SPECIFICATION Spec
CONSTANTS
  p1 = p1
  p2 = p2
  p3 = p3
  Callers = {p1, p2}
  Payloads = {"id", "zero"}
  MaxId = 1
  MaxBus = 2
  MaxAdds = 0
  MaxRemovals = 1
SYMMETRY CallerSymmetry
INVARIANT NextFreeIsAllocatable
CHECK_DEADLOCK FALSE
