SPECIFICATION Spec
CONSTANTS
  p1 = p1
  p2 = p2
  p3 = p3
  Callers = {p1, p2}
  Payloads = {"id", "zero"}
  MaxId = 2
  MaxBus = 2
  MaxAdds = 2
  MaxRemovals = 2
SYMMETRY CallerSymmetry
INVARIANT TypeOK
INVARIANT ForgottenMeansDrained
INVARIANT ClosedMeansLeaving
INVARIANT RegisteredHoldsNumber
PROPERTY CleanupSparesUsedBus
CHECK_DEADLOCK FALSE
