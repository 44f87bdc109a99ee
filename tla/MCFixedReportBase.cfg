SPECIFICATION Spec
CONSTANTS
  rest = rest  tilt = tilt  press = press
  States = {rest, tilt, press}
  Neutral = rest
  Transitions <- ButtonEdges
  Capacity = 2
  Strict = FALSE
  FaultOnOverflow = TRUE
  MaxOrdinal = 6
  MaxToken = 5
  MaxGeneration = 2
PROPERTY TransitionFollowsItsBase
CHECK_DEADLOCK FALSE
