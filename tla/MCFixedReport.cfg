SPECIFICATION Spec
CONSTANTS
  rest = rest  tilt = tilt  press = press
  States = {rest, tilt, press}
  Neutral = rest
  Transitions <- ButtonEdges
  Capacity = 2
  Strict = TRUE
  FaultOnOverflow = TRUE
  MaxOrdinal = 6
  MaxToken = 5
  MaxGeneration = 2
INVARIANTS TypeOK NeverWedged OnlyCurrentEpoch BytesMatch EncodedOnce
PROPERTY TransitionsKept
CHECK_DEADLOCK FALSE
