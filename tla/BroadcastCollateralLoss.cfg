SPECIFICATION Spec
CONSTANTS
  Producers = {p1}
  Consumers = {c1, c2}
  Readers = {}
  MaxFrames = 2
  ChanCap = 1
INVARIANT NoCollateralLoss
CHECK_DEADLOCK FALSE
