SPECIFICATION FairSpec
CONSTANTS
  Producers = {p1}
  Consumers = {c1, c2}
  Readers = {c1, c2}
  MaxFrames = 2
  ChanCap = 1
PROPERTY SendsToRegistered
CHECK_DEADLOCK FALSE
