SPECIFICATION FairSpec
CONSTANTS
  Producers = {p1}
  Consumers = {c1, c2}
  MaxFrames = 2
  QueueCap = 1
PROPERTY GracefulShutdown
CHECK_DEADLOCK FALSE
