SPECIFICATION FairSpec
CONSTANTS
  Producers = {p1}
  Consumers = {c1, c2}
  MaxFrames = 3
  QueueCap = 2
PROPERTIES
  QueuedEventuallyTaken
  ProducerNeverBlocked
CHECK_DEADLOCK FALSE
