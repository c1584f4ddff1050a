SPECIFICATION FairSpec
CONSTANTS
  Producers = {p1}
  Consumers = {c1, c2}
  Readers = {c1}
  MaxFrames = 3
  ChanCap = 1
PROPERTIES
  ImplementsFanOut
  ProducerNeverBlocked
  BufferedEventuallyWritten
  ClosedConsumerLeaves
CHECK_DEADLOCK FALSE
