SPECIFICATION FairSpec
CONSTANTS
  Base = 4
  HeaderLen = 2
  LF = 2
  CR = 3
  PRODUCER <- MCProducer
  CONSUMER <- MCConsumer
  Lines <- MCLines
  Bodies <- MCBodies
  MaxFrame = 2
  MaxFrames = 2
INVARIANTS
  TypeOK
  NothingLeftBehind
PROPERTIES
  ImplementsFrameStream
  FrameArrives
CHECK_DEADLOCK FALSE
