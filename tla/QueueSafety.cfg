SPECIFICATION Spec
CONSTANTS
  Producers = {p1, p2}
  Consumers = {c1, c2}
  MaxFrames = 2
  QueueCap = 2
SYMMETRY Interchangeable
INVARIANTS
  TypeOK
  OnePlaceEach
  ProducerOrder
PROPERTY ImplementsWorkQueue
CHECK_DEADLOCK FALSE
