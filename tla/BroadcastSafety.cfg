SPECIFICATION Spec
CONSTANTS
  Producers = {p1, p2}
  Consumers = {c1, c2}
  Readers = {}
  MaxFrames = 2
  ChanCap = 1
SYMMETRY Interchangeable
INVARIANTS
  TypeOK
  ProducerOrder
  NoDoubleClose
  LossOnlyByOverflow
  DrainBeforeLeave
CHECK_DEADLOCK FALSE
