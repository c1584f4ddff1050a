SPECIFICATION Spec
CONSTANTS
  ProducerPods = {producer}
  ConsumerPods = {consumer1}
  ProducerRuns = 2
  ConsumerRuns = 2
  Rows = 2
  MaxFailed = 1
  Settings = {"broadcast", "queue", "anything else"}
INVARIANTS
  TypeOK
  CompletedMeansWhole
  LateOnlyIfFailed
  DuplicatesOnlyFromRestarts
CONSTRAINT FewFailures
CHECK_DEADLOCK FALSE
