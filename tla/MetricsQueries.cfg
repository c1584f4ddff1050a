SPECIFICATION Spec
CONSTANTS
  Requests = {r1}
  Documents <- MCDocuments
  Asked <- MCAsked
  LimitTexts <- MCLimitTexts
  PageTexts <- MCPageTexts
  TimeTexts <- MCTimeTexts
  DefaultLimit = 2
  MaxInt = 7
INVARIANTS
  TypeOK
  ListPageRight
  GPUsListedOnce
  PageCoversCount
  TelemetryPageRight
CHECK_DEADLOCK FALSE
