SPECIFICATION FairBreakerSpec
CONSTANTS
  Thread = {t1, t2}
  FailureThreshold = 2
  SuccessThreshold = 2
  MaxCount = 4
  MayReset = TRUE
  NoThread = NoThread
INVARIANTS BreakerTypeOK CountsSettle
PROPERTIES ImplementsMachine Recovers
