SPECIFICATION FairSpec
CONSTANTS
  Invocations = {read, write}
  Calls = {c1, c2}
  Idempotent = {read}
  Verdicts = {"ALLOWED", "DENIED"}
  MaxRetries = 2
  MaxAbandons = 2
CHECK_DEADLOCK FALSE
INVARIANT TypeOK
INVARIANT EveryExecutionWasAllowed
INVARIANT ExecutedOnceUnlessRaced
INVARIANT AttemptBudget
INVARIANT OverlapOnlyIfIdempotent
INVARIANT AuditTellsStatus
PROPERTY ImplementsInvocation
PROPERTY NobodyTakesOver
PROPERTY RowsSettle
PROPERTY CallsReturn
