SPECIFICATION FairSpec
CONSTANTS
  Executions = {e1, e2}
  MaxRetries = 1
  MaxConnections = 4
CHECK_DEADLOCK FALSE
INVARIANT TypeOK
INVARIANT SpawnsWithinAttempts
PROPERTY ExecutionsEnd
PROPERTY LeftoversEnd
PROPERTY HarmPasses
