SPECIFICATION FairSpec
CONSTANTS
  Callers = {a, b, c}
  MaxConnections = 4
CHECK_DEADLOCK FALSE
INVARIANT TypeOK
INVARIANT OneServing
INVARIANT NoOrphan
PROPERTY ShutdownCloses
PROPERTY CallsEnd
