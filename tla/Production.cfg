SPECIFICATION FairSpec
CONSTANT
  Episodes = {e1, e2}
INVARIANT ReleasedWasReviewed
PROPERTY LoopsPassAGate
\* An episode that is COMPLETED stays so.
CHECK_DEADLOCK FALSE
