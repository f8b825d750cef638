SPECIFICATION FairSpec
CONSTANTS
  RunIds = {r1, r2}
  ChannelIds = {c1}
  Workers = {w1, w2}
  ChannelConfigs <- ConfigEdits
  MaxVersion = 4
  MaxAbandons = 1
INVARIANT TypeOK
INVARIANT CapacityRespected
INVARIANT AuditRetellsRun
INVARIANT CheckpointIffRunning
PROPERTY OnlyOwnerEndsPreflight
PROPERTY ImplementsLedger
PROPERTY PreflightEnds
