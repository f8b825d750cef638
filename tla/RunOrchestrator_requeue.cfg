SPECIFICATION Spec
CONSTANTS
  RunIds = {r1}
  ChannelIds = {c1}
  Workers = {w1}
  ChannelConfigs <- ConfigEdits
  MaxVersion = 4
  MaxAbandons = 0
PROPERTY QueuesScheduledOnly
