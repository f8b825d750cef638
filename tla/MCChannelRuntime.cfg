SPECIFICATION Spec
CONSTANTS
  Channels = {c1, c2, s1}
  Strays = {s1}
  Loaded = c1
  Files <- OneOfEach
  Approved = {"approved"}
  Configs <- AllConfigs
  Grants <- DocumentBodies
  Edits <- SomeEdits
  MaxEdits = 2
CHECK_DEADLOCK FALSE
INVARIANT TypeOK
INVARIANT ContextWasThere
INVARIANT EffectiveToolsWereGranted
INVARIANT FailureHasCause
INVARIANT ListingIsHonest
