SPECIFICATION MCSpec
CONSTANTS
  Runs = {r1, r2}
  Channels = {x, y}
  Tool = "search"
  Sessions = {s1, s2}
  Contents <- TwoContents
  Definitions <- SomeDefinitions
  Bodies = {b1, b2}
  Inputs = {"valid"}
  Failures = {"BLOCKED"}
  Flaws = {"none", "topic"}
  MaxEdits = 1
SYMMETRY Symmetry
CHECK_DEADLOCK FALSE
INVARIANT TypeOK
INVARIANT ExecutedInScope
INVARIANT ExecutedAsGranted
INVARIANT OneDefinition
INVARIANT ResultIsGrounded
