SPECIFICATION Spec
CONSTANTS
  Invocations = {write}
  Calls = {c1, c2}
  Idempotent = {}
  Verdicts = {"ALLOWED"}
  MaxRetries = 0
  MaxAbandons = 0
CHECK_DEADLOCK FALSE
PROPERTY CompletedIsFinal
