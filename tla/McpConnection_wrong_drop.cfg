SPECIFICATION Spec
CONSTANTS
  Callers = {a, b, c}
  MaxConnections = 2
CHECK_DEADLOCK FALSE
PROPERTY DropsOnlyWhatFailed
