SPECIFICATION Spec
CONSTANTS
  Workers = {w1, w2}
  Calls = {c1}
  ReadyVersion = 3
  MaxTime = 2
  MaxEvents = 5
SYMMETRY Symmetry
CHECK_DEADLOCK FALSE
INVARIANT TrailShowsCausesFirst
