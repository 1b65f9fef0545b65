SPECIFICATION Spec
CONSTANTS
  p1 = p1  p2 = p2  a1 = a1  a2 = a2  b1 = b1
  Peers = {p1}
  Attempts = {a1, a2}
  Owner <- OnePeer
  Policies <- AlwaysServing
  MaxQueued = 2
  MaxSends = 1
  MaxSessions = 1
INVARIANT CancelStopsGeneration
CHECK_DEADLOCK FALSE
