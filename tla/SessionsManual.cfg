SPECIFICATION Spec
CONSTANTS
  Nodes <- TwoNodes
  MaxConns = 3
  MaxManual = 1
  MaxFaults = 0
INVARIANT DuplicateKeepsOne
CHECK_DEADLOCK FALSE
