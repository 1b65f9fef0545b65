SPECIFICATION FairSpec
CONSTANTS
  Nodes <- TwoNodes
  MaxConns = 3
  MaxManual = 1
  MaxFaults = 1
INVARIANT TypeOK
INVARIANT OneReadLoop
PROPERTY Meet
PROPERTY StaleSessionsEnd
CHECK_DEADLOCK FALSE
