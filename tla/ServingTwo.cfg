SPECIFICATION FairSpec
CONSTANTS
  p1 = p1  p2 = p2  a1 = a1  a2 = a2  b1 = b1
  Peers = {p1, p2}
  Attempts = {a1, a2, b1}
  Owner <- TwoPeers
  Policies <- MCPolicies
  MaxQueued = 1
  MaxSends = 2
  MaxSessions = 2
INVARIANT TypeOK
INVARIANT CountersExact
INVARIANT Bounded
INVARIANT ReplyUnderWay
PROPERTY LetInOnce
PROPERTY Drains
PROPERTY Answered
CHECK_DEADLOCK FALSE
