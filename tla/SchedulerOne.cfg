SPECIFICATION Spec
CONSTANTS
  t1 = t1  t2 = t2  n1 = n1  n2 = n2  f1 = f1  f2 = f2
  NoTask = NoTask
  Tasks = {t1}
  Nodes = {n1, n2}
  Families = {f1, f2}
  Deps <- Independent
  Offers <- FourOffers
  Capacity <- MCCapacity
  MaxConcurrency = 2
  KMin = 2
  KMax = 3
  HasLocal = TRUE
  TieBreak = TRUE
INVARIANT TypeOK
INVARIANT UniqueAttemptIds
INVARIANT WithinCeiling
INVARIANT DistinctPairs
INVARIANT SoundReplicas
PROPERTY VerdictIsFinal
CHECK_DEADLOCK FALSE
