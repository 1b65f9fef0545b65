SPECIFICATION FairSpec
CONSTANTS
  t1 = t1  t2 = t2  n1 = n1  n2 = n2  f1 = f1  f2 = f2
  NoTask = NoTask
  Tasks = {t1, t2}
  Nodes = {n1, n2}
  Families = {f1, f2}
  Deps <- Chain
  Offers <- TwoOffers
  Capacity <- MCCapacity
  MaxConcurrency = 2
  KMin = 1
  KMax = 2
  HasLocal = TRUE
  TieBreak = FALSE
INVARIANT DependenciesFirst
INVARIANT LoadExact
PROPERTY RequestEnds
PROPERTY DispatchesEnd
PROPERTY ImplementsPlan
CHECK_DEADLOCK FALSE
