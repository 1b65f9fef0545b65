SPECIFICATION Spec
CONSTANTS
  t1 = t1  t2 = t2  n1 = n1  n2 = n2  f1 = f1  f2 = f2
  NoTask = NoTask
  Tasks = {t1}
  Nodes = {n1, n2}
  Families = {f1, f2}
  Deps <- Independent
  Offers <- MCOffers
  Capacity <- MCCapacity
  MaxConcurrency = 2
  KMin = 1
  KMax = 1
  HasLocal = TRUE
  TieBreak = FALSE
INVARIANT StopCancelsAttempts
CHECK_DEADLOCK FALSE
