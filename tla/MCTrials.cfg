\* Two experiments of two trials on two threads; one trial makes objects.
CONSTANTS
  main = main
  other = other
  Caller <- Callers
  Worker = {w1, w2}
  Total = 2
  p = p
  r = r
  l = l
  b = b
  oq = oq
  pq = pq
  c = c
  d = d
  ts = ts
  ds = ds
  Object <- Objects
  Kind <- KindOf
  Cast <- Casts
  Other = o
  Elaborate <- Elaborated
  None = None
SPECIFICATION Spec
CHECK_DEADLOCK FALSE
INVARIANTS
  EveryTrialOnce
  CleanSlate
PROPERTIES
  OnlyResourcesAbort
  EveryRunReturns
