SPECIFICATION FairSpec
CONSTANTS
  p1 = p1
  p2 = p2
  p3 = p3
  r1 = r1
  r2 = r2
  NoOne = NoOne
  Process <- ThreeProcesses
  Resource = {r1}
  Priority = {0, 1}
  Urgency = {0, 1}
  Ranks <- AnyRank
  InitPrio <- EqualPrio
  Repertoire <- TakeTurns
  Duration = {1}
  MaxAgenda = 3
PROPERTIES
  EventuallyServed
