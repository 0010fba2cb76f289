SPECIFICATION Spec
CONSTANTS
  p1 = p1
  p2 = p2
  p3 = p3
  r1 = r1
  r2 = r2
  NoOne = NoOne
  Process <- ThreeProcesses
  Resource = {r1}
  Priority = {0, 1}
  Urgency = {0, 1}
  Ranks <- AnyRank
  InitPrio <- RisingPrio
  Repertoire <- Promote
  Duration = {1}
  MaxAgenda = 3
SYMMETRY Peers
INVARIANTS
  PriorityMayChange
\* Processes may all end, or yield to nobody.
CHECK_DEADLOCK FALSE
