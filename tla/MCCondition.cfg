SPECIFICATION Spec
CONSTANTS
  p1 = p1
  p2 = p2
  p3 = p3
  NoOne = NoOne
  Process <- ThreeProcesses
  World = {0, 1}
  Suits <- WantOne
  NeedsFree = {p2}
  InitWorld = 0
  Priority = {0}
  Urgency = {0}
  Ranks <- NoRanks
  InitPrio <- EqualPrio
  Repertoire <- Await
  Duration = {1}
  MaxAgenda = 1
INVARIANTS
  SignalReachesAll
PROPERTIES
  WaitTruthful
\* Processes may wait for a world that never comes.
CHECK_DEADLOCK FALSE
