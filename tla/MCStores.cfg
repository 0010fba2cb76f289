SPECIFICATION Spec
CONSTANTS
  p1 = p1
  p2 = p2
  p3 = p3
  x = x
  y = y
  NoOne = NoOne
  Process <- ThreeProcesses
  Kind = {"buffer", "objectqueue", "priorityqueue"}
  Object = {x, y}
  Rank = {0, 1}
  Capacity = 2
  Sizes = {1, 2, 3}
  Share <- Shares
  Priority = {0}
  Urgency = {0}
  Ranks <- NoRanks
  InitPrio <- EqualPrio
  Repertoire <- Trade
  Duration = {1}
  MaxAgenda = 1
INVARIANTS
  StrandedOnlyByCancel
PROPERTIES
  Implements
  TransferHonoured
\* Processes may wait for each other's objects forever.
CHECK_DEADLOCK FALSE
