SPECIFICATION Spec
CONSTANTS
  p1 = p1
  p2 = p2
  Process <- MCProcess
  ProcPrio <- MCProcPrio
  Subject = {"s"}
  Priority = {0, 1}
  MaxTime = 1
  MaxHandle = 5
INVARIANTS
  TypeOK
  NoPastEvents
  WaiterAccounted
  TruthfulReturn
PROPERTIES
  ClockMonotone
\* A trial ends when its event queue is empty, and handles are bounded.
CHECK_DEADLOCK FALSE
