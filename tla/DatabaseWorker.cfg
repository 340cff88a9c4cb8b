SPECIFICATION Spec
CONSTANTS
  r1 = r1
  r2 = r2
  r3 = r3
  NoRequest = NoRequest
  Requests <- MCRequests
  FireAndForget <- MCFireAndForget
  MaxStarts = 2
INVARIANTS
  NoLostWakeup
  StopDrains
  ResponsesInOrder
PROPERTIES
  EveryRequestFinishes
  StopReturns
  ImplementsFifoService
CHECK_DEADLOCK FALSE
