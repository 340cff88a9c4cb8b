SPECIFICATION Spec
CONSTANTS
  alice = alice
  nobody = nobody
  Users <- MCUsers
  Registered <- MCRegistered
  Scenarios <- MCScenarios
  Fds = {1, 2}
  MaxSessions = 2
INVARIANTS
  IndexesAligned
  NoDanglingName
  TableSettles
PROPERTIES
  ClosedIsRemoved
CHECK_DEADLOCK FALSE
