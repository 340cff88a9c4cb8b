SPECIFICATION Spec
CONSTANTS
  alice = alice
  nobody = nobody
  Users <- MCUsers
  Registered <- MCRegistered
  Outcomes <- MCReliable
  ClientMessages <- MCLogin
  Fds = {1, 2}
  MaxSessions = 2
  MaxMessages = 2
  MaxQueue = 4
  MaxKeys = 2
INVARIANT PendingOutputIsPolled
CHECK_DEADLOCK FALSE
