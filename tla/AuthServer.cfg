SPECIFICATION Spec
CONSTANTS
  alice = alice
  nobody = nobody
  Users <- MCUsers
  Registered <- MCRegistered
  Outcomes <- MCFailing
  ClientMessages <- MCAll
  Fds = {1}
  MaxSessions = 1
  MaxMessages = 2
  MaxQueue = 4
  MaxKeys = 2
INVARIANTS
  CallbackTargetsLive
  LoginHasAccount
PROPERTIES
  LookupsAnswered
  RepliesSent
CHECK_DEADLOCK FALSE
