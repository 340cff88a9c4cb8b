SPECIFICATION LoginSpec
CONSTANTS
  alice = alice
  secret = secret
  guess = guess
  Users <- MCUsers
  Registered <- MCRegistered
  Passwords <- MCPasswords
  PasswordOf <- MCPasswordOf
  NameLength <- MCNameLength
  PasswordLength <- MCPasswordLength
  UpToDate = TRUE
  Keys <- MCKeys
  MaxArrived = 4
  MaxCommands = 2
  Outcomes <- MCReliable
  Fds = {1, 2}
  MaxSessions = 2
  MaxMessages = 4
  MaxQueue = 6
  MaxKeys = 2
INVARIANTS
  KeyAgreement
  KeyOnItsWay
  PollMatchesQueue
PROPERTIES
  ImplementsLoginDatabase
  AttemptsEnd
CHECK_DEADLOCK FALSE
