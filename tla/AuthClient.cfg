SPECIFICATION Spec
CONSTANTS
  alice = alice
  bob = bob
  secret = secret
  guess = guess
  Users <- MCUsers
  Passwords <- MCPasswords
  NameLength <- MCNameLength
  PasswordLength <- MCPasswordLength
  UpToDate = TRUE
  Keys = {0, 1}
  MaxCommands = 3
  MaxArrived = 2
INVARIANTS
  PollFdsMatchSocket
  ConnectingIsPolled
  ProofMatchesGreeting
  PasswordForgotten
CHECK_DEADLOCK FALSE
