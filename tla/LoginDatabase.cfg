SPECIFICATION DbSpec
CONSTANTS
  s1 = s1
  alice = alice
  bob = bob
  nobody = nobody
  Sessions <- MCSessions
  Users <- MCUsers
  Registered <- MCRegistered
  MaxQueue = 4
  MaxKeys = 3
  Outcomes <- MCReliable
INVARIANTS
  OneSessionPerAccount
  LastLoginWins
PROPERTIES
  KeyReachesTable
