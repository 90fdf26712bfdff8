SPECIFICATION KeysSpec
CONSTANTS
  Peers = {alice, bob}
  MaxSkipped = 2
  PoolTarget = 1
  Threshold = 1
  MaxSent = 4
  MaxAgain = 1
  MaxLogins = 1
  Users = {1, 2, 3}
  Founders = {1, 2, 3}
  Creator = 1
  MaxKeys = 3
  MaxInvites = 1
  MaxLeaves = 2
  MaxKicks = 1
  MaxFetches = 1
  MaxRequests = 2
  MaxMixed = 1
  MaxLost = 1
CHECK_DEADLOCK FALSE
INVARIANTS
  KeysUnique
  KeysErased
  ReadOnce
  OneSessionReadable
  CalmLeavesAgree
  DepartedLockedOut
  OneKeyPerLeave
