SPECIFICATION Spec
CONSTANTS
  Users = {1, 2, 3}
  Founders = {1, 2, 3}
  Creator = 1
  MaxKeys = 2
  MaxInvites = 0
  MaxLeaves = 0
  MaxKicks = 1
  MaxFetches = 0
  MaxRequests = 1
  MaxMixed = 1
  MaxLost = 0
INVARIANTS
  CalmChangesAgree
