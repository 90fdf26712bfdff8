SPECIFICATION Spec
CONSTANTS
  Users = {1, 2, 3}
  Founders = {1, 2, 3}
  Creator = 1
  MaxKeys = 2
  MaxInvites = 0
  MaxLeaves = 2
  MaxKicks = 0
  MaxFetches = 0
  MaxRequests = 2
  MaxMixed = 2
  MaxLost = 0
INVARIANTS
  DepartedStayOut
