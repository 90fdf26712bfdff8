SPECIFICATION GMSpec
CONSTANTS
  Users = {1, 2, 3}
  Founders = {1, 2}
  Creator = 2
  MaxKeys = 2
  MaxInvites = 1
  MaxLeaves = 1
  MaxKicks = 0
  MaxFetches = 0
  MaxRequests = 2
  MaxMixed = 2
  MaxLost = 1
  MaxPosts = 3
  MaxMail = 2
  MaxMailRequests = 1
  MaxMailLost = 0
  FewPosts = TRUE
INVARIANTS
  KeptForSomebody
  CurrentMailOpens
PROPERTIES
  Settles
  EveryMemberReads
