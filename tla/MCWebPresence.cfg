SPECIFICATION WebSpec
CONSTANTS
  Tabs = {x1, x2}
  MaxBuffer = 2
  MaxEvents = 2
  MaxVersion = 1
  MaxConnects = 2
  MaxMishaps = 1
  MaxLoops = 2
  Viewers = {x1, x2}
  MaxStreams = 2
  MaxJoins = 2
  MaxEnds = 2
  MaxBreaks = 2
  Slots = {r1, r2}
  Passwords = {1, 2}
  MaxAsked = 5
  MaxIds = 2
  MaxCodes = 3
  MaxCrashes = 1
  Users = {bob}
  Fids = {x1, x2}
  MaxFileChunks = 2
  MaxFiles = 1
  FileTTL = 1
  EvictInterval = 1
  SendRetries = 1
  Sizes = {2, 3}
  MaxLate = 1
  MaxNow = 2
  MaxRestarts = 1
  Idle = Idle
  NoAnswer = NoAnswer
CHECK_DEADLOCK FALSE
SYMMETRY Symmetry
INVARIANTS
  CountsSockets
  BufferHandedOver
  LoggedInIsPolled
  ViewersHearOfEnd
  NoGhostsLive
  OwnerCanGetIn
  IdentityKept
  OkUnlessReopened
  AnnouncedOnce
  FetchedWhole
PROPERTIES
  KeptForAddressee
