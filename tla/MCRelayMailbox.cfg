SPECIFICATION RelaySpec
CONSTANTS
  Users = {u1, u2}
  Mids = {m1, m2}
  MaxChunks = 2
  MaxIncomplete = 1
  MaxMailbox = 1
  MaxDelivered = 1
  TrimIndex = 1
  AssemblyTTL = 1
  MailboxTTL = 2
  EvictInterval = 2
  MaxSends = 2
  MaxNow = 4
  MaxRestarts = 1
  Scopes = {dm, file}
  Nonces = {nonce1, nonce2}
  Window = 1
  NonceTTL = 3
  PurgeAt = 1
  Skew = 2
  MaxSigned = 2
  MaxClock = 4
  MaxAuthRestarts = 1
  Askers = {a1, a2}
  ListLimit = 2
  MaxCalls = 2
  MaxTaken = 2
  MaxRepeats = 1
  MaxBridgeStarts = 1
  Names = {u1, u2}
  Persons = {p1, p2}
  MaxNames = 1
  MaxRegistered = 3
  MaxAttempts = 2
  MaxRegistryMishaps = 2
CHECK_DEADLOCK FALSE
SYMMETRY Symmetry
INVARIANTS
  AtMostOnce
  Intact
  AckIsHonest
  NoGhostAssembly
  SignedPollOnce
  ReplayWindow
  NoFalseReplay
  TakenOnce
  AnswerIsItsOwn
  ForwardedOnce
  KeyStays
  FolderIsCurrent
PROPERTIES
  ServedFresh
  ImplementsPromise
