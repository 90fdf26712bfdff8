SPECIFICATION DMSpec
CONSTANTS
  Users = {u1, u2}
  Mids = {m1, m2}
  MaxChunks = 2
  MaxIncomplete = 2
  MaxMailbox = 2
  MaxDelivered = 1
  TrimIndex = 1
  AssemblyTTL = 0
  MailboxTTL = 1
  EvictInterval = 1
  MaxSends = 2
  MaxNow = 1
  MaxRestarts = 0
  Senders = {u1}
  SendRetries = 1
  Idle = Idle
  NoAnswer = NoAnswer
INVARIANTS
  OkUnlessDropped
  InSendingOrder
PROPERTIES
  SendsReturn
  MailboxesDrain
