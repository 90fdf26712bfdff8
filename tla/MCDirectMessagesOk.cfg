SPECIFICATION SafetySpec
CONSTANTS
  Users = {u1, u2}
  Mids = {m1}
  MaxChunks = 2
  MaxIncomplete = 1
  MaxMailbox = 1
  MaxDelivered = 1
  TrimIndex = 1
  AssemblyTTL = 1
  MailboxTTL = 2
  EvictInterval = 1
  MaxSends = 1
  MaxNow = 3
  MaxRestarts = 1
  Senders = {u1}
  SendRetries = 1
  Idle = Idle
  NoAnswer = NoAnswer
INVARIANTS
  OkIsQueued
