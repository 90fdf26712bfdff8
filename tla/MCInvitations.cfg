SPECIFICATION Spec
CONSTANTS
  Users = {ann, bob}
  Founders = {ann}
  Chunks = 2
  MaxIncomplete = 1
  SendRetries = 1
  MaxInvites = 2
  Idle = Idle
  NoAnswer = NoAnswer
INVARIANTS ChangesOnce
CHECK_DEADLOCK FALSE
