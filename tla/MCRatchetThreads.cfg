SPECIFICATION RTSpec
CONSTANTS
  Senders = {s1, s2}
  MaxSealed = 3
  MaxTurns = 1
INVARIANT MessageKeysUnique
CHECK_DEADLOCK FALSE
SYMMETRY Symmetry
