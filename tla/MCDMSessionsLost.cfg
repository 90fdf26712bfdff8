CONSTANTS
  Peers = {alice, bob}
  MaxSkipped = 2
  PoolTarget = 1
  Threshold = 1
  MaxSent = 4
  MaxAgain = 1
  MaxLogins = 1
SPECIFICATION DSSpec
INVARIANT NewMessageRestarts
CHECK_DEADLOCK FALSE
SYMMETRY Symmetry
