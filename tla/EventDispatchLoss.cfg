SPECIFICATION Spec
CONSTANTS
  Events = {e1}
  Workers = {w1, w2}
  Admins = {a1}
  NumConsumers = 1
  ATTEMPTS = 2
  MAX_REPLAYS = 1
  MaxTimeouts = 1
  MaxCrashes = 0
  MaxExpiries = 0
  MaxErrors = 1
  MaxDbErrors = 0
  None = None

INVARIANT NoSilentLoss
CHECK_DEADLOCK FALSE
