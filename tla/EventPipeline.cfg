SPECIFICATION FairSpec
CONSTANTS
  Events = {e1}
  Processes = {p1}
  Slots = {s1}
  MAX_ATTEMPTS = 2
  MaxFaults = 1
  Workers = {w1}
  Admins = {a1}
  NumConsumers = 2
  ATTEMPTS = 2
  MAX_REPLAYS = 1
  MaxTimeouts = 1
  MaxCrashes = 1
  MaxExpiries = 1
  MaxErrors = 1
  MaxDbErrors = 0
  None = None
PROPERTIES CommittedReachesConsumers JobsSettle
CHECK_DEADLOCK FALSE
