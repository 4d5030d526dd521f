SPECIFICATION EventsSpec
CONSTANTS
  Rows = {o1, o2}
  Processes = {p1}
  Slots = {s1, s2}
  MAX_ATTEMPTS = 2
  MaxFaults = 1
  NoEvent = NoEvent
  Events = {e1}
  Workers = {w1, w2}
  Admins = {a1, a2}
  NumConsumers = 2
  ATTEMPTS = 2
  MAX_REPLAYS = 1
  MaxTimeouts = 2
  MaxCrashes = 1
  MaxExpiries = 1
  MaxErrors = 3
  MaxDbErrors = 1
  None = None
SYMMETRY EventsSymmetry
INVARIANTS
  LossOnlyAfterFault
  HandledOnceWhileLeased
PROPERTY
  KeepsPromise
CHECK_DEADLOCK FALSE
