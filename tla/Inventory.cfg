SPECIFICATION MCSpec
CONSTANTS
  Locations = {l1, l2}
  Reservations = {r1, r2}
  Clients = {c1, c2}
  Keys = {k1}
  Quantities = {1, 2}
  Kinds = {"receipt", "reservation", "issue", "consumption", "release", "adjustment", "transfer", "return"}
  MaxEntries = 4
  None = None
SYMMETRY Symmetry
INVARIANTS ReservedWithinStock ReservedIsOutstanding WithinSource QuantityIsLedger KeyAppliedOnce
CHECK_DEADLOCK FALSE
