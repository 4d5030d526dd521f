SPECIFICATION Spec
CONSTANTS
  Uploads = {u1, u2}
  Handlers = {h1, h2}
  MaxEdits = 1
  Dates = {1, 2}
  Recurrences = {{1, 2}, {2}}
  Callers = {c1, c2}
  MaxOrders = 2
  Workloads = {"requests overlap", "requests in turn", "planInTurn", "planArchived"}
INVARIANTS
  TypeOK
  AttachmentsKept
  OneDecision
  OneOrderPerOccurrence
  ArchivedIsQuiet
SYMMETRY Symmetry
CHECK_DEADLOCK FALSE
