SPECIFICATION Spec
CONSTANTS
  Handlers = {h1, h2}
  Processes = {p1, p2}
  MaxWrites = 2
  Places = {l1, l2, l3}
  None = None
  Parts = {"assets", "locations", "vendors"}
INVARIANTS
  TypeOK
  LocationsFormTree
PROPERTY
  StaleFades
