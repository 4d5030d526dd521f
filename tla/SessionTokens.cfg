SPECIFICATION Spec
CONSTANTS
  Tokens = {t1, t2, t3, t4}
  Families = {f1, f2}
  Calls = {c1, c2}
  NoToken = NoToken
  NoFamily = NoFamily
SYMMETRY Symmetry
INVARIANTS
  OneLive
  ChainIntact
PROPERTY
  DeadStaysDead
CHECK_DEADLOCK FALSE
