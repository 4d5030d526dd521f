SPECIFICATION Spec
CONSTANTS
  Tokens = {t1, t2, t3}
  Families = {f1}
  Calls = {c1, c2}
  NoToken = NoToken
  NoFamily = NoFamily
INVARIANTS
  RevokedSessionsEnd
CHECK_DEADLOCK FALSE
