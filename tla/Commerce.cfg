SPECIFICATION Spec
CONSTANTS
  Plans = {0, 1}
  Payments = {p1, p2}
  Methods = {m1, m2, m3}
  Requests = {r1, r2}
  Quotes = {q1, q2}
  Applications = {a1, a2}
  Clerks = {c1, c2}
  MaxRevision = 2
  MaxReopened = 1
  References = {x1, x2}
  Accountants = {d1, d2}
  Attempts = {t1, t2, t3}
  Bodies = {b1, b2}
  Rests = {e1, e2}
  MaxExpirations = 1
  Parts = {"subscription", "methods", "quotations", "invoices", "idempotency"}
INVARIANTS
  ActivatedOncePerPayment
  OneDefaultMethod
  AcceptedOncePerAward
  PaidOnce
  KeyGuardsExecution
SYMMETRY QuotationSymmetry
PROPERTY
  SettledIsFinal
CHECK_DEADLOCK FALSE
