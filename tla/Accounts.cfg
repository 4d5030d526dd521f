SPECIFICATION Spec
CONSTANTS
  Codes = {c1, c2}
  Calls = {r1, r2}
  MaxAttempts = 3
  MaxSends = 2
  MaxRefused = 1
  Passwords = {p1, p2}
  Logins = {l1, l2}
  MaxFailed = 4
  MaxLost = 1
  Invites = {i1, i2}
  Handlers = {h1, h2}
  Emails = {e1, e2}
  Identities = {g1, g2}
  Visits = {v1, v2}
  States = {s1, s2}
  Parts = {"codes", "signIn", "invitations", "registration"}
INVARIANTS
  TypeOK
  CountersExpire
  GuessLimit
  PasswordGuessesBounded
  MembershipRecorded
  RegistrationIsWhole
  ProviderLinkedOnce
PROPERTY
  LeftoversVanish
CHECK_DEADLOCK FALSE
