\* One account with one browser: two requests at a time, five in a behaviour.
SPECIFICATION Spec
CONSTANTS
  b1 = b1
  r1 = r1
  r2 = r2
  t1 = t1
  t2 = t2
  t3 = t3
  f1 = f1
  f2 = f2
  c1 = c1
  c2 = c2
  k1 = k1
  k2 = k2
  None = None
  Browsers = {b1}
  Requests = {r1, r2}
  Tokens = {t1, t2, t3}
  Families = {f1, f2}
  Codes = {c1, c2}
  Secrets = {k1, k2}
  MaxFailures = 2
  MaxOps = 5
SYMMETRY Symmetry
INVARIANTS
  OneLiveTokenPerFamily
  RevokedStaysRevoked
  CodeOpensOnce
  
  MfaIsConfirmed
  OnlyMishapsEndSessions
CHECK_DEADLOCK FALSE
