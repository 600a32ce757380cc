\* Two requests at a time: one client and four ticks, or three users and two roles.
SPECIFICATION AccountsSpec
CONSTANTS
  u1 = u1
  u2 = u2
  u3 = u3
  e1 = e1
  e2 = e2
  admin = admin
  marketer = marketer
  r1 = r1
  r2 = r2
  Absent = Absent
  Users = {u1, u2, u3}
  Emails = {e1, e2}
  Roles = {admin, marketer}
  Calls = {r1, r2}
  Admin = admin
  MaxMemberOps = 5
  c1 = c1
  k1 = k1
  Clients = {c1}
  Callers = {k1}
  ClientTTL = 2
  ServiceTTL = 2
  Tolerance = 1
  Skew = 1
  Latency = 2
  FailureWindow = 2
  MaxSecretFailures = 1
  MaxClock = 4
  MaxAccessOps = 3
SYMMETRY Symmetry
INVARIANTS AdminRemains DisabledStaysOut StoppedClientsStayOut 
CHECK_DEADLOCK FALSE
