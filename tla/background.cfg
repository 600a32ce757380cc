\* Two processes: an entry, a write of core and a tenant, or two requests; two faults.
SPECIFICATION AllFairSpec
CONSTANTS
  p1 = p1
  p2 = p2
  a1 = a1
  o1 = o1
  t1 = t1
  None = None
  Procs = {p1, p2}
  Entries = {a1}
  Own = {o1}
  Tenants = {t1}
  MaxDeliver = 2
  MaxWrites = 2
  MaxFaults = 2
  MaxReqs = 2
  MaxGdprFaults = 2
INVARIANTS ErasureIsComplete
PROPERTIES ImplementsHandling EveryEventLands EveryRequestSettles
CHECK_DEADLOCK FALSE
