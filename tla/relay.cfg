\* Two processes, two events, batches of two; a crash, two faults and a window that passes.
SPECIFICATION FairSpec
CONSTANTS
    p1 = p1
    p2 = p2
    Procs = {p1, p2}
    Rows = 2
    Batch = 2
    MaxCrashes = 1
    MaxFaults = 2
    MaxWindows = 1
PROPERTIES ImplementsDelivery EveryEventIsDelivered
