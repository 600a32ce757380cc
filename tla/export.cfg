\* Two exports, three connections, two batches, two runs each; two faults of any kind.
SPECIFICATION FairSpec
CONSTANTS
    e1 = e1
    e2 = e2
    Exports = {e1, e2}
    Pool = 3
    Batches = 2
    HighWater = 1
    Runs = 2
    MaxFaults = 2
CHECK_DEADLOCK FALSE
INVARIANTS PublishedIsComplete
PROPERTY EveryExportEnds
