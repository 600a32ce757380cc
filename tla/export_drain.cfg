\* The upload of an export fails while core waits for the response to drain.
SPECIFICATION FairSpec
CONSTANTS
    e1 = e1
    e2 = e2
    Exports = {e1}
    Pool = 1
    Batches = 2
    HighWater = 1
    Runs = 2
    MaxFaults = 1
CHECK_DEADLOCK FALSE
PROPERTY ResolvesWhenClosed
