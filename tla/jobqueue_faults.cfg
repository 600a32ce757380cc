\* Two replicas and a kind without handler; heartbeats later than Stale, a crash, failing calls.
SPECIFICATION FairSpec
CONSTANTS
    j1 = j1
    j2 = j2
    ra = ra
    rb = rb
    s1 = s1
    s2 = s2
    Jobs = {j1, j2}
    NoJob = NoJob
    Handled = {j1}
    Replicas = {ra, rb}
    Slots = {s1}
    Rows = 1
    MaxAttempts = 2
    MaxCrashes = 1
    MaxFaults = 1
    LateHeartbeats = TRUE
    ClaimCommitFails = TRUE

CHECK_DEADLOCK FALSE
INVARIANT SucceededIsComplete
PROPERTIES ImplementsLifecycle EveryJobEnds
