\* Drafts: a wizard and its upload, a screen of exports, two requests of any kind, two faults.
\* Run: six rows, two per request, one malformed and one rejected; mode create.
SPECIFICATION ImportsSpec
CONSTANTS
    None = None
    Drafts = {d1}
    Requests = {r1, r2}
    Wizards = {w1}
    Views = {v1}
    MaxFaults = 2
    Rows = 6
    Malformed = {2}
    Rejected = {4}
    Mode = "create"
    BatchSize = 2
    Concurrency = 2
    TenantLimit = 2
    OtherJobs = 1
    Retries = 1
CHECK_DEADLOCK FALSE
INVARIANTS SecondStartIsExplained QueuedHasItsFile StoppedShowsTheEnd EachRowOnce 
PROPERTIES EveryExportIsShown RunEnds
