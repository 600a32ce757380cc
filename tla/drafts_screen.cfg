\* A wizard starts an import and follows it; nothing fails.
SPECIFICATION FairSpec
CONSTANTS
    None = None
    Drafts = {d1}
    Requests = {r1}
    Wizards = {w1}
    Views = {v1}
    MaxFaults = 0
CHECK_DEADLOCK FALSE
PROPERTY EveryImportIsShown
