SPECIFICATION FairSpec
CONSTANTS
    Jobs = {j1, j2}
    Workers = {w1, w2}
    NoJob = NoJob
    MaxInMemory = 1
    LoadLimit = 2
    CancelFrom = {"pending", "queued"}
    MaxPauses = 0
    MaxRestarts = 2
    MaxLosses = 0

PROPERTIES EveryJobSettles LedgerSpec
CHECK_DEADLOCK FALSE
