SPECIFICATION Spec
CONSTANTS
    Jobs = {j1, j2}
    Workers = {w1, w2}
    NoJob = NoJob
    MaxInMemory = 1
    LoadLimit = 2
    CancelFrom = {"pending", "queued", "dispatched", "running", "waiting_approval"}
    MaxPauses = 1
    MaxRestarts = 2
    MaxLosses = 1
SYMMETRY Symm
INVARIANTS TypeOK NoStrandedJob OutcomesAgree DiskFollowsMemory AtMostOneExecutor
PROPERTIES FinishedJobsKept DurableOutcomeFinal
CHECK_DEADLOCK FALSE
