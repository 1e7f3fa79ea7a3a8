SPECIFICATION Spec
CONSTANTS
    Jobs = {j1}
    Workers = {w1, w2}
    NoJob = NoJob
    MaxInMemory = 1
    LoadLimit = 2
    CancelFrom = {"running"}
    MaxPauses = 0
    MaxRestarts = 0
    MaxLosses = 0
INVARIANTS NoWorkerDies
CHECK_DEADLOCK FALSE
