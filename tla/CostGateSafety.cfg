SPECIFICATION Spec
CONSTANTS
    Reqs = {r1, r2, r3}
    Teams = {"t", "u"}
    NoCompany = "none"
    Companies = {"c"}
    Kinds <- SafetyKinds
    MaxCost = 2
    Callers = 2
    Mode = "approval"
    CompanyCap <- CapTwo
    TeamBudget <- UnitBudget
    OverflowPool = 1
    DailyLimit = 3
    BreakerThreshold = 4
    AutoThreshold = 1
    EscalateThreshold = 2
    Hour = 1
    Window = 2
    BreakerWindow = 1
    Cooldown = 2
    CancelIn = {"queued", "asking", "waiting", "running", "ran"}
    MaxTime = 3
    MaxRestarts = 1
SYMMETRY Symm
INVARIANTS TypeOK ConsentKept SpendingBounded WaitersInHand
CHECK_DEADLOCK FALSE
