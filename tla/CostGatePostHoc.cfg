SPECIFICATION FairSpec
CONSTANTS
    Reqs = {r1, r2, r3}
    Teams = {"t"}
    NoCompany = "none"
    Companies = {"c"}
    Kinds <- UnitKinds
    MaxCost = 1
    Callers = 2
    Mode = "post_hoc"
    CompanyCap <- NoCap
    TeamBudget <- NoBudget
    OverflowPool = 0
    DailyLimit = 9
    BreakerThreshold = 1
    AutoThreshold = 0
    EscalateThreshold = 0
    Hour = 1
    Window = 2
    BreakerWindow = 1
    Cooldown = 2
    CancelIn = {"queued", "asking", "waiting", "running"}
    MaxTime = 3
    MaxRestarts = 1
INVARIANTS VelocityBounded
PROPERTIES EveryRequestSettles
CHECK_DEADLOCK FALSE
