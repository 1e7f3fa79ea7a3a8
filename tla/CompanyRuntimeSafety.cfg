SPECIFICATION FairSpec
CONSTANTS
    Runs = {r1, r2}
    Companies = {c}
    BaseTeams = {m}
    AlwaysOn = {m}
    OnDisk = {m}
    NoTeam = NoTeam
    IdleLimit = 0
    MaxEdition = 3
    MaxReloads = 1
    Shapes <- AllShapes
    Plain <- DefaultShape
INVARIANTS InstancesCounted 
PROPERTIES InstancesHeld ChangesReach
CHECK_DEADLOCK FALSE
