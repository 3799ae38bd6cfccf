SPECIFICATION FairSpec
CONSTANTS
    a1 = a1
    a2 = a2
    f1 = f1
    f2 = f2
    Atns <- MCAtns
    Ffns <- MCFfns
    coordinator = f1
    Count = 2
    LaneCount = 1
    group <- MCGroup
    team <- MCTeam
    shape <- MCShape
    Routed <- MCRouted
    Policy = "fifo"
    LaneRows = 2
    Plans <- SmallPlans
    Kinds = {"timeout"}
    MaxEvents = 1
CHECK_DEADLOCK FALSE
PROPERTIES
    CallsReturn
    DrainStops
