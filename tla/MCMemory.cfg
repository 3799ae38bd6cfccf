SPECIFICATION Spec
CONSTANTS
    None = None
    MaxFaults = 1
INVARIANTS
    PagesBacked
    ChargesExact
    OwnersExact
    PlacementExact
    LoadingExact
    ExecutionBacked
CHECK_DEADLOCK FALSE
