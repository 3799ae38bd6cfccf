SPECIFICATION Spec
CONSTANTS
    Arenas = {"a"}
    MaxCalls <- Two
    Faults <- Reject
INVARIANTS
    CloseExplained
CHECK_DEADLOCK FALSE
