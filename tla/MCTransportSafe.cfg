SPECIFICATION Spec
CONSTANTS
    Arenas = {"a", "b"}
    MaxCalls <- TwoOne
    Faults <- Mixed
INVARIANTS
    OwnOutput
    NoStatusAbort
    NoUseAfterFree
PROPERTIES
    CallPromise
CHECK_DEADLOCK FALSE
