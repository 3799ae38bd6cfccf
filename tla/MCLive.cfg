SPECIFICATION Spec
CONSTANTS
    None = None
PROPERTIES
    DrainCompletes
    RequestAnswered
    QuiescingRetires
    CloseCompletes
    StartupSettles
    RunReturnsDevices
CHECK_DEADLOCK FALSE
