SPECIFICATION Spec
CONSTANTS
    TpSize = 2
    Quotas <- QuotaVectors
    Backings = {1}
    Requirements <- RequirementVectors
    MaxRevision = 5
    MaxSequence = 2
    MaxDemands = 3
INVARIANTS
    NoCheckFails
PROPERTIES
    AtomicPublications
CHECK_DEADLOCK FALSE
