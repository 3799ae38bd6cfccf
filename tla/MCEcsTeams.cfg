SPECIFICATION Spec
CONSTANTS
    Instances = {"a", "b"}
    Devices = {"d1", "d2"}
    Groups = {0, 1}
    InstanceOf <- TeamsInstanceOf
    DevicesOf <- TeamsDevicesOf
    Floor <- TeamsFloor
    Reservation <- TeamsReservation
    Headroom <- TeamsHeadroom
    DeviceTotal <- TeamsTotal
    DeviceOther <- TeamsOther
    Utilization = 85
    ChunkedPrefill = {}
    TtftBudget = 1
    MaxSequence <- TeamsSequence
    MaxTime = 1
INVARIANTS
    PermissionWithinBudget
    ReserveKept
    QuotaBounds
    NoCheckFails
    OnlyDonorShrinks
    GroupsAgree
