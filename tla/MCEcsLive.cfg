SPECIFICATION LiveSpec
CONSTANTS
    Instances = {"a", "b"}
    Devices = {"d1"}
    Groups = {0, 1}
    InstanceOf <- PairInstanceOf
    DevicesOf <- PairDevicesOf
    Floor <- PairFloor
    Reservation <- LenderReservation
    Headroom <- PairHeadroom
    DeviceTotal <- PairTotal
    DeviceOther <- PairOther
    Utilization = 80
    ChunkedPrefill = {0}
    TtftBudget = 1
    MaxSequence <- LenderSequence
    MaxTime = 0
PROPERTIES
    OperationsComplete
    BorrowersServed
