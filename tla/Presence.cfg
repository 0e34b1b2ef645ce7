CONSTANTS
    b1 = b1
    b2 = b2
    Batteries <- TheBatteries
    QueueMax = 2
    MaxWire = 4
    Faults = {"link", "broker", "process"}
    MaxFaults = 3
SPECIFICATION Spec
INVARIANTS
    RetainedIsTrue
    OfflineIsComing
    StatusIsTrue
CHECK_DEADLOCK FALSE
