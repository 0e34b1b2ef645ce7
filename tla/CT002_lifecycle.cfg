SPECIFICATION Spec
CONSTANTS
    Consumers = {b1, b2}
    Tasks = {t1, t2, t3}
    Phases <- Phase
    Powers <- Still
    Readings <- OneReading
    Deltas <- Still
    Outcomes <- AnyRead
    Settings <- Still
    NoReading = NoReading
    NoSample = NoSample
    NonFinite = NonFinite
    Raised = Raised
    Unmatched = Unmatched
    DedupeWindow = 1
    ConsumerTtl = 1
    MinTtl = 1
    FallbackTtl = 1
    CleanupInterval = 1
    MeterTimeout = 1
    AgeCap = 2
    MaxPollGap = 1
    ActiveControl = TRUE
    UserCommands = FALSE
SYMMETRY Interchangeable
INVARIANTS InflightIsParked AnnouncedIsLive OneLateSample
