SPECIFICATION FairSpec
CONSTANTS
    Consumers = {b1}
    Tasks = {t1, t2}
    Phases <- Committed
    Powers <- Still
    Readings <- OneReading
    Deltas <- Still
    Outcomes <- AnyRead
    Settings <- Move
    NoReading = NoReading
    NoSample = NoSample
    NonFinite = NonFinite
    Raised = Raised
    Unmatched = Unmatched
    DedupeWindow = 3
    ConsumerTtl <- Unset
    MinTtl = 3
    FallbackTtl = 3
    CleanupInterval = 0
    MeterTimeout = 3
    AgeCap = 5
    MaxPollGap = 2
    ActiveControl = TRUE
    UserCommands = TRUE
INVARIANTS DedupeRemembers SettingsSurvive
PROPERTIES SilentBatteryLeaves KeepsPromise
