SPECIFICATION Spec
CONSTANTS
    Batteries <- Three
    Weights = {0, 2}
    FullWeight = 2
    Demands = {0, 12}
    EfficientPower = 5
    RotationInterval = 1
    ProbeTimeout = 1
    AcChargeable = {1, 2}
    Unreliable = {1}
    Commands <- AllCommands
    NoProbe = NoProbe
    NoCache = NoCache
INVARIANTS ProbeIsAHandoff SomeoneRuns
PROPERTIES HandoffIsProbed RejectionRestores
CONSTRAINTS OneMayPark OneOfEach
