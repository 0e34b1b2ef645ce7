SPECIFICATION Spec
CONSTANTS
    Batteries <- Three
    FirstOrder <- InOrder
    DcOnly = {3}
    Loads <- TheLoads
    Weight <- Weights
    Limit <- Limits
    MinRun <- Minima
    StartGap = 1
    Slots = {1}
    Scale = 10
    Margin = 1
    MinDemand = 1
    HoldPower = 0
    ReleaseDelay = 1
    UnloadBand = 1
    ProbeStep = 2
    ProbeProof = 2
    BalanceBand = 1
    MaxStep = 4
    ConcentrateBand = 2
    PaceCap = 4
    Failing = {1}
INVARIANTS SettledIsCovered WaterFillIsFair
PROPERTIES NoCrossing GivesBackFirst
