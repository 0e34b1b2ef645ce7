SPECIFICATION FairSpec
CONSTANTS
    Batteries = {b1, b2}
    Probe = probe
    Passives = {p1, p2}
    Intervals <- NoneOrTwo
    IdleThreshold = 1
    ProbeTimeout = 1
    PassiveMaxAge = 0
    SourceTimeout = 1
    Horizon = 3
INVARIANTS PendingIsLed OnlyTheThrottleHides
PROPERTIES ThrottleHolds EveryReadEnds
