SPECIFICATION Spec
CONSTANTS
    Limits = {6, 11}
    Shares <- Shares_learned
    Slices <- Slices_learned
    Gaps = {1, 2}
    Push = 2
    Flat = 1
    MinPower = 4
    StallPolls = 2
    StallSeconds = 2
    AtMargin = 1
    Release = 1
    Ttl = 6
    Retest = 1
    RetestPush = 2
    OscFull = 1
    OscThreshold = 4
    MaxStep = 3
    PaceCap = 2
INVARIANTS RetestIsPrompt
PROPERTIES HealthyNotCapped
