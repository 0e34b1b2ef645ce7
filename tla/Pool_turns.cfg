SPECIFICATION FairSpec
CONSTANTS
    Batteries <- Three
    Weights = {0, 1}
    FullWeight = 2
    Demands = {5}
    EfficientPower = 5
    RotationInterval = 2
    ProbeTimeout = 1
    AcChargeable = {1, 2}
    Unreliable = {}
    Commands = {}
    NoProbe = NoProbe
    NoCache = NoCache
PROPERTIES ProbeEnds EveryoneGetsATurn ParkedGivesWay
