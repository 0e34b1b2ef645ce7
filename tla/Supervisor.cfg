SPECIFICATION FairSpec
CONSTANTS
    ct002 = ct002
    shelly = shelly
    Meters = 2
    Devices <- Two
    Binders <- OnlyCT002
    MaxSaves = 2
CHECK_DEADLOCK FALSE
INVARIANTS CycleStandsAlone RestartsAreKept
PROPERTIES StopEnds
