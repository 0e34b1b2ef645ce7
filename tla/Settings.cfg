CONSTANTS
    active_control = active_control
    peakshaving_threshold = peakshaving_threshold
    Names <- TheNames
    Values = {0, 1}
    Bad = 2
    Config <- TheConfig
    MaxWrites = 3
    MaxFaults = 2
SPECIFICATION FairSpec
INVARIANTS
    SettledAgrees
    WriteStands
    PressedOnce
PROPERTIES
    QuietsDown
CHECK_DEADLOCK FALSE
