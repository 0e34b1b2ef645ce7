SPECIFICATION FairSpec
CONSTANTS
 Limits = {0, 1, 3}
 Shares <- TheShares
 Slices <- TheSlices
 Gaps = {0, 1, 3}
 Full = 4
 Rise = 2
 Decay = 1
 MinTarget = 1
 Actionable = 2
 LongGap = 2
 Grace = 4
 JoinGrace = 2
 StallTimeout = 2
 MaxStep = 3
 PaceCap = 1
INVARIANTS ScoreIsEarned
PROPERTIES EmptyIsFound RecoveredIsForgiven
