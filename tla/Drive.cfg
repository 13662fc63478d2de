SPECIFICATION FairSpec
CONSTANTS
    Campaigns = {c1, c2}
    Specs <- OneBranch
    RingCap = 1
    MaxActions = 2
    MaxTroubles = 1
INVARIANTS
    CountedOnce
    WithinBranches
PROPERTIES
    NothingUnapproved
    EveryEndIsFolded
CHECK_DEADLOCK FALSE
