SPECIFICATION WorkFairSpec
CONSTANTS
    Exps = {e1, e2}
    Profiles <- MCProfiles
    Inputs <- MCInputs
    MaxFaults = 1
    MaxKills = 1
    MaxLost = 1
INVARIANTS
    OverridesWin
    TaskOnce
PROPERTIES
    EveryRunEnds
    BurstEnds
CHECK_DEADLOCK FALSE
