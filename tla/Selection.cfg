SPECIFICATION Spec
CONSTANTS
    Kinds <- AllKinds
    MaxExperiments = 5
    Keys = 1
    Rerolls = 8
    Results <- Endings
    MaxReleases = 1
    Exact = TRUE
INVARIANTS
    ControlsMeasureNoise
    CanaryStaysCheapAlone
PROPERTIES
    NoLuckyIncumbent
    KeptIsTheIncumbent
CHECK_DEADLOCK FALSE
