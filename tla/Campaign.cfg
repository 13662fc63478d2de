SPECIFICATION FairSpec
CONSTANTS
    Canary = canary
    Hands = {h1}
    MaxExperiments = 3
    Concurrency = 2
    Specs <- AllKinds
    MaxTroubles = 1
INVARIANTS
    CanaryFirst
    WithinBudget
    WithinConcurrency
    RunsHaveTheirEndpoint
PROPERTIES
    Completes
CHECK_DEADLOCK FALSE
