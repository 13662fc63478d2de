CONSTANTS
    Tasks <- MCTasks
    Seeds <- MCSeeds
    Value <- MCValue
    LongTasks <- MCLongTasks
    Setups <- MCSetups
    MaxFaults = 1
    MaxMeddling = 1
SPECIFICATION FairSpec
INVARIANTS
    VerdictDelivered
PROPERTIES
    ImplementsVerdict
    Settles
CHECK_DEADLOCK FALSE
