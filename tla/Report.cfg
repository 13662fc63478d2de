CONSTANTS
    None = None
    Object = Object
    Plan <- MCPlan
    Specs <- MCSpecs
    MaxSize = 5
    Finished = {0, 2}
    MaxEdits = 1
    MaxChanges = 3
    MaxFaults = 1
SPECIFICATION FairSpec
INVARIANTS
    DatasetIsWhole
    BestIsListed
PROPERTIES
    Settles
    Quiesces
CHECK_DEADLOCK FALSE
