SPECIFICATION BackendFairSpec
CONSTANTS
    BackendSpecs <- MCSpecs
    MaxUids = 2
    MaxReopened = 1
    MaxDeaths = 1
    MaxFaults = 1
INVARIANTS
    QueuedIsAdmitted
PROPERTIES
    ReadyIsServed
    Serves
    GivenBack
CHECK_DEADLOCK FALSE
