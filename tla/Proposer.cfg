SPECIFICATION HarnessFairSpec
CONSTANTS
    HarnessRingCap = 3
    MaxEnded = 1
    MaxFaults = 2
INVARIANTS
    ReadOnce
PROPERTIES
    KeepsAsking
