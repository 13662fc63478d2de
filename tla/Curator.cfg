SPECIFICATION Spec
CONSTANTS
    Tabs = {t1, t2}
    Typed <- Texts
    Trimmed <- Trims
    Valid <- Savable
    Blank = ""
    WriteUp = "a"
    Refs = {"none", "cited"}
    NoRefs = "none"
    MaxVersions = 3
    MaxCalls = 3
    MaxFaults = 1
SYMMETRY Symmetry
PROPERTIES
    SavesKeepEdits
    NoSilentOverwrite
CHECK_DEADLOCK FALSE
