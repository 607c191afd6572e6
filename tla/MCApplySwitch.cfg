CONSTANTS
    Platforms = {"YouTube", "Facebook"}
    Refreshable = {"YouTube"}
    MaxRetries = 2
    MaxSteps = 1
    MaxCopies = 2
SPECIFICATION FairSpec

PROPERTY SwitchLetsApplyEnd
CHECK_DEADLOCK FALSE
