SPECIFICATION Spec
CONSTANTS
    p1 = p1
    here = here
    there = there
    Platforms <- MCPlatforms
    Urls <- MCUrls
    None = None
    Polls = 1
    MaxIssued = 4
    MaxWire = 2
    MaxPresses = 2
    MaxFaults = 0
INVARIANT LoginNotStuck
CHECK_DEADLOCK FALSE
