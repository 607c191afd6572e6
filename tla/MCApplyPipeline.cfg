CONSTANTS
    Platforms = {"YouTube", "Facebook"}
    Refreshable = {"YouTube"}
    MaxRetries = 2
    MaxSteps = 2
    MaxCopies = 2
SPECIFICATION FairSpec
INVARIANTS TypeOK OneStepAtATime ListHasEntry BoundedTries NotStranded
PROPERTIES Answers ApplyEnds
CHECK_DEADLOCK FALSE
