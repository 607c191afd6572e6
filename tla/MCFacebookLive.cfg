SPECIFICATION Spec
CONSTANTS
    None = None
    Videos = {v1, v2}
    Titles = {t1}
    GoneFails = 3
    MaxWire = 2
    MaxDialogs = 1
    MaxPresses = 2
    MaxSignals = 2
INVARIANTS TypeOK CreateFlagBacked OwnSession
PROPERTIES GoLiveChecked SelectionKept
CHECK_DEADLOCK FALSE
SYMMETRY Symmetry
