SPECIFICATION Spec
CONSTANTS
    None = None
    Videos = {v1}
    Titles = {t1}
    GoneFails = 3
    MaxWire = 1
    MaxDialogs = 1
    MaxPresses = 1
    MaxSignals = 3
PROPERTY AutoEndAsked
CHECK_DEADLOCK FALSE
