CONSTANTS
    t1 = t1
    t2 = t2
    p1 = p1
    p2 = p2
    Installations = {i1, i2}
    Accounts = {a1}
    Threads = {t1}
    Processes = {p1, p2}
    ProcOf <- OneProcess
    Life = 2
    Margin = 1
    Lag = 0
    Rotates = TRUE
    Jobs = {"connect", "disconnect"}
    MaxTime = 3
    MaxPairs = 3
    NoEntry = NoEntry
    NoThread = NoThread
SPECIFICATION Spec
SYMMETRY Symmetry
PROPERTY SharedPairsSurvive
