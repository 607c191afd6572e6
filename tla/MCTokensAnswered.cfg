CONSTANTS
    t1 = t1
    t2 = t2
    p1 = p1
    p2 = p2
    Installations = {i1}
    Accounts = {a1}
    Threads = {t1, t2}
    Processes = {p1, p2}
    ProcOf <- OneProcess
    Life = 2
    Margin = 1
    Lag = 0
    Rotates = TRUE
    Jobs = {"connect", "reconnect", "refresh", "disconnect", "loss"}
    MaxTime = 2
    MaxPairs = 3
    NoEntry = NoEntry
    NoThread = NoThread
SPECIFICATION FairSpec
PROPERTY Answered
CHECK_DEADLOCK FALSE
