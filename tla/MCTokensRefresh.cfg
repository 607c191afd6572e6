CONSTANTS
    t1 = t1
    t2 = t2
    p1 = p1
    p2 = p2
    Installations = {i1, i2}
    Accounts = {a1}
    Threads = {t1, t2}
    Processes = {p1, p2}
    ProcOf <- OneProcess
    Life = 4
    Margin = 2
    Lag = 1
    Rotates = TRUE
    Jobs = {"connect", "refresh"}
    MaxTime = 5
    MaxPairs = 4
    NoEntry = NoEntry
    NoThread = NoThread
SPECIFICATION Spec
SYMMETRY Symmetry
INVARIANTS TypeOK SingleFlight RefreshUsesLive RefreshOnlyIfStale
PROPERTY NeverServesExpired
