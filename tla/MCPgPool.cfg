CONSTANTS
    Threads = {t1, t2}
    Conns = {c1, c2}
    MaxSize = 2
    MaxDepth = 2
    NoThread = NoThread
    NoConn = NoConn
SPECIFICATION FairSpec
INVARIANTS TypeOK CountMatches Bounded Exclusive
PROPERTIES Leases ComesBack
