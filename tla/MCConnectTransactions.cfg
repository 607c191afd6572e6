CONSTANTS
    Txns = {x1, x2}
    Installations = {i1}
    Providers = {yt, tw}
    Threads = {t1, t2}
    TTL = 1
    MaxTime = 1
    NoTxn = NoTxn
    NoRow = NoRow
SPECIFICATION Spec
SYMMETRY Symmetry
INVARIANTS TypeOK UsedNeverFindable ConnectionOfStarter ErasedNotFindable
PROPERTIES WrongProviderLeavesRow PurgeOnlyUnusable
