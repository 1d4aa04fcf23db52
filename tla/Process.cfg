CONSTANTS
    m = m  w = w  l1 = l1
    g1 = g1  t1 = t1
    Threads <- AllThreads
    Main = m
    Watcher = w
    Shards = {l1}
    Tables = {t1}
    Goroutines = {g1}
    PoolSize = 2
    ConnectRetries = 1
    UpdateExisting = TRUE
    Peers = 1
    SnapshotEnable = TRUE
    Publish = TRUE
    Sleep = TRUE
    MaxWrites = 1
SPECIFICATION FairSpec
CHECK_DEADLOCK FALSE
INVARIANTS TypeOK PoolConserved ReturnNeverBlocks NoCircularWait AllOpened SleepSaves
PROPERTIES SnapshotsInOrder EveryBorrowServed EndsWhenDue 
