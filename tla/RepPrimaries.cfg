CONSTANTS
    n1 = n1  n2 = n2  r1 = r1  r2 = r2  v1 = v1  v2 = v2
    Nodes = {n1, n2}
    Rows = {r1, r2}
    Values = {v1}
    None = None
    Initial <- InitialEmpty
    shards = 2
    Hash <- HashTwoShards
    SnapshotEnable = {n2}
    Publish = {n1, n2}
    Replicate = {n1}
    PkUpdates = TRUE
    MaxWrites = 2
    MaxRestarts = 1
    MaxPublishErrors = 1
SPECIFICATION FairSpec
CHECK_DEADLOCK FALSE
INVARIANTS TypeOK LastWriterWins
PROPERTIES SavedOnlyAfterReplay EventuallySettled
