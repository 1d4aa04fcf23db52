CONSTANTS
    n1 = n1  r1 = r1  r2 = r2
    Replicas = {n1}
    Rows = {r1, r2}
    shards = 2
    RowShard <- TwoShards
    MaxEntries = 2
    Interval = TRUE
    DeleteFirst = TRUE
    MaxPublished = 1
    Skew = 4
    MaxWrites = 4
    MaxPending = 1
    MaxBoots = 2
    MaxFailures = 1
SPECIFICATION Spec
CHECK_DEADLOCK FALSE
INVARIANTS TypeOK LagBounded 
