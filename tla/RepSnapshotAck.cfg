CONSTANTS
    n1 = n1  n2 = n2  r1 = r1  r2 = r2  v1 = v1  v2 = v2
    Nodes = {n1, n2}
    Rows = {r1}
    Values = {v1, v2}
    None = None
    Initial <- InitialCopy
    shards = 1
    Hash <- HashOneShard
    SnapshotEnable = {n1, n2}
    Publish = {n1, n2}
    Replicate = {n1, n2}
    PkUpdates = FALSE
    MaxWrites = 2
    MaxRestarts = 0
    MaxPublishErrors = 0
SPECIFICATION Spec
CHECK_DEADLOCK FALSE
INVARIANTS Converges
