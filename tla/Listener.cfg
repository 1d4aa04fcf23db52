CONSTANTS
    s1 = s1  s2 = s2
    Shards = {s1, s2}
    maxReplicateRetries = 2
    Configs <- FiveConfigs
    MaxLength <- TwoLengths
    MaxFaults = 1
    MaxStarts = 2
SPECIFICATION FairSpec
CHECK_DEADLOCK FALSE
INVARIANTS TypeOK NothingSkipped
PROPERTIES AppliedInOrder KeepsUpOrStops
