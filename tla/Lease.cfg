CONSTANTS
    n1 = n1  n2 = n2  w1 = w1  w2 = w2
    Nodes = {n1, n2}
    Workers = {w1, w2}
    Owner <- OwnerOf
    TTL = 16
    Skew <- SkewOf
    Errors = TRUE
    MaxDelay = 1
    MaxTime = 24
SPECIFICATION Spec
CHECK_DEADLOCK FALSE
INVARIANTS TypeOK OneUploader
PROPERTIES HandoverAfterExpiry
