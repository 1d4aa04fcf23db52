CONSTANTS
    t1 = t1  t2 = t2
    Tables = {t1, t2}
    ScanMaxChanges = 2
    Polling = FALSE
    MaxWrites = 3
    MaxStops = 1
    MaxPublishErrors = 1
    MaxMarkErrors = 1
    MaxScanErrors = 1
SPECIFICATION FairSpec
CHECK_DEADLOCK FALSE
INVARIANTS TypeOK LogsAgree NothingForgotten FirstInOrder
PROPERTIES  ImplementsQueue
