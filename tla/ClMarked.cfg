CONSTANTS
    t1 = t1  t2 = t2
    Tables = {t1}
    ScanMaxChanges = 2
    Polling = FALSE
    MaxWrites = 2
    MaxStops = 0
    MaxPublishErrors = 1
    MaxMarkErrors = 0
    MaxScanErrors = 0
SPECIFICATION Spec
CHECK_DEADLOCK FALSE
INVARIANTS MarkedIsPublished
