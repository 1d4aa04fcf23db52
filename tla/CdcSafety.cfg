CONSTANTS
    t1 = t1  t2 = t2
    Tables = {t1, t2}
    Global = Global
    AllowRestore = TRUE
    MaxBoots = 3
SYMMETRY TableSymmetry
SPECIFICATION Spec
CHECK_DEADLOCK FALSE
INVARIANTS TypeOK NeverRejects WatchedIsCaptured CleanupLeavesNothing
