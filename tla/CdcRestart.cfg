CONSTANTS
    t1 = t1  t2 = t2
    Tables = {t1, t2}
    Global = Global
    AllowRestore = FALSE
    MaxBoots = 2
SYMMETRY TableSymmetry
SPECIFICATION Spec
CHECK_DEADLOCK FALSE
INVARIANTS NothingMissed
