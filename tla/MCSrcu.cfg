SPECIFICATION LiveSpec
CONSTANTS
    Reader = {r1, r2}
    Updater = {u1, u2}
    NCpu = 2
    IntMod = 8
    CountMod = 4
    MaxFlips = 2
    None = None
INVARIANTS GracePeriod NotFreedInUse
PROPERTIES GracePeriodEnds
