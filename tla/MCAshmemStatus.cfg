SPECIFICATION AshSpec
CONSTANTS
    Area = {a1}
    Sizes = {3}
    MaxSize = 3
    RangeId = {n1, n2, n3}
    ShrinkBatch = 2
    NULL = NULL
INVARIANT PinStatus
CHECK_DEADLOCK FALSE
