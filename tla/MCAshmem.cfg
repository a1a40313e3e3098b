SPECIFICATION AshSpec
CONSTANTS
    Area = {a1, a2}
    Sizes = {3}
    MaxSize = 3
    RangeId = {n1, n2, n3}
    ShrinkBatch = 2
    NULL = NULL
SYMMETRY Symmetry
INVARIANTS ListsConsistent UnpinnedFound
PROPERTIES ImplementsPages
CHECK_DEADLOCK FALSE
