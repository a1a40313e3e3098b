SPECIFICATION Spec
CONSTANTS
    p1 = p1
    p2 = p2
    a = a
    b1 = b1
    b2 = b2
    Proc = {p1, p2}
    Thread = {a, b1, b2}
    ProcOf <- MCProcOf
    Id = {i1, i2}
    MaxWork = 1
    None = None
SYMMETRY Symmetry
CHECK_DEADLOCK FALSE
INVARIANTS
    AnswersBalance
    CallNotForgotten
    StackDiscipline
    NoLostWakeup
    AsyncOneAtATime
