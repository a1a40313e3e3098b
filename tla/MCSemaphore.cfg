SPECIFICATION LiveSpec
CONSTANTS
    Task = {t1, t2}
    InitCount = 1
    MaxCount = 2
INVARIANTS TokensConserved
PROPERTIES Fifo BoundedDownReturns SleepersServed
