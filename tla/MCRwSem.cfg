SPECIFICATION LiveSpec
CONSTANTS
    Task = {t1, t2, t3}
    NoTask = NoTask
INVARIANTS RefsBalanced NoLostWakeup
PROPERTIES Fifo ImplementsRWLock WaitersServed
