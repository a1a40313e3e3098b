SPECIFICATION MutexLiveSpec
CONSTANTS
    Task = {t1, t2, t3}
    Signallable = {t1}
    NoTask = NoTask
INVARIANTS NoLostWakeup
PROPERTIES ImplementsRWLock WaiterNotStuck InterruptReturns
