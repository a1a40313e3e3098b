SPECIFICATION LiveSpec
CONSTANTS
    Work = {w1, w2}
    Task = {t1}
    NCpu = 2
    Delayed = {w1}
    Requeues = {w1}
    None = None
INVARIANTS PendingProtocol CancelIsSync FlushWaits FlushWorkWaits
PROPERTIES QueuedWorkRuns BarrierCompletes CancelReturns
