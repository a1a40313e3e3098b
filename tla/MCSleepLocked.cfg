SPECIFICATION ESSpec
CONSTANTS
    main_wake_lock = main
    unknown_wakeup = unknown
    power_manager = pms
    UserLock = {pms}
    DriverLock = {}
    MaxTimeout = 1
    h1 = h1
    r1 = r1
    Work <- MCWork
    Requester = {r1}
    Handler = {h1}
    level <- MCLevel
INVARIANT NoSleepWhileLocked
