SPECIFICATION LiveSpec
CONSTANTS
    Writer = {w1, w2}
    Reader = {r1}
    Size = 8
    Hdr = 2
    MaxPayload = 2
    MaxWrites = 3
    Faults = TRUE
    None = None
INVARIANTS EntriesReadable ReadInOrder
PROPERTY SleepingReaderWoken
CONSTRAINT WhileIntact
CHECK_DEADLOCK FALSE
