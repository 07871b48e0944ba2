CONSTANTS
    Process = {p, q}
    MaxEvents = 3
    None = None
SPECIFICATION Spec
CHECK_DEADLOCK FALSE
INVARIANTS TypeOK AlwaysReadable HistoryKept
PROPERTY KeepsLog
