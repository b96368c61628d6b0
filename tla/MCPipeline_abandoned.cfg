SPECIFICATION Spec
CONSTANTS
    e1 = e1
    e2 = e2
    e3 = e3
    e4 = e4
    rawStore = rawStore
    integrity = integrity
    sinks = sinks
    Events <- MCEvents
    FlushList <- MCFlushList
    NWorkers = 2
    Capacity = 1
    StopTask = StopTask
    SHUTDOWN = SHUTDOWN
    None = None
    MaxStarts = 1
    MaxDlqFailures = 0
    MaxFlushFailures = 0
SYMMETRY Symm
CHECK_DEADLOCK FALSE
INVARIANT NoItemAbandoned
