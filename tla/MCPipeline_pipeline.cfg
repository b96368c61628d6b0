SPECIFICATION FairSpec
CONSTANTS
    e1 = e1
    e2 = e2
    e3 = e3
    e4 = e4
    rawStore = rawStore
    integrity = integrity
    sinks = sinks
    Events <- LiveEvents
    FlushList <- MCFlushList
    NWorkers = 2
    Capacity = 1
    StopTask = StopTask
    SHUTDOWN = SHUTDOWN
    None = None
    MaxStarts = 2
    MaxDlqFailures = 1
    MaxFlushFailures = 1
CHECK_DEADLOCK FALSE
INVARIANTS
    TypeOK
    PlacedOnce
    UnfinishedExact
    NoLostWakeup
    DrainedBeforeFlush
    FlushedExactlyOnce
PROPERTIES
    
    StopReturns
