SPECIFICATION FairSpec
CONSTANTS
    e1 = e1
    e2 = e2
    e3 = e3
    Events <- MCEvents
    BatchSize = 2
    MaxBuffered = 2
    MaxDeliveries <- MCDeliveries
    MaxCrashes = 2
    MaxTears = 1
    MaxSealFailures = 1
    MaxRawFailures = 1
    MaxStarts = 3
CHECK_DEADLOCK FALSE
INVARIANTS
    TypeOK
    ChainIntact
    SealedOnce
    ShutdownSealsAll
    IndexRebuildsBatch
PROPERTIES
    LedgerAppendOnly
    QuietBatchSealed
