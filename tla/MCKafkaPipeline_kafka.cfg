SPECIFICATION FairSpec
CONSTANTS
    e1 = e1
    e2 = e2
    e3 = e3
    p1 = p1
    p2 = p2
    w1 = w1
    w2 = w2
    Events <- MCEvents
    Partitions <- MCPartitions
    Workers <- MCWorkers
    PartOf <- MCPartOf
    None = None
    MaxCrashes = 1
    MaxStops = 1
    MaxRebalances = 1
    MaxFailures = 1
CHECK_DEADLOCK FALSE
INVARIANTS
    AtLeastOnce
PROPERTIES
    PublishedProcessed
