SPECIFICATION FairSpec
CONSTANTS
    Session = {s1, s2}
    Nas = nas
    Settings = {a}
    Off = off
    Limit = 2
    MaxTasks = 2
    Tries = 1
    MaxSequence = 3
    MaxUpsets = 1
CHECK_DEADLOCK FALSE
INVARIANTS DeliveriesExclusive QueuedForSettings WithinLimits
PROPERTIES ImplementsQueue RecordsEnd
