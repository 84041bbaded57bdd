SPECIFICATION LiveSpec
CONSTANTS
    QueueLimit = 2
    PageLimit = 1
    Filters <- TwoFilters
    MaxEvents = 3
    MaxDeltas = 1
    Faults = {"drop", "prune", "stop", "crash"}
    MaxFaults = 1
    PruneDuring = {}
INVARIANT ViewIsWhole
PROPERTIES Feed UpToDate
CHECK_DEADLOCK FALSE
