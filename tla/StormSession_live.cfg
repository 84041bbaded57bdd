SPECIFICATION FairSpec
CONSTANTS
    Wakes = {w1}
    MaxTurns = 4
    MaxRedeliveries = 1
    MaxFailedStarts = 2
    Faults = {"crash", "shutdown", "store", "cli", "cli_dies", "open", "send", "pause", "pool", "retire", "release", "idle"}
    MaxFaults = 2
CHECK_DEADLOCK FALSE
PROPERTY EveryWakeIsSettled
