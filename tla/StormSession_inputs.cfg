SPECIFICATION Spec
CONSTANTS
    Wakes = {w1, w2}
    MaxTurns = 3
    MaxRedeliveries = 1
    MaxFailedStarts = 2
    Faults = {"cli", "cli_dies", "open", "send", "pause", "pool", "retire", "release", "idle"}
    MaxFaults = 3
CHECK_DEADLOCK FALSE
SYMMETRY Symmetry
INVARIANTS TurnShownIsReal SentAgainOnlyAfterFailure
