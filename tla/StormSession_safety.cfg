SPECIFICATION Spec
CONSTANTS
    Wakes = {w1, w2}
    MaxTurns = 2
    MaxRedeliveries = 1
    MaxFailedStarts = 2
    Faults = {"crash", "shutdown", "store", "cli", "cli_dies", "open", "send", "own", "pause", "pool", "retire", "release", "idle"}
    MaxFaults = 2
CHECK_DEADLOCK FALSE
SYMMETRY Symmetry
INVARIANTS TypeOK TakenHasRunningTurn NoTurnIsStranded ConsumedWasReceived 
    RetiredHoldsNoWake
PROPERTIES DoneStaysDone OneProcessWorks QueueOfWakes GivenUpAfterFailures
