SPECIFICATION SpecSameAction
CONSTANTS
    MaxCalls = 3
    Actions = {a1, a2}
    MaxTurns = 2
    Faults = {"withdraw", "memory", "other"}
    MaxFaults = 1
CHECK_DEADLOCK FALSE
SYMMETRY Symmetry
INVARIANTS RunsOnce
