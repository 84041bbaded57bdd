SPECIFICATION Spec
CONSTANTS
    MaxCalls = 1
    Actions = {a1}
    MaxTurns = 2
    Faults = {"memory"}
    MaxFaults = 1
CHECK_DEADLOCK FALSE
INVARIANTS DecisionReachesAgent
