SPECIFICATION Spec
CONSTANTS
    MaxCalls = 2
    Actions = {a1}
    MaxTurns = 2
    Faults = {"crash", "shutdown", "store", "desk", "dies", "memory", "expire"}
    MaxFaults = 2
CHECK_DEADLOCK FALSE
INVARIANTS RunsOnce OpenItemIsHeld
PROPERTIES SettledStays OneActionOneItem
