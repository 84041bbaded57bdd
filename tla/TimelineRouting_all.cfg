SPECIFICATION LiveSpec
CONSTANTS
    p = p
    q = q
    Messages = {m1, m2}
    Targets = {p, q}
    Choices <- MostChoices
    Modes = {"agent", "decision", "off"}
    Budgets <- MostBudgets
INVARIANTS RoutedOnce QueuedIsLive MessageLiftsPause
PROPERTY EveryMessageIsSomeones
CHECK_DEADLOCK FALSE
