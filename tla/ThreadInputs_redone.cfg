SPECIFICATION Spec
CONSTANTS
    MaxTurns = 2
    MaxMessages = 1
    MaxRelays = 0
    Asks = {}
    x = x
    y = y
    Actions = {}
    StreakToPause = 2
    SuggestEvery = 3
    Budgets <- OnlyRestart
INVARIANT JudgedTurnsDidNotGoBack
CHECK_DEADLOCK FALSE
