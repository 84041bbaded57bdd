SPECIFICATION LiveSpec
CONSTANTS
    MaxTurns = 3
    MaxMessages = 1
    MaxRelays = 1
    Asks = {a}
    x = x
    y = y
    Actions = {x, y}
    StreakToPause = 2
    SuggestEvery = 3
    Budgets <- MostBudgets
INVARIANTS TurnsAreJudgedOnce PauseShownIsReal ApprovalShownIsOpen PausesOnAStreak
PROPERTY EveryTurnIsJudged
CHECK_DEADLOCK FALSE
