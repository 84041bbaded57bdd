SPECIFICATION LiveSpec
CONSTANTS
    JobIds = {1, 2}
    Chats <- TwoChats
    Items <- OneItem
    MaxConcurrent = 1
    MaxTime = 3
    Offered <- Saves
    Asked <- HourlyAsked
    Settings <- JobSettings
CHECK_DEADLOCK FALSE
INVARIANTS OneThreadPerFire
PROPERTY SlotFiresOnce
    FireIsAnswered AllowedIsSettled
