SPECIFICATION LiveSpec
CONSTANTS
    Things <- Mails
    CollectorOf <- By
    Collectors = 2
    Kinds <- KindsUsed
    Todos = {t}
    Issues = {i, j}
    Note = note
    StampOf <- Stamps
    Upcoming = {"meeting"}
    Mixes <- AllMixes
INVARIANTS RepeatsAreUnsaved CursorsMatchEvents OneItemPerKey DeletedIsNotReported  DoneSticks
PROPERTY ListedIsRecorded
CHECK_DEADLOCK FALSE
