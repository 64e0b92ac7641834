SPECIFICATION FairSpec

CONSTANTS
    ann = ann
    bob = bob
    cal = cal
    main = main
    t1 = t1
    t2 = t2
    MaxLog = 3
    Sailor <- Sailors
    Subclass = {main}
    Author <- Hosts
    Mentions <- CrewsOrNone
    BotLogs = {2}
    Task = {t1, t2}
    PageSize = 3
    Overlap = FALSE
    MaxStarts = 2
    MaxCrashes = 1
    MaxEdits = 1
    MaxErrors = 0
    MaxConsole = 0
    MaxViews = 0

PROPERTIES EventuallyRecorded
CHECK_DEADLOCK FALSE
