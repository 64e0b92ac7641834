SPECIFICATION Spec

CONSTANTS
    ann = ann
    bob = bob
    cal = cal
    main = main
    t1 = t1
    t2 = t2
    MaxLog = 2
    Sailor <- Sailors
    Subclass = {main}
    Author <- Hosts
    Mentions <- CrewsOrNone
    BotLogs = {}
    Task = {t1, t2}
    PageSize = 2
    Overlap = FALSE
    MaxStarts = 2
    MaxCrashes = 0
    MaxEdits = 3
    MaxErrors = 0
    MaxConsole = 0
    MaxViews = 2

ACTION_CONSTRAINT SteadyOrNoViews
INVARIANTS TablesAgree
CHECK_DEADLOCK FALSE
