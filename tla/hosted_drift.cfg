SPECIFICATION Spec

CONSTANTS
    ann = ann
    bob = bob
    cal = cal
    main = main
    t1 = t1
    t2 = t2
    MaxLog = 1
    Sailor <- Sailors
    Subclass = {main}
    Author <- Hosts
    Mentions <- Crews
    BotLogs = {}
    Task = {t1, t2}
    PageSize = 2
    Overlap = FALSE
    MaxStarts = 1
    MaxCrashes = 0
    MaxEdits = 1
    MaxErrors = 0
    MaxConsole = 0
    MaxViews = 1

INVARIANTS HostedCountMatches
CHECK_DEADLOCK FALSE
