SPECIFICATION Spec

CONSTANTS
    ann = ann
    bob = bob
    cal = cal
    main = main
    t1 = t1
    t2 = t2
    MaxLog = 2
    Sailor <- Sailors
    Subclass = {main}
    Author <- Hosts
    Mentions <- CrewsOrNone
    BotLogs = {2}
    Task = {t1, t2}
    PageSize = 2
    Overlap = TRUE
    MaxStarts = 2
    MaxCrashes = 1
    MaxEdits = 2
    MaxErrors = 1
    MaxConsole = 1
    MaxViews = 1

ACTION_CONSTRAINT CalmOrRough
SYMMETRY Symmetric
INVARIANTS TypeOK VoyageCountMatches HostedNeverOverstated
PROPERTIES ImplementsRegister
CHECK_DEADLOCK FALSE
