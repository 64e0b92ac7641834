SPECIFICATION Spec

CONSTANTS
    ann = ann
    bob = bob
    cal = cal
    main = main
    MaxLog = 1
    Sailor <- Sailors
    Subclass = {main}
    Author <- Hosts
    Mentions <- Crews
    MaxCalls = 2
    MaxFaults = 1

INVARIANTS ProcessedHasCrew
CHECK_DEADLOCK FALSE
