SPECIFICATION Spec

CONSTANTS
    ann = ann
    bob = bob
    cal = cal
    main = main
    MaxLog = 2
    Sailor <- Sailors
    Subclass = {main}
    Author <- Hosts
    Mentions <- Crews
    MaxCalls = 4
    MaxFaults = 2

INVARIANTS CommitsTypeOK VoyageDriftBounded PointsDriftBounded HostedDriftBounded
PROPERTIES ImplementsTables
CHECK_DEADLOCK FALSE
