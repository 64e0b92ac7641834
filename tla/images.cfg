SPECIFICATION Spec

CONSTANTS
    fleet = fleet
    pings = pings
    Image = {fleet, pings}
    one = one
    two = two
    Renderer = {one, two}
    Ttl = 0
    MaxItems = 1
    TriggerPercent = 110
    IsTarget = TRUE
    MaxClock = 1
    MaxAsks = 2

INVARIANTS ImageTypeOK FilesBounded FiguresBounded StatsNeverOver
PROPERTY ExpiredGo
CHECK_DEADLOCK FALSE
