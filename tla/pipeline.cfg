SPECIFICATION MCSpec

CONSTANTS
    ann = ann
    bob = bob
    User = {ann, bob}
    Caller = {ann, bob}
    ships = ships
    briefing = briefing
    Command = {ships, briefing}
    Configured = {ships}
    Seconds = 1
    OwnSeconds = 1
    Needed = {"JE"}
    Badges <- MCBadges
    Grants <- MCGrants
    RoleTtl = 2
    MaxClock = 3
    MaxTime = 3
    MaxChanges = 1
    MaxHits = 2
    first = first
    second = second
    Call = {first, second}
    MaxCrashes = 1
    loop = loop
    worker = worker
    Alert = {loop, worker}
    Threaded = {worker}
    MaxReadies = 2

INVARIANTS PipelineTypesOK TrailsAreTrue
PROPERTIES GrantsFollowRoles CooldownsFair EarlyAlertsGo
CHECK_DEADLOCK FALSE
