SPECIFICATION MCSpec
CONSTANTS
    ann = ann
    bob = bob
    cat = cat
    Sailor = {ann, bob, cat}
    Posts <- MCPosts
    Groups <- MCGroups
    Leaves <- MCLeaves
    Losses <- MCLosses
    MaxOrders = 2
    Category <- MCCategory
    Medals <- MCMedals
    Counts <- MCCounts
    Marks <- MCMarks
    Odd = {bob}
    MaxInMessage = 2
    PerDay = 2
    VoyageDays = 1
    VoyageSoon = 0
    HostDays = 1
    HostSoon = 0
    RowsPerImage = 2
    LinesPerField = 1
    FieldsPerEmbed = 2
    AwardsPerEmbed = 2
    EmbedsPerMessage = 2
    Hosting = {"E7", "SNCO"}
    Crew <- Members
    Points = 2
    WeekDays = 1
    MaxNow = 4
    Vessel <- MCVessel
    Moored = {"galleon", "sloop"}
    Calls = {c1, c2}
    Task = task
    MaxMessages = 2
    MaxStops = 1
    Role <- MCRole
    Days = {14}
    Tallies <- MCTallies
    MaxDay = 28
    MaxMoves = 2
    Nick = {n1, n2}
    Branch <- MCBranch
    Joined = {"spd", "netc"}
    MaxRenames = 2
    Versions <- MCVersions
    MaxStarts = 3
INVARIANTS CommunityTypesOK AwardsReach BriefingsAddUp PromotionsAreTrue NamesSettle
PROPERTIES ShipsAreTried PromotionsOnlyImprove
CHECK_DEADLOCK FALSE
