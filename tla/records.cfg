SPECIFICATION Spec

CONSTANTS
    ann = ann
    bob = bob
    cal = cal
    use1 = use1
    use2 = use2
    MaxTraining = 3
    Trainer = {ann, bob}
    Trainee <- Authors
    RecordsChannel <- Channels
    NetcTypes = {"jla"}
    ByBot = {1}
    Returned = {3}
    ReadOrder <- Order
    ReadBack = 1
    Reader = {use1, use2}
    MaxFaults = 1
    Represented = {ann, bob}
    Manager = {ann, bob, cal}
    Holds <- Roles
    Amounts = {1, 2}
    MaxMutations = 3
    Person = {ann, bob}
    Kinds <- ForceKinds
    ForceAmounts = {1}
    CoinTypes = {"regular"}
    Names = {"smith", "jones"}
    MaxStaff = 3
    MaxStaffFaults = 1
    Sailors = {"ada", "bo"}
    VoyageShips = {"venom", "grizzly"}
    Fleets = {{"venom"}}
    Types = {"patrol"}
    Instants <- AnInstants
    Now <- AnNow
    RankAtSea <- AtSea
    RankAshore <- Ashore
    RankNames = {"captain"}
    Labels = {"7d", "all"}
    MaxRows = 3
    MaxImages = 1
    Messages = {m1, m2}
    PingedRoles = {"patrols", "convoys"}
    Snapshots <- ThePings
    SizedRoles <- TheRoles
    MaxDay = 3
    MaxSizeOf = 1
    MaxEvents = 2
    PingLabels = {"90d"}
    Today = 8
    FirstDay = 3
    WatchNow <- WatchedNow
    WatchTimes <- WatchedAt
    WatchDays = {7, 14}
    Offsets <- Zones
    MinDays = 7
    MaxDays = 30
    MinVoyages = 2
    MinWeeks = 2
    MaxLabels = 2
    MaxWatched = 10

SYMMETRY Alike
INVARIANTS RecordsTypeOK TrainingsFollowRows PointsAreOnRecord OfficersOnRecord
    AnalyticsTablesOK VoyageFiguresAgree TrackingCountsOnce StreaksAndWeeksAgree
CHECK_DEADLOCK FALSE
