-------------------------- MODULE VoyageAnalytics ---------------------------
(***************************************************************************)
(* The figures of /analytics about voyages and ships.  The tables grow row *)
(* by row as voyages are logged; the reports are operators over them, and  *)
(* the invariants ask of every report, under every filter a menu offers,   *)
(* that its parts make its whole.                                          *)
(***************************************************************************)
EXTENDS TimeRanges, Functions

CONSTANTS
    Sailors,      \* who hosts and sails
    Fleets,       \* the ships of each fleet, as sets of ships
    VoyageShips,  \* the roles of ships
    Types,        \* the types of voyage
    Instants,     \* when voyages are logged, in minutes
    Now,          \* when the reports are asked for
    RankAtSea,    \* the rank noted on a sailor's voyages, or None
    RankAshore,   \* the rank in a sailor's own row, or None
    RankNames,    \* the ranks that have a name
    Labels,       \* the ranges asked for
    MaxRows,      \* rows of the two tables together (bound)
    MaxImages     \* reports rendered (bound)

ASSUME AnalyticsAssumption ==
    /\ IsFiniteSet(Sailors) /\ None \notin Sailors
    /\ RankAtSea \in [Sailors -> STRING] /\ RankAshore \in [Sailors -> STRING]
    /\ Instants \subseteq Int /\ MaxRows \in Nat /\ MaxImages \in Nat /\ Now \in Int

VARIABLES hostedRows, voyageRows,
          images   \* the charts drawn, with the report they were drawn for

analyticsVars == <<hostedRows, voyageRows, images>>

NoShip == None
ValidShip(ship) == ship # NoShip

HostedRow == [log : 1 .. MaxRows, host : Sailors, ship : VoyageShips \union {NoShip},
              type : Types, time : Instants]
VoyageRow == [log : 1 .. MaxRows, sailor : Sailors, ship : VoyageShips \union {NoShip}, time : Instants]

AnalyticsTypeOK == hostedRows \subseteq HostedRow /\ voyageRows \subseteq VoyageRow

AnalyticsInit == hostedRows = {} /\ voyageRows = {} /\ images = {}

Rows == Cardinality(hostedRows) + Cardinality(voyageRows)

\* A log is posted: its hosted row.
LogHosted ==
    /\ Rows < MaxRows
    /\ \E row \in HostedRow :
        /\ row.log = Cardinality(hostedRows) + 1
        /\ hostedRows' = hostedRows \union {row}
    /\ UNCHANGED <<voyageRows, images>>

\* A crew member of a log: the row has the log's time, and is unique to the log and the sailor.
LogCrew ==
    /\ Rows < MaxRows
    /\ \E log \in hostedRows, sailor \in Sailors, ship \in VoyageShips \union {NoShip} :
        /\ ~ \E row \in voyageRows : row.log = log.log /\ row.sailor = sailor
        /\ voyageRows' = voyageRows \union
               {[log |-> log.log, sailor |-> sailor, ship |-> ship, time |-> log.time]}
    /\ UNCHANGED <<hostedRows, images>>

-----------------------------------------------------------------------------
\* The log of a voyage row, and the names in it.
LogOf(row) == CHOOSE log \in hostedRows : log.log = row.log
CrewOf(log) == {row.sailor : row \in {v \in voyageRows : v.log = log.log}}
Fits(asked, value) == asked = None \/ asked = value

VoyageQuery(f) ==
    {row \in voyageRows : /\ Within(f.range, row.time)
                          /\ Fits(f.ship, row.ship)
                          /\ Fits(f.user, row.sailor)
                          /\ Fits(f.type, LogOf(row).type)}

HostedLogQuery(f) ==
    {log \in hostedRows : /\ Within(f.range, log.time)
                          /\ Fits(f.ship, log.ship)
                          /\ f.user = None \/ f.user = log.host \/ f.user \in CrewOf(log)
                          /\ Fits(f.type, log.type)}

HostedByUserQuery(f) ==
    {log \in hostedRows : /\ Within(f.range, log.time)
                          /\ Fits(f.ship, log.ship)
                          /\ Fits(f.user, log.host)
                          /\ Fits(f.type, log.type)}

\* How many of the rows have each of the values; rows without a value are left out.
CountBy(value) ==
    [v \in Range(value) \ {None} |-> Cardinality({row \in DOMAIN value : value[row] = v})]
PerBucket(rows, buckets, bucket) ==
    [b \in buckets |-> Cardinality({row \in rows : BucketStart(row.time, bucket) = b})]
Times(rows) == {row.time : row \in rows}

BuildOverview(f) ==
    LET voyages == VoyageQuery(f)
        logs == HostedLogQuery(f)
        hosted == HostedByUserQuery(f)
        buckets == ObservedBuckets(f.range, Times(voyages) \union Times(hosted))
    IN  [total_voyages |-> Cardinality(voyages),
         total_hosted |-> Cardinality(hosted),
         unique_sailors |-> Cardinality({row.sailor : row \in voyages}),
         unique_voyage_logs |-> Cardinality({row.log : row \in voyages}),
         voyage_type_counts |-> CountBy([row \in logs |-> row.type]),
         top_voyagers |-> CountBy([row \in voyages |-> row.sailor]),
         top_hosts |-> CountBy([row \in hosted |-> row.host]),
         top_ships_by_voyages |-> CountBy([row \in voyages |-> row.ship]),
         top_ships_by_hosted |-> CountBy([row \in hosted |-> row.ship]),
         voyage_series |-> PerBucket(voyages, buckets, f.range.bucket),
         hosted_series |-> PerBucket(hosted, buckets, f.range.bucket)]

\* The rank of a row is the one noted on it, or else the sailor's own.
Fallback(row) == RankAtSea[row.sailor] = None /\ RankAshore[row.sailor] # None
RankName(row) ==
    LET rank == IF RankAtSea[row.sailor] # None THEN RankAtSea[row.sailor] ELSE RankAshore[row.sailor]
    IN  IF rank \in RankNames THEN rank ELSE None

BuildRankShare(f) ==
    LET rows == VoyageQuery(f)
    IN  [rank_counts |-> CountBy([row \in rows |-> RankName(row)]),
         fallback_count |-> Cardinality({row \in rows : Fallback(row)}),
         unknown_count |-> Cardinality({row \in rows : RankName(row) = None})]

\* Who sailed with the user of the filter, on the logs that the filter leaves.
BuildCompanionShare(f) ==
    LET shared == {row.log : row \in VoyageQuery(f)}
        rows == {row \in voyageRows : /\ row.log \in shared
                                      /\ row.sailor # f.user
                                      /\ Fits(f.ship, row.ship)}
    IN  [shared_voyage_count |-> Cardinality(shared),
         companion_counts |-> CountBy([row \in rows |-> row.sailor]),
         companion_rank_counts |-> CountBy([row \in rows |-> RankName(row)]),
         companion_ship_counts |-> CountBy([row \in rows |-> row.ship]),
         fallback_rank_count |-> Cardinality({row \in rows : Fallback(row)})]

AvailableShips(f) ==
    {log.ship : log \in HostedLogQuery([f EXCEPT !.ship = None])} \ {NoShip}

-----------------------------------------------------------------------------
\* A ship asked for goes before its fleet.
FitsShip(f, ship) ==
    \/ f.ship # None /\ f.ship = ship
    \/ f.ship = None /\ (f.fleet = {} \/ ship \in f.fleet)

ShipHostedQuery(f) ==
    {log \in hostedRows : /\ Within(f.range, log.time)
                          /\ FitsShip(f, log.ship)
                          /\ Fits(f.type, log.type)
                          /\ Fits(f.host, log.host)
                          /\ f.crew = None \/ f.crew \in CrewOf(log)}

ShipVoyageQuery(f) ==
    {row \in voyageRows : /\ Within(f.range, row.time)
                          /\ FitsShip(f, row.ship)
                          /\ Fits(f.type, LogOf(row).type)
                          /\ Fits(f.host, LogOf(row).host)
                          /\ Fits(f.crew, row.sailor)}

ShipsOfLog(log, hosted, voyages) ==
    {row.ship : row \in {r \in hosted \union voyages : r.log = log /\ ValidShip(r.ship)}}

\* How many rows with a ship the logs of each set of ships have together.
TopShipPairings(hosted, voyages) ==
    LET participants == {row \in voyages : ValidShip(row.ship)}
    IN  [s \in {ShipsOfLog(row.log, hosted, voyages) : row \in participants} |->
            Cardinality({row \in participants : ShipsOfLog(row.log, hosted, voyages) = s})]

\* In how many logs both of a pair are.
PairCounts(members) ==
    LET pairs == UNION {kSubset(2, crew) : crew \in Range(members)}
    IN  [p \in pairs |-> Cardinality({log \in DOMAIN members : p \subseteq members[log]})]

TopCompanionPairs(voyages) ==
    PairCounts([log \in {row.log : row \in voyages} |->
                    {row.sailor : row \in {r \in voyages : r.log = log}}])

TopShipPairs(hosted, voyages) ==
    PairCounts([log \in {row.log : row \in hosted \union voyages} |->
                    ShipsOfLog(log, hosted, voyages)])

BuildActivity(f) ==
    LET hosted == ShipHostedQuery(f)
        voyages == ShipVoyageQuery(f)
        logs == {row.log : row \in hosted \union voyages}
        pairingHosted == {row \in hostedRows : row.log \in logs}
        pairingVoyages == {row \in voyageRows : row.log \in logs}
        buckets == ObservedBuckets(f.range, Times(hosted) \union Times(voyages))
    IN  [total_hosted |-> Cardinality(hosted),
         total_voyages |-> Cardinality(voyages),
         unique_voyage_logs |-> Cardinality(logs),
         hosted_by_ship |-> CountBy([row \in hosted |-> row.ship]),
         voyages_by_ship |-> CountBy([row \in voyages |-> row.ship]),
         top_companion_pairs |-> TopCompanionPairs(voyages),
         top_ship_pairs |-> TopShipPairs(pairingHosted, pairingVoyages),
         top_ship_pairings |-> TopShipPairings(pairingHosted, pairingVoyages),
         pairing_rows |-> {row \in pairingVoyages : ValidShip(row.ship)},
         hosted_series |-> PerBucket(hosted, buckets, f.range.bucket),
         voyage_series |-> PerBucket(voyages, buckets, f.range.bucket)]

-----------------------------------------------------------------------------
\* What a chart draws, and the key under which it is kept among the images: the report's
\* section, its filters and figures of it.
OverviewChart(o) == <<o.voyage_series, o.hosted_series>>

OverviewKey(f, o) ==
    <<"overview", f, o.voyage_series, o.hosted_series, o.total_voyages, o.total_hosted, o.unique_voyage_logs>>
RankChart(ranks) == ranks.rank_counts
RankKey(f, ranks) == <<"ranks", f, ranks.rank_counts, ranks.fallback_count, ranks.unknown_count>>
CompanionChart(companions) == companions.companion_counts

CompanionKey(f, companions) ==
    <<"companions", f, companions.companion_counts, companions.companion_rank_counts,
      companions.companion_ship_counts, companions.shared_voyage_count>>
ActivityChart(activity) == <<activity.hosted_series, activity.voyage_series>>
ActivityKey(f, activity) ==
    <<"ships", f, activity.hosted_series, activity.voyage_series, activity.hosted_by_ship,
      activity.voyages_by_ship, activity.top_companion_pairs, activity.top_ship_pairs,
      activity.top_ship_pairings, Cardinality(activity.pairing_rows)>>

\* A report asked for: its chart is taken from the images, or drawn and kept there.
Report(section, f) ==
    CASE section = "overview" ->
            LET o == BuildOverview(f) IN [key |-> OverviewKey(f, o), chart |-> OverviewChart(o)]
      [] section = "ranks" ->
            LET r == BuildRankShare(f) IN [key |-> RankKey(f, r), chart |-> RankChart(r)]
      [] section = "companions" ->
            LET c == BuildCompanionShare(f) IN [key |-> CompanionKey(f, c), chart |-> CompanionChart(c)]
      [] section = "ships" ->
            LET a == BuildActivity(f) IN [key |-> ActivityKey(f, a), chart |-> ActivityChart(a)]

RenderReport(section, f) ==
    /\ Cardinality(images) < MaxImages
    /\ LET report == Report(section, f)
       IN  /\ ~ \E image \in images : image.key = report.key
           /\ images' = images \union {[section |-> section, filters |-> f,
                                        key |-> report.key, chart |-> report.chart]}
    /\ UNCHANGED <<hostedRows, voyageRows>>

\* The percentage written after a count, in tenths.
Percent(count, denominator) == IF denominator <= 0 THEN 0 ELSE (1000 * count) \div denominator

-----------------------------------------------------------------------------
VoyageFilters ==
    [range : {ResolveTimeRange(label, Now) : label \in Labels}, ship : VoyageShips \union {None},
     user : Sailors \union {None}, type : Types \union {None}]

ShipFilters ==
    [range : {ResolveTimeRange(label, Now) : label \in Labels}, ship : VoyageShips \union {None},
     fleet : Fleets \union {{}}, type : {None}, host : Sailors \union {None}, crew : Sailors \union {None}]

AnalyticsNext ==
    \/ LogHosted \/ LogCrew
    \/ \E f \in VoyageFilters, section \in {"overview", "ranks", "companions"} :
           f.ship = None /\ f.type = None /\ (section = "companions" <=> f.user # None) /\ RenderReport(section, f)
    \/ \E f \in ShipFilters :
           f.ship = None /\ f.host = None /\ f.crew = None /\ RenderReport("ships", f)

\* What the series draws is the total, and the parts by sailor make the whole.
OverviewAddsUp(f) ==
    LET overview == BuildOverview(f)
        OfUser(user) == BuildOverview([f EXCEPT !.user = user])
    IN  /\ SumFunction(overview.voyage_series) = overview.total_voyages
        /\ SumFunction(overview.hosted_series) = overview.total_hosted
        /\ SumFunction(overview.top_voyagers) = overview.total_voyages
        /\ f.user = None =>
             /\ SumFunction([u \in Sailors |-> OfUser(u).total_voyages]) = overview.total_voyages
             /\ SumFunction([u \in Sailors |-> OfUser(u).total_hosted]) = overview.total_hosted

\* Every row has a rank or is unknown; nobody shared more logs with a user than the user sailed.
SharesWithinWhole(f) ==
    LET ranks == BuildRankShare(f)
        total == Cardinality(VoyageQuery(f))
        companions == BuildCompanionShare(f)
    IN  /\ SumFunction(ranks.rank_counts) + ranks.unknown_count = total
        /\ f.user # None => \A other \in DOMAIN companions.companion_counts :
               Percent(companions.companion_counts[other], companions.shared_voyage_count) <= 1000
        /\ f.ship # None => Cardinality(HostedByUserQuery(f)) = 0 \/ f.ship \in AvailableShips(f)

ActivityAddsUp(f) ==
    LET activity == BuildActivity(f)
        pairs == activity.top_companion_pairs
    IN  /\ SumFunction(activity.hosted_series) = activity.total_hosted
        /\ SumFunction(activity.voyage_series) = activity.total_voyages
        /\ SumFunction(activity.top_ship_pairings) = Cardinality(activity.pairing_rows)
        /\ \A p \in DOMAIN pairs : Percent(pairs[p], activity.unique_voyage_logs) <= 1000
        /\ \A p \in DOMAIN activity.top_ship_pairs :
               activity.top_ship_pairs[p] <= activity.unique_voyage_logs

\* Under every filter and over every range, the buckets of a report and its shares sum to its
\* totals, although totals, series and shares come from queries of their own
\* (build_overview, build_rank_share, build_companion_share, build_activity); the images do
\* not matter to them.
FiguresAddUp ==
    hostedRows # {} /\ images = {} =>
    /\ \A f \in VoyageFilters : OverviewAddsUp(f) /\ SharesWithinWhole(f)
    /\ \A f \in ShipFilters : ActivityAddsUp(f)

\* A report shows what its figures are now, although its chart may have been drawn before rows
\* were added: a key found among the images is that of the same chart
\* (_overview_cache_payload and its likes, get_or_create_bytes).
ChartsShowFigures ==
    \A image \in images :
        LET report == Report(image.section, image.filters)
        IN  report.key = image.key => report.chart = image.chart
=============================================================================
