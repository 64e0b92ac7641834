----------------------------- MODULE MCAnalytics ----------------------------
(***************************************************************************)
(* The figures the bot computes.  The modules share nothing but the        *)
(* calendar, so a behaviour looks at one of them: topic says at which.     *)
(***************************************************************************)
EXTENDS VoyageAnalytics, PingTracking, Streaks, PocketWatch, TLC

VARIABLE topic

\* Instants about the turn of the year: 4 January 2026 is a Sunday.
January(day, hour, minute) == (365 + day - 1) * Day + hour * Hour + minute
AnInstants == {January(4, 23, 59), January(-7, 0, 0)}
AnNow == January(5, 0, 30)
AtSea == [sailor \in Sailors |-> IF sailor = "ada" THEN None ELSE "captain"]
Ashore == [sailor \in Sailors |-> "mate"]
ThePings == {[ship |-> None, vp |-> TRUE], [ship |-> "venom", vp |-> FALSE]}
TheRoles == <<"mate", "venom">>
WatchedAt == {January(5, 0, 5), January(4, 23, 30), January(-8, 12, 0), January(-8, 12, 30), January(-9, 1, 0)}
WatchedNow == January(5, 0, 30)
Zones == {-12 * Hour, 0, 330, 14 * Hour}

figuresVars == <<analyticsVars, trackingVars, streakVars, watchVars, topic>>

FiguresInit ==
    /\ AnalyticsInit /\ TrackingInit /\ StreaksInit /\ WatchInit
    /\ topic \in {"voyages", "pings", "sizes", "streaks", "watch"}

FiguresNext ==
    /\ UNCHANGED topic
    /\ \/ topic = "voyages" /\ AnalyticsNext /\ UNCHANGED <<trackingVars, streakVars, watchVars>>
       \/ topic = "pings" /\ (PingsNext \/ (today < 1 /\ PassDay)) /\ UNCHANGED <<analyticsVars, streakVars, watchVars>>
       \/ topic = "sizes" /\ (SizesNext \/ PassDay) /\ UNCHANGED <<analyticsVars, streakVars, watchVars>>
       \/ topic = "streaks" /\ StreaksNext /\ UNCHANGED <<analyticsVars, trackingVars, watchVars>>
       \/ topic = "watch" /\ WatchNext /\ UNCHANGED <<analyticsVars, trackingVars, streakVars>>

\* The rows are rows of their tables.
AnalyticsTablesOK == AnalyticsTypeOK /\ TrackingTypeOK /\ StreaksTypeOK /\ WatchTypeOK

\* The figures of a report on voyages are those of its rows, counted once and
\* in the right bucket, and the chart that is drawn from the cache shows them.
VoyageFiguresAgree == FiguresAddUp /\ ChartsShowFigures

\* Pings are counted once however often their message is delivered, and a role
\* has at any point of the chart the size that was last seen.
TrackingCountsOnce == PingsCountOnce /\ EstimatesTrue

\* Two ways to the same figure meet: a member's own streak report and the
\* leaderboards; and in every time zone each voyage is in one week, weekday and
\* hour of the watch.
StreaksAndWeeksAgree == StreaksAgree /\ WeeksAddUp
=============================================================================
