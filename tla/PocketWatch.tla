----------------------------- MODULE PocketWatch ----------------------------
(***************************************************************************)
(* /pocketwatch: the voyages of a sailor over a number of days, by week,   *)
(* weekday and hour of the sailor's own time zone.  The window is cut in   *)
(* UTC and the weeks are those of the zone, so that the first and the last *)
(* week can begin on another day than the window's ends do in UTC.         *)
(***************************************************************************)
EXTENDS TimeRanges, Functions

CONSTANTS
    WatchNow,     \* when the report is asked for
    WatchTimes,   \* when the sailor sails and hosts
    WatchDays,    \* the lengths of window asked for
    Offsets,      \* offsets of time zones, in minutes
    MinDays, MaxDays, MinVoyages, MinWeeks,   \* the thresholds
    MaxLabels,    \* labels of the weekly chart
    MaxWatched    \* rows of the sailor (bound)

ASSUME WatchAssumption ==
    /\ WatchNow \in Int /\ WatchTimes \subseteq Int /\ Offsets \subseteq Int /\ WatchDays \subseteq Int
    /\ MinVoyages \in Nat \ {0} /\ MinWeeks \in Nat \ {0} /\ MaxLabels \in Nat \ {0}
    /\ MinDays \in Nat /\ MaxDays \in Nat /\ MaxWatched \in Nat

VARIABLES attended, hosted   \* when the sailor sailed, and hosted

watchVars == <<attended, hosted>>

WatchInit == attended = {} /\ hosted = {}

\* No two rows of a table are of the same instant, here.
Attend(t) == t \notin attended /\ attended' = attended \union {t} /\ UNCHANGED hosted
Host(t) == t \notin hosted /\ hosted' = hosted \union {t} /\ UNCHANGED attended

WatchNext ==
    /\ Cardinality(attended) + Cardinality(hosted) < MaxWatched
    /\ \E t \in WatchTimes : Attend(t) \/ Host(t)

WatchTypeOK == attended \subseteq WatchTimes /\ hosted \subseteq WatchTimes

-----------------------------------------------------------------------------
ValidDays(days) == MinDays <= days /\ days <= MaxDays

Local(t, offset) == t + offset
StartOfWeek(t) == BucketStart(t, "week")
HourOf(t) == (t % Day) \div Hour
CountAt(place, values) == [v \in values |-> Cardinality({t \in DOMAIN place : place[t] = v})]

\* Faulty: the weeks are those of UTC.
WeekRangeOfUTC(start, end, offset) == GenerateBuckets(start, end, "week")

\* The weeks of the zone from the window's start to its end.
WeekRange(start, end, offset) == GenerateBuckets(Local(start, offset), Local(end, offset), "week")

\* The first of the values that occur most.
MostActive(counts) ==
    CHOOSE v \in DOMAIN counts : \A w \in DOMAIN counts :
        counts[w] < counts[v] \/ (counts[w] = counts[v] /\ v <= w)

\* The weeks that get a label: every so many, and the last.
TickPositions(total) ==
    LET step == (total + MaxLabels - 1) \div MaxLabels
    IN  IF total <= MaxLabels THEN 0 .. total - 1
        ELSE {i \in 0 .. total - 1 : i % step = 0} \union {total - 1}

Analyze(days, offset) ==
    LET start == WatchNow - days * Day
        InWindow(times) == {Local(t, offset) : t \in {u \in times : start <= u /\ u <= WatchNow}}
        sailed == InWindow(attended)
        led == InWindow(hosted)
        weeks == WeekRange(start, WatchNow, offset)
        weekly == CountAt([t \in sailed |-> StartOfWeek(t)], weeks)
        weeklyHosted == CountAt([t \in led |-> StartOfWeek(t)], weeks)
        Active(counts) == Cardinality({w \in weeks : counts[w] > 0})
        hourly == CountAt([t \in sailed |-> HourOf(t)], 0 .. 23)
    IN  IF ~ValidDays(days) THEN [outcome |-> "invalid"]
        ELSE IF Cardinality(sailed) < MinVoyages \/ Active(weekly) < MinWeeks
             THEN [outcome |-> "insufficient"]
        ELSE [outcome |-> "report", total_voyages |-> Cardinality(sailed), total_hosted |-> Cardinality(led),
              active_weeks |-> Active(weekly), active_hosted_weeks |-> Active(weeklyHosted),
              total_weeks |-> Cardinality(weeks), weekly |-> weekly, weekly_hosted |-> weeklyHosted,
              weekday |-> CountAt([t \in sailed |-> Weekday(DayOf(t))], 0 .. 6), hourly |-> hourly,
              busiest |-> MostActive(hourly),
              ticks |-> TickPositions(Cardinality(weeks))]

\* In every time zone each voyage of the window falls into a week, a weekday and an hour of the
\* chart; a sailor who hosted has an active week to divide by; the busiest hour has a voyage; and
\* the first and the last week are labelled (analyze_pocket_watch_activity).
WeeksAddUp ==
    \A days \in WatchDays, offset \in Offsets :
        LET report == Analyze(days, offset)
        IN  report.outcome = "report" =>
              /\ SumFunction(report.weekly) = report.total_voyages
              /\ SumFunction(report.weekly_hosted) = report.total_hosted
              /\ SumFunction(report.weekday) = report.total_voyages
              /\ SumFunction(report.hourly) = report.total_voyages
              /\ report.total_hosted > 0 => report.active_hosted_weeks > 0
              /\ report.active_weeks <= report.total_weeks
              /\ report.hourly[report.busiest] > 0
              /\ {0, report.total_weeks - 1} \subseteq report.ticks
              /\ Cardinality(report.ticks) <= MaxLabels + 1
=============================================================================
