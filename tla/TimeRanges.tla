---------------------------- MODULE TimeRanges -----------------------------
(***************************************************************************)
(* The calendar of the reports: how long a range is, which buckets it is   *)
(* cut into, and in which bucket an instant falls.  An instant is a number *)
(* of minutes since Wednesday 1 January 2025; no leap year is within the   *)
(* ranges the runs ask for.                                                *)
(***************************************************************************)
EXTENDS Integers, FiniteSets, FiniteSetsExt

None == "none"
Hour == 60
Day == 24 * Hour
Week == 7 * Day
Forever == 0 - 1000000000

RANGE_OPTIONS ==
    [label \in {"1h", "3h", "6h", "12h", "1d", "7d", "30d", "90d", "365d", "730d", "1825d"} |->
        CASE label = "1h" -> Hour [] label = "3h" -> 3 * Hour [] label = "6h" -> 6 * Hour
          [] label = "12h" -> 12 * Hour [] label = "1d" -> Day [] label = "7d" -> Week
          [] label = "30d" -> 30 * Day [] label = "90d" -> 90 * Day [] label = "365d" -> 365 * Day
          [] label = "730d" -> 730 * Day [] OTHER -> 1825 * Day]

Normalized(label) == IF label \in DOMAIN RANGE_OPTIONS \union {"all"} THEN label ELSE "30d"

BucketForRange(label) ==
    CASE label \in {"1h", "3h"} -> "5min"
      [] label \in {"6h", "12h", "1d"} -> "hour"
      [] label = "7d" -> "6hour"
      [] label = "30d" -> "day"
      [] label = "90d" -> "week"
      [] OTHER -> "month"

RoleSizeBucketForRange(label) ==
    CASE label \in {"1d", "7d", "30d"} -> "day"
      [] label = "90d" -> "week"
      [] OTHER -> "month"

-----------------------------------------------------------------------------
DaysBefore == <<0, 31, 59, 90, 120, 151, 181, 212, 243, 273, 304, 334>>
DayOf(t) == t \div Day
YearOf(t) == DayOf(t) \div 365
MonthOf(t) == Max({m \in 1 .. 12 : DaysBefore[m] <= DayOf(t) % 365})
FirstOf(year, month) == Day * (365 * year + DaysBefore[month])
Weekday(day) == (day + 2) % 7

BucketStart(t, bucket) ==
    CASE bucket = "5min" -> t - (t % 5)
      [] bucket = "hour" -> t - (t % Hour)
      [] bucket = "6hour" -> t - (t % (6 * Hour))
      [] bucket = "day" -> t - (t % Day)
      [] bucket = "week" -> Day * (DayOf(t) - Weekday(DayOf(t)))
      [] bucket = "month" -> FirstOf(YearOf(t), MonthOf(t))

NextBucketStart(t, bucket) ==
    CASE bucket = "5min" -> t + 5
      [] bucket = "hour" -> t + Hour
      [] bucket = "6hour" -> t + 6 * Hour
      [] bucket = "day" -> t + Day
      [] bucket = "week" -> t + Week
      [] bucket = "month" -> IF MonthOf(t) = 12 THEN FirstOf(YearOf(t) + 1, 1)
                                                ELSE FirstOf(YearOf(t), MonthOf(t) + 1)

\* Faulty: the bucket of the last instant is left out.
GenerateToLast(start, end, bucket) ==
    LET last == BucketStart(end, bucket)
        from[t \in Int] == IF t < last THEN {t} \union from[NextBucketStart(t, bucket)] ELSE {}
    IN  from[BucketStart(start, bucket)]

\* The buckets from the one of start to the one of end.
GenerateBuckets(start, end, bucket) ==
    LET last == BucketStart(end, bucket)
        from[t \in Int] == IF t <= last THEN {t} \union from[NextBucketStart(t, bucket)] ELSE {}
    IN  from[BucketStart(start, bucket)]

TimeRange(label, now, bucket) ==
    [label |-> label, end |-> now, bucket |-> bucket,
     start |-> IF label = "all" THEN Forever ELSE now - RANGE_OPTIONS[label]]

ResolveTimeRange(asked, now) ==
    LET label == Normalized(asked) IN TimeRange(label, now, BucketForRange(label))

\* Role sizes are tracked by the day: shorter ranges become one day.
RoleSizeTimeRange(asked, now) ==
    LET label == IF asked \in {"1h", "3h", "6h", "12h"} THEN "1d" ELSE Normalized(asked)
    IN  TimeRange(label, now, RoleSizeBucketForRange(label))

Within(range, t) == range.start <= t /\ t <= range.end

\* A range without a start begins with what was observed.
ObservedBuckets(range, observed) ==
    LET seen == {t \in observed : t <= range.end}
        start == IF range.start # Forever THEN range.start
                 ELSE IF seen = {} THEN range.end ELSE Min(seen)
    IN  GenerateBuckets(start, range.end, range.bucket)
=============================================================================
