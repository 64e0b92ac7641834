------------------------------ MODULE Streaks ------------------------------
(***************************************************************************)
(* Streaks of days with a voyage.  The /streak report and the member embed *)
(* compute them in one pass over the days of a member, latest first        *)
(* (compute_streaks); the leaderboards group the same days in the database *)
(* (_get_top_streaks_internal).  Days are logged one by one, in any order. *)
(***************************************************************************)
EXTENDS Integers, FiniteSets, Sequences, FiniteSetsExt

CONSTANTS
    Today,       \* the day of the reports
    FirstDay     \* the first day of a voyage (bound)

ASSUME StreakAssumption == Today \in Nat /\ FirstDay \in Nat /\ FirstDay < Today

VARIABLES voyageDays, hostedDays   \* the days a member sailed, and hosted

streakVars == <<voyageDays, hostedDays>>

StreaksInit == voyageDays = {} /\ hostedDays = {}

\* Logs are often posted the day after, and out of order.
SailOn(day) ==
    /\ day \notin voyageDays /\ voyageDays' = voyageDays \union {day} /\ UNCHANGED hostedDays
HostOn(day) ==
    /\ day \notin hostedDays /\ hostedDays' = hostedDays \union {day} /\ UNCHANGED voyageDays
Unlog(day) ==
    /\ day \in voyageDays \union hostedDays
    /\ voyageDays' = voyageDays \ {day} /\ hostedDays' = hostedDays \ {day}

StreaksNext == \E day \in FirstDay .. Today : SailOn(day) \/ HostOn(day) \/ Unlog(day)

ActivityDates == voyageDays \union hostedDays
HostedDates == hostedDays
\* The days, latest first.
Descending(days) ==
    [i \in 1 .. Cardinality(days) |-> CHOOSE d \in days : Cardinality({e \in days : e > d}) = i - 1]

NoDay == -1
NoStreak == [current |-> 0, longest |-> 0, start |-> NoDay, end |-> NoDay, expiry |-> NoDay]

\* One pass from the latest day: the run so far, the best run before it, and the current one.
ComputeStreaks(days) ==
    IF days = <<>> THEN NoStreak ELSE
    LET active == days[1] >= Today - 1
        Best(s, last) == IF s.run >= s.best.length
                         THEN [length |-> s.run, start |-> last, end |-> s.from] ELSE s.best
        Step(s, i) ==
            IF days[i] = days[i - 1] - 1
            THEN [s EXCEPT !.run = @ + 1,
                           !.current = IF active /\ s.current = i - 1 THEN @ + 1 ELSE @]
            ELSE [s EXCEPT !.best = Best(s, days[i - 1]), !.run = 1, !.from = days[i]]
        from == [current |-> IF active THEN 1 ELSE 0, run |-> 1, from |-> days[1],
                 best |-> [length |-> 1, start |-> days[1], end |-> days[1]]]
        passed[i \in DOMAIN days] == IF i = 1 THEN from ELSE Step(passed[i - 1], i)
        end == passed[Len(days)]
        best == Best(end, days[Len(days)])
    IN  [current |-> end.current, longest |-> best.length, start |-> best.start, end |-> best.end,
         expiry |-> IF active THEN days[1] + 2 ELSE NoDay]

\* The query: the days of a run, less their row numbers, are the same day.
StreakLengths(days) ==
    LET Anchor(day) == day - Cardinality({d \in days : d <= day})
    IN  {[length |-> Cardinality({d \in days : Anchor(d) = anchor}),
          recent |-> Max({d \in days : Anchor(d) = anchor})] : anchor \in {Anchor(d) : d \in days}}

TopStreaks(days) ==
    {run.length : run \in {r \in StreakLengths(days) : r.recent >= Today - 1 /\ r.length >= 2}}

TopStreaksAllTime(days) ==
    LET lengths == {run.length : run \in StreakLengths(days)}
    IN  IF lengths = {} \/ Max(lengths) < 2 THEN {} ELSE {Max(lengths)}

StreaksTypeOK == voyageDays \subseteq FirstDay .. Today /\ hostedDays \subseteq FirstDay .. Today

\* What a member's own report says agrees with the leaderboards: the current streak is the one
\* active run of at least two days, the longest is the best of all time, it lies on days of
\* activity, and it is the earliest of its length
\* (compute_streaks against _get_top_streaks_internal).
StreaksAgree ==
    \A days \in {ActivityDates, HostedDates} :
        LET report == ComputeStreaks(Descending(days))
        IN  /\ TopStreaks(days) = IF report.current >= 2 THEN {report.current} ELSE {}
            /\ TopStreaksAllTime(days) = IF report.longest >= 2 THEN {report.longest} ELSE {}
            /\ report.longest > 0 =>
                 /\ report.start .. report.end \subseteq days
                 /\ Cardinality(report.start .. report.end) = report.longest
                 /\ \A day \in days : day < report.start =>
                        ~ (day .. day + report.longest - 1 \subseteq days)
            /\ report.expiry # NoDay <=> \E day \in days : day >= Today - 1
=============================================================================
