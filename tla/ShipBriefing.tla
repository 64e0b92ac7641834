---------------------------- MODULE ShipBriefing ----------------------------
(***************************************************************************)
(* What the briefings of a ship say: the daily one over the requirements   *)
(* and awards of its crew (src/briefings/daily/briefing.py), the pages it  *)
(* is cut into, and the weekly one over its logs and its size              *)
(* (src/briefings/weekly/briefing.py).                                     *)
(***************************************************************************)
EXTENDS AwardChecks

CONSTANTS
    PerDay,             \* steps of the clock in a day
    VoyageDays, VoyageSoon, HostDays, HostSoon,
    RowsPerImage, LinesPerField, FieldsPerEmbed, AwardsPerEmbed, EmbedsPerMessage,
    Hosting,            \* HOST_CAPABLE_ROLE_IDS
    Crew,               \* the members of the ship, in order
    Points, WeekDays,   \* the points of the weekly briefing, and their width
    MaxNow

ASSUME BriefingAssumption ==
    /\ {PerDay, VoyageDays, HostDays, RowsPerImage, LinesPerField, FieldsPerEmbed,
        AwardsPerEmbed, EmbedsPerMessage, Points, WeekDays} \subseteq Nat \ {0}
    /\ {VoyageSoon, HostSoon, MaxNow} \subseteq Nat /\ Points > 1
    /\ Crew \in Seq(Sailor) /\ IsInjective(Crew)

VARIABLES
    activity,           \* sailor -> when last on a voyage, when last host, when aboard
    seas,               \* the ship's logs: when its voyages were sailed
    sizes,              \* role_size of the ship: the times and sizes logged
    now

briefingVars == <<activity, seas, sizes, now>>

Never == -1
CeilDays(t) == -((-t) \div PerDay)

\* _member_baseline: when the ship's role was added, else when they joined,
\* else now.
Baseline(s) ==
    IF activity[s].added # Never THEN activity[s].added
    ELSE IF activity[s].joined # Never THEN activity[s].joined ELSE now

Current == [who |-> Nobody, label |-> "", status |-> "current", days |-> 0, missing |-> FALSE, leave |-> FALSE]

\* classify_activity: overdue once the requirement has passed, due soon when
\* few days are left; a sailor without a log is counted from the baseline.
Classify(s, label, at, days, soon) ==
    LET missing == at = Never
        left == (IF missing THEN Baseline(s) ELSE at) + days * PerDay - now
        since == Max({0, (now - Baseline(s)) \div PerDay})
        entry(status, late) == [who |-> s, label |-> label, status |-> status, missing |-> missing,
                                leave |-> OnLeave(s), days |-> IF missing THEN since ELSE late]
    IN  IF left < 0 THEN entry("overdue", Max({1, CeilDays(-left)}))
        ELSE IF CeilDays(left) <= soon THEN entry("soon", Max({0, CeilDays(left)}))
        ELSE Current

CanHost(s) == PostsOf(s) \cap Hosting # {}

VoyageOf(s) == Classify(s, "Voyaging", activity[s].voyage, VoyageDays, VoyageSoon)
HostOf(s) == IF CanHost(s) THEN Classify(s, "Hosting", activity[s].host, HostDays, HostSoon) ELSE Current

Entries == {VoyageOf(s) : s \in Range(Crew)} \cup {HostOf(s) : s \in Range(Crew)}

Chase(label) == {e \in Entries : e.label = label}
Overdue(label) == {e \in Chase(label) : e.status = "overdue"}
OnLoa(label) == {e \in Overdue(label) : e.leave}
DueSoon(label) == {e \in Chase(label) : e.status = "soon"}

CurrentAt(label) ==
    Cardinality({s \in Range(Crew) : (label = "Voyaging" \/ CanHost(s)) /\ ~\E e \in Chase(label) : e.who = s})

Labels == {"Voyaging", "Hosting"}

\* overdue_count leaves out those on leave.
OverdueCount ==
    LET count(l) == Cardinality(Overdue(l)) - Cardinality(OnLoa(l))
    IN  count("Voyaging") + count("Hosting")

\* The bar of a requirement: overdue, due soon, current and on leave.
PressureBar(label) ==
    <<Cardinality(Overdue(label)) - Cardinality(OnLoa(label)), Cardinality(DueSoon(label)),
      CurrentAt(label), Cardinality(OnLoa(label))>>

\* Faulty: a sailor on leave is chased as well.
RequirementActionsAll(officer) ==
    {[who |-> e.who, label |-> e.label, officer |-> officer[e.who]] :
        e \in {x \in Entries : x.status = "overdue"}}

\* requirement_actions: one for each requirement overdue and not on leave,
\* for the officer who acts; a search that raises names nobody.
RequirementActions(officer) ==
    {[who |-> e.who, label |-> e.label, officer |-> officer[e.who]] :
        e \in {x \in Entries : x.status = "overdue" /\ ~x.leave}}

ActingOfficers == [s \in Sailor |-> IF ActingIn[s] \in {Unanswered, Endless} THEN Nobody ELSE ActingIn[s]]

\* Awards of the crew, without the Board.
AwardActions ==
    UNION {{[who |-> s, label |-> a.of, officer |-> a.officer] : a \in Range(Pending(s))} :
             s \in {x \in Range(Crew) : x \in DOMAIN tally /\ "BOA" \notin PostsOf(x)}}

----------------------------------------------------------------------------
(* The rows of the attention list, and the pages.                          *)

\* build_attention_rows: a row for each sailor on a list.
RowOf(s) == {e \in Entries : e.who = s}
RowOverdue(row) == \E e \in row : e.status = "overdue" /\ ~e.leave
RowOnLeave(row) == ~RowOverdue(row) /\ \E e \in row : e.status = "overdue" /\ e.leave

\* _attention_section
Section(row) ==
    IF RowOverdue(row) THEN "REQUIRES ACTION" ELSE IF RowOnLeave(row) THEN "ON LEAVE" ELSE "COMING DUE"

\* _attention_sort_key
RowKey(row) ==
    LET late == {e.days : e \in {x \in row : x.status = "overdue" /\ ~x.leave}}
        leave == {e.days : e \in {x \in row : x.status = "overdue" /\ x.leave}}
    IN  IF late # {} THEN <<0, -Max(late)>>
        ELSE IF leave # {} THEN <<1, -Max(leave)>>
        ELSE <<2, Min({e.days : e \in row})>>

Before(a, b) == a[1] < b[1] \/ (a[1] = b[1] /\ a[2] < b[2])

\* The rows, sorted by their keys; rows alike go by name, here the order of the crew.
Chased == {e.who : e \in Entries \ {Current}}

Place(s) == CHOOSE i \in DOMAIN Crew : Crew[i] = s

Ahead(s, t) ==
    \/ Before(RowKey(RowOf(s)), RowKey(RowOf(t)))
    \/ RowKey(RowOf(s)) = RowKey(RowOf(t)) /\ Place(s) < Place(t)

AttentionRows ==
    [i \in 1..Cardinality(Chased) |->
        RowOf(CHOOSE s \in Chased : Cardinality({t \in Chased : Ahead(t, s)}) = i - 1)]

\* A first page is there even when there is nothing to show.
PagesOrOne(items, size) == IF items = <<>> THEN <<<<>>>> ELSE Pages(items, size)

Images == PagesOrOne(AttentionRows, RowsPerImage)

\* _tasking_lines and _chunk_tasking_lines of an officer: a line for each
\* sailor, and as many fields as the lines take.
LinesOf(actions, officer) ==
    SetToSeq({{a \in actions : a.who = s /\ a.officer = officer} :
                s \in {a.who : a \in {x \in actions : x.officer = officer}}})

\* build_tasking_messages: officer by officer, unassigned actions last.
Officers(actions) ==
    LET named == {a.officer : a \in actions} \ {Nobody}
    IN  SetToSeq(named) \o IF \E a \in actions : a.officer = Nobody THEN <<Nobody>> ELSE <<>>

FieldsOf(officer, chunks) ==
    [k \in DOMAIN chunks |-> [officer |-> officer, lines |-> chunks[k]]]

Fields(actions) ==
    FlattenSeq([i \in DOMAIN Officers(actions) |->
        FieldsOf(Officers(actions)[i], Pages(LinesOf(actions, Officers(actions)[i]), LinesPerField))])

TaskingEmbeds(actions) == Pages(Fields(actions), FieldsPerEmbed)

\* render_pending_award_embeds
AwardEmbeds == PagesOrOne(SetToSeq(AwardActions), AwardsPerEmbed)

\* compose_daily_briefing_messages: each image with its own embed, the awards,
\* and when there is something to do the tasking and its reminder.
Numbered(name, pages) == [i \in DOMAIN pages |-> <<name, i>>]

Tasking(actions) ==
    IF actions = {} THEN <<>>
    ELSE Pages(Numbered("tasking", TaskingEmbeds(actions)), EmbedsPerMessage)
         \o <<<<<<"reminder", 0>>>>>>

DailyMessages(requirements, awards) ==
    Pages((IF requirements THEN Numbered("image", Images) ELSE <<>>)
              \o (IF awards THEN Numbered("awards", AwardEmbeds) ELSE <<>>), EmbedsPerMessage)
    \o Tasking((IF requirements THEN RequirementActions(ActingOfficers) ELSE {})
                   \cup IF awards THEN AwardActions ELSE {})

----------------------------------------------------------------------------
(* The weekly briefing.                                                    *)

\* _count_logs_between: from the start of a window up to its end.
Window(end) == {t \in seas : t >= end - WeekDays * PerDay /\ t < end}

\* get_ship_size_on_or_before; nothing logged counts as none.
SizeAt(end) ==
    LET before == {r \in sizes : r.at <= end}
    IN  IF before = {} THEN 0 ELSE (CHOOSE r \in before : \A o \in before : o.at <= r.at).size

\* The last point has the crew as it is.
WeeklyPoints ==
    [i \in 1..Points |->
        LET end == now - (Points - i) * WeekDays * PerDay
        IN  [logs |-> Window(end), size |-> IF i = Points THEN Len(Crew) ELSE SizeAt(end)]]

Delta(points) == points[Points].size - points[Points - 1].size

----------------------------------------------------------------------------

BriefingInit(activities, logs, logged) ==
    /\ activity \in [Range(Crew) -> activities]
    /\ seas \in logs /\ sizes \in logged /\ now = MaxNow

\* Times are instants; a sailor without a log has the time Never.
BriefingTypeOK ==
    /\ activity \in [Range(Crew) -> [voyage : Int, host : Int, added : Int, joined : Int]]
    /\ seas \subseteq Int /\ IsFiniteSet(seas) /\ now \in Nat

\* The figures of the daily briefing add up: a bar splits the members it is
\* about, each requirement that is overdue and not excused is counted, shown
\* in a row of those who require action, and tasked in one field, once.
DailyAddsUp ==
    \A actions \in {RequirementActions(ActingOfficers)}, rows \in {AttentionRows}, images \in {Images} :
    \A fields \in {Fields(actions)}, embeds \in {TaskingEmbeds(actions)} :
    \A lines \in {FlattenSeq([i \in DOMAIN fields |-> fields[i].lines])} :
        LET part(b) == b[1] + b[2] + b[3] + b[4]
        IN
        /\ part(PressureBar("Voyaging")) = Len(Crew)
        /\ part(PressureBar("Hosting")) = Cardinality({s \in Range(Crew) : CanHost(s)})
        /\ OverdueCount = Cardinality(actions)
        /\ {s \in Range(Crew) : RowOverdue(RowOf(s))} = {a.who : a \in actions}
        /\ \A i, j \in DOMAIN rows : i < j => rows[i] # rows[j] /\ ~Before(RowKey(rows[j]), RowKey(rows[i]))
        /\ \A i \in DOMAIN rows : (Section(rows[i]) = "REQUIRES ACTION") <=> RowOverdue(rows[i])
        /\ FlattenSeq(images) = rows /\ \A i \in DOMAIN images : Len(images[i]) <= RowsPerImage
        /\ UNION Range(lines) = actions /\ \A i, j \in DOMAIN lines : i # j => lines[i] \cap lines[j] = {}
        /\ \A i \in DOMAIN fields : \A l \in Range(fields[i].lines) :
             \A a \in l : a.officer = fields[i].officer
        /\ \A i \in DOMAIN embeds : Len(embeds[i]) <= FieldsPerEmbed
        /\ \A concerns \in BOOLEAN \X BOOLEAN :
             \A messages \in {DailyMessages(concerns[1], concerns[2])} :
                 /\ IsInjective(FlattenSeq(messages))
                 /\ \A i \in DOMAIN messages : Len(messages[i]) \in 1..EmbedsPerMessage
                 /\ concerns[1] /\ actions # {} => Last(messages) = <<<<"reminder", 0>>>>

\* Every log of the weeks shown is in one of them, once.
WeeklyAddsUp ==
    LET points == WeeklyPoints
        shown == {t \in seas : t >= now - Points * WeekDays * PerDay /\ t < now}
    IN  /\ SumFunction([i \in 1..Points |-> Cardinality(points[i].logs)]) = Cardinality(shown)
        /\ UNION {points[i].logs : i \in 1..Points} = shown
        /\ Delta(points) = Len(Crew) - SizeAt(now - WeekDays * PerDay)
=============================================================================
