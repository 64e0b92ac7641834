---------------------------- MODULE SharedReports ---------------------------
(***************************************************************************)
(* Two commands whose callbacks share state.                               *)
(*                                                                         *)
(* /ships (src/cogs/commands/NCO/ships.py) collects its figures in         *)
(* attributes of the cog, of which there is one for everybody who calls it *)
(* at the same time.  /streak (src/cogs/commands/JE/streak.py) pages       *)
(* through months, and /cachestats (src/cogs/commands/NSC/cache_stats.py)  *)
(* through pages, with buttons that are disabled at the ends: a button     *)
(* that was enabled when the message was last edited can be clicked again  *)
(* before the next edit, and edits can overtake each other.                *)
(***************************************************************************)
EXTENDS Integers, FiniteSets, Functions

CONSTANTS
    Ship, Hosted,       \* the ships and the voyages each hosted in 30 days
    Fleet,              \* the ships of the members of a role that is no ship
    Query,              \* invocations of /ships
    NowYear, NowMonths, \* when a calendar is opened
    Pages,              \* pages of a cache report
    MaxQueries, MaxClicks, MaxEdits     \* bounds: invocations, clicks, edits under way

ASSUME SharedAssumption ==
    /\ IsFiniteSet(Ship) /\ IsFiniteSet(Query) /\ Hosted \in [Ship -> Nat] /\ Fleet \subseteq Ship
    /\ NowYear \in Nat /\ NowYear >= 2 /\ NowMonths \subseteq 1..12
    /\ Pages \in Nat \ {0} /\ {MaxQueries, MaxClicks, MaxEdits} \subseteq Nat

VARIABLES
    cog,        \* attributes of the cog: ships selected, figures, total
    queries,    \* per invocation: step, what it asked and what it showed
    asked,
    calendar,   \* year and month of the view, and when it was opened
    page,
    shown,      \* the buttons of a message as they were last edited
    edits,      \* edits of the message under way
    clicks,
    overrun     \* a button was clicked that the view had disabled by then

shipsVars == <<cog, queries, asked>>
pagingVars == <<calendar, page, shown, edits, clicks, overrun>>

----------------------------------------------------------------------------
(* /ships                                                                  *)

Fresh == [selected |-> {}, ships |-> {}, total |-> 0]
NoReport == [ships |-> {}, total |-> -1]
Quiet == [step |-> "idle", scope |-> {}, specific |-> "all", others |-> 0, theirs |-> {},
          report |-> NoReport]

Specific == {"all", "performers", "ships", "drilldown", "trends"}
Scopes == {{}} \cup {{s} : s \in Ship} \cup {Fleet}
IsShip(scope) == Cardinality(scope) = 1

\* The voyages of all ships together.
FleetTotal == SumFunctionOnSet(Hosted, Ship)

ShipsInit == cog = Fresh /\ queries = [q \in Query |-> Quiet] /\ asked = 0

\* The figures of the last invocation are thrown away before the first
\* await.  others counts the invocations another one shares its deferral
\* with, and theirs has the ships they ask about.
Invoke(q) ==
    /\ queries[q].step = "idle" /\ asked < MaxQueries /\ asked' = asked + 1
    /\ cog' = Fresh
    /\ LET deferred == {o \in Query : queries[o].step = "deferred"}
       IN  \E scope \in Scopes, specific \in Specific :
             queries' = [o \in Query |->
                 IF o = q THEN [Quiet EXCEPT
                     !.step = "deferred", !.scope = scope, !.specific = specific,
                     !.others = Cardinality(deferred),
                     !.theirs = UNION {queries[p].scope : p \in deferred}]
                 ELSE IF o \in deferred THEN [queries[o] EXCEPT
                     !.others = queries[o].others + 1, !.theirs = queries[o].theirs \cup scope]
                 ELSE queries[o]]

\* Without a selection all ships are shown.
Picked(selected) == IF selected = {} THEN Ship ELSE selected

\* get_info for every ship, then the selection.
Loaded(scope) ==
    LET selected == cog.selected \cup scope
    IN  [selected |-> selected, ships |-> Picked(selected), total |-> cog.total + FleetTotal]

\* What is answered: an error to a drilldown into no ship or a fleet.
Report(q, loaded) ==
    IF queries[q].specific = "drilldown" /\ ~IsShip(queries[q].scope) THEN NoReport
    ELSE [ships |-> loaded.ships, total |-> loaded.total]

Load(q) ==
    /\ queries[q].step = "deferred"
    /\ cog' = Loaded(queries[q].scope)
    /\ queries' = [queries EXCEPT ![q].step = "sending", ![q].report = Report(q, cog')]
    /\ UNCHANGED asked

\* The answer is sent, or sending failed and an error was.
Sent(q) ==
    /\ queries[q].step = "sending"
    /\ \/ queries' = [queries EXCEPT ![q].step = "idle"]
       \/ queries' = [queries EXCEPT ![q] = Quiet]
    /\ UNCHANGED <<cog, asked>>

\* Deferring fails: no figures are collected.
DeferFails(q) ==
    /\ queries[q].step = "deferred" /\ queries' = [queries EXCEPT ![q] = Quiet]
    /\ UNCHANGED <<cog, asked>>

ShipsNext == \E q \in Query : Invoke(q) \/ Load(q) \/ Sent(q) \/ DeferFails(q)

\* However many invocations share the figures of the cog, a report counts
\* the voyages of the fleet once, and once more for each invocation it shared
\* its deferral with at most; the ships it shows are those it was asked
\* about, and otherwise only ships those others asked about.
TotalsShared ==
    \A q \in Query :
        LET query == queries[q]
        IN  query.report # NoReport =>
                /\ \E n \in 1..(query.others + 1) : query.report.total = n * FleetTotal
                /\ \E more \in SUBSET query.theirs :
                      query.report.ships = Picked(query.scope \cup more)

----------------------------------------------------------------------------
(* Paging                                                                  *)

Both == [previous |-> TRUE, next |-> TRUE]

\* _update_button_states of the calendar: years and months are compared each
\* on its own.
MonthButtons(c) ==
    [previous |-> ~(c.year <= NowYear - 2 /\ c.month <= c.now),
     next |-> ~(c.year >= NowYear /\ c.month >= c.now)]

PageButtons(p) == [previous |-> p # 0, next |-> p # Pages - 1]

\* Faulty: the months go on where the year ends.
TurnedOn(c, button) ==
    [c EXCEPT !.month = IF button = "previous" THEN c.month - 1 ELSE c.month + 1]

Turned(c, button) ==
    CASE button = "previous" /\ c.month = 1 -> [c EXCEPT !.month = 12, !.year = c.year - 1]
      [] button = "previous" /\ c.month > 1 -> [c EXCEPT !.month = c.month - 1]
      [] button = "next" /\ c.month = 12 -> [c EXCEPT !.month = 1, !.year = c.year + 1]
      [] OTHER -> [c EXCEPT !.month = c.month + 1]

NoEdit == [step |-> "free", view |-> "page", buttons |-> Both]

PagingInit ==
    /\ \E m \in NowMonths : calendar = [year |-> NowYear, month |-> m, now |-> m]
    /\ page = 0 /\ clicks = 0 /\ overrun = FALSE
    /\ edits = [e \in 1..MaxEdits |-> NoEdit]
    /\ shown = [calendar |-> MonthButtons(calendar), page |-> PageButtons(0)]

\* A button is clicked as the message shows it, and may be one that the view
\* has disabled since.
Click(view, button, enabled) ==
    /\ shown[view][button]
    /\ clicks < MaxClicks /\ clicks' = clicks + 1
    /\ overrun' = (overrun \/ ~enabled[button])

Starts(e, step, view, buttons) ==
    /\ edits[e].step = "free"
    /\ edits' = [edits EXCEPT ![e] = [step |-> step, view |-> view, buttons |-> buttons]]

\* The month changes at once, and then the calendar is drawn.
TurnMonth(e, button) ==
    /\ Click("calendar", button, MonthButtons(calendar))
    /\ calendar' = Turned(calendar, button)
    /\ Starts(e, "draws", "calendar", Both)
    /\ UNCHANGED <<page, shown>>

\* The view goes out with the calendar, with its buttons as they are by then.
Drawn(e) ==
    /\ edits[e].step = "draws"
    /\ edits' = [edits EXCEPT ![e].step = "sent", ![e].buttons = MonthButtons(calendar)]
    /\ UNCHANGED <<calendar, page, shown, clicks, overrun>>

\* The embed of the page is looked up and sent at once: a page beyond the
\* last ends the callback with an IndexError, one below the first is counted
\* from the end.
TurnPage(e, button) ==
    /\ Click("page", button, PageButtons(page))
    /\ page' = IF button = "next" THEN page + 1 ELSE page - 1
    /\ IF page' \in -Pages..(Pages - 1)
       THEN Starts(e, "sent", "page", PageButtons(page'))
       ELSE edits[e].step = "free" /\ UNCHANGED edits
    /\ UNCHANGED <<calendar, shown>>

\* refresh_message of a cache report
RefreshPage(e) ==
    /\ page' = IF page < Pages - 1 THEN page ELSE Pages - 1
    /\ IF page' >= -Pages
       THEN Starts(e, "sent", "page", PageButtons(page'))
       ELSE edits[e].step = "free" /\ UNCHANGED edits
    /\ UNCHANGED <<calendar, shown, clicks, overrun>>

\* Edits land in any order, ...
EditLands(e) ==
    /\ edits[e].step = "sent"
    /\ shown' = [shown EXCEPT ![edits[e].view] = edits[e].buttons]
    /\ edits' = [edits EXCEPT ![e] = NoEdit]
    /\ UNCHANGED <<calendar, page, clicks, overrun>>

\* ... or fail, at the drawing or on their way.
EditFails(e) ==
    /\ edits[e].step # "free" /\ edits' = [edits EXCEPT ![e] = NoEdit]
    /\ UNCHANGED <<calendar, page, shown, clicks, overrun>>

CalendarNext ==
    \E e \in 1..MaxEdits :
        (\E button \in DOMAIN Both : TurnMonth(e, button)) \/ Drawn(e) \/ EditLands(e) \/ EditFails(e)

PagesNext ==
    \E e \in 1..MaxEdits :
        \/ \E button \in DOMAIN Both : TurnPage(e, button)
        \/ RefreshPage(e) \/ EditLands(e) \/ EditFails(e)

\* Months since the year 0.
Count(year, month) == 12 * year + month

\* What the view restricts itself to (src/cogs/commands/JE/streak.py:37):
\* "24 months back".
InCalendar ==
    Count(calendar.year, calendar.month)
        \in Count(NowYear - 2, calendar.now)..Count(NowYear, calendar.now)

\* The 24 months of a calendar and the pages of a cache report are only left
\* with a click on a button that the view had disabled and a message still
\* showed: wherever edits overlap, are lost or land out of order before one.
PagingWithinRange == ~overrun => InCalendar /\ page \in 0..(Pages - 1)

SharedTypeOK ==
    /\ cog \in [selected : SUBSET Ship, ships : SUBSET Ship, total : Nat]
    /\ queries \in [Query -> [step : {"idle", "deferred", "sending"}, scope : Scopes,
                              specific : Specific, others : Nat, theirs : SUBSET Ship,
                              report : [ships : SUBSET Ship, total : Nat \cup {-1}]]]
    /\ asked \in 0..MaxQueries
    /\ calendar \in [year : Int, month : 1..12, now : NowMonths]
    /\ page \in -MaxClicks..MaxClicks
    /\ DOMAIN shown = {"calendar", "page"}
    /\ \A v \in DOMAIN shown : shown[v] \in [previous : BOOLEAN, next : BOOLEAN]
    /\ edits \in [1..MaxEdits -> [step : {"free", "draws", "sent"}, view : {"calendar", "page"},
                                  buttons : [previous : BOOLEAN, next : BOOLEAN]]]
    /\ clicks \in 0..MaxClicks /\ overrun \in BOOLEAN
=============================================================================
