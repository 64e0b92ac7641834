------------------------------ MODULE MCReports -----------------------------
(***************************************************************************)
(* The reports that keep state between callbacks or calls, and the tables  *)
(* their figures are cached in.  They share nothing a property relates, so *)
(* a behaviour looks at one of them: desk says at which.                   *)
(***************************************************************************)
EXTENDS ReportView, SharedReports, MemoryCache, TLC

CONSTANTS venom, grizzly

VoyagesHosted == (venom :> 1) @@ (grizzly :> 2)

VARIABLE desk

Init ==
    /\ ReportInit /\ ShipsInit /\ PagingInit /\ MemoryInit
    /\ desk \in {"report", "ships", "calendar", "pages", "memory"}
    \* one initial report is enough for the desks that do not look at it
    /\ desk # "report" => kind = "cooldowns"
    \* the two values of a filter are alike
    /\ \A field \in DOMAIN filters : filters[field] # "that"
    /\ desk # "calendar" => calendar.month = CHOOSE m \in NowMonths : TRUE

mcVars == <<reportVars, shipsVars, pagingVars, memoryVars, desk>>

\* Callbacks are alike: the first to do anything may be any of them.
AnyFirst ==
    choices' = 1 => \A c \in Callback \ {CHOOSE c \in Callback : TRUE} : callbacks'[c] = Resting

Next ==
    /\ UNCHANGED desk
    /\ \/ desk = "report" /\ ReportNext /\ UNCHANGED <<shipsVars, pagingVars, memoryVars>>
       \/ desk = "ships" /\ ShipsNext /\ UNCHANGED <<reportVars, pagingVars, memoryVars>>
       \/ desk = "calendar" /\ CalendarNext /\ UNCHANGED <<reportVars, shipsVars, memoryVars>>
       \/ desk = "pages" /\ PagesNext /\ UNCHANGED <<reportVars, shipsVars, memoryVars>>
       \/ desk = "memory" /\ MemoryNext /\ UNCHANGED <<reportVars, shipsVars, pagingVars>>
    /\ AnyFirst

Spec == Init /\ [][Next]_mcVars

\* Reports have the filters of their kind, views and tables their shape.
ReportsTypeOK == ReportTypeOK /\ SharedTypeOK /\ MemoryTypeOK

\* What a view or a report shows when callbacks overlap, invocations share
\* the attributes of a cog, and clicks come before the buttons have changed:
\* a report that no choice disturbed is about its menus, figures of a cog are
\* counted once for each invocation there at most, and pages and months exist
\* until a click on a button that should not have been there any more.
ViewsAreTrue == ReportMatchesMenus /\ TotalsShared /\ PagingWithinRange
=============================================================================
