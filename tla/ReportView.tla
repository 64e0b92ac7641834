----------------------------- MODULE ReportView -----------------------------
(***************************************************************************)
(* The interactive reports of /analytics                                   *)
(* (src/cogs/commands/BOA/analytics.py).  A message shows figures for some *)
(* filters and, under them, menus with the filters selected.  Choosing in  *)
(* a menu changes the state the view shares between its callbacks; the     *)
(* callback then awaits Discord, the queries and the drawing in threads,   *)
(* and edits the message.  Callbacks of one view overlap at these awaits.  *)
(*                                                                         *)
(* A filter is abstracted to whether it is off (All) or one of two values. *)
(***************************************************************************)
EXTENDS Integers, FiniteSets, Functions

CONSTANTS Callback,     \* callbacks of one view that may be under way
          MaxChoices    \* bound: the choices the owner makes

ASSUME ReportAssumption == MaxChoices \in Nat

VARIABLES kind, filters, message, callbacks, choices

reportVars == <<kind, filters, message, callbacks, choices>>

All == "all"
Chosen == {"this", "that"}

Voyages == {"voyages", "voyage-ranks", "companions"}
Kind == Voyages \cup {"ships", "ship-history", "pings", "rank-size", "cooldowns"}

\* The filters a view has menus for, ...
Fields(k) ==
    CASE k \in Voyages -> {"range", "ship", "user", "voyage_type"}
      [] k = "ships" -> {"range", "ship", "fleet", "voyage_type"}
      [] k = "ship-history" -> {"ship_name", "range", "host", "crew_member", "voyage_type"}
      [] k = "pings" -> {"range", "ping_role", "ship", "user", "vp_status"}
      [] k = "rank-size" -> {"range", "rank_group", "rank"}
      [] OTHER -> {}

\* ... those that always have a value, and those of a user menu, which can
\* be changed there and not be taken off.
Required == {"range", "ship_name", "rank_group"}
UserFields == {"user", "host", "crew_member"}
Values(field) == IF field \in Required THEN Chosen ELSE Chosen \cup {All}
Offered(field) == IF field \in UserFields THEN Chosen ELSE Values(field)

\* Views of five menus have no room for buttons.
HasClear(k) == k \in Voyages \cup {"ships", "rank-size"}
HasRefresh(k) == HasClear(k) \/ k = "cooldowns"

States(k) ==
    {s \in [Fields(k) -> Chosen \cup {All}] :
        /\ \A field \in Fields(k) : s[field] \in Values(field)
        /\ k = "companions" => s["user"] # All}

\* apply_select, apply_user: a ship and a fleet exclude each other, and a
\* rank belongs to the group it was chosen in.
Released(field, value) ==
    CASE field = "ship" /\ value # All -> {"fleet"}
      [] field = "fleet" /\ value # All -> {"ship"}
      [] field = "rank_group" -> {"rank"}
      [] OTHER -> {}

ApplySelect(s, field, value) ==
    [g \in DOMAIN s |->
        IF g = field THEN value ELSE IF g \in Released(field, value) THEN All ELSE s[g]]

\* clear_optional_filters
ClearOptionalFilters(k, s) ==
    [g \in DOMAIN s |->
        IF g \in Required \/ (k = "companions" /\ g = "user") THEN s[g] ELSE All]

\* The filters the commands open a report with: the options given to them.
\* A ship or a role that is not a configured one is refused, without a report.
Optional == Chosen \cup {All}
VoyagesOpen(k) ==
    [range : Chosen, ship : Optional, voyage_type : Optional,
     user : IF k = "companions" THEN Chosen ELSE Optional]
ShipsOpen == [range : Chosen, ship : Optional, fleet : Optional, voyage_type : Optional]
HistoryOpen ==
    [ship_name : Chosen, range : Chosen, voyage_type : Optional,
     host : Optional, crew_member : Optional]
PingsOpen ==
    [range : Chosen, ping_role : Optional, ship : Optional, user : Optional, vp_status : Optional]
RankSizeOpen == [range : Chosen, rank_group : Chosen, rank : Optional]

Opened(k) ==
    CASE k \in Voyages -> VoyagesOpen(k)
      [] k = "ships" -> ShipsOpen
      [] k = "ship-history" -> HistoryOpen
      [] k = "pings" -> PingsOpen
      [] k = "rank-size" -> RankSizeOpen
      [] OTHER -> {<<>>}

\* steady notes whether no choice was made while a report was in the making.
Resting == [step |-> "idle", of |-> <<>>, labels |-> <<>>, menus |-> <<>>, steady |-> TRUE]

\* A command has sent its report: filters, figures and menus are as given.
ReportInit ==
    /\ kind \in Kind /\ filters \in Opened(kind)
    /\ message = [of |-> filters, labels |-> filters, menus |-> filters, steady |-> TRUE]
    /\ callbacks = [c \in Callback |-> Resting]
    /\ choices = 0

\* The owner uses an item: state changes at once and the callback awaits.
Choose(c, s) ==
    /\ callbacks[c].step = "idle" /\ choices < MaxChoices
    /\ filters' = s /\ choices' = choices + 1
    /\ callbacks' = [o \in Callback |->
          IF o = c THEN [Resting EXCEPT !.step = "deferred"]
          ELSE IF callbacks[o].step \in {"querying", "drawing"}
               THEN [callbacks[o] EXCEPT !.steady = FALSE] ELSE callbacks[o]]
    /\ UNCHANGED <<kind, message>>

Select(c) ==
    \E field \in Fields(kind) : \E value \in Offered(field) :
        Choose(c, ApplySelect(filters, field, value))

Refresh(c) == HasRefresh(kind) /\ Choose(c, filters)

ClearFilters(c) == HasClear(kind) /\ Choose(c, ClearOptionalFilters(kind, filters))

\* _build_report_payload: the filters of the queries are taken when the
\* building starts.
BuildPayload(c) ==
    /\ callbacks[c].step = "deferred"
    /\ callbacks' = [callbacks EXCEPT ![c].step = "querying", ![c].of = filters]
    /\ UNCHANGED <<kind, filters, message, choices>>

\* The queries are done and the report is drawn; the title of a rank-size
\* report names the group and the rank the state has by now.
Render(c) ==
    /\ callbacks[c].step = "querying"
    /\ callbacks' = [callbacks EXCEPT ![c].step = "drawing",
          ![c].labels = [g \in DOMAIN filters |->
              IF g \in {"rank_group", "rank"} THEN filters[g] ELSE callbacks[c].of[g]]]
    /\ UNCHANGED <<kind, filters, message, choices>>

\* The queries or the drawing fail: an error is sent, and the message and
\* its menus stay as they were, the choice with the state.
BuildFails(c) ==
    /\ callbacks[c].step \in {"querying", "drawing"}
    /\ callbacks' = [callbacks EXCEPT ![c] = Resting]
    /\ UNCHANGED <<kind, filters, message, choices>>

\* Faulty: the menus are left as they were.
KeepItems(c) ==
    /\ callbacks[c].step = "drawing"
    /\ callbacks' = [callbacks EXCEPT ![c].step = "editing", ![c].menus = message.menus]
    /\ UNCHANGED <<kind, filters, message, choices>>

\* rebuild_items, with the filters of the state as it is now.
RebuildItems(c) ==
    /\ callbacks[c].step = "drawing"
    /\ callbacks' = [callbacks EXCEPT ![c].step = "editing", ![c].menus = filters]
    /\ UNCHANGED <<kind, filters, message, choices>>

Edited(c) ==
    /\ callbacks[c].step = "editing"
    /\ message' = [of |-> callbacks[c].of, labels |-> callbacks[c].labels,
                   menus |-> callbacks[c].menus, steady |-> callbacks[c].steady]
    /\ callbacks' = [callbacks EXCEPT ![c] = Resting]
    /\ UNCHANGED <<kind, filters, choices>>

ReportNext ==
    \E c \in Callback :
        \/ Select(c) \/ Refresh(c) \/ ClearFilters(c)
        \/ BuildPayload(c) \/ Render(c) \/ BuildFails(c) \/ RebuildItems(c) \/ Edited(c)

ReportTypeOK ==
    /\ kind \in Kind /\ filters \in States(kind)
    /\ message \in [of : States(kind), labels : States(kind), menus : States(kind),
                    steady : BOOLEAN]
    /\ \A c \in Callback :
          /\ callbacks[c].step \in {"idle", "deferred", "querying", "drawing", "editing"}
          /\ {callbacks[c].of, callbacks[c].labels, callbacks[c].menus}
                \subseteq States(kind) \cup {<<>>}
          /\ callbacks[c].steady \in BOOLEAN
    /\ choices \in 0..MaxChoices

----------------------------------------------------------------------------
\* The figures of a report, the words of its title and the menus under it
\* are about the same filters, whatever other callbacks were and are under
\* way, have failed or land before and after it, if only no choice was made
\* between its queries and its menus.  (One that was leaves figures of the
\* filters before it over menus of those after it, until the next edit.)
ReportMatchesMenus ==
    message.steady => message.of = message.menus /\ message.labels = message.menus
=============================================================================
