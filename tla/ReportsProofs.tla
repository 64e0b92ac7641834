---------------------------- MODULE ReportsProofs ---------------------------
(***************************************************************************)
(* The reports of MCReports, the table of answers and the cache of images  *)
(* keep their promises for every set of callbacks, filters, ships,         *)
(* queries, keys, renderers and images, and for every bound.               *)
(*                                                                         *)
(* Each of the four modules has an inductive invariant of its own, which   *)
(* its actions keep whatever the others do: ReportInv, ShipsInv and        *)
(* PagingInv, MemoryInv, ImageInv.  The composition keeps all of them.     *)
(***************************************************************************)
EXTENDS MCReports, ImageCache, SumLemmas, SequenceTheorems

-----------------------------------------------------------------------------
(***************************************************************************)
(* The interactive reports (ReportView).                                   *)
(***************************************************************************)

\* A callback has what the steps it has been through gave it.
Forms(k) == [step : {"idle", "deferred", "querying", "drawing", "editing"},
             of : States(k) \cup {<<>>}, labels : States(k) \cup {<<>>},
             menus : States(k) \cup {<<>>}, steady : BOOLEAN]

CallbackTypes ==
    /\ callbacks \in [Callback -> Forms(kind)]
    /\ \A c \in Callback :
          LET callback == callbacks[c]
          IN  /\ callback.step \in {"querying", "drawing", "editing"} => callback.of \in States(kind)
              /\ callback.step \in {"drawing", "editing"} => callback.labels \in States(kind)
              /\ callback.step = "editing" => callback.menus \in States(kind)

\* As long as no choice was made, what a callback has taken from the filters
\* is what they still are, or were when it built the menus.
UpToDate(c) ==
    LET callback == callbacks[c]
    IN  callback.steady =>
            /\ callback.step \in {"querying", "drawing"} => callback.of = filters
            /\ callback.step = "drawing" => callback.labels = filters
            /\ callback.step = "editing" =>
                  callback.of = callback.menus /\ callback.labels = callback.menus

ReportInv ==
    /\ ReportTypeOK /\ CallbackTypes
    /\ ReportMatchesMenus
    /\ \A c \in Callback : UpToDate(c)

\* A choice leads from filters a report can have to such filters.
LEMMA SelectStates ==
    ASSUME NEW k \in Kind, NEW s \in States(k),
           NEW field \in Fields(k), NEW value \in Offered(field)
    PROVE  ApplySelect(s, field, value) \in States(k)
<1> DEFINE t == ApplySelect(s, field, value)
<1>1. s \in [Fields(k) -> Chosen \cup {All}] /\ DOMAIN s = Fields(k)
    BY DEF States
<1>2. value \in Values(field) /\ value \in Chosen \cup {All}
    BY DEF Offered, Values
<1>3. t \in [Fields(k) -> Chosen \cup {All}]
    BY <1>1, <1>2 DEF ApplySelect
<1>4. ASSUME NEW g \in Fields(k)
      PROVE  t[g] \in Values(g)
    <2>1. CASE g = field
        BY <1>1, <1>2, <2>1 DEF ApplySelect
    <2>2. CASE g # field /\ g \in Released(field, value)
        <3>1. g \notin Required /\ t[g] = All
            BY <1>1, <2>2 DEF Released, Required, ApplySelect
        <3> QED
            BY <3>1 DEF Values
    <2>3. CASE g # field /\ g \notin Released(field, value)
        <3>1. t[g] = s[g]
            BY <1>1, <2>3 DEF ApplySelect
        <3> QED
            BY <3>1 DEF States
    <2> QED
        BY <2>1, <2>2, <2>3
<1>5. k = "companions" => t["user"] # All
    <2> SUFFICES ASSUME k = "companions"
                 PROVE  t["user"] # All
        OBVIOUS
    <2>1. "user" \in Fields(k) /\ s["user"] # All
        BY DEF Fields, Voyages, States
    <2>2. CASE field = "user"
        BY <1>1, <2>1, <2>2 DEF ApplySelect, Offered, UserFields, Chosen, All
    <2>3. CASE field # "user"
        BY <1>1, <2>1, <2>3 DEF ApplySelect, Released
    <2> QED
        BY <2>2, <2>3
<1> QED
    BY <1>3, <1>4, <1>5 DEF States

LEMMA ClearStates ==
    ASSUME NEW k \in Kind, NEW s \in States(k)
    PROVE  ClearOptionalFilters(k, s) \in States(k)
<1> DEFINE t == ClearOptionalFilters(k, s)
<1>1. s \in [Fields(k) -> Chosen \cup {All}] /\ DOMAIN s = Fields(k)
    BY DEF States
<1>2. t \in [Fields(k) -> Chosen \cup {All}]
    BY <1>1 DEF ClearOptionalFilters
<1>3. \A g \in Fields(k) : t[g] \in Values(g)
    BY <1>1 DEF ClearOptionalFilters, States, Values
<1>4. k = "companions" => t["user"] # All
    BY <1>1 DEF ClearOptionalFilters, States, Fields, Voyages
<1> QED
    BY <1>2, <1>3, <1>4 DEF States

\* The labels Render gives a report: group and rank as they are, the others
\* as they were.
Labelled(s, of) ==
    [g \in DOMAIN s |-> IF g \in {"rank_group", "rank"} THEN s[g] ELSE of[g]]

\* The title of a report is about filters the report can have.
LEMMA LabelStates ==
    ASSUME NEW k \in Kind, NEW s \in States(k), NEW of \in States(k)
    PROVE  /\ Labelled(s, of) \in States(k)
           /\ s = of => Labelled(s, of) = s
<1> DEFINE t == Labelled(s, of)
<1>1. /\ s \in [Fields(k) -> Chosen \cup {All}] /\ DOMAIN s = Fields(k)
      /\ of \in [Fields(k) -> Chosen \cup {All}]
    BY DEF States
<1>2. t \in [Fields(k) -> Chosen \cup {All}]
    BY <1>1 DEF Labelled
<1>3. \A g \in Fields(k) : t[g] \in Values(g)
    BY <1>1 DEF States, Labelled
<1>4. k = "companions" => "user" \in Fields(k)
    BY DEF Fields, Voyages
<1>5. ASSUME k = "companions"
      PROVE  t["user"] # All
    <2>1. t["user"] = of["user"]
        BY <1>1, <1>4, <1>5 DEF Labelled
    <2> QED
        BY <1>5, <2>1 DEF States
<1>6. s = of => t = s
    BY <1>1 DEF Labelled
<1> QED
    BY <1>2, <1>3, <1>5, <1>6 DEF States

LEMMA OpenedStates ==
    ASSUME NEW k \in Kind, NEW s \in Opened(k)
    PROVE  s \in States(k)
<1>1. CASE k \in Voyages
    BY <1>1 DEF Voyages, Opened, VoyagesOpen, States, Fields, Values, Optional, Required, Chosen, All
<1>2. CASE k = "ships"
    BY <1>2 DEF Voyages, Opened, ShipsOpen, States, Fields, Values, Optional, Required, Chosen, All
<1>3. CASE k = "ship-history"
    BY <1>3 DEF Voyages, Opened, HistoryOpen, States, Fields, Values, Optional, Required, Chosen, All
<1>4. CASE k = "pings"
    BY <1>4 DEF Voyages, Opened, PingsOpen, States, Fields, Values, Optional, Required, Chosen, All
<1>5. CASE k = "rank-size"
    BY <1>5 DEF Voyages, Opened, RankSizeOpen, States, Fields, Values, Optional, Required, Chosen, All
<1>6. CASE k = "cooldowns"
    <2>1. s = <<>> /\ Fields(k) = {}
        BY <1>6 DEF Opened, Fields, Voyages
    <2>2. <<>> \in [{} -> Chosen \cup {All}]
        OBVIOUS
    <2> QED
        BY <1>6, <2>1, <2>2 DEF States
<1> QED
    BY <1>1, <1>2, <1>3, <1>4, <1>5, <1>6 DEF Kind

LEMMA ReportInitially == ReportInit => ReportInv
<1> SUFFICES ASSUME ReportInit
             PROVE  ReportInv
    OBVIOUS
<1>1. filters \in States(kind)
    BY OpenedStates DEF ReportInit
<1>2. ReportTypeOK
    <2>1. message \in [of : States(kind), labels : States(kind), menus : States(kind),
                       steady : BOOLEAN]
        BY <1>1 DEF ReportInit
    <2>2. \A c \in Callback : callbacks[c] = Resting
        BY DEF ReportInit
    <2>3. kind \in Kind /\ choices \in 0..MaxChoices
        BY ReportAssumption DEF ReportInit
    <2>4. /\ Resting.step = "idle" /\ Resting.of = <<>> /\ Resting.labels = <<>>
          /\ Resting.menus = <<>> /\ Resting.steady = TRUE
        BY DEF Resting
    <2>5. \A c \in Callback :
            /\ callbacks[c].step \in {"idle", "deferred", "querying", "drawing", "editing"}
            /\ {callbacks[c].of, callbacks[c].labels, callbacks[c].menus}
                  \subseteq States(kind) \cup {<<>>}
            /\ callbacks[c].steady \in BOOLEAN
        BY <2>2, <2>4
    <2> QED
        BY <1>1, <2>1, <2>3, <2>5 DEF ReportTypeOK
<1>3. CallbackTypes
    BY <1>1 DEF ReportInit, CallbackTypes, Forms, Resting
<1>4. ReportMatchesMenus /\ \A c \in Callback : UpToDate(c)
    BY DEF ReportInit, ReportMatchesMenus, UpToDate, Resting
<1> QED
    BY <1>2, <1>3, <1>4 DEF ReportInv

\* Whatever the filters become, what was taken from them before is not
\* steady any more.
LEMMA ChooseKeeps ==
    ASSUME ReportInv, NEW c \in Callback, NEW s \in States(kind), Choose(c, s)
    PROVE  ReportInv'
<1> DEFINE busy == {o \in Callback : callbacks[o].step \in {"querying", "drawing"}}
<1>1. /\ callbacks[c].step = "idle" /\ choices < MaxChoices
      /\ filters' = s /\ choices' = choices + 1
      /\ callbacks' = [o \in Callback |->
            IF o = c THEN [Resting EXCEPT !.step = "deferred"]
            ELSE IF o \in busy THEN [callbacks[o] EXCEPT !.steady = FALSE] ELSE callbacks[o]]
      /\ kind' = kind /\ message' = message
    BY DEF Choose
<1>2. callbacks'[c] \in Forms(kind) /\ callbacks'[c].step = "deferred"
    BY <1>1 DEF Forms, Resting
<1>3. ASSUME NEW o \in Callback \ {c}
      PROVE  /\ callbacks'[o] \in Forms(kind)
             /\ callbacks'[o].step = callbacks[o].step /\ callbacks'[o].of = callbacks[o].of
             /\ callbacks'[o].labels = callbacks[o].labels
             /\ callbacks'[o].menus = callbacks[o].menus
             /\ callbacks'[o].steady => callbacks[o].steady /\ o \notin busy
    <2>1. callbacks[o] \in Forms(kind)
        BY DEF ReportInv, CallbackTypes
    <2>2. CASE o \in busy
        <3>1. callbacks'[o] = [callbacks[o] EXCEPT !.steady = FALSE]
            BY <1>1, <2>2
        <3> QED
            BY <2>1, <3>1 DEF Forms
    <2>3. CASE o \notin busy
        BY <1>1, <2>1, <2>3
    <2> QED
        BY <2>2, <2>3
<1>4. callbacks' \in [Callback -> Forms(kind)]
    <2>1. callbacks' = [o \in Callback |-> callbacks'[o]]
        BY <1>1
    <2> QED
        BY <1>2, <1>3, <2>1
<1>5. CallbackTypes'
    BY <1>1, <1>2, <1>3, <1>4 DEF ReportInv, CallbackTypes
<1>6. ReportTypeOK'
    <2>1. choices' \in 0..MaxChoices
        BY <1>1, ReportAssumption DEF ReportInv, ReportTypeOK
    <2>2. kind' \in Kind /\ filters' \in States(kind)' /\ message' = message
        BY <1>1 DEF ReportInv, ReportTypeOK
    <2>3. \A o \in Callback : callbacks'[o] \in Forms(kind)
        BY <1>4
    <2>4. \A o \in Callback :
            /\ callbacks'[o].step \in {"idle", "deferred", "querying", "drawing", "editing"}
            /\ {callbacks'[o].of, callbacks'[o].labels, callbacks'[o].menus}
                  \subseteq States(kind) \cup {<<>>}
            /\ callbacks'[o].steady \in BOOLEAN
        BY <2>3 DEF Forms
    <2> QED
        BY <1>1, <2>1, <2>2, <2>4 DEF ReportInv, ReportTypeOK
<1>7. ReportMatchesMenus'
    BY <1>1 DEF ReportInv, ReportMatchesMenus
<1>8. ASSUME NEW o \in Callback
      PROVE  UpToDate(o)'
    <2>1. CASE o = c
        BY <1>2, <2>1 DEF UpToDate
    <2>2. CASE o # c
        BY <1>3, <2>2 DEF ReportInv, UpToDate
    <2> QED
        BY <2>1, <2>2
<1> QED
    BY <1>5, <1>6, <1>7, <1>8 DEF ReportInv

LEMMA BuildKeeps ==
    ASSUME ReportInv, NEW c \in Callback, BuildPayload(c)
    PROVE  ReportInv'
<1>1. /\ callbacks' = [callbacks EXCEPT ![c].step = "querying", ![c].of = filters]
      /\ UNCHANGED <<kind, filters, message, choices>>
    BY DEF BuildPayload
<1>2. /\ callbacks'[c] \in Forms(kind)
      /\ callbacks'[c].step = "querying" /\ callbacks'[c].of = filters
      /\ \A o \in Callback \ {c} : callbacks'[o] = callbacks[o]
      /\ callbacks' \in [Callback -> Forms(kind)]
    <2>1. callbacks[c] \in Forms(kind) /\ filters \in States(kind)
        BY DEF ReportInv, ReportTypeOK, CallbackTypes
    <2>2. /\ callbacks'[c] = [callbacks[c] EXCEPT !.step = "querying", !.of = filters]
          /\ \A o \in Callback \ {c} : callbacks'[o] = callbacks[o]
          /\ callbacks \in [Callback -> Forms(kind)]
          /\ callbacks' = [callbacks EXCEPT ![c] = callbacks'[c]]
        BY <1>1 DEF ReportInv, CallbackTypes
    <2>3. callbacks'[c] \in Forms(kind)
        BY <2>1, <2>2 DEF Forms
    <2>4. callbacks'[c].step = "querying" /\ callbacks'[c].of = filters
        BY <2>1, <2>2 DEF Forms
    <2>5. callbacks' \in [Callback -> Forms(kind)]
        BY <2>2, <2>3
    <2> QED
        BY <2>2, <2>3, <2>4, <2>5
<1>3. CallbackTypes'
    BY <1>1, <1>2 DEF ReportInv, ReportTypeOK, CallbackTypes
<1>4. ReportTypeOK'
    BY <1>1, <1>2 DEF ReportInv, ReportTypeOK, Forms
<1>5. ReportMatchesMenus'
    BY <1>1 DEF ReportInv, ReportMatchesMenus
<1>6. ASSUME NEW o \in Callback
      PROVE  UpToDate(o)'
    BY <1>1, <1>2, <1>6 DEF ReportInv, UpToDate
<1> QED
    BY <1>3, <1>4, <1>5, <1>6 DEF ReportInv

\* The title names the group and rank of the filters as they are by then:
\* without a choice since, those of the query.
LEMMA RenderKeeps ==
    ASSUME ReportInv, NEW c \in Callback, Render(c)
    PROVE  ReportInv'
<1> DEFINE labels == Labelled(filters, callbacks[c].of)
<1>1. /\ callbacks[c].step = "querying"
      /\ callbacks' = [callbacks EXCEPT ![c].step = "drawing", ![c].labels = labels]
      /\ UNCHANGED <<kind, filters, message, choices>>
    BY DEF Render, Labelled
<1>2. /\ kind \in Kind /\ filters \in States(kind) /\ callbacks[c].of \in States(kind)
    BY <1>1 DEF ReportInv, ReportTypeOK, CallbackTypes
<1>3. labels \in States(kind) /\ (filters = callbacks[c].of => labels = filters)
    BY <1>2, LabelStates
<1> HIDE DEF labels
<1>4. /\ callbacks'[c] \in Forms(kind)
      /\ callbacks'[c].step = "drawing" /\ callbacks'[c].labels = labels
      /\ callbacks'[c].of = callbacks[c].of /\ callbacks'[c].steady = callbacks[c].steady
      /\ \A o \in Callback \ {c} : callbacks'[o] = callbacks[o]
      /\ callbacks' \in [Callback -> Forms(kind)]
    BY <1>1, <1>3 DEF ReportInv, CallbackTypes, Forms
<1>5. CallbackTypes'
    BY <1>1, <1>2, <1>3, <1>4 DEF ReportInv, CallbackTypes
<1>6. ReportTypeOK'
    BY <1>1, <1>4 DEF ReportInv, ReportTypeOK, Forms
<1>7. ReportMatchesMenus'
    BY <1>1 DEF ReportInv, ReportMatchesMenus
<1>8. ASSUME NEW o \in Callback
      PROVE  UpToDate(o)'
    BY <1>1, <1>3, <1>4, <1>8 DEF ReportInv, UpToDate
<1> QED
    BY <1>5, <1>6, <1>7, <1>8 DEF ReportInv

LEMMA RebuildKeeps ==
    ASSUME ReportInv, NEW c \in Callback, RebuildItems(c)
    PROVE  ReportInv'
<1>1. /\ callbacks[c].step = "drawing"
      /\ callbacks' = [callbacks EXCEPT ![c].step = "editing", ![c].menus = filters]
      /\ UNCHANGED <<kind, filters, message, choices>>
    BY DEF RebuildItems
<1>2. /\ callbacks'[c] \in Forms(kind)
      /\ callbacks'[c].step = "editing" /\ callbacks'[c].menus = filters
      /\ callbacks'[c].of = callbacks[c].of /\ callbacks'[c].labels = callbacks[c].labels
      /\ callbacks'[c].steady = callbacks[c].steady
      /\ \A o \in Callback \ {c} : callbacks'[o] = callbacks[o]
      /\ callbacks' \in [Callback -> Forms(kind)]
    <2>1. callbacks[c] \in Forms(kind) /\ filters \in States(kind)
        BY DEF ReportInv, ReportTypeOK, CallbackTypes
    <2>2. /\ callbacks'[c] = [callbacks[c] EXCEPT !.step = "editing", !.menus = filters]
          /\ \A o \in Callback \ {c} : callbacks'[o] = callbacks[o]
          /\ callbacks \in [Callback -> Forms(kind)]
          /\ callbacks' = [callbacks EXCEPT ![c] = callbacks'[c]]
        BY <1>1 DEF ReportInv, CallbackTypes
    <2>3. callbacks'[c] \in Forms(kind)
        BY <2>1, <2>2 DEF Forms
    <2> QED
        BY <2>1, <2>2, <2>3 DEF Forms
<1>3. CallbackTypes'
    BY <1>1, <1>2 DEF ReportInv, ReportTypeOK, CallbackTypes
<1>4. ReportTypeOK'
    BY <1>1, <1>2 DEF ReportInv, ReportTypeOK, Forms
<1>5. ReportMatchesMenus'
    BY <1>1 DEF ReportInv, ReportMatchesMenus
<1>6. ASSUME NEW o \in Callback
      PROVE  UpToDate(o)'
    BY <1>1, <1>2, <1>6 DEF ReportInv, UpToDate
<1> QED
    BY <1>3, <1>4, <1>5, <1>6 DEF ReportInv

\* A callback that ends, with its message edited or not.
LEMMA EndKeeps ==
    ASSUME ReportInv, NEW c \in Callback, BuildFails(c) \/ Edited(c)
    PROVE  ReportInv'
<1>1. /\ callbacks' = [callbacks EXCEPT ![c] = Resting]
      /\ UNCHANGED <<kind, filters, choices>>
      /\ \/ message' = message
         \/ /\ callbacks[c].step = "editing"
            /\ message' = [of |-> callbacks[c].of, labels |-> callbacks[c].labels,
                           menus |-> callbacks[c].menus,
                           steady |-> callbacks[c].steady]
    BY DEF BuildFails, Edited
<1>2. /\ callbacks'[c] = Resting /\ Resting \in Forms(kind) /\ Resting.step = "idle"
      /\ \A o \in Callback \ {c} : callbacks'[o] = callbacks[o]
      /\ callbacks' \in [Callback -> Forms(kind)]
    BY <1>1 DEF ReportInv, CallbackTypes, Forms, Resting
<1>3. CallbackTypes'
    BY <1>1, <1>2 DEF ReportInv, CallbackTypes
<1>4. message' \in [of : States(kind), labels : States(kind), menus : States(kind),
                   steady : BOOLEAN]
    BY <1>1 DEF ReportInv, ReportTypeOK, CallbackTypes
<1>5. ReportTypeOK'
    BY <1>1, <1>2, <1>4 DEF ReportInv, ReportTypeOK, Forms
<1>6. ReportMatchesMenus'
    BY <1>1 DEF ReportInv, ReportMatchesMenus, UpToDate
<1>7. ASSUME NEW o \in Callback
      PROVE  UpToDate(o)'
    BY <1>1, <1>2, <1>7 DEF ReportInv, UpToDate
<1> QED
    BY <1>3, <1>5, <1>6, <1>7 DEF ReportInv

LEMMA ReportKept ==
    ASSUME ReportInv, [ReportNext]_reportVars
    PROVE  ReportInv'
<1>1. CASE UNCHANGED reportVars
    BY <1>1 DEF reportVars, ReportInv, ReportTypeOK, CallbackTypes, ReportMatchesMenus, UpToDate
<1>2. ASSUME NEW c \in Callback, Select(c)
      PROVE  ReportInv'
    <2>1. PICK field \in Fields(kind) :
            \E value \in Offered(field) : Choose(c, ApplySelect(filters, field, value))
        BY <1>2 DEF Select
    <2>2. PICK value \in Offered(field) : Choose(c, ApplySelect(filters, field, value))
        BY <2>1
    <2>3. ApplySelect(filters, field, value) \in States(kind)
        BY SelectStates DEF ReportInv, ReportTypeOK
    <2> QED
        BY <2>2, <2>3, ChooseKeeps
<1>3. ASSUME NEW c \in Callback, Refresh(c) \/ ClearFilters(c)
      PROVE  ReportInv'
    <2>1. filters \in States(kind) /\ ClearOptionalFilters(kind, filters) \in States(kind)
        BY ClearStates DEF ReportInv, ReportTypeOK
    <2> QED
        BY <1>3, <2>1, ChooseKeeps DEF Refresh, ClearFilters
<1> QED
    BY <1>1, <1>2, <1>3, BuildKeeps, RenderKeeps, RebuildKeeps, EndKeeps DEF ReportNext

\* The fleet has hosted a number of voyages.
LEMMA FleetTotalType == FleetTotal \in Nat
BY SumOfInts, SharedAssumption DEF FleetTotal

-----------------------------------------------------------------------------
(***************************************************************************)
(* /ships (SharedReports): one cog for every invocation.                   *)
(***************************************************************************)
Figures == [selected : SUBSET Ship, ships : SUBSET Ship, total : Nat]
Reports == [ships : SUBSET Ship, total : Nat \cup {-1}]
Invocations == [step : {"idle", "deferred", "sending"}, scope : Scopes, specific : Specific,
                others : Nat, theirs : SUBSET Ship, report : Reports]

ShipsTypes ==
    /\ cog \in Figures
    /\ queries \in [Query -> Invocations]
    /\ asked \in 0..MaxQueries

Deferred == {q \in Query : queries[q].step = "deferred"}

\* The fleet has been counted n times since the figures were thrown away.
\* An invocation that is deferred shares its deferral with those that
\* counted it and with those that are about to.
CountedAtMost(n) ==
    /\ cog.total = n * FleetTotal
    /\ \A q \in Deferred : n + Cardinality(Deferred \ {q}) <= queries[q].others

CogShared ==
    /\ \E n \in Nat : CountedAtMost(n)
    /\ \A q \in Deferred :
          /\ cog.selected \subseteq queries[q].theirs
          /\ \A o \in Deferred \ {q} : queries[o].scope \subseteq queries[q].theirs

ShipsInv == ShipsTypes /\ CogShared /\ TotalsShared

LEMMA ScopeShips == \A scope \in Scopes : scope \subseteq Ship
BY SharedAssumption DEF Scopes

LEMMA QuietTypes ==
    /\ Quiet \in Invocations
    /\ Quiet.step = "idle" /\ Quiet.report = NoReport
    /\ NoReport \in Reports /\ Fresh \in Figures /\ Fresh.total = 0 /\ Fresh.selected = {}
BY DEF Quiet, NoReport, Fresh, Scopes, Specific, Invocations, Reports, Figures

LEMMA DeferredFinite ==
    /\ IsFiniteSet(Deferred) /\ Cardinality(Deferred) \in Nat
    /\ \A q \in Query : /\ IsFiniteSet(Deferred \ {q}) /\ Cardinality(Deferred \ {q}) \in Nat
                        /\ q \notin Deferred => Deferred \ {q} = Deferred
                        /\ q \in Deferred => Cardinality(Deferred \ {q}) = Cardinality(Deferred) - 1
<1>1. IsFiniteSet(Query) /\ Deferred \in SUBSET Query
    BY SharedAssumption DEF Deferred
<1>2. IsFiniteSet(Deferred) /\ Cardinality(Deferred) \in Nat
    BY <1>1, FS_Subset, FS_CardinalityType
<1>3. ASSUME NEW q \in Query
      PROVE  /\ IsFiniteSet(Deferred \ {q}) /\ Cardinality(Deferred \ {q}) \in Nat
             /\ q \in Deferred => Cardinality(Deferred \ {q}) = Cardinality(Deferred) - 1
    <2>1. IsFiniteSet(Deferred \ {q})
        BY <1>2, FS_RemoveElement
    <2>2. Cardinality(Deferred \ {q}) \in Nat
        BY <2>1, FS_CardinalityType
    <2>3. q \in Deferred => Cardinality(Deferred \ {q}) = Cardinality(Deferred) - 1
        BY <1>2, FS_RemoveElement
    <2> QED
        BY <2>1, <2>2, <2>3
<1> QED
    BY <1>2, <1>3

LEMMA ShipsInitially == ShipsInit => ShipsInv
<1> SUFFICES ASSUME ShipsInit
             PROVE  ShipsInv
    OBVIOUS
<1>1. \A q \in Query : queries[q] = Quiet
    BY DEF ShipsInit
<1>2. ShipsTypes
    BY QuietTypes, SharedAssumption DEF ShipsInit, ShipsTypes
<1>3. Deferred = {}
    BY <1>1, QuietTypes DEF Deferred
<1>4. cog.total = 0 * FleetTotal
    BY QuietTypes, FleetTotalType DEF ShipsInit
<1>5. CogShared
    BY <1>3, <1>4 DEF CogShared, CountedAtMost
<1>6. TotalsShared
    BY <1>1, QuietTypes DEF TotalsShared
<1> QED
    BY <1>2, <1>5, <1>6 DEF ShipsInv

\* What TotalsShared says of one invocation.
Shared(query) ==
    query.report # NoReport =>
        /\ \E n \in 1..(query.others + 1) : query.report.total = n * FleetTotal
        /\ \E more \in SUBSET query.theirs : query.report.ships = Picked(query.scope \cup more)

LEMMA SharedByEach == TotalsShared <=> \A q \in Query : Shared(queries[q])
BY DEF TotalsShared, Shared

\* To share a deferral with more of them changes nothing of a report.
LEMMA SharedWithMore ==
    ASSUME NEW old, NEW new, old.others \in Nat, new.others \in Nat, Shared(old),
           new.report = old.report, new.scope = old.scope,
           new.others >= old.others, old.theirs \subseteq new.theirs
    PROVE  Shared(new)
<1> SUFFICES ASSUME new.report # NoReport
             PROVE  /\ \E n \in 1..(new.others + 1) : new.report.total = n * FleetTotal
                    /\ \E more \in SUBSET new.theirs :
                          new.report.ships = Picked(new.scope \cup more)
    BY DEF Shared
<1>1. PICK n \in 1..(old.others + 1) : old.report.total = n * FleetTotal
    BY DEF Shared
<1>2. PICK more \in SUBSET old.theirs : old.report.ships = Picked(old.scope \cup more)
    BY DEF Shared
<1>3. n \in 1..(new.others + 1) /\ more \in SUBSET new.theirs
    OBVIOUS
<1> QED
    BY <1>1, <1>2, <1>3

\* The others that are deferred share their deferral with this one.
LEMMA InvokeKeeps ==
    ASSUME ShipsInv, NEW q \in Query, Invoke(q)
    PROVE  ShipsInv'
<1>1. /\ queries[q].step = "idle" /\ asked < MaxQueries /\ asked' = asked + 1
      /\ cog' = Fresh
    BY DEF Invoke
<1>2. PICK scope \in Scopes, specific \in Specific :
        queries' = [o \in Query |->
            IF o = q THEN [Quiet EXCEPT
                !.step = "deferred", !.scope = scope, !.specific = specific,
                !.others = Cardinality(Deferred),
                !.theirs = UNION {queries[p].scope : p \in Deferred}]
            ELSE IF o \in Deferred THEN [queries[o] EXCEPT
                !.others = queries[o].others + 1, !.theirs = queries[o].theirs \cup scope]
            ELSE queries[o]]
    BY DEF Invoke, Deferred
<1>3. queries \in [Query -> Invocations] /\ scope \in SUBSET Ship
    BY ScopeShips DEF ShipsInv, ShipsTypes
<1>4. UNION {queries[p].scope : p \in Deferred} \in SUBSET Ship
    BY <1>3, ScopeShips DEF Deferred, Invocations
<1>5. /\ queries'[q] \in Invocations
      /\ queries'[q].step = "deferred" /\ queries'[q].report = NoReport
      /\ queries'[q].scope = scope
      /\ queries'[q].others = Cardinality(Deferred)
      /\ queries'[q].theirs = UNION {queries[p].scope : p \in Deferred}
    <2>1. queries'[q] = [step |-> "deferred", scope |-> scope, specific |-> specific,
                         others |-> Cardinality(Deferred),
                         theirs |-> UNION {queries[p].scope : p \in Deferred},
                         report |-> NoReport]
        BY <1>2 DEF Quiet
    <2> QED
        BY <1>4, <2>1, QuietTypes, DeferredFinite DEF Invocations
<1>6. ASSUME NEW o \in Query \ {q}
      PROVE  /\ queries'[o] \in Invocations
             /\ queries'[o].step = queries[o].step
             /\ queries'[o].report = queries[o].report /\ queries'[o].scope = queries[o].scope
             /\ o \in Deferred => /\ queries'[o].others = queries[o].others + 1
                                  /\ queries'[o].theirs = queries[o].theirs \cup scope
             /\ o \notin Deferred => queries'[o] = queries[o]
    <2>1. queries[o] \in Invocations
        BY <1>3
    <2>2. CASE o \in Deferred
        <3>1. queries'[o] = [queries[o] EXCEPT !.others = queries[o].others + 1,
                                               !.theirs = queries[o].theirs \cup scope]
            BY <1>2, <2>2
        <3>2. queries[o].others + 1 \in Nat /\ queries[o].theirs \cup scope \in SUBSET Ship
            BY <1>3, <2>1 DEF Invocations
        <3> QED
            BY <2>1, <2>2, <3>1, <3>2 DEF Invocations
    <2>3. CASE o \notin Deferred
        BY <1>2, <2>1, <2>3
    <2> QED
        BY <2>2, <2>3
<1>7. ShipsTypes'
    <2>1. queries' \in [Query -> Invocations]
        <3>1. \A o \in Query : queries'[o] \in Invocations
            BY <1>5, <1>6
        <3>2. queries' = [o \in Query |-> queries'[o]]
            BY <1>2
        <3> QED
            BY <3>1, <3>2
    <2> QED
        BY <1>1, <2>1, QuietTypes, SharedAssumption DEF ShipsInv, ShipsTypes
<1>8. Deferred' = Deferred \cup {q} /\ q \notin Deferred
    BY <1>1, <1>5, <1>6 DEF Deferred
<1>9. ASSUME NEW o \in Deferred'
      PROVE  /\ 0 + Cardinality(Deferred' \ {o}) <= queries'[o].others
             /\ \A p \in Deferred' \ {o} : queries'[p].scope \subseteq queries'[o].theirs
    <2>1. CASE o = q
        <3>1. Deferred' \ {o} = Deferred
            BY <1>8, <2>1
        <3>2. 0 + Cardinality(Deferred' \ {o}) <= queries'[o].others
            <4>1. Cardinality(Deferred) \in Nat
                BY DeferredFinite
            <4>2. queries'[o].others = Cardinality(Deferred' \ {o})
                BY <1>5, <2>1, <3>1
            <4> QED
                BY <3>1, <4>1, <4>2
        <3>3. ASSUME NEW p \in Deferred
              PROVE  queries'[p].scope \subseteq queries'[o].theirs
            <4>1. p \in Query \ {q}
                BY <1>8 DEF Deferred
            <4>2. queries'[p].scope = queries[p].scope
                BY <1>6, <4>1
            <4> QED
                BY <1>5, <2>1, <4>2
        <3> QED
            BY <3>1, <3>2, <3>3
    <2>2. CASE o # q
        <3>1. o \in Deferred /\ o \in Query \ {q} /\ queries[o].others \in Nat
            BY <1>3, <1>8, <2>2 DEF Deferred, Invocations
        <3>2. Deferred' \ {o} = (Deferred \ {o}) \cup {q} /\ q \notin Deferred \ {o}
            BY <1>8, <2>2
        <3>3. Cardinality(Deferred' \ {o}) = Cardinality(Deferred \ {o}) + 1
            BY <3>1, <3>2, DeferredFinite, FS_AddElement
        <3>4. Cardinality(Deferred \ {o}) <= queries[o].others
            <4>1. PICK n \in Nat : CountedAtMost(n)
                BY DEF ShipsInv, CogShared
            <4>2. n + Cardinality(Deferred \ {o}) <= queries[o].others
                BY <3>1, <4>1 DEF CountedAtMost
            <4> QED
                BY <3>1, <4>2, DeferredFinite
        <3>5. \A p \in Deferred \ {o} : queries'[p].scope \subseteq queries'[o].theirs
            BY <1>6, <1>8, <3>1 DEF ShipsInv, CogShared, Deferred
        <3> QED
            <4>1. Cardinality(Deferred \ {o}) \in Nat
                BY <3>1, DeferredFinite
            <4>2. queries'[o].others = queries[o].others + 1 /\ scope \subseteq queries'[o].theirs
                BY <1>6, <3>1
            <4>3. 0 + Cardinality(Deferred' \ {o}) <= queries'[o].others
                BY <3>1, <3>3, <3>4, <4>1, <4>2
            <4> QED
                BY <1>5, <3>2, <3>5, <4>2, <4>3
    <2> QED
        BY <2>1, <2>2
<1>10. CogShared'
    <2>1. cog'.total = 0 * FleetTotal /\ cog'.selected = {}
        BY <1>1, QuietTypes, FleetTotalType
    <2>2. CountedAtMost(0)'
        BY <1>9, <2>1 DEF CountedAtMost
    <2> QED
        BY <1>9, <2>1, <2>2 DEF CogShared
<1>11. ASSUME NEW o \in Query
       PROVE  Shared(queries'[o])
    <2>1. CASE o = q
        BY <1>5, <2>1 DEF Shared
    <2>2. CASE o # q
        <3>1. /\ Shared(queries[o]) /\ queries[o] \in Invocations /\ queries'[o] \in Invocations
              /\ queries'[o].report = queries[o].report /\ queries'[o].scope = queries[o].scope
            BY <1>3, <1>6, <2>2, SharedByEach DEF ShipsInv
        <3>2. queries[o].others \in Nat /\ queries'[o].others \in Nat
            BY <3>1 DEF Invocations
        <3>3. queries'[o].others >= queries[o].others /\ queries[o].theirs \subseteq queries'[o].theirs
            BY <1>6, <2>2, <3>2
        <3> QED
            BY <3>1, <3>2, <3>3, SharedWithMore
    <2> QED
        BY <2>1, <2>2
<1>12. TotalsShared'
    BY <1>11 DEF TotalsShared, Shared
<1> QED
    BY <1>7, <1>10, <1>12 DEF ShipsInv

\* Figures that n invocations collected become those of n + 1.
LEMMA LoadKeeps ==
    ASSUME ShipsInv, NEW q \in Query, Load(q)
    PROVE  ShipsInv'
<1> DEFINE report == Report(q, cog')
<1>1. /\ queries[q].step = "deferred"
      /\ cog' = Loaded(queries[q].scope)
      /\ queries' = [queries EXCEPT ![q].step = "sending", ![q].report = report]
      /\ asked' = asked
    BY DEF Load
<1>2. /\ queries[q].scope \in Scopes /\ queries[q].scope \subseteq Ship /\ queries[q].others \in Nat
      /\ cog \in Figures /\ q \in Deferred
    BY <1>1, ScopeShips DEF ShipsInv, ShipsTypes, Invocations, Deferred
<1>3. /\ cog'.selected = cog.selected \cup queries[q].scope
      /\ cog'.ships = Picked(cog.selected \cup queries[q].scope)
      /\ cog'.total = cog.total + FleetTotal
      /\ cog' \in Figures
    BY <1>1, <1>2, FleetTotalType DEF Loaded, Picked, Figures
<1>4. report \in Reports
    BY <1>3 DEF Report, NoReport, Figures, Reports
<1>5. report # NoReport => report.ships = cog'.ships /\ report.total = cog'.total
    BY DEF Report
<1> HIDE DEF report
<1>6. /\ queries'[q].step = "sending" /\ queries'[q].report = report
      /\ queries'[q].others = queries[q].others /\ queries'[q].theirs = queries[q].theirs
      /\ queries'[q].scope = queries[q].scope
      /\ \A o \in Query \ {q} : queries'[o] = queries[o]
    BY <1>1 DEF ShipsInv, ShipsTypes, Invocations
<1>7. ShipsTypes'
    <2>1. queries'[q] \in Invocations
        <3>1. queries[q] \in Invocations
            BY DEF ShipsInv, ShipsTypes
        <3>2. queries'[q] = [queries[q] EXCEPT !.step = "sending", !.report = report]
            BY <1>1 DEF ShipsInv, ShipsTypes
        <3> QED
            BY <1>4, <3>1, <3>2 DEF Invocations
    <2>2. queries' = [queries EXCEPT ![q] = queries'[q]]
        BY <1>1 DEF ShipsInv, ShipsTypes
    <2> QED
        BY <1>1, <1>3, <2>1, <2>2 DEF ShipsInv, ShipsTypes
<1>8. PICK n \in Nat : CountedAtMost(n)
    BY DEF ShipsInv, CogShared
<1>9. cog'.total = (n + 1) * FleetTotal
    <2>1. cog.total = n * FleetTotal
        BY <1>8 DEF CountedAtMost
    <2>2. \A f \in Nat : n * f + f = (n + 1) * f
        OBVIOUS
    <2> QED
        BY <1>3, <2>1, <2>2, FleetTotalType
<1>10. Deferred' = Deferred \ {q}
    BY <1>6 DEF Deferred
<1>11. ASSUME NEW o \in Deferred'
       PROVE  /\ (n + 1) + Cardinality(Deferred' \ {o}) <= queries'[o].others
              /\ cog'.selected \subseteq queries'[o].theirs
              /\ \A p \in Deferred' \ {o} : queries'[p].scope \subseteq queries'[o].theirs
    <2>1. /\ o \in Deferred /\ o # q /\ o \in Query /\ queries'[o] = queries[o]
          /\ queries[o].others \in Nat
        BY <1>6, <1>10 DEF Deferred, ShipsInv, ShipsTypes, Invocations
    <2>2. q \in Deferred \ {o} /\ Deferred' \ {o} = (Deferred \ {o}) \ {q}
        BY <1>2, <1>10, <2>1
    <2>3. IsFiniteSet(Deferred \ {o}) /\ Cardinality(Deferred \ {o}) \in Nat
        BY <2>1, DeferredFinite
    <2>4. Cardinality(Deferred' \ {o}) = Cardinality(Deferred \ {o}) - 1
        BY <2>2, <2>3, FS_RemoveElement
    <2>5. n + Cardinality(Deferred \ {o}) <= queries[o].others
        BY <1>8, <2>1 DEF CountedAtMost
    <2>6. (n + 1) + Cardinality(Deferred' \ {o}) <= queries'[o].others
        BY <2>1, <2>4, <2>5, <2>3
    <2>7. /\ cog.selected \subseteq queries[o].theirs
          /\ \A p \in Deferred \ {o} : queries[p].scope \subseteq queries[o].theirs
        BY <2>1 DEF ShipsInv, CogShared
    <2>8. cog'.selected \subseteq queries'[o].theirs
        BY <1>3, <2>1, <2>2, <2>7
    <2>9. ASSUME NEW p \in Deferred' \ {o}
          PROVE  queries'[p].scope \subseteq queries'[o].theirs
        <3>1. p \in Deferred \ {o} /\ queries'[p] = queries[p]
            BY <1>6, <1>10 DEF Deferred
        <3> QED
            BY <2>1, <2>7, <3>1
    <2> QED
        BY <2>6, <2>8, <2>9
<1>12. CogShared'
    <2>1. CountedAtMost(n + 1)'
        BY <1>9, <1>11 DEF CountedAtMost
    <2>2. n + 1 \in Nat
        OBVIOUS
    <2> QED
        BY <1>11, <2>1, <2>2 DEF CogShared
<1>13. Shared(queries'[q])
    <2> SUFFICES ASSUME report # NoReport
                 PROVE  /\ \E k \in 1..(queries[q].others + 1) : report.total = k * FleetTotal
                        /\ \E more \in SUBSET queries[q].theirs :
                              report.ships = Picked(queries[q].scope \cup more)
        BY <1>6 DEF Shared
    <2>1. n + 1 \in 1..(queries[q].others + 1)
        <3>1. n + Cardinality(Deferred \ {q}) <= queries[q].others
            BY <1>2, <1>8 DEF CountedAtMost
        <3>2. Cardinality(Deferred \ {q}) \in Nat
            BY DeferredFinite
        <3> QED
            BY <1>2, <3>1, <3>2
    <2>2. report.total = (n + 1) * FleetTotal
        BY <1>5, <1>9
    <2>3. cog.selected \in SUBSET queries[q].theirs
        BY <1>2 DEF ShipsInv, CogShared
    <2>4. report.ships = Picked(queries[q].scope \cup cog.selected)
        <3>1. cog.selected \cup queries[q].scope = queries[q].scope \cup cog.selected
            OBVIOUS
        <3> QED
            BY <1>3, <1>5, <3>1
    <2> QED
        BY <2>1, <2>2, <2>3, <2>4
<1>14. ASSUME NEW o \in Query
       PROVE  Shared(queries'[o])
    BY <1>6, <1>13, SharedByEach DEF ShipsInv
<1>15. TotalsShared'
    BY <1>14 DEF TotalsShared, Shared
<1> QED
    BY <1>7, <1>12, <1>15 DEF ShipsInv

\* An answer that is sent, or an error instead of one.
LEMMA AnsweredKeeps ==
    ASSUME ShipsInv, NEW q \in Query, Sent(q) \/ DeferFails(q)
    PROVE  ShipsInv'
<1>1. /\ \/ queries' = [queries EXCEPT ![q].step = "idle"]
         \/ queries' = [queries EXCEPT ![q] = Quiet]
      /\ cog' = cog /\ asked' = asked
    BY DEF Sent, DeferFails
<1>2. queries \in [Query -> Invocations]
    BY DEF ShipsInv, ShipsTypes
<1>3. /\ queries'[q].step = "idle" /\ queries'[q] \in Invocations
      /\ queries'[q].report = NoReport \/
            /\ queries'[q].report = queries[q].report /\ queries'[q].scope = queries[q].scope
            /\ queries'[q].others = queries[q].others /\ queries'[q].theirs = queries[q].theirs
      /\ \A o \in Query \ {q} : queries'[o] = queries[o]
      /\ queries' \in [Query -> Invocations]
    BY <1>1, <1>2, QuietTypes DEF Invocations
<1>4. ShipsTypes'
    BY <1>1, <1>3 DEF ShipsInv, ShipsTypes
<1>5. Deferred' = Deferred \ {q}
    BY <1>3 DEF Deferred
<1>6. PICK n \in Nat : CountedAtMost(n)
    BY DEF ShipsInv, CogShared
<1>7. ASSUME NEW o \in Deferred'
      PROVE  /\ n + Cardinality(Deferred' \ {o}) <= queries'[o].others
             /\ cog'.selected \subseteq queries'[o].theirs
             /\ \A p \in Deferred' \ {o} : queries'[p].scope \subseteq queries'[o].theirs
    <2>1. /\ o \in Deferred /\ o # q /\ o \in Query /\ queries'[o] = queries[o]
          /\ queries[o].others \in Nat
        BY <1>2, <1>3, <1>5 DEF Deferred, Invocations
    <2>2. Deferred' \ {o} \in SUBSET (Deferred \ {o})
        BY <1>5
    <2>3. IsFiniteSet(Deferred \ {o}) /\ Cardinality(Deferred \ {o}) \in Nat
        BY <2>1, DeferredFinite
    <2>4. /\ Cardinality(Deferred' \ {o}) <= Cardinality(Deferred \ {o})
          /\ Cardinality(Deferred' \ {o}) \in Nat
        BY <2>2, <2>3, FS_Subset, FS_CardinalityType
    <2>5. n + Cardinality(Deferred \ {o}) <= queries[o].others
        BY <1>6, <2>1 DEF CountedAtMost
    <2>6. n + Cardinality(Deferred' \ {o}) <= queries'[o].others
        BY <2>1, <2>4, <2>5, <2>3
    <2>7. cog'.selected \subseteq queries'[o].theirs
        BY <1>1, <2>1 DEF ShipsInv, CogShared
    <2>8. ASSUME NEW p \in Deferred' \ {o}
          PROVE  queries'[p].scope \subseteq queries'[o].theirs
        <3>1. p \in Deferred \ {o} /\ queries'[p] = queries[p]
            BY <1>3, <1>5 DEF Deferred
        <3> QED
            BY <2>1, <3>1 DEF ShipsInv, CogShared
    <2> QED
        BY <2>6, <2>7, <2>8
<1>8. CogShared'
    <2>1. CountedAtMost(n)'
        BY <1>1, <1>6, <1>7 DEF CountedAtMost
    <2> QED
        BY <1>7, <2>1 DEF CogShared
<1>9. ASSUME NEW o \in Query
      PROVE  Shared(queries'[o])
    <2>1. Shared(queries[o])
        BY SharedByEach DEF ShipsInv
    <2> QED
        BY <1>3, <2>1 DEF Shared
<1>10. TotalsShared'
    BY <1>9 DEF TotalsShared, Shared
<1> QED
    BY <1>4, <1>8, <1>10 DEF ShipsInv

LEMMA ShipsKept ==
    ASSUME ShipsInv, [ShipsNext]_shipsVars
    PROVE  ShipsInv'
<1>1. CASE UNCHANGED shipsVars
    BY <1>1 DEF shipsVars, ShipsInv, ShipsTypes, CogShared, CountedAtMost, Deferred, TotalsShared
<1> QED
    BY <1>1, InvokeKeeps, LoadKeeps, AnsweredKeeps DEF ShipsNext

-----------------------------------------------------------------------------
(***************************************************************************)
(* Months and pages (SharedReports).                                       *)
(***************************************************************************)
Buttons == [previous : BOOLEAN, next : BOOLEAN]

Edits == [step : {"free", "draws", "sent"}, view : {"calendar", "page"}, buttons : Buttons]

PagingTypes ==
    /\ calendar \in [year : Int, month : 1..12, now : NowMonths]
    /\ page \in -clicks..clicks
    /\ shown \in [calendar : Buttons, page : Buttons]
    /\ edits \in [1..MaxEdits -> Edits]
    /\ clicks \in 0..MaxClicks /\ overrun \in BOOLEAN

PagingInv == PagingTypes /\ PagingWithinRange

PagingNext == CalendarNext \/ PagesNext

LEMMA ButtonTypes ==
    ASSUME NEW c, NEW p
    PROVE  /\ MonthButtons(c) \in Buttons /\ PageButtons(p) \in Buttons
           /\ MonthButtons(c).previous <=> ~(c.year <= NowYear - 2 /\ c.month <= c.now)
           /\ MonthButtons(c).next <=> ~(c.year >= NowYear /\ c.month >= c.now)
           /\ PageButtons(p).previous <=> p # 0
           /\ PageButtons(p).next <=> p # Pages - 1
BY DEF MonthButtons, PageButtons, Buttons

LEMMA EditTypes ==
    /\ Both \in Buttons /\ NoEdit \in Edits
    /\ DOMAIN Both = {"previous", "next"}
BY DEF Both, NoEdit, Buttons, Edits

LEMMA PagingInitially == PagingInit => PagingInv
<1> SUFFICES ASSUME PagingInit
             PROVE  PagingInv
    OBVIOUS
<1>1. PICK m \in NowMonths : calendar = [year |-> NowYear, month |-> m, now |-> m]
    BY DEF PagingInit
<1>2. m \in 1..12 /\ NowYear \in Nat /\ Pages \in Nat \ {0} /\ MaxClicks \in Nat
    BY SharedAssumption
<1>3. calendar \in [year : Int, month : 1..12, now : NowMonths]
    BY <1>1, <1>2
<1>4. PagingTypes
    <2>1. page = 0 /\ clicks = 0 /\ overrun \in BOOLEAN
        BY DEF PagingInit
    <2>2. edits \in [1..MaxEdits -> Edits]
        BY EditTypes DEF PagingInit
    <2>3. shown \in [calendar : Buttons, page : Buttons]
        BY ButtonTypes DEF PagingInit
    <2> QED
        BY <1>2, <1>3, <2>1, <2>2, <2>3 DEF PagingTypes
<1>5. InCalendar /\ page \in 0..(Pages - 1)
    BY <1>1, <1>2 DEF InCalendar, Count, PagingInit
<1> QED
    BY <1>4, <1>5 DEF PagingInv, PagingWithinRange

\* A button of the month there is leads to another month of the calendar.
LEMMA TurnedWithin ==
    ASSUME PagingTypes, InCalendar, NEW button \in {"previous", "next"},
           MonthButtons(calendar)[button], calendar' = Turned(calendar, button)
    PROVE  InCalendar'
<1> DEFINE c == calendar
<1>1. /\ c.year \in Int /\ c.month \in 1..12 /\ c.now \in 1..12 /\ NowYear \in Nat
    BY SharedAssumption DEF PagingTypes
<1>2. 12 * (NowYear - 2) + c.now <= 12 * c.year + c.month
      /\ 12 * c.year + c.month <= 12 * NowYear + c.now
    BY <1>1 DEF InCalendar, Count
<1>3. calendar'.now = c.now /\ calendar'.month \in 1..12 /\ calendar'.year \in Int
    BY <1>1 DEF Turned, PagingTypes
<1>4. CASE button = "previous"
    <2>1. ~(c.year <= NowYear - 2 /\ c.month <= c.now)
        BY <1>4, ButtonTypes
    <2>2. 12 * calendar'.year + calendar'.month = 12 * c.year + c.month - 1
        BY <1>1, <1>4 DEF Turned, PagingTypes
    <2>3. 12 * (NowYear - 2) + c.now < 12 * c.year + c.month
        BY <1>1, <1>2, <2>1
    <2> QED
        BY <1>1, <1>2, <1>3, <2>2, <2>3 DEF InCalendar, Count
<1>5. CASE button = "next"
    <2>1. ~(c.year >= NowYear /\ c.month >= c.now)
        BY <1>5, ButtonTypes
    <2>2. 12 * calendar'.year + calendar'.month = 12 * c.year + c.month + 1
        BY <1>1, <1>5 DEF Turned, PagingTypes
    <2>3. 12 * c.year + c.month < 12 * NowYear + c.now
        BY <1>1, <1>2, <2>1
    <2> QED
        BY <1>1, <1>2, <1>3, <2>2, <2>3 DEF InCalendar, Count
<1> QED
    BY <1>4, <1>5

LEMMA TurnMonthKeeps ==
    ASSUME PagingInv, NEW e \in 1..MaxEdits, NEW button \in {"previous", "next"},
           TurnMonth(e, button)
    PROVE  PagingInv'
<1>1. /\ clicks < MaxClicks /\ clicks' = clicks + 1
      /\ overrun' = (overrun \/ ~MonthButtons(calendar)[button])
      /\ calendar' = Turned(calendar, button)
      /\ page' = page /\ shown' = shown
    BY DEF TurnMonth, Click
<1>2. MaxClicks \in Nat /\ clicks \in Nat
    BY SharedAssumption DEF PagingInv, PagingTypes
<1>3. calendar' \in [year : Int, month : 1..12, now : NowMonths]
    <2>1. calendar \in [year : Int, month : 1..12, now : NowMonths]
        BY DEF PagingInv, PagingTypes
    <2>2. CASE button = "previous" /\ calendar.month = 1
        <3>1. calendar' = [calendar EXCEPT !.month = 12, !.year = calendar.year - 1]
            BY <1>1, <2>2 DEF Turned
        <3>2. calendar' = [year |-> calendar.year - 1, month |-> 12, now |-> calendar.now]
            BY <2>1, <3>1
        <3>3. calendar.year - 1 \in Int /\ 12 \in 1..12 /\ calendar.now \in NowMonths
            BY <2>1
        <3> QED
            BY <3>2, <3>3
    <2>3. CASE button = "previous" /\ calendar.month > 1
        <3>1. calendar' = [calendar EXCEPT !.month = calendar.month - 1]
            BY <1>1, <2>1, <2>3 DEF Turned
        <3> QED
            BY <2>1, <2>3, <3>1
    <2>4. CASE button = "next" /\ calendar.month = 12
        <3>1. calendar' = [calendar EXCEPT !.month = 1, !.year = calendar.year + 1]
            BY <1>1, <2>4 DEF Turned
        <3>2. calendar' = [year |-> calendar.year + 1, month |-> 1, now |-> calendar.now]
            BY <2>1, <3>1
        <3>3. calendar.year + 1 \in Int /\ 1 \in 1..12 /\ calendar.now \in NowMonths
            BY <2>1
        <3> QED
            BY <3>2, <3>3
    <2>5. CASE button = "next" /\ calendar.month # 12
        <3>1. calendar' = [calendar EXCEPT !.month = calendar.month + 1]
            BY <1>1, <2>1, <2>5 DEF Turned
        <3> QED
            BY <2>1, <2>5, <3>1
    <2> QED
        BY <2>1, <2>2, <2>3, <2>4, <2>5
<1>4. PagingTypes'
    <2>1. overrun' \in BOOLEAN
        BY <1>1
    <2>2. page' \in -clicks'..clicks' /\ clicks' \in 0..MaxClicks
        BY <1>1, <1>2 DEF PagingInv, PagingTypes
    <2>3. edits' \in [1..MaxEdits -> Edits]
        <3>1. edits' = [edits EXCEPT
                  ![e] = [step |-> "draws", view |-> "calendar", buttons |-> Both]]
            BY DEF TurnMonth, Starts
        <3> QED
            BY <3>1, EditTypes DEF PagingInv, PagingTypes, Edits
    <2> QED
        BY <1>1, <1>3, <2>1, <2>2, <2>3 DEF PagingInv, PagingTypes
<1>5. ASSUME ~overrun'
      PROVE  InCalendar' /\ page' \in 0..(Pages - 1)
    <2>1. ~overrun /\ MonthButtons(calendar)[button]
        BY <1>1, <1>5
    <2>2. InCalendar /\ page \in 0..(Pages - 1)
        BY <2>1 DEF PagingInv, PagingWithinRange
    <2> QED
        BY <1>1, <2>1, <2>2, TurnedWithin DEF PagingInv
<1> QED
    BY <1>4, <1>5 DEF PagingInv, PagingWithinRange

\* A page is sent with its buttons, or is beyond the pages and is not.
LEMMA SendPageTypes ==
    ASSUME PagingTypes, NEW e \in 1..MaxEdits, NEW buttons \in Buttons,
           \/ Starts(e, "sent", "page", buttons)
           \/ UNCHANGED edits
    PROVE  edits' \in [1..MaxEdits -> Edits]
<1>1. CASE Starts(e, "sent", "page", buttons)
    <2>1. edits' = [edits EXCEPT ![e] = [step |-> "sent", view |-> "page", buttons |-> buttons]]
        BY <1>1 DEF Starts
    <2> QED
        BY <2>1 DEF PagingTypes, Edits
<1>2. CASE UNCHANGED edits
    BY <1>2 DEF PagingTypes
<1> QED
    BY <1>1, <1>2

LEMMA TurnPageKeeps ==
    ASSUME PagingInv, NEW e \in 1..MaxEdits, NEW button \in {"previous", "next"},
           TurnPage(e, button)
    PROVE  PagingInv'
<1>1. /\ clicks < MaxClicks /\ clicks' = clicks + 1
      /\ overrun' = (overrun \/ ~PageButtons(page)[button])
      /\ page' = IF button = "next" THEN page + 1 ELSE page - 1
      /\ Starts(e, "sent", "page", PageButtons(page')) \/ UNCHANGED edits
      /\ calendar' = calendar /\ shown' = shown
    BY DEF TurnPage, Click
<1>2. /\ MaxClicks \in Nat /\ Pages \in Nat \ {0} /\ clicks \in Nat /\ page \in Int
    BY SharedAssumption DEF PagingInv, PagingTypes
<1>3. PagingTypes'
    <2>1. overrun' \in BOOLEAN
        BY <1>1
    <2>2. page' \in -clicks'..clicks' /\ clicks' \in 0..MaxClicks
        BY <1>1, <1>2 DEF PagingInv, PagingTypes
    <2>3. edits' \in [1..MaxEdits -> Edits]
        BY <1>1, ButtonTypes, SendPageTypes DEF PagingInv
    <2> QED
        BY <1>1, <2>1, <2>2, <2>3 DEF PagingInv, PagingTypes
<1>4. ASSUME ~overrun'
      PROVE  InCalendar' /\ page' \in 0..(Pages - 1)
    <2>1. ~overrun /\ PageButtons(page)[button]
        BY <1>1, <1>4
    <2>2. InCalendar /\ page \in 0..(Pages - 1)
        BY <2>1 DEF PagingInv, PagingWithinRange
    <2>3. page' \in 0..(Pages - 1)
        BY <1>1, <1>2, <2>1, <2>2, ButtonTypes
    <2> QED
        BY <1>1, <2>2, <2>3 DEF InCalendar
<1> QED
    BY <1>3, <1>4 DEF PagingInv, PagingWithinRange

LEMMA RefreshPageKeeps ==
    ASSUME PagingInv, NEW e \in 1..MaxEdits, RefreshPage(e)
    PROVE  PagingInv'
<1>1. /\ page' = IF page < Pages - 1 THEN page ELSE Pages - 1
      /\ Starts(e, "sent", "page", PageButtons(page')) \/ UNCHANGED edits
      /\ UNCHANGED <<calendar, shown, clicks, overrun>>
    BY DEF RefreshPage
<1>2. /\ Pages \in Nat \ {0} /\ clicks \in Nat /\ page \in Int
    BY SharedAssumption DEF PagingInv, PagingTypes
<1>3. page' \in -clicks..clicks /\ (page \in 0..(Pages - 1) => page' = page)
    BY <1>1, <1>2 DEF PagingInv, PagingTypes
<1>4. edits' \in [1..MaxEdits -> Edits]
    BY <1>1, ButtonTypes, SendPageTypes DEF PagingInv
<1>5. PagingTypes'
    BY <1>1, <1>3, <1>4 DEF PagingInv, PagingTypes
<1>6. PagingWithinRange'
    BY <1>1, <1>3 DEF PagingInv, PagingWithinRange, InCalendar
<1> QED
    BY <1>5, <1>6 DEF PagingInv

\* Edits that are drawn, land or fail change neither month nor page.
LEMMA EditKeeps ==
    ASSUME PagingInv, NEW e \in 1..MaxEdits, Drawn(e) \/ EditLands(e) \/ EditFails(e)
    PROVE  PagingInv'
<1>1. UNCHANGED <<calendar, page, clicks, overrun>>
    BY DEF Drawn, EditLands, EditFails
<1>2. edits \in [1..MaxEdits -> Edits] /\ shown \in [calendar : Buttons, page : Buttons]
    BY DEF PagingInv, PagingTypes
<1>3. CASE Drawn(e)
    <2>1. /\ edits' = [edits EXCEPT ![e].step = "sent", ![e].buttons = MonthButtons(calendar)]
          /\ shown' = shown
        BY <1>3 DEF Drawn
    <2>2. edits' \in [1..MaxEdits -> Edits]
        BY <1>2, <2>1, ButtonTypes DEF Edits
    <2> QED
        BY <1>1, <2>1, <2>2 DEF PagingInv, PagingTypes, PagingWithinRange, InCalendar
<1>4. CASE EditLands(e) \/ EditFails(e)
    <2>1. edits' \in [1..MaxEdits -> Edits]
        BY <1>2, <1>4, EditTypes DEF EditLands, EditFails
    <2>2. shown' \in [calendar : Buttons, page : Buttons]
        <3>1. edits[e].buttons \in Buttons /\ edits[e].view \in {"calendar", "page"}
            BY <1>2 DEF Edits
        <3>2. shown' = shown \/ shown' = [shown EXCEPT ![edits[e].view] = edits[e].buttons]
            BY <1>4 DEF EditLands, EditFails
        <3> QED
            BY <1>2, <3>1, <3>2
    <2> QED
        BY <1>1, <2>1, <2>2 DEF PagingInv, PagingTypes, PagingWithinRange, InCalendar
<1> QED
    BY <1>3, <1>4

LEMMA PagingKept ==
    ASSUME PagingInv, [PagingNext]_pagingVars
    PROVE  PagingInv'
<1>1. CASE UNCHANGED pagingVars
    BY <1>1 DEF pagingVars, PagingInv, PagingTypes, PagingWithinRange, InCalendar
<1> QED
    BY <1>1, EditTypes, TurnMonthKeeps, TurnPageKeeps, RefreshPageKeeps, EditKeeps
    DEF PagingNext, CalendarNext, PagesNext

-----------------------------------------------------------------------------
(***************************************************************************)
(* The table of answers (MemoryCache).                                     *)
(***************************************************************************)
Entries == [key : Key, version : 1..MaxChanges + 1, expiry : Nat]
Answers == [key : Key, version : 1..MaxChanges + 1, at : 0..MaxTime]

MemoryTypes ==
    /\ entries \in Seq(Entries)
    /\ truth \in [Key -> Seq(0..MaxTime)]
    /\ \A k \in Key : Len(truth[k]) \in 1..MaxChanges + 1
    /\ now \in 0..MaxTime
    /\ answer \in Answers \cup {None}

\* A version of an answer was true until the time t, or still is.
TrueUntil(k, version, t) ==
    version <= Current(k) /\ (version < Current(k) => truth[k][version + 1] >= t)

\* An entry was true when it was stored, ...
EntryTrue(entry) ==
    /\ entry.expiry <= now + Seconds
    /\ TrueUntil(entry.key, entry.version, entry.expiry - Seconds)

\* ... and an answer less than Seconds before it was given.
AnswerTrue ==
    answer # None =>
        answer.at <= now /\ TrueUntil(answer.key, answer.version, answer.at - Seconds + 1)

OnePerKey == \A m, n \in 1..Len(entries) : entries[m].key = entries[n].key => m = n

MemoryInv ==
    /\ MemoryTypes /\ OnePerKey /\ Len(entries) <= MaxSize
    /\ \A n \in 1..Len(entries) : EntryTrue(entries[n])
    /\ AnswerTrue

LEMMA MemoryNumbers ==
    /\ Seconds \in Nat /\ MaxSize \in Nat /\ MaxTime \in Nat /\ MaxChanges \in Nat
    /\ MaxSize > 0 /\ Seconds > 0
BY MemoryAssumption

LEMMA MemoryInitially == MemoryInit => MemoryInv
<1> SUFFICES ASSUME MemoryInit
             PROVE  MemoryInv
    OBVIOUS
<1>1. entries = <<>> /\ now = 0 /\ answer = None /\ \A k \in Key : truth[k] = <<0>>
    BY DEF MemoryInit
<1>2. truth \in [Key -> Seq(0..MaxTime)]
    BY MemoryNumbers DEF MemoryInit
<1>3. entries \in Seq(Entries) /\ Len(entries) = 0
    BY <1>1
<1>4. \A k \in Key : Len(truth[k]) = 1
    <2>1. Len(<<0>>) = 1
        OBVIOUS
    <2> QED
        BY <1>1, <2>1
<1>5. 0 \in 0..MaxTime /\ 1 \in 1..MaxChanges + 1
    BY MemoryNumbers
<1>6. MemoryTypes
    BY <1>1, <1>2, <1>3, <1>4, <1>5 DEF MemoryTypes
<1> QED
    BY <1>1, <1>3, <1>6, MemoryNumbers DEF MemoryInv, OnePerKey, AnswerTrue

\* Versions come at times that have been.
LEMMA TruthTypes ==
    ASSUME MemoryTypes, NEW k \in Key, NEW i \in 1..Current(k)
    PROVE  truth[k][i] \in 0..MaxTime
<1>1. truth[k] \in Seq(0..MaxTime) /\ i \in 1..Len(truth[k])
    BY DEF MemoryTypes, Current
<1> QED
    BY <1>1, ElementOfSeq

\* Where a key is, if it is anywhere.
LEMMA PlaceOf ==
    ASSUME MemoryTypes, NEW k \in Keys
    PROVE  Place(k) \in 1..Len(entries) /\ entries[Place(k)].key = k
<1>1. DOMAIN entries = 1..Len(entries)
    BY DEF MemoryTypes
<1>2. \E n \in DOMAIN entries : entries[n].key = k
    BY DEF Keys
<1> QED
    BY <1>1, <1>2 DEF Place

\* New versions leave what was true until some time true until then.
LEMMA ChangeKeeps ==
    ASSUME MemoryInv, NEW k \in Key, Change(k)
    PROVE  MemoryInv'
<1>1. /\ Current(k) <= MaxChanges
      /\ truth' = [truth EXCEPT ![k] = Append(truth[k], now)]
      /\ entries' = entries /\ now' = now /\ answer' = answer
    BY DEF Change
<1>2. truth[k] \in Seq(0..MaxTime) /\ now \in 0..MaxTime
    BY DEF MemoryInv, MemoryTypes
<1>3. /\ Append(truth[k], now) \in Seq(0..MaxTime)
      /\ Len(Append(truth[k], now)) = Len(truth[k]) + 1
      /\ \A i \in 1..Len(truth[k]) : Append(truth[k], now)[i] = truth[k][i]
      /\ Append(truth[k], now)[Len(truth[k]) + 1] = now
    BY <1>2, AppendProperties
<1>4. /\ truth'[k] = Append(truth[k], now)
      /\ \A o \in Key \ {k} : truth'[o] = truth[o]
    BY <1>1 DEF MemoryInv, MemoryTypes
<1>5. MemoryTypes'
    BY <1>1, <1>2, <1>3, <1>4, MemoryNumbers DEF MemoryInv, MemoryTypes, Current
<1>6. ASSUME NEW o \in Key, NEW version \in 1..MaxChanges + 1, NEW t \in Int,
             TrueUntil(o, version, t), t <= now
      PROVE  TrueUntil(o, version, t)'
    <2>1. CASE o = k
        <3>1. Len(truth[k]) \in Nat /\ Len(truth'[k]) = Len(truth[k]) + 1
            BY <1>3, <1>4 DEF MemoryInv, MemoryTypes
        <3>2. version <= Len(truth[k])
            BY <1>6, <2>1 DEF TrueUntil, Current
        <3>3. CASE version < Len(truth[k])
            <4>1. truth'[k][version + 1] = truth[k][version + 1]
                BY <1>3, <1>4, <3>1, <3>3
            <4> QED
                BY <1>6, <2>1, <3>1, <3>3, <4>1 DEF TrueUntil, Current
        <3>4. CASE version = Len(truth[k])
            <4>1. truth'[k][version + 1] = now
                BY <1>3, <1>4, <3>4
            <4> QED
                BY <1>2, <1>6, <2>1, <3>1, <3>4, <4>1 DEF TrueUntil, Current
        <3> QED
            BY <3>1, <3>2, <3>3, <3>4, MemoryNumbers
    <2>2. CASE o # k
        BY <1>4, <1>6, <2>2 DEF TrueUntil, Current
    <2> QED
        BY <2>1, <2>2
<1>7. ASSUME NEW n \in 1..Len(entries)
      PROVE  EntryTrue(entries[n])'
    <2>1. entries[n] \in Entries
        BY DEF MemoryInv, MemoryTypes
    <2>2. entries[n].expiry - Seconds \in Int /\ entries[n].expiry - Seconds <= now
        BY <1>2, <2>1, MemoryNumbers DEF MemoryInv, EntryTrue, Entries
    <2> QED
        BY <1>1, <1>6, <2>1, <2>2 DEF MemoryInv, EntryTrue, Entries
<1>8. AnswerTrue'
    <2> SUFFICES ASSUME answer # None
                 PROVE  /\ answer.at <= now
                        /\ TrueUntil(answer.key, answer.version, answer.at - Seconds + 1)'
        BY <1>1 DEF AnswerTrue
    <2>1. answer \in Answers
        BY DEF MemoryInv, MemoryTypes
    <2>2. /\ answer.at <= now
          /\ TrueUntil(answer.key, answer.version, answer.at - Seconds + 1)
        BY DEF MemoryInv, AnswerTrue
    <2>3. answer.at - Seconds + 1 \in Int /\ answer.at - Seconds + 1 <= now
        BY <1>2, <2>1, <2>2, MemoryNumbers DEF Answers
    <2> QED
        BY <1>1, <1>6, <2>1, <2>2, <2>3 DEF Answers
<1> QED
    BY <1>1, <1>5, <1>7, <1>8 DEF MemoryInv, OnePerKey

\* What is stored is true now, stays one per key and under the limit.
LEMMA StoredKeeps ==
    ASSUME MemoryInv, NEW k \in Key
    PROVE  /\ Stored(k) \in Seq(Entries)
           /\ Len(Stored(k)) <= MaxSize
           /\ \A n \in 1..Len(Stored(k)) : EntryTrue(Stored(k)[n])
           /\ \A m, n \in 1..Len(Stored(k)) : Stored(k)[m].key = Stored(k)[n].key => m = n
<1> DEFINE entry == [key |-> k, version |-> Current(k), expiry |-> now + Seconds]
<1> DEFINE all == IF k \in Keys THEN [entries EXCEPT ![Place(k)] = entry]
                  ELSE Append(entries, entry)
<1>1. entry \in Entries /\ EntryTrue(entry)
    BY MemoryNumbers DEF MemoryInv, MemoryTypes, Current, Entries, EntryTrue, TrueUntil
<1>2. entries \in Seq(Entries) /\ Len(entries) \in Nat
    BY DEF MemoryInv, MemoryTypes
<1>3. \A n \in 1..Len(entries) : EntryTrue(entries[n])
    BY DEF MemoryInv
<1>4. entry.key = k
    OBVIOUS
<1> HIDE DEF entry
<1>5. /\ all \in Seq(Entries) /\ Len(all) <= MaxSize + 1
      /\ \A n \in 1..Len(all) : EntryTrue(all[n])
      /\ \A m, n \in 1..Len(all) : all[m].key = all[n].key => m = n
    <2>1. CASE k \in Keys
        <3>1. Place(k) \in 1..Len(entries) /\ entries[Place(k)].key = k
            BY <2>1, PlaceOf DEF MemoryInv
        <3>2. /\ all \in Seq(Entries) /\ Len(all) = Len(entries)
              /\ \A j \in 1..Len(entries) : all[j] = IF j = Place(k) THEN entry ELSE entries[j]
            BY <1>1, <1>2, <2>1, <3>1, ExceptSeq
        <3> HIDE DEF all
        <3>3. \A j \in 1..Len(all) : all[j].key = entries[j].key
            BY <1>4, <3>1, <3>2
        <3> QED
            BY <1>1, <1>2, <1>3, <3>2, <3>3, MemoryNumbers DEF MemoryInv, OnePerKey
    <2>2. CASE k \notin Keys
        <3>1. /\ all \in Seq(Entries) /\ Len(all) = Len(entries) + 1
              /\ \A j \in 1..Len(entries) : all[j] = entries[j]
              /\ all[Len(entries) + 1] = entry
            BY <1>1, <1>2, <2>2, AppendProperties
        <3>2. DOMAIN entries = 1..Len(entries)
            BY <1>2
        <3>3. \A j \in 1..Len(entries) : entries[j].key # k
            BY <2>2, <3>2 DEF Keys
        <3> HIDE DEF all
        <3>4. \A n \in 1..Len(all) : n \in 1..Len(entries) \/ n = Len(entries) + 1
            BY <1>2, <3>1
        <3>5. \A m, n \in 1..Len(all) : all[m].key = all[n].key => m = n
            BY <1>4, <3>1, <3>3, <3>4 DEF MemoryInv, OnePerKey
        <3> QED
            BY <1>1, <1>2, <1>3, <3>1, <3>4, <3>5, MemoryNumbers DEF MemoryInv
    <2> QED
        BY <2>1, <2>2
<1>6. Stored(k) = IF Len(all) > MaxSize THEN Tail(all) ELSE all
    BY DEF Stored, entry
<1> HIDE DEF all
<1>7. CASE Len(all) > MaxSize
    <2>1. all # <<>>
        BY <1>5, <1>7, MemoryNumbers
    <2>2. /\ Tail(all) \in Seq(Entries) /\ Len(Tail(all)) = Len(all) - 1
          /\ \A i \in 1..Len(Tail(all)) : Tail(all)[i] = all[i + 1]
        BY <1>5, <2>1, HeadTailProperties
    <2>3. \A i \in 1..Len(Tail(all)) : i + 1 \in 1..Len(all)
        BY <1>5, <2>2
    <2> QED
        BY <1>5, <1>6, <1>7, <2>2, <2>3, MemoryNumbers
<1>8. CASE ~(Len(all) > MaxSize)
    BY <1>5, <1>6, <1>8, MemoryNumbers
<1> QED
    BY <1>7, <1>8

LEMMA CallKeeps ==
    ASSUME MemoryInv, NEW k \in Key, Call(k)
    PROVE  MemoryInv'
<1>1. truth' = truth /\ now' = now
    BY DEF Call
<1>2. now \in 0..MaxTime /\ Current(k) \in 1..MaxChanges + 1
    BY DEF MemoryInv, MemoryTypes, Current
<1>3. CASE Hits(k) /\ entries' = entries
            /\ answer' = [key |-> k, version |-> entries[Place(k)].version, at |-> now]
    <2> DEFINE entry == entries[Place(k)]
    <2>1. Place(k) \in 1..Len(entries) /\ entry.key = k /\ now < entry.expiry
        BY <1>3, PlaceOf DEF Hits, MemoryInv
    <2>2. entry \in Entries /\ EntryTrue(entry)
        BY <2>1 DEF MemoryInv, MemoryTypes
    <2> HIDE DEF entry
    <2>3. TrueUntil(k, entry.version, now - Seconds + 1)
        <3>1. /\ entry.expiry \in Nat /\ entry.version \in 1..MaxChanges + 1
              /\ TrueUntil(k, entry.version, entry.expiry - Seconds)
            BY <2>1, <2>2 DEF EntryTrue, Entries
        <3>2. entry.version < Current(k) => truth[k][entry.version + 1] \in Nat
            BY <1>2, <3>1, TruthTypes DEF MemoryInv
        <3> QED
            BY <1>2, <2>1, <3>1, <3>2, MemoryNumbers DEF TrueUntil
    <2>4. answer' \in Answers /\ AnswerTrue'
        BY <1>1, <1>2, <1>3, <2>2, <2>3 DEF Answers, AnswerTrue, Entries, TrueUntil, Current, entry
    <2> QED
        BY <1>1, <1>3, <2>4
        DEF MemoryInv, MemoryTypes, OnePerKey, EntryTrue, TrueUntil, Current
<1>4. CASE entries' = Stored(k) /\ answer' = [key |-> k, version |-> Current(k), at |-> now]
    <2>1. answer' \in Answers /\ AnswerTrue'
        BY <1>1, <1>2, <1>4 DEF Answers, AnswerTrue, TrueUntil, Current
    <2>2. MemoryTypes'
        BY <1>1, <1>4, <2>1, StoredKeeps DEF MemoryInv, MemoryTypes
    <2>3. OnePerKey' /\ Len(entries') <= MaxSize
        BY <1>4, StoredKeeps DEF OnePerKey
    <2>4. \A n \in 1..Len(entries') : EntryTrue(entries[n])'
        BY <1>1, <1>4, StoredKeeps DEF EntryTrue, TrueUntil, Current
    <2> QED
        BY <2>1, <2>2, <2>3, <2>4 DEF MemoryInv
<1> QED
    BY <1>3, <1>4 DEF Call

LEMMA MemoryKept ==
    ASSUME MemoryInv, [MemoryNext]_memoryVars
    PROVE  MemoryInv'
<1>1. CASE UNCHANGED memoryVars
    BY <1>1 DEF memoryVars, MemoryInv, MemoryTypes, OnePerKey, EntryTrue, AnswerTrue,
                TrueUntil, Current
<1>2. ASSUME NEW k \in Key, CallFails(k)
      PROVE  MemoryInv'
    BY <1>2 DEF CallFails, MemoryInv, MemoryTypes, OnePerKey, EntryTrue, AnswerTrue,
                TrueUntil, Current
<1>3. CASE CacheClear
    <2>1. entries' = <<>> /\ Len(entries') = 0 /\ entries' \in Seq(Entries)
        BY <1>3 DEF CacheClear
    <2> QED
        BY <1>3, <2>1, MemoryNumbers
        DEF CacheClear, MemoryInv, MemoryTypes, OnePerKey, AnswerTrue, TrueUntil, Current
<1>4. CASE PassSecond
    <2>1. /\ now' = now + 1 /\ now' \in 0..MaxTime
          /\ entries' = entries /\ truth' = truth /\ answer' = answer
        BY <1>4, MemoryNumbers DEF PassSecond, MemoryInv, MemoryTypes
    <2>2. MemoryTypes' /\ OnePerKey'
        BY <2>1 DEF MemoryInv, MemoryTypes, OnePerKey
    <2>3. ASSUME NEW n \in 1..Len(entries)
          PROVE  EntryTrue(entries[n])'
        <3>1. entries[n] \in Entries /\ now \in Nat
            BY DEF MemoryInv, MemoryTypes
        <3>2. EntryTrue(entries[n]) /\ entries[n].expiry \in Nat /\ Seconds \in Nat
            BY <3>1, MemoryNumbers DEF MemoryInv, Entries
        <3>3. TrueUntil(entries[n].key, entries[n].version, entries[n].expiry - Seconds)'
            BY <2>1, <3>2 DEF EntryTrue, TrueUntil, Current
        <3>4. entries[n].expiry <= now' + Seconds
            BY <2>1, <3>1, <3>2 DEF EntryTrue
        <3> QED
            BY <2>1, <3>3, <3>4 DEF EntryTrue
    <2>4. AnswerTrue'
        <3>1. answer # None => answer.at \in Nat /\ now \in Nat
            BY DEF MemoryInv, MemoryTypes, Answers
        <3> QED
            BY <2>1, <3>1 DEF MemoryInv, AnswerTrue, TrueUntil, Current
    <2> QED
        BY <2>1, <2>2, <2>3, <2>4 DEF MemoryInv
<1> QED
    BY <1>1, <1>2, <1>3, <1>4, ChangeKeeps, CallKeeps DEF MemoryNext

LEMMA MemoryHolds == MemoryInv => MemoryTypeOK /\ AnswersWereTrue
<1> SUFFICES ASSUME MemoryInv
             PROVE  MemoryTypeOK /\ AnswersWereTrue
    OBVIOUS
<1>1. entries \in Seq(Entries) /\ Len(entries) \in Nat /\ DOMAIN entries = 1..Len(entries)
    BY DEF MemoryInv, MemoryTypes
<1>2. MemoryTypeOK
    <2>1. \A n \in DOMAIN entries : entries[n] \in Entries
        BY <1>1
    <2>2. answer \in [key : Key \cup {"none"}, version : 0..MaxChanges + 1, at : 0..MaxTime]
        <3>1. CASE answer = None
            BY <3>1, MemoryNumbers DEF None
        <3>2. CASE answer \in Answers
            BY <3>2, MemoryNumbers DEF Answers
        <3> QED
            BY <3>1, <3>2 DEF MemoryInv, MemoryTypes
    <2> QED
        BY <2>1, <2>2 DEF MemoryTypeOK, MemoryInv, MemoryTypes, Entries
<1>3. Cardinality(Keys) = Len(entries)
    <2> DEFINE key == [n \in 1..Len(entries) |-> entries[n].key]
    <2>1. key \in [1..Len(entries) -> Keys]
        BY <1>1 DEF Keys
    <2>2. \A m, n \in 1..Len(entries) : m # n => key[m] # key[n]
        BY DEF MemoryInv, OnePerKey
    <2>3. \A k \in Keys : \E n \in 1..Len(entries) : key[n] = k
        BY <1>1 DEF Keys
    <2> HIDE DEF key
    <2>4. ExistsBijection(1..Len(entries), Keys)
        BY <2>1, <2>2, <2>3 DEF ExistsBijection, Bijection, Injection, Surjection, IsInjective
    <2> QED
        BY <1>1, <2>4, FS_CountingElements
<1>4. ASSUME answer # None, answer.version < Current(answer.key)
      PROVE  truth[answer.key][answer.version + 1] > answer.at - Seconds
    <2>1. answer \in Answers
        BY <1>4 DEF MemoryInv, MemoryTypes
    <2>2. truth[answer.key][answer.version + 1] >= answer.at - Seconds + 1
        BY <1>4 DEF MemoryInv, AnswerTrue, TrueUntil
    <2>3. truth[answer.key][answer.version + 1] \in Nat
        <3>1. Current(answer.key) \in Nat
            BY <2>1 DEF Answers, MemoryInv, MemoryTypes, Current
        <3> QED
            BY <1>4, <2>1, <3>1, TruthTypes DEF Answers, MemoryInv
    <2> QED
        BY <2>1, <2>2, <2>3, MemoryNumbers DEF Answers
<1> QED
    BY <1>2, <1>3, <1>4 DEF AnswersWereTrue, MemoryInv

-----------------------------------------------------------------------------
(***************************************************************************)
(* A cache of images (ImageCache): types, and the phases of a request.     *)
(***************************************************************************)
Steps == {"idle", "read", "touch", "draw", "savefig", "close", "store", "fill", "record", "write",
          "count", "clean"}
Counts == [requests : Nat, hits : Nat, misses : Nat, there : BOOLEAN]
Rendering == [step : Steps, image : Image, holds : Content, hit : BOOLEAN, row : Counts]
Times == UNION {[I -> 0..MaxClock] : I \in SUBSET Image}
Sweeping == [step : {"none", "age", "time", "drop", "note", "noted", "stopped"},
             now : 0..MaxClock, left : SUBSET Image, kept : SUBSET Image, times : Times,
             row : BOOLEAN]

\* A request is a hit from the touch of its file until it is recorded; who
\* has yet to draw holds nothing, and who stores a file holds its image.
PhaseOK(request) ==
    /\ request.hit => request.step \in {"record", "write"}
    /\ request.step \in {"idle", "draw"} => request.holds = NoImage
    /\ request.step \in {"store", "fill", "touch"} => request.holds # NoImage

ImageTypes ==
    /\ DOMAIN files \subseteq Image
    /\ \A i \in DOMAIN files : files[i] \in [of : Content \ {NoImage}, at : 0..MaxClock]
    /\ figures \in Seq(Image \cup {Blank})
    /\ renders \in [Renderer -> Rendering]
    /\ \A r \in Renderer : PhaseOK(renders[r])
    /\ stats \in Counts
    /\ sweeps \in [Cleaner -> Sweeping]
    /\ clock \in 0..MaxClock /\ asks \in 0..MaxAsks /\ broken \in Nat

\* Who cleans up for a request is at that step of it.
SweepsMatch == \A r \in Renderer : sweeps[r].step # "none" => renders[r].step = "clean"

\* One request changes, and the others stay as they are.
OnlyMoves(r) ==
    /\ renders' \in [Renderer -> Rendering] /\ PhaseOK(renders'[r])
    /\ \A o \in Renderer \ {r} : renders'[o] = renders[o]

LEMMA ImageNumbers ==
    /\ IsFiniteSet(Image) /\ Image # {} /\ IsFiniteSet(Renderer)
    /\ Ttl \in Nat /\ MaxItems \in Nat /\ MaxClock \in Nat /\ MaxAsks \in Nat
    /\ Trigger \in Nat /\ MaxItems < Trigger
<1>1. /\ MaxItems \in Nat /\ TriggerPercent \in Nat /\ MaxItems > 0 /\ TriggerPercent > 100
    BY ImageCacheAssumption
<1>2. MaxItems * TriggerPercent >= MaxItems * 100
    BY <1>1
<1>3. (MaxItems * TriggerPercent) \div 100 >= MaxItems /\ (MaxItems * TriggerPercent) \div 100 \in Nat
    BY <1>1, <1>2
<1> QED
    BY <1>1, <1>3, ImageCacheAssumption DEF Trigger

LEMMA IdleTypes ==
    /\ Idle \in Rendering /\ PhaseOK(Idle)
    /\ Idle.step = "idle" /\ Idle.hit = FALSE /\ Idle.holds = NoImage /\ Idle.row = NoRow
    /\ NoRow \in Counts
    /\ NoRow.requests = 0 /\ NoRow.hits = 0 /\ NoRow.misses = 0 /\ NoRow.there = FALSE
    /\ Idle.image \in Image
<1>1. Idle.image \in Image
    BY ImageNumbers DEF Idle
<1> QED
    BY <1>1 DEF Idle, NoRow, Rendering, Counts, Steps, Content, PhaseOK

LEMMA GoTo ==
    ASSUME ImageTypes, NEW r \in Renderer, NEW step \in Steps, Go(r, step),
           renders[r].hit => step \in {"record", "write"},
           step \in {"idle", "draw"} => renders[r].holds = NoImage,
           step \in {"store", "fill", "touch"} => renders[r].holds # NoImage
    PROVE  /\ OnlyMoves(r) /\ renders'[r].step = step
           /\ renders'[r].image = renders[r].image /\ renders'[r].holds = renders[r].holds
           /\ renders'[r].hit = renders[r].hit /\ renders'[r].row = renders[r].row
<1>1. renders \in [Renderer -> Rendering]
    BY DEF ImageTypes
<1>2. renders' = [renders EXCEPT ![r].step = step]
    BY DEF Go
<1>3. /\ renders'[r].step = step
      /\ renders'[r].image = renders[r].image /\ renders'[r].holds = renders[r].holds
      /\ renders'[r].hit = renders[r].hit /\ renders'[r].row = renders[r].row
      /\ renders' \in [Renderer -> Rendering]
      /\ \A o \in Renderer \ {r} : renders'[o] = renders[o]
    BY <1>1, <1>2 DEF Rendering
<1> QED
    BY <1>3 DEF OnlyMoves, PhaseOK

LEMMA StopAt ==
    ASSUME ImageTypes, NEW r \in Renderer, Stop(r)
    PROVE  OnlyMoves(r) /\ renders'[r] = Idle
BY IdleTypes DEF ImageTypes, Stop, OnlyMoves

-----------------------------------------------------------------------------
(* What each step of a request does to it.                                 *)
LEMMA LookupMoves ==
    ASSUME ImageTypes, NEW r \in Renderer, NEW i \in Image, Lookup(r, i)
    PROVE  /\ OnlyMoves(r) /\ renders[r].step = "idle" /\ renders'[r].step \in {"read", "draw"}
           /\ ~renders'[r].hit /\ renders'[r].row = NoRow
<1> DEFINE step == IF i \in DOMAIN files /\ ~Expired(i) THEN "read" ELSE "draw"
<1>1. /\ renders[r].step = "idle"
      /\ renders' = [renders EXCEPT ![r] = [Idle EXCEPT !.image = i, !.step = step]]
    BY DEF Lookup, At
<1>2. step \in {"read", "draw"}
    OBVIOUS
<1> HIDE DEF step
<1>3. [Idle EXCEPT !.image = i, !.step = step] \in Rendering
    BY <1>2, IdleTypes DEF Rendering, Steps
<1>4. /\ renders'[r] = [Idle EXCEPT !.image = i, !.step = step]
      /\ renders' \in [Renderer -> Rendering]
      /\ \A o \in Renderer \ {r} : renders'[o] = renders[o]
    BY <1>1, <1>3 DEF ImageTypes
<1>5. /\ renders'[r].step = step /\ renders'[r].hit = FALSE
      /\ renders'[r].holds = NoImage /\ renders'[r].row = NoRow
    BY <1>4, IdleTypes DEF Rendering
<1> QED
    BY <1>1, <1>2, <1>4, <1>5 DEF OnlyMoves, PhaseOK

LEMMA ReadFileMoves ==
    ASSUME ImageTypes, NEW r \in Renderer, ReadFile(r)
    PROVE  /\ OnlyMoves(r) /\ renders[r].step = "read"
           /\ renders'[r].row = renders[r].row \/ renders'[r].row = NoRow
           /\ renders'[r].step \in {"touch", "idle"}
<1> DEFINE i == renders[r].image
<1>1. renders[r].step = "read" /\ renders \in [Renderer -> Rendering] /\ PhaseOK(renders[r])
    BY DEF ReadFile, At, ImageTypes
<1>2. CASE i \in DOMAIN files
    <2>1. renders' = [renders EXCEPT ![r].holds = files[i].of, ![r].step = "touch"]
        BY <1>2 DEF ReadFile
    <2>2. files[i].of \in Content \ {NoImage}
        BY <1>2 DEF ImageTypes
    <2>3. /\ renders' \in [Renderer -> Rendering] /\ renders'[r].step = "touch"
          /\ renders'[r].holds = files[i].of /\ renders'[r].hit = renders[r].hit
          /\ renders'[r].row = renders[r].row
          /\ \A o \in Renderer \ {r} : renders'[o] = renders[o]
        BY <1>1, <2>1, <2>2 DEF Rendering, Steps
    <2> QED
        BY <1>1, <2>2, <2>3 DEF OnlyMoves, PhaseOK
<1>3. CASE i \notin DOMAIN files
    <2>1. Stop(r)
        BY <1>3 DEF ReadFile
    <2> QED
        BY <1>1, <2>1, StopAt, IdleTypes
<1> QED
    BY <1>2, <1>3

LEMMA TouchMoves ==
    ASSUME ImageTypes, NEW r \in Renderer, Touch(r)
    PROVE  /\ OnlyMoves(r) /\ renders[r].step = "touch" /\ renders'[r].step = "record"
           /\ renders'[r].hit /\ renders'[r].row = renders[r].row
<1>1. renders[r].step = "touch" /\ renders \in [Renderer -> Rendering]
      /\ renders' = [renders EXCEPT ![r].step = "record", ![r].hit = TRUE]
    BY DEF Touch, At, ImageTypes
<1>2. /\ renders' \in [Renderer -> Rendering] /\ renders'[r].step = "record"
      /\ renders'[r].hit = TRUE /\ renders'[r].row = renders[r].row
      /\ \A o \in Renderer \ {r} : renders'[o] = renders[o]
    BY <1>1 DEF Rendering, Steps
<1> QED
    BY <1>1, <1>2 DEF OnlyMoves, PhaseOK

\* However the drawing ends, the request holds nothing yet.
LEMMA DrawMoves ==
    ASSUME ImageTypes, NEW r \in Renderer, At(r, "draw"),
           NEW step \in {"savefig", "close", "record"}, Go(r, step)
    PROVE  /\ OnlyMoves(r) /\ renders[r].step = "draw" /\ renders'[r].step = step
           /\ ~renders'[r].hit /\ renders'[r].holds = NoImage /\ renders'[r].row = renders[r].row
<1>1. renders[r].step = "draw" /\ ~renders[r].hit /\ renders[r].holds = NoImage
    BY DEF At, ImageTypes, PhaseOK
<1>2. step \in Steps
    BY DEF Steps
<1> QED
    BY <1>1, <1>2, GoTo

\* The figure that is saved is one of somebody's image, or a blank one.
LEMMA SaveFigureMoves ==
    ASSUME ImageTypes, NEW r \in Renderer, SaveFigure(r)
    PROVE  /\ OnlyMoves(r) /\ renders[r].step = "savefig" /\ renders'[r].step = "close"
           /\ ~renders'[r].hit /\ renders'[r].row = renders[r].row
           /\ figures' \in Seq(Image \cup {Blank})
           /\ Len(figures') = IF Len(figures) = 0 THEN 1 ELSE Len(figures)
<1>1. /\ renders[r].step = "savefig" /\ renders \in [Renderer -> Rendering] /\ ~renders[r].hit
      /\ figures' = IF figures = <<>> THEN <<Blank>> ELSE figures
      /\ renders' = [renders EXCEPT ![r].step = "close", ![r].holds = Last(figures')]
      /\ figures \in Seq(Image \cup {Blank})
    BY DEF SaveFigure, At, ImageTypes, PhaseOK
<1>2. /\ figures' \in Seq(Image \cup {Blank}) /\ figures' # <<>>
      /\ Len(figures') = IF Len(figures) = 0 THEN 1 ELSE Len(figures)
    <2>1. <<Blank>> \in Seq(Image \cup {Blank}) /\ Len(<<Blank>>) = 1 /\ <<Blank>> # <<>>
        OBVIOUS
    <2>2. figures = <<>> <=> Len(figures) = 0
        BY <1>1, EmptySeq
    <2> QED
        BY <1>1, <2>1, <2>2
<1>3. Last(figures') \in Content
    <2>1. Len(figures') \in 1..Len(figures')
        BY <1>2, EmptySeq
    <2>2. Last(figures') \in Image \cup {Blank}
        BY <1>2, <2>1, ElementOfSeq DEF Last
    <2> QED
        BY <2>2 DEF Content
<1> DEFINE drawn == Last(figures')
<1>4. drawn \in Content /\ renders' = [renders EXCEPT ![r].step = "close", ![r].holds = drawn]
    BY <1>1, <1>3
<1>5. renders \in [Renderer -> Rendering]
    BY <1>1
<1> HIDE DEF drawn
<1>6. /\ renders' \in [Renderer -> Rendering] /\ renders'[r].step = "close"
      /\ renders'[r].hit = renders[r].hit /\ renders'[r].row = renders[r].row
      /\ \A o \in Renderer \ {r} : renders'[o] = renders[o]
    BY ONLY <1>4, <1>5, r \in Renderer DEF Rendering, Steps
<1> QED
    BY <1>1, <1>2, <1>6 DEF OnlyMoves, PhaseOK

LEMMA CloseFigureMoves ==
    ASSUME ImageTypes, NEW r \in Renderer, CloseFigure(r)
    PROVE  /\ OnlyMoves(r) /\ renders[r].step = "close"
           /\ renders'[r].step \in {"idle", "store"} /\ ~renders'[r].hit
           /\ renders'[r].row = renders[r].row \/ renders'[r].row = NoRow
           /\ figures' \in Seq(Image \cup {Blank})
           /\ Len(figures') = IF Len(figures) = 0 THEN 0 ELSE Len(figures) - 1
<1>1. /\ renders[r].step = "close" /\ ~renders[r].hit /\ figures \in Seq(Image \cup {Blank})
      /\ figures' = IF figures = <<>> THEN <<>> ELSE Front(figures)
    BY DEF CloseFigure, At, ImageTypes, PhaseOK
<1>2. /\ figures' \in Seq(Image \cup {Blank})
      /\ Len(figures') = IF Len(figures) = 0 THEN 0 ELSE Len(figures) - 1
    <2>1. CASE figures = <<>>
        BY <1>1, <2>1, EmptySeq
    <2>2. CASE figures # <<>>
        <3>0. Len(figures) \in Nat /\ Len(figures) >= 1
            BY <1>1, <2>2, EmptySeq
        <3>1. figures' = SubSeq(figures, 1, Len(figures) - 1)
            BY <1>1, <2>2 DEF Front
        <3>2. \A i \in 1..(Len(figures) - 1) : figures[i] \in Image \cup {Blank}
            BY <1>1, <3>0, ElementOfSeq
        <3>3. 1 \in Int /\ Len(figures) - 1 \in Int
            BY <3>0
        <3> HIDE <2>2
        <3>4. /\ SubSeq(figures, 1, Len(figures) - 1) \in Seq(Image \cup {Blank})
              /\ Len(SubSeq(figures, 1, Len(figures) - 1))
                    = IF 1 <= Len(figures) - 1 THEN Len(figures) - 1 - 1 + 1 ELSE 0
            BY <3>2, <3>3, SubSeqProperties
        <3>5. CASE Len(figures) = 1
            BY <3>1, <3>4, <3>5
        <3>6. CASE Len(figures) > 1
            BY <3>0, <3>1, <3>4, <3>6
        <3>7. Len(figures) = 1 \/ Len(figures) > 1
            <4>1. \A n \in Nat : n >= 1 => n = 1 \/ n > 1
                OBVIOUS
            <4> QED
                BY <3>0, <4>1
        <3> QED
            BY <3>5, <3>6, <3>7, Zenon
    <2> QED
        BY <2>1, <2>2
<1>3. CASE renders[r].holds = NoImage
    <2>1. Stop(r)
        BY <1>3 DEF CloseFigure
    <2> QED
        BY <1>1, <1>2, <2>1, StopAt, IdleTypes
<1>4. CASE renders[r].holds # NoImage
    <2>1. Go(r, "store") /\ "store" \in Steps
        BY <1>4 DEF CloseFigure, Steps
    <2> QED
        BY <1>1, <1>2, <1>4, <2>1, GoTo
<1> QED
    BY <1>3, <1>4

LEMMA StoreFileMoves ==
    ASSUME ImageTypes, NEW r \in Renderer, OpenFile(r) \/ StoreFile(r)
    PROVE  /\ OnlyMoves(r)
           /\ OpenFile(r) => renders[r].step = "store" /\ renders'[r].step = "fill"
           /\ StoreFile(r) => renders[r].step = "fill" /\ renders'[r].step = "record"
           /\ ~renders'[r].hit /\ renders[r].holds \in Content \ {NoImage}
           /\ renders'[r].row = renders[r].row
<1>1. /\ \/ OpenFile(r) /\ renders[r].step = "store" /\ Go(r, "fill")
         \/ StoreFile(r) /\ renders[r].step = "fill" /\ Go(r, "record")
      /\ "fill" \in Steps /\ "record" \in Steps
    BY DEF OpenFile, StoreFile, At, Steps
<1>2. ~renders[r].hit /\ renders[r].holds # NoImage /\ renders[r] \in Rendering
    BY <1>1 DEF ImageTypes, PhaseOK
<1>3. /\ OpenFile(r) => renders[r].step = "store" /\ Go(r, "fill")
      /\ StoreFile(r) => renders[r].step = "fill" /\ Go(r, "record")
    BY DEF OpenFile, StoreFile, At
<1>4. CASE OpenFile(r)
    <2>1. renders[r].step = "store" /\ Go(r, "fill")
        BY <1>3, <1>4
    <2>2. ~StoreFile(r)
        BY <1>3, <2>1
    <2> QED
        BY <1>1, <1>2, <1>4, <2>1, <2>2, GoTo DEF Rendering
<1>5. CASE StoreFile(r)
    <2>1. renders[r].step = "fill" /\ Go(r, "record")
        BY <1>3, <1>5
    <2>2. ~OpenFile(r)
        BY <1>3, <2>1
    <2> QED
        BY <1>1, <1>2, <1>5, <2>1, <2>2, GoTo DEF Rendering
<1> QED
    BY <1>4, <1>5

LEMMA ReadStatsMoves ==
    ASSUME ImageTypes, NEW r \in Renderer, ReadStats(r)
    PROVE  /\ OnlyMoves(r) /\ renders[r].step = "record" /\ renders'[r].step = "write"
           /\ renders'[r].hit = renders[r].hit /\ renders'[r].holds = renders[r].holds
           /\ renders'[r].row = stats
<1>1. /\ renders[r].step = "record" /\ renders \in [Renderer -> Rendering] /\ stats \in Counts
      /\ renders' = [renders EXCEPT ![r].step = "write", ![r].row = stats]
    BY DEF ReadStats, At, ImageTypes
<1>2. /\ renders' \in [Renderer -> Rendering] /\ renders'[r].step = "write"
      /\ renders'[r].hit = renders[r].hit /\ renders'[r].holds = renders[r].holds
      /\ renders'[r].row = stats
      /\ \A o \in Renderer \ {r} : renders'[o] = renders[o]
    BY <1>1 DEF Rendering, Steps
<1> QED
    BY <1>1, <1>2 DEF OnlyMoves, PhaseOK

\* Who stored an image goes on to the cleanup, and nobody else does.
LEMMA WriteStatsMoves ==
    ASSUME ImageTypes, NEW r \in Renderer, WriteStats(r)
    PROVE  /\ OnlyMoves(r) /\ renders[r].step = "write"
           /\ ~renders'[r].hit
           /\ \/ /\ renders'[r].step = "idle" /\ renders'[r].row = NoRow
                 /\ renders[r].hit \/ renders[r].holds = NoImage
              \/ /\ renders'[r].step = "count" /\ renders'[r].holds = renders[r].holds
                 /\ ~renders[r].hit /\ renders[r].holds # NoImage
                 /\ renders'[r].row = renders[r].row
<1>1. renders[r].step = "write" /\ AfterRecord(r)
    BY DEF WriteStats, At
<1>2. CASE renders[r].hit \/ renders[r].holds = NoImage
    <2>1. Stop(r)
        BY <1>1, <1>2 DEF AfterRecord
    <2> QED
        BY <1>1, <1>2, <2>1, StopAt, IdleTypes
<1>3. CASE ~(renders[r].hit \/ renders[r].holds = NoImage)
    <2>1. Go(r, "count") /\ "count" \in Steps
        BY <1>1, <1>3 DEF AfterRecord, Steps
    <2> QED
        BY <1>1, <1>3, <2>1, GoTo
<1> QED
    BY <1>2, <1>3

\* A writer that looks at the count starts to clean up, or is done.
LEMMA CountMoves ==
    ASSUME ImageTypes, NEW r \in Renderer, CountFiles(r)
    PROVE  /\ OnlyMoves(r) /\ renders[r].step = "count"
           /\ ~renders'[r].hit /\ (renders'[r].row = renders[r].row \/ renders'[r].row = NoRow)
           /\ \/ renders'[r].step = "clean" /\ Lists(r)
              \/ renders'[r].step = "idle" /\ UNCHANGED sweeps
           /\ UNCHANGED <<files, figures, stats, clock, asks, broken>>
<1>1. /\ renders[r].step = "count" /\ ~renders[r].hit /\ "clean" \in Steps
      /\ \/ Lists(r) /\ Go(r, "clean")
         \/ Stop(r) /\ UNCHANGED sweeps
      /\ UNCHANGED <<files, figures, stats, clock, asks, broken>>
    BY DEF CountFiles, At, ImageTypes, PhaseOK, Steps
<1>2. CASE Lists(r) /\ Go(r, "clean")
    BY <1>1, <1>2, GoTo
<1>3. CASE Stop(r) /\ UNCHANGED sweeps
    BY <1>1, <1>3, StopAt, IdleTypes
<1> QED
    BY <1>1, <1>2, <1>3

-----------------------------------------------------------------------------
(* The cleanups.                                                           *)
LEMMA SweepTypes ==
    /\ NoSweep \in Sweeping /\ NoSweep.step = "none"
    /\ NoSweep.left = {} /\ NoSweep.kept = {} /\ NoSweep.now = 0
    /\ TheJanitor \in Cleaner /\ TheJanitor \notin Renderer
    /\ \A r \in Renderer : r \in Cleaner
<1>1. <<>> \in Times
    <2>1. <<>> \in [{} -> 0..MaxClock] /\ {} \in SUBSET Image
        OBVIOUS
    <2> QED
        BY <2>1 DEF Times
<1>2. 0 \in 0..MaxClock
    BY ImageNumbers
<1>3. TheJanitor \notin Renderer
    BY ImageCacheAssumption
<1> QED
    BY <1>1, <1>2, <1>3 DEF NoSweep, Sweeping, Cleaner

\* One cleanup changes, and the others stay as they are.
LEMMA SweepTo ==
    ASSUME ImageTypes, NEW c \in Cleaner, NEW sweep \in Sweeping,
           sweeps' = [sweeps EXCEPT ![c] = sweep]
    PROVE  /\ sweeps' \in [Cleaner -> Sweeping] /\ sweeps'[c] = sweep
           /\ \A o \in Cleaner \ {c} : sweeps'[o] = sweeps[o]
BY DEF ImageTypes

LEMMA ListsMoves ==
    ASSUME ImageTypes, NEW c \in Cleaner, Lists(c)
    PROVE  /\ sweeps' \in [Cleaner -> Sweeping]
           /\ \A o \in Cleaner \ {c} : sweeps'[o] = sweeps[o]
<1> DEFINE sweep == [NoSweep EXCEPT !.step = "age", !.now = clock, !.left = DOMAIN files]
<1>1. clock \in 0..MaxClock /\ DOMAIN files \in SUBSET Image
    BY DEF ImageTypes
<1>2. sweep \in Sweeping
    BY <1>1, SweepTypes DEF Sweeping
<1> QED
    BY <1>2, SweepTo DEF Lists

\* Of its request, a cleanup changes nothing, or it was the last of it.
Finishes(c) ==
    \/ renders' = renders
    \/ c \in Renderer /\ Stop(c) /\ sweeps'[c] = NoSweep

LEMMA RaisesMoves ==
    ASSUME ImageTypes, NEW c \in Cleaner, Raises(c)
    PROVE  /\ sweeps' \in [Cleaner -> Sweeping]
           /\ \A o \in Cleaner \ {c} : sweeps'[o] = sweeps[o]
           /\ Finishes(c) /\ broken' \in Nat
<1>1. CASE c = TheJanitor
    <2> DEFINE sweep == [NoSweep EXCEPT !.step = "stopped"]
    <2>1. sweep \in Sweeping
        BY SweepTypes DEF Sweeping
    <2>2. sweeps' = [sweeps EXCEPT ![c] = sweep] /\ UNCHANGED <<renders, broken>>
        BY <1>1 DEF Raises
    <2> HIDE DEF sweep
    <2> QED
        BY <2>1, <2>2, SweepTo DEF Finishes, ImageTypes
<1>2. CASE c # TheJanitor
    <2>1. /\ sweeps' = [sweeps EXCEPT ![c] = NoSweep] /\ Stop(c) /\ broken' = broken + 1
          /\ c \in Renderer
        BY <1>2 DEF Raises, Cleaner
    <2>2. broken' \in Nat
        BY <2>1 DEF ImageTypes
    <2> QED
        BY <2>1, <2>2, SweepTo, SweepTypes DEF Finishes
<1> QED
    BY <1>1, <1>2

LEMMA EndsMoves ==
    ASSUME ImageTypes, NEW c \in Cleaner, NEW failed \in BOOLEAN, Ends(c, failed)
    PROVE  /\ sweeps' \in [Cleaner -> Sweeping]
           /\ \A o \in Cleaner \ {c} : sweeps'[o] = sweeps[o]
           /\ Finishes(c)
<1> DEFINE sweep == IF failed /\ c = TheJanitor
                    THEN [NoSweep EXCEPT !.step = "stopped"] ELSE NoSweep
<1>1. sweep \in Sweeping
    BY SweepTypes DEF Sweeping
<1>2. sweeps' = [sweeps EXCEPT ![c] = sweep]
    BY DEF Ends
<1>3. c # TheJanitor => sweep = NoSweep
    OBVIOUS
<1> HIDE DEF sweep
<1>4. /\ sweeps' \in [Cleaner -> Sweeping] /\ sweeps'[c] = sweep
      /\ \A o \in Cleaner \ {c} : sweeps'[o] = sweeps[o]
    BY <1>1, <1>2, SweepTo
<1>5. Finishes(c)
    <2>1. CASE c = TheJanitor
        BY <2>1 DEF Ends, Finishes
    <2>2. CASE c # TheJanitor
        BY <1>3, <1>4, <2>2 DEF Ends, Finishes, Cleaner
    <2> QED
        BY <2>1, <2>2
<1> QED
    BY <1>4, <1>5

\* What any step of a cleanup leaves as it should be.
Cleans(c) ==
    /\ sweeps' \in [Cleaner -> Sweeping]
    /\ \A o \in Cleaner \ {c} : sweeps'[o] = sweeps[o]
    /\ Finishes(c) /\ broken' \in Nat
    /\ files' = files \/ \E I : files' = Without(I)
    /\ stats' = stats \/ stats' = [stats EXCEPT !.there = TRUE]
    /\ UNCHANGED <<figures, clock, asks>>

LEMMA AgeFileCleans ==
    ASSUME ImageTypes, NEW c \in Cleaner, AgeFile(c)
    PROVE  Cleans(c)
<1>1. PICK i \in sweeps[c].left :
        IF i \notin DOMAIN files THEN Raises(c) /\ UNCHANGED files
        ELSE /\ IF sweeps[c].now - files[i].at > Ttl
                THEN /\ files' = Without({i})
                     /\ sweeps' = [sweeps EXCEPT ![c].left = @ \ {i}]
                ELSE /\ sweeps' = [sweeps EXCEPT ![c].left = @ \ {i}, ![c].kept = @ \cup {i}]
                     /\ UNCHANGED files
             /\ UNCHANGED <<renders, broken>>
    BY DEF AgeFile
<1>2. UNCHANGED <<figures, stats, clock, asks>>
    BY DEF AgeFile
<1>3. sweeps[c] \in Sweeping /\ sweeps \in [Cleaner -> Sweeping] /\ broken \in Nat
    BY DEF ImageTypes
<1>4. CASE i \notin DOMAIN files
    BY <1>1, <1>2, <1>4, RaisesMoves DEF Cleans
<1>5. CASE i \in DOMAIN files
    <2>1. PICK kept \in {sweeps[c].kept, sweeps[c].kept \cup {i}} :
            sweeps' = [sweeps EXCEPT ![c] =
                [sweeps[c] EXCEPT !.left = sweeps[c].left \ {i}, !.kept = kept]]
        <3>1. \/ sweeps' = [sweeps EXCEPT ![c].left = @ \ {i}]
              \/ sweeps' = [sweeps EXCEPT ![c].left = @ \ {i}, ![c].kept = @ \cup {i}]
            BY <1>1, <1>5
        <3>2. CASE sweeps' = [sweeps EXCEPT ![c].left = @ \ {i}]
            <4>1. sweeps' = [sweeps EXCEPT ![c] =
                      [sweeps[c] EXCEPT !.left = sweeps[c].left \ {i}, !.kept = sweeps[c].kept]]
                BY <1>3, <3>2 DEF Sweeping
            <4> QED
                BY <4>1
        <3>3. CASE sweeps' = [sweeps EXCEPT ![c].left = @ \ {i}, ![c].kept = @ \cup {i}]
            <4>1. sweeps' = [sweeps EXCEPT ![c] =
                      [sweeps[c] EXCEPT !.left = sweeps[c].left \ {i},
                                        !.kept = sweeps[c].kept \cup {i}]]
                BY <1>3, <3>3 DEF Sweeping
            <4> QED
                BY <4>1
        <3> QED
            BY <3>1, <3>2, <3>3
    <2> DEFINE sweep == [sweeps[c] EXCEPT !.left = sweeps[c].left \ {i}, !.kept = kept]
    <2>2. sweep \in Sweeping
        BY <1>3 DEF Sweeping
    <2>3. sweeps' = [sweeps EXCEPT ![c] = sweep]
        BY <2>1
    <2> HIDE DEF sweep
    <2> QED
        BY <1>1, <1>2, <1>3, <1>5, <2>2, <2>3, SweepTo DEF Cleans, Finishes
<1> QED
    BY <1>4, <1>5

LEMMA TimeFileCleans ==
    ASSUME ImageTypes, NEW c \in Cleaner, TimeFile(c)
    PROVE  Cleans(c)
<1>1. PICK i \in sweeps[c].left :
        IF i \notin DOMAIN files THEN Raises(c)
        ELSE /\ sweeps' = [sweeps EXCEPT ![c].left = @ \ {i},
                   ![c].times = [j \in DOMAIN @ \cup {i} |->
                                    IF j = i THEN files[i].at ELSE @[j]]]
             /\ UNCHANGED <<renders, broken>>
    BY DEF TimeFile
<1>2. UNCHANGED <<files, figures, stats, clock, asks>>
    BY DEF TimeFile
<1>3. sweeps[c] \in Sweeping /\ sweeps \in [Cleaner -> Sweeping] /\ broken \in Nat
    BY DEF ImageTypes
<1>4. CASE i \notin DOMAIN files
    BY <1>1, <1>2, <1>4, RaisesMoves DEF Cleans
<1>5. CASE i \in DOMAIN files
    <2> DEFINE old == sweeps[c].times
    <2> DEFINE times == [j \in DOMAIN old \cup {i} |-> IF j = i THEN files[i].at ELSE old[j]]
    <2>1. times \in Times
        <3>1. PICK I \in SUBSET Image : old \in [I -> 0..MaxClock]
            BY <1>3 DEF Sweeping, Times
        <3>2. i \in Image /\ files[i].at \in 0..MaxClock
            BY <1>5 DEF ImageTypes
        <3>3. times \in [I \cup {i} -> 0..MaxClock] /\ I \cup {i} \in SUBSET Image
            BY <3>1, <3>2
        <3> QED
            BY <3>3 DEF Times
    <2>2. sweeps' = [sweeps EXCEPT ![c] =
              [sweeps[c] EXCEPT !.left = sweeps[c].left \ {i}, !.times = times]]
        BY <1>1, <1>3, <1>5 DEF Sweeping
    <2> HIDE DEF times
    <2> DEFINE sweep == [sweeps[c] EXCEPT !.left = sweeps[c].left \ {i}, !.times = times]
    <2>3. sweep \in Sweeping
        BY <1>3, <2>1 DEF Sweeping
    <2>4. sweeps' = [sweeps EXCEPT ![c] = sweep]
        BY <2>2
    <2> HIDE DEF sweep
    <2> QED
        BY <1>1, <1>2, <1>3, <1>5, <2>3, <2>4, SweepTo DEF Cleans, Finishes
<1> QED
    BY <1>4, <1>5

\* The steps that only go on with a cleanup.
LEMMA StagesClean ==
    ASSUME ImageTypes, NEW c \in Cleaner,
           Aged(c) \/ Sorted(c) \/ DropFile(c) \/ Dropped(c) \/ NoteReads(c)
    PROVE  Cleans(c)
<1>1. sweeps[c] \in Sweeping /\ sweeps \in [Cleaner -> Sweeping] /\ broken \in Nat
    BY DEF ImageTypes
<1>2. /\ UNCHANGED <<figures, renders, stats, clock, asks, broken>>
      /\ files' = files \/ \E I : files' = Without(I)
    BY DEF Aged, Sorted, DropFile, Dropped, NoteReads
<1>3. \E sweep \in Sweeping : sweeps' = [sweeps EXCEPT ![c] = sweep]
    <2>1. CASE Aged(c)
        <3> DEFINE kept == sweeps[c].kept
        <3>1. \/ sweeps' = [sweeps EXCEPT ![c] =
                    [NoSweep EXCEPT !.step = "time", !.left = kept, !.kept = kept]]
              \/ sweeps' = [sweeps EXCEPT ![c] = [NoSweep EXCEPT !.step = "note"]]
            BY <2>1 DEF Aged
        <3>2. /\ [NoSweep EXCEPT !.step = "time", !.left = kept, !.kept = kept] \in Sweeping
              /\ [NoSweep EXCEPT !.step = "note"] \in Sweeping
            BY <1>1, SweepTypes DEF Sweeping
        <3> QED
            BY <3>1, <3>2
    <2>2. CASE Sorted(c)
        <3>1. PICK kept : sweeps' = [sweeps EXCEPT ![c] =
                  [NoSweep EXCEPT !.step = "drop", !.left = sweeps[c].kept \ kept]]
            BY <2>2 DEF Sorted
        <3>2. [NoSweep EXCEPT !.step = "drop", !.left = sweeps[c].kept \ kept] \in Sweeping
            BY <1>1, SweepTypes DEF Sweeping
        <3> QED
            BY <3>1, <3>2
    <2>3. CASE DropFile(c)
        <3>1. PICK i : sweeps' = [sweeps EXCEPT ![c].left = @ \ {i}]
            BY <2>3 DEF DropFile
        <3>2. sweeps' = [sweeps EXCEPT ![c] = [sweeps[c] EXCEPT !.left = sweeps[c].left \ {i}]]
            BY <1>1, <3>1 DEF Sweeping
        <3>3. [sweeps[c] EXCEPT !.left = sweeps[c].left \ {i}] \in Sweeping
            BY <1>1 DEF Sweeping
        <3> QED
            BY <3>2, <3>3
    <2>4. CASE Dropped(c)
        <3>1. sweeps' = [sweeps EXCEPT ![c] = [sweeps[c] EXCEPT !.step = "note"]]
            BY <1>1, <2>4 DEF Dropped, Sweeping
        <3>2. [sweeps[c] EXCEPT !.step = "note"] \in Sweeping
            BY <1>1 DEF Sweeping
        <3> QED
            BY <3>1, <3>2
    <2>5. CASE NoteReads(c)
        <3>1. sweeps' = [sweeps EXCEPT ![c] =
                  [sweeps[c] EXCEPT !.step = "noted", !.row = stats.there]]
            BY <1>1, <2>5 DEF NoteReads, Sweeping
        <3>2. stats.there \in BOOLEAN
            BY DEF ImageTypes, Counts
        <3>3. [sweeps[c] EXCEPT !.step = "noted", !.row = stats.there] \in Sweeping
            BY <1>1, <3>2 DEF Sweeping
        <3> QED
            BY <3>1, <3>3
    <2> QED
        BY <2>1, <2>2, <2>3, <2>4, <2>5
<1> QED
    BY <1>1, <1>2, <1>3, SweepTo DEF Cleans, Finishes

LEMMA NoteWritesCleans ==
    ASSUME ImageTypes, NEW c \in Cleaner, NoteWrites(c)
    PROVE  Cleans(c)
<1>1. /\ \/ Ends(c, FALSE) /\ stats' = [stats EXCEPT !.there = TRUE]
         \/ Ends(c, TRUE) /\ UNCHANGED stats
      /\ UNCHANGED <<files, figures, clock, asks, broken>>
    BY DEF NoteWrites
<1>2. \E failed \in BOOLEAN : Ends(c, failed)
    BY <1>1
<1>3. broken' \in Nat
    BY <1>1 DEF ImageTypes
<1> QED
    BY <1>1, <1>2, <1>3, EndsMoves DEF Cleans

LEMMA CleanStepCleans ==
    ASSUME ImageTypes, NEW c \in Cleaner, CleanStep(c)
    PROVE  Cleans(c)
BY AgeFileCleans, TimeFileCleans, StagesClean, NoteWritesCleans DEF CleanStep

\* The janitor has no request, and lists, stops and goes on as a writer does.
LEMMA JanitorCleans ==
    ASSUME ImageTypes, Janitor
    PROVE  Cleans(TheJanitor) /\ renders' = renders
<1>1. TheJanitor \in Cleaner /\ TheJanitor \notin Renderer /\ broken \in Nat
    BY SweepTypes DEF ImageTypes
<1>2. CASE JanitorLists
    <2>1. Lists(TheJanitor) /\ UNCHANGED <<files, figures, renders, stats, clock, asks, broken>>
        BY <1>2 DEF JanitorLists
    <2> QED
        BY <1>1, <2>1, ListsMoves DEF Cleans, Finishes
<1>3. CASE JanitorStops
    <2> DEFINE sweep == [NoSweep EXCEPT !.step = "stopped"]
    <2>1. sweep \in Sweeping
        BY SweepTypes DEF Sweeping
    <2>2. /\ sweeps' = [sweeps EXCEPT ![TheJanitor] = sweep]
          /\ UNCHANGED <<files, figures, renders, stats, clock, asks, broken>>
        BY <1>3 DEF JanitorStops
    <2> HIDE DEF sweep
    <2> QED
        BY <1>1, <2>1, <2>2, SweepTo DEF Cleans, Finishes
<1>4. CASE CleanStep(TheJanitor)
    BY <1>1, <1>4, CleanStepCleans DEF Cleans, Finishes
<1> QED
    BY <1>2, <1>3, <1>4 DEF Janitor

-----------------------------------------------------------------------------
(* The files.                                                              *)
LEMMA WithoutFiles ==
    ASSUME ImageTypes, NEW I, files' = Without(I)
    PROVE  /\ DOMAIN files' = DOMAIN files \ I /\ DOMAIN files' \subseteq Image
           /\ \A i \in DOMAIN files' : files'[i] = files[i]
           /\ \A i \in DOMAIN files' : files'[i] \in [of : Content \ {NoImage}, at : 0..MaxClock]
BY DEF Without, ImageTypes

LEMMA WithFile ==
    ASSUME ImageTypes, NEW i \in Image, NEW content \in Content \ {NoImage},
           files' = With(i, content)
    PROVE  /\ DOMAIN files' = DOMAIN files \cup {i} /\ DOMAIN files' \subseteq Image
           /\ files'[i].of = content
           /\ \A j \in DOMAIN files' \ {i} : files'[j] = files[j]
           /\ \A j \in DOMAIN files' : files'[j] \in [of : Content \ {NoImage}, at : 0..MaxClock]
BY DEF With, ImageTypes

-----------------------------------------------------------------------------
(* Types are kept.                                                         *)
LEMMA MovesTyped ==
    ASSUME ImageTypes, NEW r \in Renderer, OnlyMoves(r)
    PROVE  renders' \in [Renderer -> Rendering] /\ \A o \in Renderer : PhaseOK(renders'[o])
BY DEF ImageTypes, OnlyMoves

LEMMA LookupTypes ==
    ASSUME ImageTypes, NEW r \in Renderer, NEW i \in Image, Lookup(r, i)
    PROVE  ImageTypes'
<1>1. /\ asks < MaxAsks /\ asks' = asks + 1
      /\ \/ files' = Without({i}) \/ files' = files
      /\ UNCHANGED <<figures, stats, sweeps, clock, broken>>
    BY DEF Lookup
<1>2. asks' \in 0..MaxAsks
    BY <1>1, ImageNumbers DEF ImageTypes
<1>3. renders' \in [Renderer -> Rendering] /\ \A o \in Renderer : PhaseOK(renders'[o])
    BY LookupMoves, MovesTyped
<1>4. /\ DOMAIN files' \subseteq Image
      /\ \A j \in DOMAIN files' : files'[j] \in [of : Content \ {NoImage}, at : 0..MaxClock]
    BY <1>1, WithoutFiles DEF ImageTypes
<1> QED
    BY <1>1, <1>2, <1>3, <1>4 DEF ImageTypes

\* Steps that leave the files, the clock and the cleanups alone.
LEMMA OtherStepTypes ==
    ASSUME ImageTypes, NEW r \in Renderer,
           \/ ReadFile(r) \/ Draw(r) \/ DrawFails(r) \/ DrawNothing(r)
           \/ SaveFigure(r) \/ CloseFigure(r) \/ ReadStats(r) \/ WriteStats(r)
    PROVE  ImageTypes'
<1>1. OnlyMoves(r)
    BY ReadFileMoves, DrawMoves, SaveFigureMoves, CloseFigureMoves, ReadStatsMoves,
       WriteStatsMoves DEF Draw, DrawFails, DrawNothing
<1>2. renders' \in [Renderer -> Rendering] /\ \A o \in Renderer : PhaseOK(renders'[o])
    BY <1>1, MovesTyped
<1>3. UNCHANGED <<files, sweeps, clock, asks, broken>>
    BY DEF ReadFile, Draw, DrawFails, DrawNothing, SaveFigure, CloseFigure, ReadStats, WriteStats
<1>4. figures' \in Seq(Image \cup {Blank})
    <2>1. \/ figures' = figures
          \/ figures' = Append(figures, renders[r].image)
          \/ SaveFigure(r) \/ CloseFigure(r)
        BY DEF ReadFile, Draw, DrawFails, DrawNothing, ReadStats, WriteStats
    <2>2. figures \in Seq(Image \cup {Blank}) /\ renders[r].image \in Image \cup {Blank}
        BY DEF ImageTypes, Rendering
    <2>3. Append(figures, renders[r].image) \in Seq(Image \cup {Blank})
        BY <2>2, AppendProperties
    <2> QED
        BY <2>1, <2>2, <2>3, SaveFigureMoves, CloseFigureMoves
<1>5. stats' \in Counts
    <2>1. stats' = stats \/ stats' = Recorded(r)
        BY DEF ReadFile, Draw, DrawFails, DrawNothing, SaveFigure, CloseFigure, ReadStats, WriteStats
    <2>2. renders[r].row \in Counts /\ stats \in Counts
        BY DEF ImageTypes, Rendering
    <2>3. Recorded(r) \in Counts
        BY <2>2 DEF Recorded, Counts
    <2> QED
        BY <2>1, <2>2, <2>3
<1> QED
    BY <1>2, <1>3, <1>4, <1>5 DEF ImageTypes

\* Steps of a request that write files.
LEMMA FileStepTypes ==
    ASSUME ImageTypes, NEW r \in Renderer, Touch(r) \/ OpenFile(r) \/ StoreFile(r)
    PROVE  ImageTypes'
<1>1. UNCHANGED <<figures, stats, sweeps, clock, asks, broken>>
    BY DEF Touch, OpenFile, StoreFile
<1>2. renders' \in [Renderer -> Rendering] /\ \A o \in Renderer : PhaseOK(renders'[o])
    BY TouchMoves, StoreFileMoves, MovesTyped
<1>3. /\ DOMAIN files' \subseteq Image
      /\ \A j \in DOMAIN files' : files'[j] \in [of : Content \ {NoImage}, at : 0..MaxClock]
    <2> DEFINE i == renders[r].image
    <2>1. i \in Image /\ Empty \in Content \ {NoImage}
        BY DEF ImageTypes, Rendering, Content, Empty, NoImage
    <2>2. \/ files' = files
          \/ \E content \in Content \ {NoImage} : files' = With(i, content)
        <3>1. CASE Touch(r)
            <4> DEFINE content == IF i \in DOMAIN files THEN files[i].of ELSE Empty
            <4>1. files' = With(i, content)
                BY <3>1 DEF Touch
            <4>2. content \in Content \ {NoImage}
                BY <2>1 DEF ImageTypes
            <4> QED
                BY <4>1, <4>2
        <3>2. CASE OpenFile(r)
            BY <2>1, <3>2 DEF OpenFile
        <3>3. CASE StoreFile(r)
            BY <3>3, StoreFileMoves DEF StoreFile
        <3> QED
            BY <3>1, <3>2, <3>3
    <2> QED
        BY <2>1, <2>2, WithFile DEF ImageTypes
<1> QED
    BY <1>1, <1>2, <1>3 DEF ImageTypes

LEMMA CleanTypes ==
    ASSUME ImageTypes, NEW c \in Cleaner, Cleans(c)
    PROVE  ImageTypes'
<1>1. renders' \in [Renderer -> Rendering] /\ \A o \in Renderer : PhaseOK(renders'[o])
    BY StopAt, MovesTyped DEF Cleans, Finishes, ImageTypes
<1>2. stats' \in Counts
    BY DEF Cleans, ImageTypes, Counts
<1>3. /\ DOMAIN files' \subseteq Image
      /\ \A j \in DOMAIN files' : files'[j] \in [of : Content \ {NoImage}, at : 0..MaxClock]
    BY WithoutFiles DEF Cleans, ImageTypes
<1> QED
    BY <1>1, <1>2, <1>3 DEF Cleans, ImageTypes

LEMMA CountTypes ==
    ASSUME ImageTypes, NEW r \in Renderer, CountFiles(r)
    PROVE  ImageTypes'
<1>1. sweeps' \in [Cleaner -> Sweeping]
    BY CountMoves, ListsMoves, SweepTypes DEF ImageTypes
<1>2. renders' \in [Renderer -> Rendering] /\ \A o \in Renderer : PhaseOK(renders'[o])
    BY CountMoves, MovesTyped
<1> QED
    BY <1>1, <1>2, CountMoves DEF ImageTypes

LEMMA ControlTypes ==
    ASSUME ImageTypes, ClearItems \/ ClearStats \/ Tick \/ UNCHANGED imageVars
    PROVE  ImageTypes'
<1>1. CASE ClearItems
    <2>1. PICK i : files' = Without({i})
        BY <1>1 DEF ClearItems
    <2> QED
        BY <1>1, <2>1, WithoutFiles DEF ClearItems, ImageTypes
<1>2. CASE ClearStats
    BY <1>2, IdleTypes DEF ClearStats, ImageTypes
<1>3. CASE Tick
    BY <1>3, ImageNumbers DEF Tick, ImageTypes
<1>4. CASE UNCHANGED imageVars
    BY <1>4 DEF imageVars, ImageTypes
<1> QED
    BY <1>1, <1>2, <1>3, <1>4

LEMMA ImageTypesKept ==
    ASSUME ImageTypes, [ImageNext]_imageVars
    PROVE  ImageTypes'
<1>1. ASSUME NEW r \in Renderer, RenderStep(r)
      PROVE  ImageTypes'
    BY <1>1, LookupTypes, OtherStepTypes, FileStepTypes, CountTypes DEF RenderStep
<1>2. ASSUME NEW r \in Renderer, CleanStep(r)
      PROVE  ImageTypes'
    BY <1>2, SweepTypes, CleanStepCleans, CleanTypes
<1>3. ASSUME Janitor
      PROVE  ImageTypes'
    BY <1>3, SweepTypes, JanitorCleans, CleanTypes
<1> QED
    BY <1>1, <1>2, <1>3, ControlTypes DEF ImageNext

\* A cleanup goes on that has started.
LEMMA CleanStepStarted ==
    ASSUME NEW c \in Cleaner, CleanStep(c)
    PROVE  sweeps[c].step # "none"
BY DEF CleanStep, AgeFile, Aged, TimeFile, Sorted, DropFile, Dropped, NoteReads, NoteWrites, Stage

LEMMA SweepsMatchKept ==
    ASSUME ImageTypes, SweepsMatch, [ImageNext]_imageVars
    PROVE  SweepsMatch'
<1>1. ASSUME NEW c \in Cleaner, Cleans(c), c \in Renderer => sweeps[c].step # "none"
      PROVE  SweepsMatch'
    <2>1. ASSUME NEW r \in Renderer, sweeps'[r].step # "none"
          PROVE  renders'[r].step = "clean"
        <3>1. CASE r = c
            <4>1. renders' = renders
                BY <1>1, <2>1, <3>1, SweepTypes DEF Cleans, Finishes
            <4> QED
                BY <1>1, <3>1, <4>1 DEF SweepsMatch
        <3>2. CASE r # c
            <4>1. sweeps'[r] = sweeps[r]
                BY <1>1, <3>2, SweepTypes DEF Cleans
            <4>2. renders'[r] = renders[r]
                BY <1>1, <3>2, StopAt DEF Cleans, Finishes, OnlyMoves
            <4> QED
                BY <2>1, <4>1, <4>2 DEF SweepsMatch
        <3> QED
            BY <3>1, <3>2
    <2> QED
        BY <2>1 DEF SweepsMatch
<1>2. ASSUME NEW r \in Renderer, OnlyMoves(r), sweeps' = sweeps, renders[r].step # "clean"
      PROVE  SweepsMatch'
    BY <1>2 DEF SweepsMatch, OnlyMoves
<1>3. ASSUME NEW r \in Renderer, RenderStep(r)
      PROVE  SweepsMatch'
    <2>1. CASE \E i \in Image : Lookup(r, i)
        BY <1>2, <2>1, LookupMoves DEF Lookup
    <2>2. CASE ReadFile(r) \/ Touch(r)
        BY <1>2, <2>2, ReadFileMoves, TouchMoves DEF ReadFile, Touch
    <2>3. CASE Draw(r) \/ DrawFails(r) \/ DrawNothing(r)
        BY <1>2, <2>3, DrawMoves DEF Draw, DrawFails, DrawNothing
    <2>4. CASE SaveFigure(r) \/ CloseFigure(r)
        BY <1>2, <2>4, SaveFigureMoves, CloseFigureMoves DEF SaveFigure, CloseFigure
    <2>5. CASE OpenFile(r) \/ StoreFile(r)
        BY <1>2, <2>5, StoreFileMoves DEF OpenFile, StoreFile
    <2>6. CASE ReadStats(r) \/ WriteStats(r)
        BY <1>2, <2>6, ReadStatsMoves, WriteStatsMoves DEF ReadStats, WriteStats
    <2>7. CASE CountFiles(r)
        <3>1. CASE renders'[r].step = "clean" /\ Lists(r)
            BY <2>7, <3>1, CountMoves, ListsMoves, SweepTypes DEF SweepsMatch, OnlyMoves
        <3>2. CASE UNCHANGED sweeps
            BY <1>2, <2>7, <3>2, CountMoves
        <3> QED
            BY <2>7, <3>1, <3>2, CountMoves
    <2> QED
        BY <1>3, <2>1, <2>2, <2>3, <2>4, <2>5, <2>6, <2>7 DEF RenderStep
<1>4. ASSUME ClearItems \/ ClearStats \/ Tick \/ UNCHANGED imageVars
      PROVE  SweepsMatch'
    BY <1>4 DEF ClearItems, ClearStats, Tick, imageVars, SweepsMatch
<1>5. ASSUME NEW r \in Renderer, CleanStep(r)
      PROVE  SweepsMatch'
    BY <1>1, <1>5, SweepTypes, CleanStepCleans, CleanStepStarted
<1>6. ASSUME Janitor
      PROVE  SweepsMatch'
    BY <1>1, <1>6, SweepTypes, JanitorCleans
<1> QED
    BY <1>3, <1>4, <1>5, <1>6 DEF ImageNext

-----------------------------------------------------------------------------
(* Figures and counters: how many there are.                               *)

\* Two sets of renderers that differ in one at most.
LEMMA OneApart ==
    ASSUME NEW S \in SUBSET Renderer, NEW T \in SUBSET Renderer, NEW r \in Renderer,
           S \ {r} = T \ {r}
    PROVE  /\ Cardinality(S) \in Nat /\ Cardinality(T) \in Nat
           /\ (r \in S <=> r \in T) => T = S
           /\ r \notin S /\ r \in T => Cardinality(T) = Cardinality(S) + 1
           /\ r \in S /\ r \notin T => Cardinality(T) = Cardinality(S) - 1
<1>1. /\ IsFiniteSet(S) /\ Cardinality(S) \in Nat
      /\ IsFiniteSet(T) /\ Cardinality(T) \in Nat
    BY ImageNumbers, FS_Subset, FS_CardinalityType
<1>2. (r \in S <=> r \in T) => T = S
    OBVIOUS
<1>3. ASSUME r \notin S, r \in T
      PROVE  Cardinality(T) = Cardinality(S) + 1
    <2>1. T = S \cup {r}
        BY <1>3
    <2> QED
        BY <1>1, <1>3, <2>1, FS_AddElement
<1>4. ASSUME r \in S, r \notin T
      PROVE  Cardinality(T) = Cardinality(S) - 1
    <2>1. T = S \ {r}
        BY <1>4
    <2> QED
        BY <1>1, <1>4, <2>1, FS_RemoveElement
<1> QED
    BY <1>1, <1>2, <1>3, <1>4

\* Plots under way, and requests that have yet to be recorded.
Plots == {r \in Renderer : renders[r].step \in {"savefig", "close"}}
Unrecorded == {r \in Renderer : renders[r].step \notin {"idle", "count", "clean"}}

LEMMA Moved ==
    ASSUME NEW r \in Renderer, OnlyMoves(r)
    PROVE  /\ Plots \ {r} = Plots' \ {r}
           /\ Unrecorded \ {r} = Unrecorded' \ {r}
BY DEF OnlyMoves, Plots, Unrecorded

\* A figure comes with a plot, and a plot that goes closes one if there is one.
LEMMA FiguresKept ==
    ASSUME ImageTypes, ImageTypes', SweepsMatch, FiguresBounded, [ImageNext]_imageVars
    PROVE  FiguresBounded'
<1>1. FiguresBounded <=> Len(figures) <= Cardinality(Plots)
    BY DEF FiguresBounded, Plots
<1>2. FiguresBounded' <=> Len(figures') <= Cardinality(Plots')
    BY DEF FiguresBounded, Plots
<1>3. /\ Plots \in SUBSET Renderer /\ Plots' \in SUBSET Renderer
      /\ Cardinality(Plots) \in Nat /\ Cardinality(Plots') \in Nat
    <2>1. Plots \in SUBSET Renderer /\ Plots' \in SUBSET Renderer
        BY DEF Plots
    <2> QED
        BY <2>1, ImageNumbers, FS_Subset, FS_CardinalityType
<1>4. /\ figures \in Seq(Image \cup {Blank}) /\ Len(figures) \in Nat
      /\ figures' \in Seq(Image \cup {Blank}) /\ Len(figures') \in Nat
    BY DEF ImageTypes
<1>5. ASSUME Plots' = Plots, figures' = figures
      PROVE  FiguresBounded'
    BY <1>1, <1>2, <1>5
<1>6. ASSUME NEW r \in Renderer, OnlyMoves(r), r \in Plots <=> r \in Plots'
      PROVE  Plots' = Plots
    BY <1>6, Moved
<1>7. ASSUME NEW r \in Renderer, Draw(r) \/ DrawFails(r)
      PROVE  FiguresBounded'
    <2>1. OnlyMoves(r) /\ r \notin Plots /\ r \in Plots'
        BY <1>7, DrawMoves DEF Draw, DrawFails, Plots
    <2>2. Cardinality(Plots') = Cardinality(Plots) + 1
        BY <1>3, <2>1, Moved, OneApart
    <2>3. Len(figures') = Len(figures) \/ Len(figures') = Len(figures) + 1
        <3>1. figures' = figures \/ figures' = Append(figures, renders[r].image)
            BY <1>7 DEF Draw, DrawFails
        <3>2. renders[r].image \in Image \cup {Blank}
            BY DEF ImageTypes, Rendering
        <3> QED
            BY <1>4, <3>1, <3>2, AppendProperties
    <2> QED
        BY <1>1, <1>2, <1>3, <1>4, <2>2, <2>3
<1>8. ASSUME NEW r \in Renderer, SaveFigure(r)
      PROVE  FiguresBounded'
    <2>1. OnlyMoves(r) /\ r \in Plots /\ r \in Plots'
        BY <1>8, SaveFigureMoves DEF Plots
    <2>2. Plots' = Plots /\ Cardinality(Plots) # 0
        <3>1. IsFiniteSet(Plots)
            BY <1>3, ImageNumbers, FS_Subset
        <3> QED
            BY <1>6, <2>1, <3>1, FS_EmptySet
    <2>3. Len(figures') = IF Len(figures) = 0 THEN 1 ELSE Len(figures)
        BY <1>8, SaveFigureMoves
    <2> QED
        BY <1>1, <1>2, <1>3, <1>4, <2>2, <2>3
<1>9. ASSUME NEW r \in Renderer, CloseFigure(r)
      PROVE  FiguresBounded'
    <2>1. OnlyMoves(r) /\ r \in Plots /\ r \notin Plots'
        BY <1>9, CloseFigureMoves DEF Plots
    <2>2. Cardinality(Plots') = Cardinality(Plots) - 1
        BY <1>3, <2>1, Moved, OneApart
    <2>3. Len(figures') = IF Len(figures) = 0 THEN 0 ELSE Len(figures) - 1
        BY <1>9, CloseFigureMoves
    <2>4. Len(figures') = 0 \/ Len(figures') = Len(figures) - 1
        BY <2>3
    <2> QED
        BY <1>1, <1>2, <1>3, <1>4, <2>2, <2>4
<1>10. ASSUME NEW r \in Renderer,
              \/ \E i \in Image : Lookup(r, i)
              \/ ReadFile(r) \/ Touch(r) \/ DrawNothing(r) \/ OpenFile(r) \/ StoreFile(r)
              \/ ReadStats(r) \/ WriteStats(r) \/ CountFiles(r)
       PROVE  FiguresBounded'
    <2>1. figures' = figures
        BY <1>10 DEF Lookup, ReadFile, Touch, DrawNothing, OpenFile, StoreFile, ReadStats,
                     WriteStats, CountFiles
    <2>2. OnlyMoves(r) /\ r \notin Plots /\ r \notin Plots'
        <3>1. CASE \E i \in Image : Lookup(r, i)
            BY <3>1, LookupMoves DEF Plots
        <3>2. CASE ReadFile(r)
            BY <3>2, ReadFileMoves DEF Plots
        <3>3. CASE Touch(r)
            BY <3>3, TouchMoves DEF Plots
        <3>4. CASE DrawNothing(r)
            BY <3>4, DrawMoves DEF DrawNothing, Plots
        <3>5. CASE OpenFile(r) \/ StoreFile(r)
            BY <3>5, StoreFileMoves DEF Plots
        <3>6. CASE ReadStats(r)
            BY <3>6, ReadStatsMoves DEF Plots
        <3>7. CASE WriteStats(r)
            BY <3>7, WriteStatsMoves DEF Plots
        <3>8. CASE CountFiles(r)
            BY <3>8, CountMoves DEF Plots
        <3> QED
            BY <1>10, <3>1, <3>2, <3>3, <3>4, <3>5, <3>6, <3>7, <3>8
    <2> QED
        BY <1>5, <1>6, <2>1, <2>2
<1>11. ASSUME Janitor \/ ClearItems \/ ClearStats \/ Tick \/ UNCHANGED imageVars
       PROVE  FiguresBounded'
    <2>1. renders' = renders /\ figures' = figures
        BY <1>11, JanitorCleans DEF Cleans, ClearItems, ClearStats, Tick, imageVars
    <2> QED
        BY <1>5, <2>1 DEF Plots
<1>12. ASSUME NEW r \in Renderer, CleanStep(r)
       PROVE  FiguresBounded'
    <2>1. Cleans(r) /\ renders[r].step = "clean"
        BY <1>12, SweepTypes, CleanStepCleans, CleanStepStarted DEF SweepsMatch
    <2>2. CASE renders' = renders
        BY <1>5, <2>1, <2>2 DEF Cleans, Plots
    <2>3. CASE Stop(r)
        <3>1. OnlyMoves(r) /\ r \notin Plots /\ r \notin Plots'
            BY <2>1, <2>3, StopAt, IdleTypes DEF Plots
        <3> QED
            BY <1>5, <1>6, <2>1, <3>1 DEF Cleans
    <2> QED
        BY <2>1, <2>2, <2>3 DEF Cleans, Finishes
<1> QED
    BY <1>7, <1>8, <1>9, <1>10, <1>11, <1>12 DEF ImageNext, RenderStep

\* The requests that are over, recorded or not; what any row counts is no
\* more than these.
Over == asks - Cardinality(Unrecorded)

Below(row) == row.requests <= Over /\ row.hits <= Over /\ row.misses <= Over

CountsInv ==
    /\ Over \in Nat
    /\ Below(stats) /\ \A r \in Renderer : Below(renders[r].row)

\* A recorded request is one more that is over, and none comes back.
LEMMA OverGrows ==
    ASSUME ImageTypes, ImageTypes', CountsInv, [ImageNext]_imageVars
    PROVE  /\ Over' \in Nat /\ Over <= Over'
           /\ \A r \in Renderer : WriteStats(r) => Over' = Over + 1
<1>1. /\ Unrecorded \in SUBSET Renderer /\ Unrecorded' \in SUBSET Renderer
      /\ Cardinality(Unrecorded) \in Nat /\ Cardinality(Unrecorded') \in Nat
    <2>1. Unrecorded \in SUBSET Renderer /\ Unrecorded' \in SUBSET Renderer
        BY DEF Unrecorded
    <2> QED
        BY <2>1, ImageNumbers, FS_Subset, FS_CardinalityType
<1>2. asks \in Nat /\ Over \in Nat /\ asks' \in Nat
    BY DEF ImageTypes, CountsInv
<1>3. ASSUME NEW r \in Renderer, WriteStats(r)
      PROVE  Over' = Over + 1
    <2>1. OnlyMoves(r) /\ r \in Unrecorded /\ r \notin Unrecorded'
        BY <1>3, WriteStatsMoves DEF Unrecorded
    <2>2. Cardinality(Unrecorded') = Cardinality(Unrecorded) - 1
        BY <1>1, <2>1, Moved, OneApart
    <2>3. asks' = asks
        BY <1>3 DEF WriteStats
    <2> QED
        BY <1>1, <1>2, <2>2, <2>3 DEF Over
<1>4. ASSUME NEW r \in Renderer, NEW i \in Image, Lookup(r, i)
      PROVE  Over' = Over
    <2>1. OnlyMoves(r) /\ r \notin Unrecorded /\ r \in Unrecorded'
        BY <1>4, LookupMoves DEF Unrecorded
    <2>2. Cardinality(Unrecorded') = Cardinality(Unrecorded) + 1
        BY <1>1, <2>1, Moved, OneApart
    <2>3. asks' = asks + 1
        BY <1>4 DEF Lookup
    <2> QED
        BY <1>1, <1>2, <2>2, <2>3 DEF Over
<1>5. ASSUME NEW r \in Renderer,
             \/ ReadFile(r) \/ Touch(r) \/ Draw(r) \/ DrawFails(r) \/ DrawNothing(r)
             \/ SaveFigure(r) \/ CloseFigure(r) \/ OpenFile(r) \/ StoreFile(r) \/ ReadStats(r)
             \/ CountFiles(r)
      PROVE  Over <= Over'
    <2>1. asks' = asks
        BY <1>5 DEF ReadFile, Touch, Draw, DrawFails, DrawNothing, SaveFigure, CloseFigure,
                    OpenFile, StoreFile, ReadStats, CountFiles
    <2>2. OnlyMoves(r) /\ (r \in Unrecorded' => r \in Unrecorded)
        <3>1. CASE Draw(r) \/ DrawFails(r) \/ DrawNothing(r)
            BY <3>1, DrawMoves DEF Draw, DrawFails, DrawNothing, Unrecorded
        <3>2. CASE ReadFile(r)
            BY <3>2, ReadFileMoves DEF Unrecorded
        <3>3. CASE Touch(r)
            BY <3>3, TouchMoves DEF Unrecorded
        <3>4. CASE SaveFigure(r)
            BY <3>4, SaveFigureMoves DEF Unrecorded
        <3>5. CASE CloseFigure(r)
            BY <3>5, CloseFigureMoves DEF Unrecorded
        <3>6. CASE OpenFile(r) \/ StoreFile(r)
            BY <3>6, StoreFileMoves DEF Unrecorded
        <3>7. CASE ReadStats(r)
            BY <3>7, ReadStatsMoves DEF Unrecorded
        <3>8. CASE CountFiles(r)
            BY <3>8, CountMoves DEF Unrecorded
        <3> QED
            BY <1>5, <3>1, <3>2, <3>3, <3>4, <3>5, <3>6, <3>7, <3>8
    <2>3. \/ Cardinality(Unrecorded') = Cardinality(Unrecorded)
          \/ Cardinality(Unrecorded') = Cardinality(Unrecorded) - 1
        BY <1>1, <2>2, Moved, OneApart
    <2> QED
        BY <1>1, <1>2, <2>1, <2>3 DEF Over
<1>6. ASSUME Janitor \/ ClearItems \/ ClearStats \/ Tick \/ UNCHANGED imageVars
      PROVE  Over' = Over
    <2>1. renders' = renders /\ asks' = asks
        BY <1>6, JanitorCleans DEF Cleans, ClearItems, ClearStats, Tick, imageVars
    <2> QED
        BY <2>1 DEF Over, Unrecorded
<1>7. ASSUME NEW r \in Renderer, CleanStep(r)
      PROVE  Over <= Over'
    <2>1. Cleans(r) /\ asks' = asks
        BY <1>7, SweepTypes, CleanStepCleans DEF Cleans
    <2>2. CASE renders' = renders
        <3>1. Over' = Over
            BY <2>1, <2>2 DEF Over, Unrecorded
        <3> QED
            BY <1>2, <3>1
    <2>3. CASE Stop(r)
        <3>1. OnlyMoves(r) /\ r \notin Unrecorded'
            BY <2>3, StopAt, IdleTypes DEF Unrecorded
        <3>2. \/ Cardinality(Unrecorded') = Cardinality(Unrecorded)
              \/ Cardinality(Unrecorded') = Cardinality(Unrecorded) - 1
            BY <1>1, <3>1, Moved, OneApart
        <3> QED
            BY <1>1, <1>2, <2>1, <3>2 DEF Over
    <2> QED
        BY <2>1, <2>2, <2>3 DEF Cleans, Finishes
<1>8. Over' \in Int
    BY <1>1, <1>2 DEF Over
<1>9. Over <= Over'
    BY <1>2, <1>3, <1>4, <1>5, <1>6, <1>7 DEF ImageNext, RenderStep
<1> QED
    BY <1>2, <1>3, <1>8, <1>9

LEMMA CountsKept ==
    ASSUME ImageTypes, ImageTypes', CountsInv, [ImageNext]_imageVars
    PROVE  CountsInv'
<1>1. /\ Over \in Nat /\ Over' \in Nat /\ Over <= Over'
      /\ \A r \in Renderer : WriteStats(r) => Over' = Over + 1
    BY OverGrows DEF CountsInv
<1>2. /\ stats \in Counts /\ Below(stats)
      /\ \A r \in Renderer : renders[r].row \in Counts /\ Below(renders[r].row)
      /\ stats' \in Counts
    BY DEF ImageTypes, CountsInv, Rendering
<1>3. ASSUME NEW row \in Counts, Below(row)
      PROVE  /\ row.requests <= Over' /\ row.hits <= Over' /\ row.misses <= Over'
    BY <1>1, <1>3 DEF Below, Counts
<1>4. \A r \in Renderer :
        renders'[r].row = NoRow \/ renders'[r].row = stats \/ renders'[r].row = renders[r].row
    <2>1. ASSUME NEW r \in Renderer, RenderStep(r)
          PROVE  /\ OnlyMoves(r)
                 /\ \/ renders'[r].row = NoRow \/ renders'[r].row = stats
                    \/ renders'[r].row = renders[r].row
        <3>1. CASE \E i \in Image : Lookup(r, i)
            BY <3>1, LookupMoves
        <3>2. CASE Draw(r) \/ DrawFails(r) \/ DrawNothing(r)
            BY <3>2, DrawMoves DEF Draw, DrawFails, DrawNothing
        <3> QED
            BY <2>1, <3>1, <3>2, ReadFileMoves, TouchMoves, SaveFigureMoves, CloseFigureMoves,
               StoreFileMoves, ReadStatsMoves, WriteStatsMoves, CountMoves DEF RenderStep
    <2>2. ASSUME Janitor \/ ClearItems \/ ClearStats \/ Tick \/ UNCHANGED imageVars
          PROVE  renders' = renders
        BY <2>2, JanitorCleans DEF ClearItems, ClearStats, Tick, imageVars
    <2>3. ASSUME NEW r \in Renderer, CleanStep(r)
          PROVE  renders' = renders \/ (OnlyMoves(r) /\ renders'[r].row = NoRow)
        <3>1. renders' = renders \/ Stop(r)
            BY <2>3, SweepTypes, CleanStepCleans DEF Cleans, Finishes
        <3> QED
            BY <3>1, StopAt, IdleTypes
    <2> QED
        BY <2>1, <2>2, <2>3 DEF ImageNext, OnlyMoves
<1>5. \A r \in Renderer : Below(renders[r].row)'
    <2> TAKE r \in Renderer
    <2>1. NoRow.requests <= Over' /\ NoRow.hits <= Over' /\ NoRow.misses <= Over'
        BY <1>1, IdleTypes
    <2>2. /\ renders'[r].row.requests <= Over' /\ renders'[r].row.hits <= Over'
          /\ renders'[r].row.misses <= Over'
        BY <1>2, <1>3, <1>4, <2>1
    <2> QED
        BY <2>2 DEF Below
<1>6. Below(stats)'
    <2>1. CASE \E r \in Renderer : WriteStats(r) /\ stats' = Recorded(r)
        <3>1. PICK r \in Renderer : WriteStats(r) /\ stats' = Recorded(r)
            BY <2>1
        <3>2. Over' = Over + 1
            BY <1>1, <3>1
        <3> DEFINE seen == renders[r].row
        <3>3. /\ stats'.requests = seen.requests + 1
              /\ stats'.hits = seen.hits + 1 \/ stats'.hits = stats.hits
              /\ stats'.misses = seen.misses + 1 \/ stats'.misses = stats.misses
            BY <3>1 DEF Recorded
        <3>4. seen \in Counts /\ Below(seen)
            BY <1>2
        <3> HIDE DEF seen
        <3> QED
            BY <1>1, <1>2, <3>2, <3>3, <3>4 DEF Below, Counts
    <2>2. CASE stats' = NoRow
        BY <1>1, <2>2, IdleTypes DEF Below
    <2>3. CASE stats' = stats \/ stats' = [stats EXCEPT !.there = TRUE]
        <3>1. /\ stats'.requests = stats.requests /\ stats'.hits = stats.hits
              /\ stats'.misses = stats.misses
            BY <1>2, <2>3 DEF Counts
        <3> QED
            BY <1>2, <1>3, <3>1 DEF Below
    <2>4. \/ stats' = stats \/ stats' = [stats EXCEPT !.there = TRUE] \/ stats' = NoRow
          \/ \E r \in Renderer : WriteStats(r) /\ stats' = Recorded(r)
        <3>1. ASSUME NEW r \in Renderer, RenderStep(r)
              PROVE  stats' = stats \/ (WriteStats(r) /\ stats' = Recorded(r))
            BY <3>1 DEF RenderStep, Lookup, ReadFile, Touch, Draw, DrawFails, DrawNothing, SaveFigure,
                        CloseFigure, OpenFile, StoreFile, ReadStats, WriteStats, CountFiles
        <3>2. ASSUME ClearItems \/ ClearStats \/ Tick \/ UNCHANGED imageVars
              PROVE  stats' = stats \/ stats' = NoRow
            BY <3>2 DEF ClearItems, ClearStats, Tick, imageVars
        <3>3. ASSUME (\E r \in Renderer : CleanStep(r)) \/ Janitor
              PROVE  stats' = stats \/ stats' = [stats EXCEPT !.there = TRUE]
            BY <3>3, SweepTypes, CleanStepCleans, JanitorCleans DEF Cleans
        <3> QED
            BY <3>1, <3>2, <3>3 DEF ImageNext
    <2> QED
        BY <2>1, <2>2, <2>3, <2>4
<1> QED
    BY <1>1, <1>5, <1>6 DEF CountsInv

ImageInv == ImageTypes /\ SweepsMatch /\ FiguresBounded /\ CountsInv

LEMMA ImageInitially == ImageInit => ImageInv
<1> SUFFICES ASSUME ImageInit
             PROVE  ImageInv
    OBVIOUS
<1>1. /\ files = <<>> /\ figures = <<>> /\ stats \in {NoRow, [NoRow EXCEPT !.there = TRUE]}
      /\ renders = [r \in Renderer |-> Idle] /\ sweeps = [c \in Cleaner |-> NoSweep]
      /\ clock = 0 /\ asks = 0 /\ broken = 0
    BY DEF ImageInit
<1>2. \A r \in Renderer : renders[r] = Idle
    BY <1>1
<1>0. /\ stats \in Counts
      /\ stats.requests = 0 /\ stats.hits = 0 /\ stats.misses = 0
    BY <1>1, IdleTypes DEF Counts, NoRow
<1>3. ImageTypes
    <2>1. renders \in [Renderer -> Rendering] /\ \A r \in Renderer : PhaseOK(renders[r])
        BY <1>1, IdleTypes
    <2>2. DOMAIN files = {} /\ figures \in Seq(Image \cup {Blank})
        BY <1>1
    <2>3. clock \in 0..MaxClock /\ asks \in 0..MaxAsks /\ broken \in Nat
        BY <1>1, ImageNumbers
    <2>4. sweeps \in [Cleaner -> Sweeping]
        BY <1>1, SweepTypes
    <2> QED
        BY <1>0, <1>1, <2>1, <2>2, <2>3, <2>4, IdleTypes DEF ImageTypes
<1>4. Plots = {} /\ Unrecorded = {} /\ Cardinality({}) = 0
    BY <1>1, <1>2, IdleTypes, FS_EmptySet DEF Plots, Unrecorded
<1>5. FiguresBounded
    <2>1. Len(figures) = 0
        BY <1>1
    <2>2. FiguresBounded <=> Len(figures) <= Cardinality(Plots)
        BY DEF FiguresBounded, Plots
    <2>3. Cardinality(Plots) = 0
        BY <1>4
    <2> QED
        BY <2>1, <2>2, <2>3
<1>6. CountsInv
    BY <1>0, <1>1, <1>2, <1>4, IdleTypes DEF CountsInv, Over, Below
<1>7. SweepsMatch
    BY <1>1, SweepTypes DEF SweepsMatch
<1> QED
    BY <1>3, <1>5, <1>6, <1>7 DEF ImageInv

LEMMA ImageKept ==
    ASSUME ImageInv, [ImageNext]_imageVars
    PROVE  ImageInv'
<1>1. ImageTypes'
    BY ImageTypesKept DEF ImageInv
<1> QED
    BY <1>1, SweepsMatchKept, FiguresKept, CountsKept DEF ImageInv

LEMMA ImageHolds == ImageInv => ImageTypeOK /\ FiguresBounded /\ StatsNeverOver
<1> SUFFICES ASSUME ImageInv
             PROVE  ImageTypeOK /\ StatsNeverOver
    BY DEF ImageInv
<1>1. ImageTypes /\ CountsInv
    BY DEF ImageInv
<1>2. Over <= MaxAsks /\ Over \in Nat
    <2>1. Unrecorded \in SUBSET Renderer
        BY DEF Unrecorded
    <2>2. Cardinality(Unrecorded) \in Nat
        BY <2>1, ImageNumbers, FS_Subset, FS_CardinalityType
    <2> QED
        BY <1>1, <2>2, ImageNumbers DEF Over, ImageTypes, CountsInv
<1>3. ASSUME NEW row \in Counts, Below(row)
      PROVE  row \in Rows /\ {row.requests, row.hits, row.misses} \subseteq 0..Over
    BY <1>2, <1>3, ImageNumbers DEF Below, Counts, Rows
<1>4. stats \in Rows /\ {stats.requests, stats.hits, stats.misses} \subseteq 0..Over
    BY <1>1, <1>3 DEF ImageTypes, CountsInv
<1>5. renders \in [Renderer ->
         [step : Steps, image : Image, holds : Content, hit : BOOLEAN, row : Rows]]
    <2>1. \A r \in Renderer : renders[r] \in
            [step : Steps, image : Image, holds : Content, hit : BOOLEAN, row : Rows]
        BY <1>1, <1>3 DEF ImageTypes, CountsInv, Rendering
    <2> QED
        BY <1>1, <2>1 DEF ImageTypes
<1>6. DOMAIN sweeps = Cleaner
    BY <1>1 DEF ImageTypes
<1>7. ASSUME NEW c \in Cleaner
      PROVE  /\ sweeps[c].step \in {"none", "age", "time", "drop", "note", "noted", "stopped"}
             /\ sweeps[c].now \in 0..MaxClock /\ sweeps[c].row \in BOOLEAN
             /\ sweeps[c].left \subseteq Image /\ sweeps[c].kept \subseteq Image
             /\ DOMAIN sweeps[c].times \subseteq Image /\ Range(sweeps[c].times) \subseteq 0..MaxClock
    <2>1. sweeps[c] \in Sweeping
        BY <1>1 DEF ImageTypes
    <2>2. PICK I \in SUBSET Image : sweeps[c].times \in [I -> 0..MaxClock]
        BY <2>1 DEF Sweeping, Times
    <2>3. /\ DOMAIN sweeps[c].times \subseteq Image /\ Range(sweeps[c].times) \subseteq 0..MaxClock
        BY <2>2 DEF Range
    <2> QED
        BY <2>1, <2>3 DEF Sweeping
<1>8. ImageTypeOK
    BY <1>1, <1>4, <1>5, <1>6, <1>7 DEF ImageTypes, ImageTypeOK, Steps
<1>9. StatsNeverOver
    BY <1>4 DEF StatsNeverOver, Over, Unrecorded
<1> QED
    BY <1>8, <1>9

-----------------------------------------------------------------------------
(***************************************************************************)
(* All of them together.                                                   *)
(***************************************************************************)
DesksInv == ReportInv /\ ShipsInv /\ PagingInv /\ MemoryInv

desksVars == <<reportVars, shipsVars, pagingVars, memoryVars>>

\* Every report and every cache at once, with no desk a behaviour keeps to
\* and none of the symmetries a run takes advantage of.
AllDesks ==
    /\ ReportInit /\ ShipsInit /\ PagingInit /\ MemoryInit /\ ImageInit
    /\ [][/\ [ReportNext]_reportVars /\ [ShipsNext]_shipsVars
          /\ [PagingNext]_pagingVars /\ [MemoryNext]_memoryVars
          /\ [ImageNext]_imageVars]_<<desksVars, imageVars>>

LEMMA DesksInitially ==
    ASSUME ReportInit, ShipsInit, PagingInit, MemoryInit
    PROVE  DesksInv
BY ReportInitially, ShipsInitially, PagingInitially, MemoryInitially DEF DesksInv

LEMMA DesksKept ==
    ASSUME DesksInv, [ReportNext]_reportVars, [ShipsNext]_shipsVars, [PagingNext]_pagingVars,
           [MemoryNext]_memoryVars
    PROVE  DesksInv'
BY ReportKept, ShipsKept, PagingKept, MemoryKept DEF DesksInv

\* A step of the composition is a step, or none, of each of its parts.
LEMMA StepsOfDesks ==
    ASSUME [Next]_mcVars
    PROVE  /\ [ReportNext]_reportVars /\ [ShipsNext]_shipsVars /\ [PagingNext]_pagingVars
           /\ [MemoryNext]_memoryVars
<1>1. CASE UNCHANGED mcVars
    BY <1>1 DEF mcVars
<1>2. CASE Next
    BY <1>2 DEF Next, PagingNext
<1> QED
    BY <1>1, <1>2

LEMMA SharedTypes == ShipsInv /\ PagingInv => SharedTypeOK
<1> SUFFICES ASSUME ShipsInv, PagingInv
             PROVE  SharedTypeOK
    OBVIOUS
<1>1. MaxClicks \in Nat /\ clicks \in 0..MaxClicks /\ page \in -clicks..clicks
    BY SharedAssumption DEF PagingInv, PagingTypes
<1>2. page \in -MaxClicks..MaxClicks
    BY <1>1
<1>3. DOMAIN shown = {"calendar", "page"}
      /\ \A v \in DOMAIN shown : shown[v] \in [previous : BOOLEAN, next : BOOLEAN]
    BY DEF PagingInv, PagingTypes, Buttons
<1>4. /\ calendar \in [year : Int, month : 1..12, now : NowMonths]
      /\ clicks \in 0..MaxClicks /\ overrun \in BOOLEAN
      /\ edits \in [1..MaxEdits -> [step : {"free", "draws", "sent"}, view : {"calendar", "page"},
                                    buttons : [previous : BOOLEAN, next : BOOLEAN]]]
    BY DEF PagingInv, PagingTypes, Edits, Buttons
<1>5. /\ cog \in Figures /\ queries \in [Query -> Invocations] /\ asked \in 0..MaxQueries
    BY DEF ShipsInv, ShipsTypes
<1> QED
    BY <1>2, <1>3, <1>4, <1>5 DEF SharedTypeOK, Figures, Invocations, Reports

-----------------------------------------------------------------------------
(***************************************************************************)
(* What the reports and the caches behind them promise.                    *)
(***************************************************************************)

\* The invariants of all reports and of the table of answers hold in the
\* composition a run checks.
THEOREM DesksHold == Spec => []DesksInv
<1>1. Init => DesksInv
    BY DesksInitially DEF Init
<1>2. DesksInv /\ [Next]_mcVars => DesksInv'
    BY StepsOfDesks, DesksKept
<1> QED
    BY <1>1, <1>2, PTL DEF Spec

\* The cache of images keeps its own.
THEOREM ImagesHold == ImageSpec => []ImageInv
<1>1. ImageInit => ImageInv
    BY ImageInitially
<1>2. ImageInv /\ [ImageNext]_imageVars => ImageInv'
    BY ImageKept
<1> QED
    BY <1>1, <1>2, PTL DEF ImageSpec

\* They hold as well of reports and caches that are all in use at once, the
\* way the bot serves them.
THEOREM AllDesksHold == AllDesks => [](DesksInv /\ ImageInv)
<1>1. ReportInit /\ ShipsInit /\ PagingInit /\ MemoryInit /\ ImageInit => DesksInv /\ ImageInv
    BY DesksInitially, ImageInitially
<1>2. DesksInv /\ ImageInv
      /\ [/\ [ReportNext]_reportVars /\ [ShipsNext]_shipsVars
          /\ [PagingNext]_pagingVars /\ [MemoryNext]_memoryVars
          /\ [ImageNext]_imageVars]_<<desksVars, imageVars>>
      => (DesksInv /\ ImageInv)'
    BY DesksKept, ImageKept DEF desksVars
<1> QED
    BY <1>1, <1>2, PTL DEF AllDesks

\* Reports have the filters of their kind, views and tables their shape,
\* through every callback, failure and expiry.
THEOREM ReportsTyped == Spec => []ReportsTypeOK
<1>1. DesksInv => ReportsTypeOK
    BY SharedTypes, MemoryHolds DEF DesksInv, ReportsTypeOK, ReportInv
<1> QED
    BY <1>1, DesksHold, PTL

\* A report is about the filters its menus show unless a choice was made
\* while it was in the making; /ships counts the voyages once more for each
\* invocation that shared a deferral, of ships that these asked about, and no
\* more; months and pages exist until a button is clicked that the view had
\* disabled.  Callbacks, invocations and edits overlap, fail and overtake
\* each other in every way.
THEOREM ViewsTrue == Spec => []ViewsAreTrue
<1>1. DesksInv => ViewsAreTrue
    BY DEF DesksInv, ViewsAreTrue, ReportInv, ShipsInv, PagingInv
<1> QED
    BY <1>1, DesksHold, PTL

\* A cached answer is never older than its time to live, and the table has
\* each key once and no more keys than its size.
THEOREM CachedAnswersTrue == Spec => []AnswersWereTrue
<1>1. DesksInv => AnswersWereTrue
    BY MemoryHolds DEF DesksInv
<1> QED
    BY <1>1, DesksHold, PTL

\* Files, figures, requests, counters and cleanups keep their shape, step by
\* step, whoever else is at work on the same directory, figures and row.
THEOREM ImagesTyped == ImageSpec => []ImageTypeOK
BY ImagesHold, ImageHolds, PTL

\* Threads that draw at the same time, and close each other's figures, leave
\* no more figures of pyplot than plots are under way.
THEOREM FiguresStayBounded == ImageSpec => []FiguresBounded
BY ImagesHold, ImageHolds, PTL

\* Requests that overwrite each other's counts, and a row that is cleared in
\* between, lose requests from the counters and never add one.
THEOREM CountersNeverOver == ImageSpec => []StatsNeverOver
BY ImagesHold, ImageHolds, PTL
=============================================================================
