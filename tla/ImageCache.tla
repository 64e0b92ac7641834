---------------------------- MODULE ImageCache ------------------------------
(***************************************************************************)
(* One image cache (src/utils/image_cache.py): a directory of PNG files    *)
(* named by a key of what they show, the pyplot figures they are drawn on, *)
(* and the row of cache_stats that counts the requests.                    *)
(*                                                                         *)
(* Renderers are threads: commands call the cache from asyncio.to_thread   *)
(* (analytics, health) or from the event loop itself (ships, crewreport),  *)
(* so every file operation, pyplot call and transaction is a step of its   *)
(* own.  pyplot keeps one stack of figures for the whole process.  A       *)
(* cleanup, by a writer that finds the cache full or by the janitor, works *)
(* file by file on a listing of the directory.                             *)
(***************************************************************************)
EXTENDS Integers, Sequences, FiniteSets, FiniteSetsExt, SequencesExt, Functions

CONSTANTS
    Image,              \* the keys of this cache
    Renderer,           \* threads that ask it for images
    Ttl,                \* seconds a file lives after it was last touched
    MaxItems,           \* files a cleanup leaves
    TriggerPercent,     \* share of MaxItems at which a writer cleans up
    IsTarget,           \* whether JANITOR_TARGETS names this cache
    MaxClock, MaxAsks   \* bounds: the clock, the requests made

TheJanitor == "janitor"

ASSUME ImageCacheAssumption ==
    /\ IsFiniteSet(Image) /\ Image # {} /\ IsFiniteSet(Renderer)
    /\ {Ttl, MaxItems, TriggerPercent, MaxClock, MaxAsks} \subseteq Nat
    /\ MaxItems > 0 /\ TriggerPercent > 100
    /\ IsTarget \in BOOLEAN /\ TheJanitor \notin Renderer

VARIABLES
    files,      \* what is in the directory: key -> content and time
    figures,    \* pyplot's figures, the current one last
    renders,    \* per renderer, where it is in get_or_create_bytes
    stats,      \* the row of cache_stats, if there is one
    sweeps,     \* per writer and for the janitor, where its cleanup is
    clock, asks,
    broken      \* cleanups of writers that ended with FileNotFoundError

imageVars == <<files, figures, renders, stats, sweeps, clock, asks, broken>>

Cleaner == Renderer \cup {TheJanitor}

Empty == "empty"        \* a file of no bytes
Blank == "blank"        \* a figure nobody drew on
NoImage == "none"
Content == Image \cup {Empty, Blank, NoImage}

NoRow == [requests |-> 0, hits |-> 0, misses |-> 0, there |-> FALSE]
Rows == [requests : 0..MaxAsks, hits : 0..MaxAsks, misses : 0..MaxAsks, there : BOOLEAN]

Idle == [step |-> "idle", image |-> CHOOSE i \in Image : TRUE, holds |-> NoImage,
         hit |-> FALSE, row |-> NoRow]

\* cleanup_cache: the time it started, the files it has yet to look at or to
\* remove, those it keeps and the times it found on them.
NoSweep == [step |-> "none", now |-> 0, left |-> {}, kept |-> {}, times |-> <<>>, row |-> FALSE]

\* get_auto_cleanup_trigger_item_count
Trigger == (MaxItems * TriggerPercent) \div 100 + 1

Expired(i) == clock - files[i].at > Ttl

Without(I) == [i \in DOMAIN files \ I |-> files[i]]
With(i, content) ==
    [j \in DOMAIN files \cup {i} |->
        IF j = i THEN [of |-> content, at |-> clock] ELSE files[j]]

\* The row of the statistics may be there from before, with nothing in it yet.
ImageInit ==
    /\ files = <<>> /\ figures = <<>> /\ stats \in {NoRow, [NoRow EXCEPT !.there = TRUE]}
    /\ renders = [r \in Renderer |-> Idle]
    /\ sweeps = [c \in Cleaner |-> NoSweep]
    /\ clock = 0 /\ asks = 0 /\ broken = 0

At(r, step) == renders[r].step = step
Go(r, step) == renders' = [renders EXCEPT ![r].step = step]
Stop(r) == renders' = [renders EXCEPT ![r] = Idle]

----------------------------------------------------------------------------
(* get_or_create_bytes and get_or_create_bytes_async.                      *)

\* The file is there and young enough, or it is not and the image is made.
Lookup(r, i) ==
    /\ At(r, "idle") /\ asks < MaxAsks /\ asks' = asks + 1
    /\ LET fresh == i \in DOMAIN files /\ ~Expired(i)
       IN  /\ renders' = [renders EXCEPT ![r] =
                [Idle EXCEPT !.image = i, !.step = IF fresh THEN "read" ELSE "draw"]]
           /\ files' = IF fresh THEN files ELSE Without({i})
    /\ UNCHANGED <<figures, stats, sweeps, clock, broken>>

\* The bytes are read; a file that has gone in between raises, and the
\* request ends without being counted.
ReadFile(r) ==
    /\ At(r, "read")
    /\ LET i == renders[r].image
       IN  IF i \in DOMAIN files
           THEN renders' = [renders EXCEPT ![r].holds = files[i].of, ![r].step = "touch"]
           ELSE Stop(r)
    /\ UNCHANGED <<files, figures, stats, sweeps, clock, asks, broken>>

\* path.touch() sets the time of the file, and creates it when it has gone.
Touch(r) ==
    /\ At(r, "touch")
    /\ LET i == renders[r].image
       IN  files' = With(i, IF i \in DOMAIN files THEN files[i].of ELSE Empty)
    /\ renders' = [renders EXCEPT ![r].step = "record", ![r].hit = TRUE]
    /\ UNCHANGED <<figures, stats, sweeps, clock, asks, broken>>

\* render_matplotlib_plot_to_png: the plotter opens a figure, ...
Draw(r) ==
    /\ At(r, "draw") /\ Go(r, "savefig")
    /\ figures' = Append(figures, renders[r].image)
    /\ UNCHANGED <<files, stats, sweeps, clock, asks, broken>>

\* Faulty: the figure is closed on the way out only when nothing was raised.
DrawFailsOpen(r) ==
    /\ At(r, "draw") /\ Stop(r)
    /\ figures' \in {figures, Append(figures, renders[r].image)}
    /\ UNCHANGED <<files, stats, sweeps, clock, asks, broken>>

\* ... or raises before or after it has, and the figure is closed anyway.
DrawFails(r) ==
    /\ At(r, "draw") /\ Go(r, "close")
    /\ figures' \in {figures, Append(figures, renders[r].image)}
    /\ UNCHANGED <<files, stats, sweeps, clock, asks, broken>>

\* Faulty: what the producer answered is stored whatever it is.
DrawNothingStored(r) ==
    /\ At(r, "draw") /\ Go(r, "store")
    /\ UNCHANGED <<files, figures, stats, sweeps, clock, asks, broken>>

\* A producer that is no plotter may answer None (a ribbon board without
\* ribbons): the miss is counted and nothing stored.
DrawNothing(r) ==
    /\ At(r, "draw") /\ Go(r, "record")
    /\ UNCHANGED <<files, figures, stats, sweeps, clock, asks, broken>>

\* plt.savefig writes the current figure, opening one when there is none.
SaveFigure(r) ==
    /\ At(r, "savefig")
    /\ figures' = IF figures = <<>> THEN <<Blank>> ELSE figures
    /\ renders' = [renders EXCEPT ![r].step = "close", ![r].holds = Last(figures')]
    /\ UNCHANGED <<files, stats, sweeps, clock, asks, broken>>

\* plt.close() closes the current figure.
CloseFigure(r) ==
    /\ At(r, "close")
    /\ figures' = IF figures = <<>> THEN <<>> ELSE Front(figures)
    /\ IF renders[r].holds = NoImage THEN Stop(r) ELSE Go(r, "store")
    /\ UNCHANGED <<files, stats, sweeps, clock, asks, broken>>

\* write_bytes truncates the file, ...
OpenFile(r) ==
    /\ At(r, "store") /\ Go(r, "fill")
    /\ files' = With(renders[r].image, Empty)
    /\ UNCHANGED <<figures, stats, sweeps, clock, asks, broken>>

\* ... and writes to it; if it was removed meanwhile, nobody sees what.
StoreFile(r) ==
    /\ At(r, "fill") /\ Go(r, "record")
    /\ LET i == renders[r].image
       IN  files' = IF i \in DOMAIN files THEN With(i, renders[r].holds) ELSE files
    /\ UNCHANGED <<figures, stats, sweeps, clock, asks, broken>>

----------------------------------------------------------------------------
(* CacheStatsRecorder.record_request: a session reads the row, changes it  *)
(* in Python and writes the columns it changed.                            *)

\* Faulty: a request that drew an image is recorded once more.
CountsAgain(r) == IF renders[r].hit THEN Stop(r) ELSE Go(r, "record")

\* A hit is done, and so is a miss without an image; after a miss with one
\* the writer looks whether to clean up.
AfterRecord(r) ==
    IF renders[r].hit \/ renders[r].holds = NoImage THEN Stop(r) ELSE Go(r, "count")

ReadStats(r) ==
    /\ At(r, "record")
    /\ renders' = [renders EXCEPT ![r].step = "write", ![r].row = stats]
    /\ UNCHANGED <<files, figures, stats, sweeps, clock, asks, broken>>

\* The row as this request leaves it; the columns it has no business with
\* keep what is in the table.
Recorded(r) ==
    LET seen == renders[r].row
    IN  [requests |-> seen.requests + 1,
         hits |-> IF renders[r].hit THEN seen.hits + 1 ELSE stats.hits,
         misses |-> IF renders[r].hit THEN stats.misses ELSE seen.misses + 1,
         there |-> TRUE]

\* An update of a row that was cleared, and an insertion of a row that is
\* there, raise; like any failing statement that is logged and forgotten.
WriteStats(r) ==
    /\ At(r, "write") /\ AfterRecord(r)
    /\ \/ renders[r].row.there = stats.there /\ stats' = Recorded(r)
       \/ UNCHANGED stats
    /\ UNCHANGED <<files, figures, sweeps, clock, asks, broken>>

----------------------------------------------------------------------------
(* Cleanups: _cleanup_if_threshold_exceeded of a writer, and the loop of   *)
(* the janitor (src/cogs/tasks/task_janitor.py), every six hours.          *)

Stage(c, step) == sweeps[c].step = step

\* The directory is listed.
Lists(c) ==
    sweeps' = [sweeps EXCEPT ![c] =
        [NoSweep EXCEPT !.step = "age", !.now = clock, !.left = DOMAIN files]]

\* Faulty: a cache that has just reached the count is not cleaned up.
CountPassesFull(r) ==
    /\ At(r, "count")
    /\ IF Cardinality(DOMAIN files) > Trigger THEN Lists(r) /\ Go(r, "clean")
       ELSE Stop(r) /\ UNCHANGED sweeps
    /\ UNCHANGED <<files, figures, stats, clock, asks, broken>>

CountFiles(r) ==
    /\ At(r, "count")
    /\ IF Cardinality(DOMAIN files) >= Trigger THEN Lists(r) /\ Go(r, "clean")
       ELSE Stop(r) /\ UNCHANGED sweeps
    /\ UNCHANGED <<files, figures, stats, clock, asks, broken>>

JanitorLists ==
    /\ IsTarget /\ Stage(TheJanitor, "none") /\ Lists(TheJanitor)
    /\ UNCHANGED <<files, figures, renders, stats, clock, asks, broken>>

\* A cleanup that raises ends the request of its writer, without an answer,
\* or the loop of the janitor, which tasks.loop does not start again.
Raises(c) ==
    IF c = TheJanitor
    THEN /\ sweeps' = [sweeps EXCEPT ![c] = [NoSweep EXCEPT !.step = "stopped"]]
         /\ UNCHANGED <<renders, broken>>
    ELSE sweeps' = [sweeps EXCEPT ![c] = NoSweep] /\ Stop(c) /\ broken' = broken + 1

\* Faulty: no file is too old.
KeepsFile(c) ==
    /\ Stage(c, "age")
    /\ \E i \in sweeps[c].left :
          IF i \in DOMAIN files
          THEN /\ sweeps' = [sweeps EXCEPT ![c].left = @ \ {i}, ![c].kept = @ \cup {i}]
               /\ UNCHANGED <<files, renders, broken>>
          ELSE Raises(c) /\ UNCHANGED files
    /\ UNCHANGED <<figures, stats, clock, asks>>

\* A file is asked for its age: one that has gone raises, one that was too
\* old when the cleanup started is removed.
AgeFile(c) ==
    /\ Stage(c, "age")
    /\ \E i \in sweeps[c].left :
          IF i \notin DOMAIN files THEN Raises(c) /\ UNCHANGED files
          ELSE /\ IF sweeps[c].now - files[i].at > Ttl
                  THEN /\ files' = Without({i})
                       /\ sweeps' = [sweeps EXCEPT ![c].left = @ \ {i}]
                  ELSE /\ sweeps' = [sweeps EXCEPT ![c].left = @ \ {i}, ![c].kept = @ \cup {i}]
                       /\ UNCHANGED files
               /\ UNCHANGED <<renders, broken>>
    /\ UNCHANGED <<figures, stats, clock, asks>>

\* Of more files than there may be, the times are asked for once more.
Aged(c) ==
    /\ Stage(c, "age") /\ sweeps[c].left = {}
    /\ LET kept == sweeps[c].kept
       IN  sweeps' = [sweeps EXCEPT ![c] =
              IF Cardinality(kept) > MaxItems
              THEN [NoSweep EXCEPT !.step = "time", !.left = kept, !.kept = kept]
              ELSE [NoSweep EXCEPT !.step = "note"]]
    /\ UNCHANGED <<files, figures, renders, stats, clock, asks, broken>>

TimeFile(c) ==
    /\ Stage(c, "time")
    /\ \E i \in sweeps[c].left :
          IF i \notin DOMAIN files THEN Raises(c)
          ELSE /\ sweeps' = [sweeps EXCEPT ![c].left = @ \ {i},
                     ![c].times = [j \in DOMAIN @ \cup {i} |-> IF j = i THEN files[i].at ELSE @[j]]]
               /\ UNCHANGED <<renders, broken>>
    /\ UNCHANGED <<files, figures, stats, clock, asks>>

\* The newest stay, the others are to go.
Newest(times) ==
    {K \in kSubset(MaxItems, DOMAIN times) :
        \A i \in K, j \in DOMAIN times \ K : times[i] >= times[j]}

Sorted(c) ==
    /\ Stage(c, "time") /\ sweeps[c].left = {}
    /\ \E kept \in Newest(sweeps[c].times) :
          sweeps' = [sweeps EXCEPT ![c] =
              [NoSweep EXCEPT !.step = "drop", !.left = sweeps[c].kept \ kept]]
    /\ UNCHANGED <<files, figures, renders, stats, clock, asks, broken>>

\* missing_ok: it may have gone, or have been read or written since.
DropFile(c) ==
    /\ Stage(c, "drop")
    /\ \E i \in sweeps[c].left :
          /\ files' = Without({i})
          /\ sweeps' = [sweeps EXCEPT ![c].left = @ \ {i}]
    /\ UNCHANGED <<figures, renders, stats, clock, asks, broken>>

Dropped(c) ==
    /\ Stage(c, "drop") /\ sweeps[c].left = {}
    /\ sweeps' = [sweeps EXCEPT ![c].step = "note"]
    /\ UNCHANGED <<files, figures, renders, stats, clock, asks, broken>>

\* record_janitor_run writes columns of its own, in a new row if there was
\* none.
NoteReads(c) ==
    /\ Stage(c, "note")
    /\ sweeps' = [sweeps EXCEPT ![c].step = "noted", ![c].row = stats.there]
    /\ UNCHANGED <<files, figures, renders, stats, clock, asks, broken>>

\* A statement that fails is logged by a writer, and ends the janitor's loop.
Ends(c, failed) ==
    /\ sweeps' = [sweeps EXCEPT ![c] =
          IF failed /\ c = TheJanitor THEN [NoSweep EXCEPT !.step = "stopped"] ELSE NoSweep]
    /\ IF c = TheJanitor THEN UNCHANGED renders ELSE Stop(c)

NoteWrites(c) ==
    /\ Stage(c, "noted")
    /\ \/ /\ sweeps[c].row = stats.there /\ Ends(c, FALSE)
          /\ stats' = [stats EXCEPT !.there = TRUE]
       \/ Ends(c, TRUE) /\ UNCHANGED stats
    /\ UNCHANGED <<files, figures, clock, asks, broken>>

\* The janitor cleans up all its caches and records all of that afterwards:
\* another cache can end its loop before this one is looked at or recorded.
JanitorStops ==
    /\ Stage(TheJanitor, "none") \/ Stage(TheJanitor, "note")
    /\ sweeps' = [sweeps EXCEPT ![TheJanitor] = [NoSweep EXCEPT !.step = "stopped"]]
    /\ UNCHANGED <<files, figures, renders, stats, clock, asks, broken>>

----------------------------------------------------------------------------
(* The controls of /cachestats (src/cogs/commands/NSC/cache_stats.py).     *)

\* clear_cached_items unlinks one file after the other.
ClearItems ==
    /\ \E i \in DOMAIN files : files' = Without({i})
    /\ UNCHANGED <<figures, renders, stats, sweeps, clock, asks, broken>>

ClearStats ==
    /\ stats.there /\ stats' = NoRow
    /\ UNCHANGED <<files, figures, renders, sweeps, clock, asks, broken>>

Tick ==
    /\ clock < MaxClock /\ clock' = clock + 1
    /\ UNCHANGED <<files, figures, renders, stats, sweeps, asks, broken>>

----------------------------------------------------------------------------
RenderStep(r) ==
    \/ \E i \in Image : Lookup(r, i)
    \/ ReadFile(r) \/ Touch(r)
    \/ Draw(r) \/ DrawFails(r) \/ DrawNothing(r) \/ SaveFigure(r) \/ CloseFigure(r)
    \/ OpenFile(r) \/ StoreFile(r) \/ ReadStats(r) \/ WriteStats(r) \/ CountFiles(r)

CleanStep(c) ==
    \/ AgeFile(c) \/ Aged(c) \/ TimeFile(c) \/ Sorted(c) \/ DropFile(c) \/ Dropped(c)
    \/ NoteReads(c) \/ NoteWrites(c)

Janitor == JanitorLists \/ CleanStep(TheJanitor) \/ JanitorStops

ImageNext ==
    \/ \E r \in Renderer : RenderStep(r) \/ CleanStep(r)
    \/ Janitor \/ ClearItems \/ ClearStats \/ Tick

ImageSpec == ImageInit /\ [][ImageNext]_imageVars /\ WF_imageVars(Janitor)

ImageTypeOK ==
    /\ DOMAIN files \subseteq Image
    /\ \A i \in DOMAIN files : files[i] \in [of : Content \ {NoImage}, at : 0..MaxClock]
    /\ figures \in Seq(Image \cup {Blank})
    /\ renders \in [Renderer ->
         [step : {"idle", "read", "touch", "draw", "savefig", "close", "store", "fill", "record",
                  "write", "count", "clean"},
          image : Image, holds : Content, hit : BOOLEAN, row : Rows]]
    /\ stats \in Rows
    /\ DOMAIN sweeps = Cleaner
    /\ \A c \in Cleaner :
          LET sweep == sweeps[c]
          IN  /\ sweep.step \in {"none", "age", "time", "drop", "note", "noted", "stopped"}
              /\ sweep.now \in 0..MaxClock /\ sweep.row \in BOOLEAN
              /\ sweep.left \subseteq Image /\ sweep.kept \subseteq Image
              /\ DOMAIN sweep.times \subseteq Image /\ Range(sweep.times) \subseteq 0..MaxClock
    /\ clock \in 0..MaxClock /\ asks \in 0..MaxAsks /\ broken \in Nat

----------------------------------------------------------------------------
(* Properties.                                                             *)

\* The cache stays under its trigger whatever overlaps: images beyond it are
\* those of writers that have yet to look whether to clean up or are at it,
\* and one for each cleanup that another one cut short.
FilesBounded ==
    Cardinality({i \in DOMAIN files : files[i].of # Empty})
        < Trigger + broken + Cardinality({r \in Renderer :
              renders[r].step \in {"record", "write", "count", "clean"} /\ ~renders[r].hit})

\* pyplot's figures do not pile up, however plotters fail and whosever figure
\* a thread closes: there is at most one for each plot under way.
FiguresBounded ==
    Len(figures) <= Cardinality({r \in Renderer : renders[r].step \in {"savefig", "close"}})

\* The counters of cache_stats lose requests that are recorded at once or
\* while the row is cleared, and those whose statements fail; they never
\* count one that was not recorded, or one twice.
StatsNeverOver ==
    LET recorded == asks - Cardinality({r \in Renderer :
            renders[r].step \notin {"idle", "count", "clean"}})
    IN  {stats.requests, stats.hits, stats.misses} \subseteq 0..recorded

\* An image nobody asks for goes once it has expired, from a cache the
\* janitor looks after and unless its loop has ended.
ExpiredGo ==
    \A i \in Image :
        (i \in DOMAIN files /\ Expired(i)) ~>
            (i \notin DOMAIN files \/ ~Expired(i) \/ Stage(TheJanitor, "stopped"))

=============================================================================
