---------------------------- MODULE VoyageLedger ----------------------------
(***************************************************************************)
(* The voyage ledger: the messages of the voyage-log channel, the handlers *)
(* that keep the tables in step with them, and the commands that write the *)
(* same tables.                                                            *)
(*                                                                         *)
(* Handlers are coroutines on one event loop.  A handler is interrupted    *)
(* only where it awaits Discord, so each action below runs from one await  *)
(* to the next; task[t] is what an interrupted handler holds.  A request   *)
(* to Discord whose answer is used is two actions: one in which Discord    *)
(* answers, one in which the handler resumes with the answer.              *)
(*                                                                         *)
(* The gateway delivers the creation of a message before its edits and     *)
(* deletion, and on_message awaits nothing before it has processed it:     *)
(* posting a message and on_message are one action.  Events that occur     *)
(* while the bot is down are lost.                                         *)
(***************************************************************************)
EXTENDS LedgerTables

CONSTANTS
    Mentions,   \* the sets of users a log message may mention
    BotLogs,    \* logs posted by the bot itself
    Task,       \* slots for coroutines in flight
    PageSize,   \* messages on_ready reads back (50 in the code)
    Overlap,    \* may an event or command concern a log that a coroutine in
                \* flight is at work on?
    MaxStarts,  \* bounds: starts of the bot and reconnections,
    MaxCrashes, \*   deaths of the process,
    MaxEdits,   \*   edits of messages,
    MaxErrors,  \*   requests to Discord that fail,
    MaxConsole, \*   uses of the voyage_information menu,
    MaxViews    \*   uses of /addsubclass

ASSUME VoyageLedgerAssumption ==
    /\ Mentions \subseteq SUBSET Sailor
    /\ BotLogs \subseteq Log
    /\ Overlap \in BOOLEAN
    /\ {PageSize, MaxStarts, MaxCrashes, MaxEdits, MaxErrors, MaxConsole,
         MaxViews} \subseteq Nat

VARIABLES
    posted,    \* messages 1..posted have been posted
    content,   \* content[l]: whom message l now mentions
    deleted,   \* messages that have been deleted
    online,    \* is the bot connected?
    task,      \* task[t]: the coroutine in slot t
    snapshot,  \* of the hosted session that is the default argument of
               \* process_voyage_log: {S} while it has a transaction open in
               \* which hosted is S, {} otherwise
    used       \* how much of each bound has been used

discord == <<posted, content, deleted>>
vars == <<tables, discord, online, task, snapshot, used>>

\* The awaits a coroutine may be suspended in: the first fetch of the edit
\* handler, its second fetch before and after Discord's answer, the fetch of
\* the delete handler, on_ready before and within the page of messages, a
\* view that waits for a click and one whose click is being answered.
Awaits == {"idle", "edit", "refetch", "resume", "delete", "connect", "page",
           "view", "confirm"}

TaskRecord ==
    [at : Awaits,
     log : Log \union {0},
     mentions : SUBSET Sailor,          \* content a fetch returned
     rows : SUBSET Row,                 \* subclass rows to save
     kept : SUBSET Row,                 \* rows read and still in the table
     gone : SUBSET Sailor,              \* sailors whose rows are to go
     history : SUBSET (Log \X SUBSET Sailor), \* messages on_ready has to do
     seen : SUBSET SUBSET Log]          \* snapshot of on_ready's session

Budgets == {"starts", "crashes", "edits", "errors", "console", "views"}

TypeOK ==
    /\ TablesTypeOK
    /\ posted \in 0 .. MaxLog
    /\ content \in [Log -> Mentions \union {{}}]
    /\ deleted \in SUBSET Log
    /\ online \in BOOLEAN
    /\ task \in [Task -> TaskRecord]
    /\ snapshot \in SUBSET SUBSET Log
    /\ used \in [Budgets -> Nat]

Idle == [at |-> "idle", log |-> 0, mentions |-> {}, rows |-> {}, kept |-> {},
         gone |-> {}, history |-> {}, seen |-> {}]

Init ==
    /\ TablesInit
    /\ posted = 0
    /\ content = [l \in Log |-> {}]
    /\ deleted = {}
    /\ online = FALSE
    /\ task = [t \in Task |-> Idle]
    /\ snapshot = {}
    /\ used = [kind \in Budgets |-> 0]

-----------------------------------------------------------------------------
(***************************************************************************)
(* Helpers.                                                                *)
(***************************************************************************)
Alive == (1 .. posted) \ deleted

Spend(kind, limit) ==
    /\ used[kind] < limit
    /\ used' = [used EXCEPT ![kind] = @ + 1]

\* Logs some coroutine in flight is at work on.
Busy ==
    UNION {IF task[t].at = "connect" THEN Log
           ELSE {task[t].log} \union {p[1] : p \in task[t].history} :
                t \in Task}

Apart(logs) == Overlap \/ logs \intersect Busy = {}

Begin(t, coroutine) ==
    /\ task[t] = Idle
    /\ task' = [task EXCEPT ![t] = coroutine]

Finish(t) == task' = [task EXCEPT ![t] = Idle]

\* What a hosted session sees: its open snapshot, or the table.
Visible(snap) == IF snap = {} THEN hosted ELSE UNION snap

\* After process_voyage_log the session has committed or rolled back, unless
\* the call returned early: before it read anything, or because the log
\* exists, which leaves the transaction of that read open.
SessionAfter(l, mentions, snap) ==
    IF Cardinality(mentions) <= 1 THEN snap
    ELSE IF l \in Visible(snap) THEN {Visible(snap)}
    ELSE {}

-----------------------------------------------------------------------------
(***************************************************************************)
(* Users of Discord, and the gateway events the bot receives while online. *)
(***************************************************************************)
Post(m) ==
    /\ posted < MaxLog
    /\ posted' = posted + 1
    /\ content' = [content EXCEPT ![posted + 1] = m]
    /\ IF online /\ posted + 1 \notin BotLogs
       THEN ProcessVoyageLog(posted + 1, m, hosted)      \* on_message
       ELSE UNCHANGED voyageTables
    /\ UNCHANGED <<subclassTables, deleted, online, task, snapshot, used>>

Event(kind, l) ==
    IF online
    THEN \E t \in Task : Begin(t, [Idle EXCEPT !.at = kind, !.log = l])
    ELSE UNCHANGED task

\* Discord also sends edit events that leave the mentions as they are.
Edit(l, m) ==
    /\ l \in Alive
    /\ Apart({l})
    /\ Spend("edits", MaxEdits)
    /\ content' = [content EXCEPT ![l] = m]
    /\ Event("edit", l)
    /\ UNCHANGED <<tables, posted, deleted, online, snapshot>>

Delete(l) ==
    /\ l \in Alive
    /\ Apart({l})
    /\ deleted' = deleted \union {l}
    /\ Event("delete", l)
    /\ UNCHANGED <<tables, posted, content, online, snapshot, used>>

-----------------------------------------------------------------------------
(***************************************************************************)
(* on_raw_message_edit.                                                    *)
(***************************************************************************)
\* fetch_message answers: not found, or a message of the bot, ends the
\* handler; otherwise it notes the log's subclass rows and removes the log.
\* The session that read the rows commits only if there is a participant:
\* without one its snapshot still shows every row when they are saved again,
\* so that none is.
EditFetched(t) ==
    LET l == task[t].log
    IN /\ task[t].at = "edit"
       /\ IF l \in deleted \/ l \in BotLogs
          THEN Finish(t) /\ UNCHANGED tables
          ELSE /\ RemoveVoyageLogData(l)
               /\ task' = [task EXCEPT
                    ![t].at = "refetch",
                    ![t].rows = ParticipantRows(l),
                    ![t].kept = IF voyages[l] = {} THEN {} ELSE OtherRows(l)]
       /\ UNCHANGED <<discord, online, snapshot, used>>

\* The second fetch_message answers with the message as it is now.
Refetched(t) ==
    LET l == task[t].log
    IN /\ task[t].at = "refetch"
       /\ IF l \in deleted
          THEN Finish(t)
          ELSE task' = [task EXCEPT ![t].at = "resume",
                                    ![t].mentions = content[l]]
       /\ UNCHANGED <<tables, discord, online, snapshot, used>>

\* Rows of kept that have vanished since raise when they are read, in the
\* middle of the list.
SaveAgain(l, rows, kept) ==
    IF kept \subseteq subclasses[l]
    THEN SaveSubclasses(l, rows)
    ELSE \E some \in SUBSET rows : SaveSubclasses(l, some)

\* With the answer, process_voyage_log runs on its default repositories.
Resume(t) ==
    LET c == task[t]
    IN /\ c.at = "resume"
       /\ ProcessVoyageLog(c.log, c.mentions, Visible(snapshot))
       /\ snapshot' = SessionAfter(c.log, c.mentions, snapshot)
       /\ SaveAgain(c.log, c.rows, c.kept)
       /\ Finish(t)
       /\ UNCHANGED <<discord, online, used>>

(***************************************************************************)
(* on_raw_message_delete: the message is gone, which is the answer the     *)
(* handler goes on with.                                                   *)
(***************************************************************************)
DeleteFetched(t) ==
    /\ task[t].at = "delete"
    /\ RemoveVoyageLogData(task[t].log)
    /\ Finish(t)
    /\ UNCHANGED <<discord, online, snapshot, used>>

\* A request fails otherwise than with "not found": the handler alerts the
\* engineers and ends, whatever it has done before.
RequestFails(t) ==
    /\ task[t].at \in {"edit", "refetch", "delete", "connect"}
    /\ Spend("errors", MaxErrors)
    /\ Finish(t)
    /\ UNCHANGED <<tables, discord, online, snapshot>>

-----------------------------------------------------------------------------
(***************************************************************************)
(* on_ready, after a start of the process or a reconnection: the newest    *)
(* messages of the channel, newest first, with a pause after each.  Bots   *)
(* are not left out.  The repositories are its own.                        *)
(***************************************************************************)
Ready ==
    /\ Apart(Log)
    /\ Spend("starts", MaxStarts)
    /\ online' = TRUE
    /\ \E t \in Task : Begin(t, [Idle EXCEPT !.at = "connect"])
    /\ UNCHANGED <<tables, discord, snapshot>>

\* Faulty: the page is one message short.
NewestButOne(logs) ==
    {l \in logs : Cardinality({k \in logs : k > l}) < PageSize - 1}

Newest(logs) ==
    {l \in logs : Cardinality({k \in logs : k > l}) < PageSize}

HistoryFetched(t) ==
    /\ task[t].at = "connect"
    /\ IF Alive = {}
       THEN Finish(t)
       ELSE task' = [task EXCEPT
                ![t].at = "page",
                ![t].history = {<<l, content[l]>> : l \in Newest(Alive)}]
    /\ UNCHANGED <<tables, discord, online, snapshot, used>>

Backfill(t) ==
    LET c == task[t]
    IN /\ c.at = "page"
       /\ \E p \in c.history :
            /\ \A q \in c.history : q[1] <= p[1]
            /\ ProcessVoyageLog(p[1], p[2], Visible(c.seen))
            /\ IF c.history = {p}
               THEN Finish(t)
               ELSE task' = [task EXCEPT
                        ![t].history = @ \ {p},
                        ![t].seen = SessionAfter(p[1], p[2], @)]
       /\ UNCHANGED <<subclassTables, discord, online, snapshot, used>>

\* The process dies: coroutines and sessions are lost, and so are events
\* until it is started again.
Crash ==
    /\ online
    /\ used["starts"] < MaxStarts
    /\ Spend("crashes", MaxCrashes)
    /\ online' = FALSE
    /\ task' = [t \in Task |-> Idle]
    /\ snapshot' = {}
    /\ UNCHANGED <<tables, discord>>

-----------------------------------------------------------------------------
(***************************************************************************)
(* The voyage_information menu: "Initialize Data" and "Process Subclasses" *)
(* fetch the message and process it as the edit handler does; "Delete      *)
(* Data" and "Delete Subclasses" act at once.                              *)
(***************************************************************************)
Initialize(l) ==
    /\ online
    /\ l <= posted
    /\ Apart({l})
    /\ Spend("console", MaxConsole)
    /\ \E t \in Task : Begin(t, [Idle EXCEPT !.at = "refetch", !.log = l])
    /\ UNCHANGED <<tables, discord, online, snapshot>>

DeleteData(l) ==
    /\ online
    /\ Apart({l})
    /\ Spend("console", MaxConsole)
    /\ RemoveVoyageLogData(l)
    /\ UNCHANGED <<discord, online, task, snapshot>>

DeleteSubclasses(l) ==
    /\ online
    /\ Apart({l})
    /\ Spend("console", MaxConsole)
    /\ DeleteAllSubclasses(l)
    /\ UNCHANGED <<voyageTables, discord, online, task, snapshot>>

-----------------------------------------------------------------------------
(***************************************************************************)
(* /addsubclass.  The command reads the rows the message asks for, for     *)
(* sailors it mentions, and compares them with the rows of the log.        *)
(* Sailors whose rows differ are to be updated, sailors who have rows and  *)
(* are not named any more are to go.  A view with a Confirm button keeps   *)
(* both, and the session, whose transaction stays open on the rows read.   *)
(***************************************************************************)
Named(rows) == {r[1] : r \in rows}

Wanted(l) == SUBSET {r \in Row : r[1] \in content[l]}

AddSubclass(l, rows) ==
    LET updated == {s \in Named(rows) :
                        RowsOf(rows, {s}) # RowsOf(subclasses[l], {s})}
        missing == Named(subclasses[l]) \ Named(rows)
    IN /\ online
       /\ l \in Alive \intersect hosted
       /\ Apart({l})
       /\ Spend("views", MaxViews)
       /\ updated \union missing # {}
       /\ \E t \in Task :
            Begin(t, [Idle EXCEPT !.at = "view", !.log = l,
                                  !.rows = RowsOf(rows, updated),
                                  !.gone = missing,
                                  !.kept = subclasses[l]])
       /\ UNCHANGED <<tables, discord, online, snapshot>>

Cancel(t) ==
    /\ task[t].at = "view"
    /\ Finish(t)
    /\ UNCHANGED <<tables, discord, online, snapshot, used>>

\* The button fetches the message, which must still be there, and answers.
ConfirmFetched(t) ==
    /\ task[t].at = "view"
    /\ task[t].log \notin deleted
    /\ task' = [task EXCEPT ![t].at = "confirm"]
    /\ UNCHANGED <<tables, discord, online, snapshot, used>>

\* Faulty: the rows go without their points.
ConfirmKeepsPoints(t) ==
    LET c == task[t]
        touched == c.gone \union Named(c.rows)
    IN /\ c.at = "confirm"
       /\ points' = Increment(points, c.rows)
       /\ subclasses' = [subclasses EXCEPT
               ![c.log] = (@ \ RowsOf(@, touched)) \union c.rows]
       /\ Finish(t)
       /\ UNCHANGED <<voyageTables, discord, online, snapshot, used>>

\* The rows of each sailor in turn are deleted and saved anew.  The first
\* deletion takes back the points of the rows the command read; its commit
\* ends that transaction, and the others see the table.  Without a hosted
\* row nothing is saved.
Confirm(t) ==
    LET c == task[t]
        l == c.log
        touched == c.gone \union Named(c.rows)
    IN /\ c.at = "confirm"
       /\ \E first \in IF c.gone # {} THEN c.gone ELSE Named(c.rows) :
            LET taken == RowsOf(c.kept, {first})
                         \union RowsOf(subclasses[l], touched \ {first})
                left == Decrement(points, taken)
            IN IF l \in hosted
               THEN /\ points' = Increment(left, c.rows)
                    /\ subclasses' = [subclasses EXCEPT
                            ![l] = (@ \ RowsOf(@, touched)) \union c.rows]
               ELSE points' = left /\ UNCHANGED subclasses
       /\ Finish(t)
       /\ UNCHANGED <<voyageTables, discord, online, snapshot, used>>

-----------------------------------------------------------------------------
Users ==
    \/ \E m \in Mentions : Post(m)
    \/ \E l \in Log, m \in Mentions : Edit(l, m)
    \/ \E l \in Log : Delete(l)

Console ==
    \E l \in Log :
        \/ Initialize(l)
        \/ DeleteData(l)
        \/ DeleteSubclasses(l)

Officers ==
    \/ \E l \in Log : \E rows \in Wanted(l) : AddSubclass(l, rows)
    \/ \E t \in Task : Cancel(t) \/ ConfirmFetched(t) \/ Confirm(t)

Handlers(t) ==
    \/ EditFetched(t)
    \/ Refetched(t)
    \/ Resume(t)
    \/ DeleteFetched(t)
    \/ HistoryFetched(t)
    \/ Backfill(t)

Next ==
    \/ Users
    \/ Console
    \/ Officers
    \/ Ready
    \/ Crash
    \/ \E t \in Task : Handlers(t) \/ RequestFails(t)

Spec == Init /\ [][Next]_vars

\* The event loop runs every coroutine, Discord answers every request, and
\* a bot that went down is started again.  Nothing makes users, officers or
\* failures act.
Fairness ==
    /\ \A t \in Task : WF_vars(Handlers(t))
    /\ WF_vars(~online /\ Ready)

FairSpec == Spec /\ Fairness

-----------------------------------------------------------------------------
(***************************************************************************)
(* Properties.  Those of the tables alone are in LedgerTables.             *)
(***************************************************************************)
IsVoyage(l) == l \in Alive \ BotLogs /\ Cardinality(content[l]) > 1

AtRest == online /\ \A t \in Task : task[t] = Idle

\* When no handler is in flight the tables say what the channel says: every
\* log with a crew is recorded with the crew it mentions now, and nothing
\* else is recorded.  The edit handler removes a log and awaits Discord
\* before it records it again, and on_ready works from a page of messages
\* that grows old.
TablesFollowChannel ==
    AtRest => \A l \in Log : IF IsVoyage(l)
                             THEN l \in hosted /\ voyages[l] = content[l]
                             ELSE l \notin hosted

\* An edit that moves sailors out of a crew leaves their subclass rows without
\* a voyage: once /addsubclass is in use, edits keep the mentions of a message.
Steady == \A l \in 1 .. posted : content'[l] = content[l]
SteadyOrNoViews == used'.views = 0 \/ Steady

\* The tables at rest say what the channel says, and points are the sum of
\* the subclass rows: edits, reconnections with their backfill and subclass
\* commands leave both behind when they do not overtake each other.
TablesAgree == TablesFollowChannel /\ PointsMatchRows

\* The tables hosted and voyages and the counter voyage_count implement the
\* register: handlers in flight may overlap and the bot may die, but each
\* step records one crew, extends it, or strikes it as a whole.
Register == INSTANCE VoyageRegister WITH
    registered <- hosted, crew <- voyages, credit <- voyageCount

ImplementsRegister == Register!Spec

\* A log with a crew is recorded in the end, unless it is deleted or loses
\* its crew: by on_message, by the edit handler, or by on_ready after the
\* bot was down.
EventuallyRecorded ==
    \A l \in Log : IsVoyage(l) ~> (l \in hosted \/ ~IsVoyage(l))

=============================================================================
