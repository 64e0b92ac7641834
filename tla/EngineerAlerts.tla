--------------------------- MODULE EngineerAlerts ---------------------------
(***************************************************************************)
(* Alerts to the engineers (Bot.setup_hook, on_ready,                      *)
(* src/utils/discord_utils.py): a log record marked notify_engineer calls  *)
(* back on the thread that logs it; before the bot is ready its alert      *)
(* waits in a list that on_ready empties.  discord.py calls on_ready again *)
(* whenever it had to open a new session.                                  *)
(***************************************************************************)
EXTENDS Integers, FiniteSets

CONSTANTS
    Alert,
    Threaded,           \* the alerts logged on a thread other than the loop's
    MaxReadies

ASSUME AlertsAssumption == Threaded \subseteq Alert /\ MaxReadies \in Nat

VARIABLES
    ready,              \* is_ready()
    alerts,             \* how far each alert is
    told,               \* how often the engineers were told of it
    readies,            \* on_ready: calls made, how many wait, how many send
    startupLogSent

alertVars == <<ready, alerts, told, readies, startupLogSent>>

AlertInit ==
    /\ ready = FALSE
    /\ alerts = [a \in Alert |-> "none"] /\ told = [a \in Alert |-> 0]
    /\ readies = [made |-> 0, due |-> 0, sending |-> 0]
    /\ startupLogSent = FALSE

\* notification_callback asks whether the bot is ready ...
Notify(a) ==
    /\ alerts[a] = "none"
    /\ alerts' = [alerts EXCEPT ![a] =
         IF ready THEN "task" ELSE IF a \in Threaded THEN "placing" ELSE "waits"]
    /\ UNCHANGED <<ready, told, readies, startupLogSent>>

\* ... and on another thread the list may have been emptied meanwhile.
PlaceLate(a) ==
    /\ alerts[a] = "placing" /\ alerts' = [alerts EXCEPT ![a] = "waits"]
    /\ UNCHANGED <<ready, told, readies, startupLogSent>>

\* discord.py is ready, for the first time or again.
GatewayReady ==
    /\ readies.made < MaxReadies
    /\ readies' = [readies EXCEPT !.made = @ + 1, !.due = @ + 1]
    /\ ready' = TRUE
    /\ UNCHANGED <<alerts, told, startupLogSent>>

\* Faulty: the list is looked at once the startup log has been sent.
OnReadyOnce ==
    /\ readies.due > 0
    /\ alerts' = [a \in Alert |->
         IF alerts[a] = "waits" /\ startupLogSent THEN "task" ELSE alerts[a]]
    /\ readies' = [readies EXCEPT !.due = @ - 1, !.sending = IF startupLogSent THEN @ ELSE @ + 1]
    /\ UNCHANGED <<ready, told, startupLogSent>>

\* on_ready up to its first await: a task for each alert that waits, the list
\* cleared, and the startup log begun unless one has been sent.  What a thread
\* puts on the list between the loop over it and its clearing is lost.
OnReady ==
    /\ readies.due > 0
    /\ \E late \in SUBSET {a \in Alert : alerts[a] = "placing"} :
         alerts' = [a \in Alert |-> IF a \in late THEN "lost"
                                   ELSE IF alerts[a] = "waits" THEN "task" ELSE alerts[a]]
    /\ readies' = [readies EXCEPT !.due = @ - 1, !.sending = IF startupLogSent THEN @ ELSE @ + 1]
    /\ UNCHANGED <<ready, told, startupLogSent>>

\* The startup log is through, or raised.
StartupSent ==
    /\ readies.sending > 0 /\ readies' = [readies EXCEPT !.sending = @ - 1]
    /\ startupLogSent' \in {startupLogSent, TRUE}
    /\ UNCHANGED <<ready, alerts, told>>

\* dispatch: without the guild nobody is told; an engineer or a channel that
\* cannot be reached is passed over.
Dispatch(a) ==
    /\ alerts[a] = "task" /\ alerts' = [alerts EXCEPT ![a] = "over"]
    /\ told' \in {told, [told EXCEPT ![a] = @ + 1]}
    /\ UNCHANGED <<ready, readies, startupLogSent>>

Loop == OnReady \/ StartupSent \/ \E a \in Alert : Dispatch(a) \/ PlaceLate(a)

AlertNext == GatewayReady \/ (\E a \in Alert : Notify(a)) \/ Loop

\* The loop runs every task that is scheduled, and a thread goes on.
AlertSpec ==
    /\ AlertInit /\ [][AlertNext]_alertVars
    /\ WF_alertVars(OnReady) /\ WF_alertVars(StartupSent)
    /\ \A a \in Alert : WF_alertVars(Dispatch(a)) /\ WF_alertVars(PlaceLate(a))

AlertTypeOK ==
    /\ {ready, startupLogSent} \subseteq BOOLEAN
    /\ alerts \in [Alert -> {"none", "placing", "waits", "task", "over", "lost"}]
    /\ told \in [Alert -> 0..1]
    /\ readies \in [made : 0..MaxReadies, due : 0..MaxReadies, sending : 0..MaxReadies]

----------------------------------------------------------------------------
\* An alert logged before the bot was ready goes out once it is, through
\* sessions opened anew and startup logs that fail.  Only one that another
\* thread put on the list may wait for the next on_ready, or be lost when it
\* got there between on_ready's loop and its clearing; and an alert has gone
\* out when it was sent, whether or not anybody could be reached.
EarlyAlertsGo ==
    \A a \in Alert :
        (ready /\ alerts[a] = "waits" /\ (a \in Threaded => readies.due > 0)) ~> alerts[a] = "over"
=============================================================================
