----------------------------- MODULE Cooldowns ------------------------------
(***************************************************************************)
(* Command cooldowns (src/core/command_cooldowns.py): one token per user   *)
(* and command, the table that counts the calls turned away, and the       *)
(* report over that table with its controls                                *)
(* (src/cogs/commands/NSC/cooldown_stats.py).                              *)
(***************************************************************************)
EXTENDS Integers, FiniteSets, FiniteSetsExt

CONSTANTS
    Caller, Command,
    Configured,         \* the commands COMMAND_COOLDOWNS names
    Seconds,            \* what it says of them
    OwnSeconds,         \* what a decorator in the code says of the others
    MaxTime, MaxHits


VARIABLES
    windows,            \* when each caller's token of a command was last taken
    stats,              \* command_cooldown_stats: command -> row
    report              \* a report that is open: what it is about and shows

cooldownVars == <<windows, stats, report>>

Never == -1
All == "all"            \* a report without a scope
Closed == "closed"

ASSUME CooldownsAssumption ==
    /\ {Seconds, OwnSeconds, MaxTime, MaxHits} \subseteq Nat
    /\ IsFiniteSet(Command) /\ Configured \subseteq Command
    /\ {All, Closed} \cap Command = {}

ConfigOf(cmd) == IF cmd \in Configured THEN Seconds ELSE 0
SecondsOf(cmd) == IF cmd \in Configured THEN Seconds ELSE OwnSeconds

\* A decorator of the code's own is among the checks before the roles;
\* apply_configured_cooldowns adds to the end of them.
CooldownFirst(cmd) == cmd \notin Configured

EmptyRow(cmd) == [seconds |-> ConfigOf(cmd), hits |-> 0, retry |-> 0]

\* build_cooldown_snapshots: a line for each configured command and each row,
\* with the seconds of the configuration.
Snapshots ==
    [cmd \in Configured \cup DOMAIN stats |->
        IF cmd \in DOMAIN stats THEN [stats[cmd] EXCEPT !.seconds = ConfigOf(cmd)]
        ELSE EmptyRow(cmd)]

HitsOf(lines) == SumFunction([cmd \in DOMAIN lines |-> lines[cmd].hits])

Hottest(lines) == {cmd \in DOMAIN lines : \A o \in DOMAIN lines : lines[cmd].hits >= lines[o].hits}

\* build_overview_embeds and build_single_command_embeds
Overview(lines) ==
    [hits |-> HitsOf(lines), of |-> {cmd \in DOMAIN lines : lines[cmd].hits > 0},
     hottest |-> CHOOSE cmd \in Hottest(lines) : TRUE]
Single(lines, cmd) == [hits |-> lines[cmd].hits, of |-> {cmd}, hottest |-> cmd]

\* A scope that is neither configured nor in the table raises KeyError.
Reportable(scope) == scope = All \/ scope \in DOMAIN Snapshots
Report(lines, scope) == IF scope = All THEN Overview(lines) ELSE Single(lines, scope)

NoReport == [scope |-> Closed, shown |-> [hits |-> 0, of |-> {}, hottest |-> All], dialog |-> "none"]

CooldownInit ==
    /\ windows = [c \in Caller \X Command |-> Never]
    /\ stats = <<>> /\ report = NoReport

----------------------------------------------------------------------------
(* discord.py's Cooldown(1, seconds): the window is set when the token is  *)
(* taken, and the token is back once the window has passed.                *)

HasToken(u, cmd, now) ==
    \/ SecondsOf(cmd) = 0 \/ windows[<<u, cmd>>] = Never
    \/ now > windows[<<u, cmd>>] + SecondsOf(cmd)

TakeToken(u, cmd, now) ==
    windows' = IF SecondsOf(cmd) = 0 THEN windows ELSE [windows EXCEPT ![<<u, cmd>>] = now]

RetryAfter(u, cmd, now) == Max({1, SecondsOf(cmd) - (now - windows[<<u, cmd>>])})

ForgetTokens == windows' = [c \in Caller \X Command |-> Never]

\* Faulty: a new row starts without the hit it was made for.
RecordHitLate(u, cmd, now) ==
    stats' = [c \in DOMAIN stats \cup {cmd} |->
                 IF c \in DOMAIN stats THEN [stats[c] EXCEPT !.hits = @ + 1] ELSE EmptyRow(cmd)]

\* record_cooldown in its own session; a failure is logged and forgotten.
RecordHit(u, cmd, now) ==
    LET row == IF cmd \in DOMAIN stats THEN stats[cmd] ELSE EmptyRow(cmd)
    IN  /\ row.hits < MaxHits
        /\ \/ stats' = [c \in DOMAIN stats \cup {cmd} |->
                 IF c = cmd THEN [seconds |-> ConfigOf(cmd), hits |-> row.hits + 1,
                                  retry |-> RetryAfter(u, cmd, now)]
                 ELSE stats[c]]
           \/ UNCHANGED stats

----------------------------------------------------------------------------
(* /cooldownstats and its controls.                                        *)

OpenReport(scope) ==
    /\ report.scope = Closed /\ Reportable(scope)
    /\ report' = [scope |-> scope, shown |-> Report(Snapshots, scope), dialog |-> "none"]
    /\ UNCHANGED <<windows, stats>>

\* Refresh Report: one whose scope has gone from the table raises, and shows
\* on what it did.
RefreshReport ==
    /\ report.scope # Closed /\ Reportable(report.scope)
    /\ report' = [report EXCEPT !.shown = Report(Snapshots, report.scope)]
    /\ UNCHANGED <<windows, stats>>

AskClear ==
    /\ report.scope # Closed /\ report' = [report EXCEPT !.dialog = "asked"]
    /\ UNCHANGED <<windows, stats>>

\* confirm_clear deletes the rows, rebuilds the report and answers.  Of a
\* command that only the table knew there is then nothing to build: that
\* raises, and the dialog is never answered.
ConfirmClear ==
    /\ report.dialog = "asked"
    /\ stats' = <<>>
    /\ report' =
        IF report.scope \in {All} \cup Configured
        THEN [report EXCEPT !.dialog = "cleared",
                !.shown = Report([cmd \in Configured |-> EmptyRow(cmd)], report.scope)]
        ELSE report
    /\ UNCHANGED windows

CancelClear ==
    /\ report.dialog = "asked" /\ report' = [report EXCEPT !.dialog = "none"]
    /\ UNCHANGED <<windows, stats>>

\* The views time out.
CloseReport ==
    /\ report.scope # Closed /\ report' = NoReport
    /\ UNCHANGED <<windows, stats>>

Reporting ==
    \/ \E scope \in Command \cup {All} : OpenReport(scope)
    \/ RefreshReport \/ AskClear \/ ConfirmClear \/ CancelClear \/ CloseReport

CooldownTypeOK ==
    /\ windows \in [Caller \X Command -> Never..MaxTime]
    /\ DOMAIN stats \subseteq Command
    /\ \A cmd \in DOMAIN stats :
         stats[cmd] \in [seconds : {0, Seconds}, hits : 1..MaxHits, retry : 1..Max({Seconds, OwnSeconds, 1})]
    /\ report.scope \in Command \cup {All, Closed}
    /\ report.dialog \in {"none", "asked", "cleared"}
=============================================================================
