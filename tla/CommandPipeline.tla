-------------------------- MODULE CommandPipeline ---------------------------
(***************************************************************************)
(* A command from its arrival to the last row about it (src/core/bot.py,   *)
(* src/security, auditlog_repository.py).  discord.py starts one task that *)
(* runs the command and one that tells the bot of it; which gets first to  *)
(* a point where the other can run is not fixed.  The row of the trail is  *)
(* inserted by a thread, the execution time written half a second after    *)
(* the command, and an error at once.                                      *)
(*                                                                         *)
(* The checks of a command run without a point at which another task could *)
(* run.  A configured cooldown is added last and looked at after the       *)
(* roles; one that a decorator below require_any_role declares, as that of *)
(* /briefing, is looked at first.  The wrapper of require_any_role asks    *)
(* for the roles once more.                                                *)
(***************************************************************************)
EXTENDS RoleAccess, Cooldowns

CONSTANTS
    Call,
    MaxCrashes

ASSUME PipelineAssumption ==
    /\ Caller = User /\ MaxTime = MaxClock /\ MaxCrashes \in Nat
    /\ User # {} /\ Command # {}

VARIABLES
    calls,      \* per call: who and what, how far it is, how far its event is
    starts,     \* _cmd_start_times
    trail,      \* bot_interaction_log: the rows by call
    security,   \* security_interaction_audit_log: call -> the entries about it
    lastRun,    \* when each caller last got through to a command
    lastDenied, \* ... and last was denied one
    crashes

callVars == <<calls, starts, trail, security, lastRun, lastDenied, crashes>>
pipelineVars == <<roleVars, cooldownVars, callVars>>

NoCall == [who |-> CHOOSE u \in User : TRUE, what |-> CHOOSE c \in Command : TRUE, slash |-> TRUE,
           step |-> "none", event |-> "none", insert |-> "none", time |-> "none",
           early |-> FALSE, failed |-> FALSE, noted |-> FALSE, ended |-> 0]
NewRow(c) == [failed |-> calls[c].failed, time |-> Never]

Failures == {"denied", "cooled", "raised"}
Ends == Failures \cup {"done"}
Over(c) == calls[c].step \in Ends

PipelineInit ==
    /\ RoleInit /\ CooldownInit
    /\ calls = [c \in Call |-> NoCall]
    /\ starts = <<>> /\ trail = <<>>
    /\ security = [c \in Call |-> <<>>]
    /\ lastRun = [p \in Caller \X Command |-> Never] /\ lastDenied = lastRun
    /\ crashes = 0

Arrive(c, u, cmd, slash) ==
    /\ calls[c].step = "none"
    /\ calls' = [calls EXCEPT ![c] =
         [NoCall EXCEPT !.who = u, !.what = cmd, !.slash = slash, !.step = "due", !.event = "due"]]
    /\ UNCHANGED <<roleVars, cooldownVars, starts, trail, security, lastRun, lastDenied, crashes>>

\* on_interaction and on_command: the start is noted, for slash commands, and
\* the row handed to a thread, with what command_failed says by then.
OnInteraction(c) ==
    /\ calls[c].event = "due"
    /\ calls' = [calls EXCEPT ![c].event = "seen", ![c].insert = "due",
                     ![c].early = Over(c), ![c].failed = calls[c].step \in Failures]
    /\ starts' = IF calls[c].slash
                 THEN [d \in DOMAIN starts \cup {c} |-> IF d = c THEN clock ELSE starts[d]]
                 ELSE starts
    /\ UNCHANGED <<roleVars, cooldownVars, trail, security, lastRun, lastDenied, crashes>>

\* A command written in a direct message has no guild to log: on_command
\* raises before it hands anything to a thread.
OnCommandFails(c) ==
    /\ calls[c].event = "due" /\ ~calls[c].slash
    /\ calls' = [calls EXCEPT ![c].event = "seen"]
    /\ UNCHANGED <<roleVars, cooldownVars, starts, trail, security, lastRun, lastDenied, crashes>>

\* The thread inserts the row, or fails and logs that.
Insert(c) ==
    /\ calls[c].insert = "due" /\ calls' = [calls EXCEPT ![c].insert = "over"]
    /\ trail' \in {trail, [d \in DOMAIN trail \cup {c} |-> IF d = c THEN NewRow(c) ELSE trail[d]]}
    /\ UNCHANGED <<roleVars, cooldownVars, starts, security, lastRun, lastDenied, crashes>>

----------------------------------------------------------------------------
(* The command's task.                                                     *)

\* Both handlers of a slash command's end forget its start and, when there
\* was one, write the time it took later on.
Started(c) == c \in DOMAIN starts
ForgetStart(c) == starts' = [d \in DOMAIN starts \ {c} |-> starts[d]]
EndedAs(c, end) ==
    calls' = [calls EXCEPT ![c].step = end, ![c].ended = clock,
                 ![c].time = IF Started(c) THEN "due" ELSE "none",
                 ![c].noted = c \in DOMAIN trail]

\* log_interaction of the security log: an insertion that may fail.
Audit(c, entry) == security' \in {security, [security EXCEPT ![c] = Append(@, entry)]}

\* handle_app_command_security_error, handle_text_command_security_error
Deny(c) ==
    LET u == calls[c].who cmd == calls[c].what
    IN  /\ calls[c].step = "due"
        /\ IF CooldownFirst(cmd) THEN HasToken(u, cmd, clock) /\ TakeToken(u, cmd, clock)
                                 ELSE UNCHANGED windows
        /\ \E answered \in BOOLEAN : ~Allowed(u, answered) /\ Resolve(u, answered)
        /\ EndedAs(c, "denied") /\ ForgetStart(c)
        /\ Audit(c, "FAILURE")
        /\ lastDenied' = [lastDenied EXCEPT ![<<u, cmd>>] = clock]
        /\ UNCHANGED <<badges, grants, clock, changes, entitledAt, barredAt, stats, report,
                       trail, lastRun, crashes>>

\* handle_app_command_cooldown_error, handle_text_command_cooldown_error
TurnAway(c) ==
    LET u == calls[c].who cmd == calls[c].what
    IN  /\ calls[c].step = "due" /\ ~HasToken(u, cmd, clock)
        /\ \/ CooldownFirst(cmd) /\ UNCHANGED roleCache
           \/ /\ ~CooldownFirst(cmd)
              /\ \E answered \in BOOLEAN : Allowed(u, answered) /\ Resolve(u, answered)
        /\ RecordHit(u, cmd, clock)
        /\ EndedAs(c, "cooled") /\ ForgetStart(c)
        /\ UNCHANGED <<badges, grants, clock, changes, entitledAt, barredAt, windows, report,
                       trail, security, lastRun, lastDenied, crashes>>

\* Faulty: the cooldown is counted when the command ends.
EnterFree(c) ==
    LET u == calls[c].who cmd == calls[c].what
    IN  /\ calls[c].step = "due"
        /\ \E answered \in BOOLEAN : Allowed(u, answered) /\ Resolve(u, answered)
        /\ HasToken(u, cmd, clock)
        /\ calls' = [calls EXCEPT ![c].step = "runs"]
        /\ lastRun' = [lastRun EXCEPT ![<<u, cmd>>] = clock]
        /\ UNCHANGED <<badges, grants, clock, changes, entitledAt, barredAt, cooldownVars,
                       starts, trail, security, lastDenied, crashes>>

Enter(c) ==
    LET u == calls[c].who cmd == calls[c].what
    IN  /\ calls[c].step = "due"
        /\ \E answered \in BOOLEAN : Allowed(u, answered) /\ Resolve(u, answered)
        /\ HasToken(u, cmd, clock) /\ TakeToken(u, cmd, clock)
        /\ calls' = [calls EXCEPT ![c].step = "runs"]
        /\ lastRun' = [lastRun EXCEPT ![<<u, cmd>>] = clock]
        /\ UNCHANGED <<badges, grants, clock, changes, entitledAt, barredAt, stats, report,
                       starts, trail, security, lastDenied, crashes>>

\* The body returns: audit_interaction logs that, and the event of the
\* completion follows in a task of its own.
Complete(c) ==
    /\ calls[c].step = "runs"
    /\ calls' = [calls EXCEPT ![c].step = "done", ![c].ended = clock,
                     ![c].time = IF calls[c].slash THEN "told" ELSE "none"]
    /\ Audit(c, "SUCCESS")
    /\ UNCHANGED <<roleVars, cooldownVars, starts, trail, lastRun, lastDenied, crashes>>

\* on_app_command_completion
OnCompletion(c) ==
    /\ calls[c].time = "told"
    /\ calls' = [calls EXCEPT ![c].time = IF Started(c) THEN "due" ELSE "none"]
    /\ ForgetStart(c)
    /\ UNCHANGED <<roleVars, cooldownVars, trail, security, lastRun, lastDenied, crashes>>

\* Faulty: the error is recorded without the interaction it belongs to.
RaiseOnAll(c) ==
    /\ calls[c].step = "runs"
    /\ EndedAs(c, "raised") /\ ForgetStart(c)
    /\ Audit(c, "FAILURE")
    /\ trail' = [d \in DOMAIN trail |-> [trail[d] EXCEPT !.failed = TRUE]]
    /\ UNCHANGED <<roleVars, cooldownVars, lastRun, lastDenied, crashes>>

\* The body raises: audit_interaction logs that, and on_app_command_error or
\* on_command_error marks the row, if the thread has got that far and the
\* statement does not fail.
Raise(c) ==
    /\ calls[c].step = "runs"
    /\ EndedAs(c, "raised") /\ ForgetStart(c)
    /\ Audit(c, "FAILURE")
    /\ trail' \in {trail, [d \in DOMAIN trail |->
                              [trail[d] EXCEPT !.failed = @ \/ d = c]]}
    /\ UNCHANGED <<roleVars, cooldownVars, lastRun, lastDenied, crashes>>

\* record_execution_time, half a second after the command ended: a row that
\* is not there yet gets none.
WriteTime(c) ==
    /\ calls[c].time = "due" /\ calls' = [calls EXCEPT ![c].time = "none"]
    /\ trail' \in {trail, [d \in DOMAIN trail |->
         [trail[d] EXCEPT !.time = IF d = c THEN calls[c].ended ELSE @]]}
    /\ UNCHANGED <<roleVars, cooldownVars, starts, security, lastRun, lastDenied, crashes>>

----------------------------------------------------------------------------
\* The process ends and starts again: its tasks, threads, caches and tokens
\* are gone, and what it was told of will not be told again.
Crash ==
    /\ crashes < MaxCrashes /\ crashes' = crashes + 1
    /\ calls' = [c \in Call |->
         IF calls[c].step = "none" THEN NoCall
         ELSE [calls[c] EXCEPT !.event = "gone", !.insert = "over", !.time = "none",
                  !.step = IF Over(c) THEN @ ELSE "lost"]]
    /\ starts' = <<>> /\ ForgetRoles /\ ForgetTokens
    /\ report' = NoReport
    /\ lastRun' = [p \in Caller \X Command |-> Never] /\ lastDenied' = lastRun'
    /\ UNCHANGED <<badges, grants, clock, changes, entitledAt, barredAt, stats, trail, security>>

Checks(c) == Deny(c) \/ TurnAway(c) \/ Enter(c)

Trailing(c) ==
    \/ OnInteraction(c) \/ OnCommandFails(c) \/ Insert(c)
    \/ OnCompletion(c) \/ WriteTime(c)

Ending(c) == Complete(c) \/ Raise(c)

Arriving == \E c \in Call, u \in User, cmd \in Command, slash \in BOOLEAN : Arrive(c, u, cmd, slash)

Outside ==
    \/ \E u \in User : ChangeRoles(u) /\ UNCHANGED <<cooldownVars, callVars>>
    \/ RoleTick /\ UNCHANGED <<cooldownVars, callVars>>

PipelineNext ==
    \/ Arriving \/ Outside \/ Crash
    \/ \E c \in Call : Checks(c) \/ Trailing(c) \/ Ending(c)
    \/ Reporting /\ UNCHANGED <<roleVars, callVars>>

PipelineTypeOK ==
    /\ RoleTypeOK /\ CooldownTypeOK
    /\ calls \in [Call -> [who : User, what : Command, slash : BOOLEAN,
         step : Ends \cup {"none", "due", "runs", "lost"},
         event : {"none", "due", "seen", "gone"}, insert : {"none", "due", "over"},
         time : {"none", "told", "due"}, early : BOOLEAN, failed : BOOLEAN,
         noted : BOOLEAN, ended : 0..MaxClock]]
    /\ DOMAIN starts \subseteq Call /\ \A c \in DOMAIN starts : starts[c] \in 0..MaxClock
    /\ DOMAIN trail \subseteq Call
    /\ \A c \in DOMAIN trail : trail[c] \in [failed : BOOLEAN, time : Never..MaxClock]
    /\ \A c \in Call : security[c] \in {<<>>, <<"SUCCESS">>, <<"FAILURE">>}
    /\ {lastRun, lastDenied} \subseteq [Caller \X Command -> Never..MaxClock]
    /\ crashes \in 0..MaxCrashes

----------------------------------------------------------------------------
(* Properties.                                                             *)

Enters(c) == calls[c].step = "due" /\ calls'[c].step = "runs"
EndsAs(c, end) == calls[c].step = "due" /\ calls'[c].step = end

\* A call by the same caller has counted, and that was a cooldown ago at most.
Recent(last, cmd) == SecondsOf(cmd) > 0 /\ last # Never /\ clock - last <= SecondsOf(cmd)
Counted(c) ==
    LET p == <<calls[c].who, calls[c].what>> cmd == calls[c].what
    IN  Recent(lastRun[p], cmd) \/ (CooldownFirst(cmd) /\ Recent(lastDenied[p], cmd))

\* A command runs only for one who was entitled within the last RoleTtl, and
\* one who was entitled all that time is turned away only while what the
\* failed query left in the cache is used.  The hierarchy needs no second
\* pass for that.
GrantsFollowRoles ==
    /\ \A r \in Roles : Expand(Expand({r})) = Expand({r})
    /\ [][\A c \in Call :
            LET u == calls[c].who
            IN  /\ Enters(c) => clock - entitledAt[u] < RoleTtl
                /\ EndsAs(c, "denied") => roleCache'[u].blind \/ clock - barredAt[u] < RoleTtl]_pipelineVars

\* Two runs of a command by one caller are more than its cooldown apart, and
\* only one who got through that recently is turned away, even by a command
\* that raised or whose caller others were denied in between.  A command that
\* looks at its own cooldown before the roles counts a denied call as well:
\* one denied that recently is turned away, and does not get through although
\* the roles have come by then.
CooldownsFair ==
    [][\A c \in Call : /\ Enters(c) => ~Counted(c)
                       /\ EndsAs(c, "cooled") => Counted(c)]_pipelineVars

\* What the trail and the security log say of a call is true of it, in
\* whatever order its thread, tasks and updates came.  A row is marked failed
\* for a call that raised when it was there, or that had raised or been
\* turned away before the bot was told of it, and of the latter every row
\* that got in is marked.  A time is the moment the call ended, the verdicts
\* agree with the end, and a start is kept of a call that is over only when
\* the bot was told after its end.
TrailTells ==
    /\ \A c \in DOMAIN trail :
         LET late == calls[c].early /\ calls[c].step \in Failures
         IN  /\ trail[c].failed => late \/ (calls[c].step = "raised" /\ calls[c].noted)
             /\ late => trail[c].failed
             /\ trail[c].time # Never => Over(c) /\ trail[c].time = calls[c].ended
    /\ \A c \in Call :
         /\ security[c] = <<"SUCCESS">> => calls[c].step = "done"
         /\ security[c] = <<"FAILURE">> => calls[c].step \in {"denied", "raised"}
    /\ \A c \in DOMAIN starts : Over(c) => calls[c].early \/ calls[c].time = "told"

\* A report whose clearing was confirmed shows no hit from before it.
ClearedIsShown ==
    report.dialog = "cleared" =>
        report.shown.hits <=
            (IF report.scope = All THEN HitsOf(Snapshots) ELSE Snapshots[report.scope].hits)
=============================================================================
