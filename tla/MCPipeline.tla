---------------------------- MODULE MCPipeline ------------------------------
(***************************************************************************)
(* Two calls of two users on a command with and one without a configured   *)
(* cooldown, roles that change, and the report on the cooldowns; or the    *)
(* alerts of the engineers: "desk" says which.                             *)
(***************************************************************************)
EXTENDS CommandPipeline, EngineerAlerts

CONSTANTS ann, bob, ships, briefing, first, second, loop, worker

VARIABLE desk

mcVars == <<desk, pipelineVars, alertVars>>

\* Calls come one after the other; a call not yet made is of nobody.
Ordered == \A c \in Call : calls'[c].step # "none" => c = first \/ calls'[first].step # "none"
Only(U, C, S) == \A c \in Call : calls'[c].step = "none" \/
    (calls'[c].who \in U /\ calls'[c].what \in C /\ calls'[c].slash \in S)

MCInit ==
    /\ desk \in {"access", "trail", "report", "alerts"}
    /\ PipelineInit /\ AlertInit
    /\ \A u \in User :
         (desk # "access" \/ u # ann) => (badges[u] = {"NCO"} /\ grants[u] = {})

\* The clock and the roles change where a property needs them to.
MCNext ==
    /\ UNCHANGED desk
    /\ \/ /\ desk = "access" /\ UNCHANGED alertVars
          /\ Arriving \/ Outside \/ Crash \/ \E c \in Call : Checks(c)
          /\ Only(User, Command, {TRUE}) /\ badges'[bob] = badges[bob] /\ grants'[bob] = grants[bob]
       \/ /\ desk = "trail" /\ UNCHANGED alertVars
          /\ Arriving \/ Outside \/ Crash \/ \E c \in Call : Checks(c) \/ Trailing(c) \/ Ending(c)
          /\ Only({ann}, {ships}, BOOLEAN) /\ UNCHANGED <<badges, grants>> /\ clock' < RoleTtl
       \/ /\ desk = "report" /\ UNCHANGED alertVars
          /\ \/ Arriving \/ \E c \in Call : Checks(c)
             \/ Reporting /\ UNCHANGED <<roleVars, callVars>>
          /\ Only({ann}, Command, {TRUE})
       \/ desk = "alerts" /\ AlertNext /\ UNCHANGED pipelineVars
    /\ Ordered

MCSpec ==
    /\ MCInit /\ [][MCNext]_mcVars
    /\ WF_mcVars(desk = "alerts" /\ OnReady /\ UNCHANGED <<desk, pipelineVars>>)
    /\ WF_mcVars(desk = "alerts" /\ StartupSent /\ UNCHANGED <<desk, pipelineVars>>)
    /\ \A a \in Alert :
         /\ WF_mcVars(desk = "alerts" /\ Dispatch(a) /\ UNCHANGED <<desk, pipelineVars>>)
         /\ WF_mcVars(desk = "alerts" /\ PlaceLate(a) /\ UNCHANGED <<desk, pipelineVars>>)

\* The types of all that a call and the alerts touch; no call has two entries
\* in the security log, and no alert is told twice.
PipelineTypesOK == PipelineTypeOK /\ AlertTypeOK

MCBadges == {{}, {"NCO"}}
MCGrants == {{}, {"BOA"}}

\* What is kept about calls is true: the trail and the security log of each
\* call, and the report on cooldowns whose clearing was confirmed.
TrailsAreTrue == TrailTells /\ ClearedIsShown

=============================================================================
