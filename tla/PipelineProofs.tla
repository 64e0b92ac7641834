--------------------------- MODULE PipelineProofs ---------------------------
(***************************************************************************)
(* The pipeline of commands and the alerts of MCPipeline keep what they    *)
(* promise for every set of users, roles, commands, calls and alerts, for  *)
(* every cooldown, time to live and bound.                                 *)
(*                                                                         *)
(* RoleInv is about roles and their cache, CooldownInv about tokens, hits  *)
(* and the report on them, TrailInv about what is kept of each call, and   *)
(* AlertInv about alerts.  Each action keeps all of them, and the two      *)
(* action properties follow from what they say before the step.            *)
(***************************************************************************)
EXTENDS MCPipeline, SumLemmas, SequenceTheorems

-----------------------------------------------------------------------------
(***************************************************************************)
(* Alerts to the engineers (EngineerAlerts).                               *)
(***************************************************************************)

\* Calls of on_ready do not multiply, and who was told has no alert waiting.
AlertInv ==
    /\ AlertTypeOK
    /\ readies.due + readies.sending <= readies.made
    /\ \A a \in Alert : alerts[a] # "over" => told[a] = 0

LEMMA AlertInitially == AlertInit => AlertInv
<1> SUFFICES ASSUME AlertInit
             PROVE  AlertInv
    OBVIOUS
<1>1. /\ alerts = [a \in Alert |-> "none"] /\ told = [a \in Alert |-> 0]
      /\ ready = FALSE /\ startupLogSent = FALSE
    BY DEF AlertInit
<1>2. /\ alerts \in [Alert -> {"none", "placing", "waits", "task", "over", "lost"}]
      /\ told \in [Alert -> 0..1]
      /\ \A a \in Alert : alerts[a] # "over" => told[a] = 0
    BY <1>1
<1>3. /\ readies.made = 0 /\ readies.due = 0 /\ readies.sending = 0
      /\ readies \in [made : 0..MaxReadies, due : 0..MaxReadies, sending : 0..MaxReadies]
    BY AlertsAssumption DEF AlertInit
<1>4. {ready, startupLogSent} \subseteq BOOLEAN
    BY <1>1
<1> QED
    BY <1>2, <1>3, <1>4 DEF AlertInv, AlertTypeOK

LEMMA AlertKept ==
    ASSUME AlertInv, [AlertNext]_alertVars
    PROVE  AlertInv'
<1> DEFINE Stages == {"none", "placing", "waits", "task", "over", "lost"}
<1>1. /\ {ready, startupLogSent} \subseteq BOOLEAN
      /\ alerts \in [Alert -> Stages] /\ told \in [Alert -> 0..1]
      /\ readies \in [made : 0..MaxReadies, due : 0..MaxReadies, sending : 0..MaxReadies]
      /\ readies.due + readies.sending <= readies.made
      /\ \A a \in Alert : alerts[a] # "over" => told[a] = 0
    BY DEF AlertInv, AlertTypeOK
<1>2. MaxReadies \in Nat
    BY AlertsAssumption
<1>3. CASE UNCHANGED alertVars
    BY <1>1, <1>3 DEF alertVars, AlertInv, AlertTypeOK
<1>4. ASSUME NEW a \in Alert, NEW stage \in Stages \ {"over"}, alerts[a] # "over",
             alerts' = [alerts EXCEPT ![a] = stage],
             UNCHANGED <<ready, told, readies, startupLogSent>>
      PROVE  AlertInv'
    <2>1. alerts' \in [Alert -> Stages]
        BY <1>1, <1>4
    <2>2. \A b \in Alert : alerts'[b] # "over" => told[b] = 0
        BY <1>1, <1>4
    <2> QED
        BY <1>1, <1>4, <2>1, <2>2 DEF AlertInv, AlertTypeOK
<1>5. ASSUME NEW a \in Alert, Notify(a)
      PROVE  AlertInv'
    BY <1>4, <1>5 DEF Notify
<1>6. ASSUME NEW a \in Alert, PlaceLate(a)
      PROVE  AlertInv'
    BY <1>4, <1>6 DEF PlaceLate
<1>7. CASE GatewayReady
    <2>1. readies.made < MaxReadies
          /\ readies' = [readies EXCEPT !.made = @ + 1, !.due = @ + 1]
          /\ ready' = TRUE /\ UNCHANGED <<alerts, told, startupLogSent>>
        BY <1>7 DEF GatewayReady
    <2>2. /\ readies'.made = readies.made + 1 /\ readies'.due = readies.due + 1
          /\ readies'.sending = readies.sending
          /\ readies' \in [made : 0..MaxReadies, due : 0..MaxReadies, sending : 0..MaxReadies]
        <3>1. readies.made + 1 \in 0..MaxReadies /\ readies.due + 1 \in 0..MaxReadies
            BY <1>1, <1>2, <2>1
        <3> QED
            BY <1>1, <2>1, <3>1
    <2>3. readies'.due + readies'.sending <= readies'.made
        BY <1>1, <2>2
    <2> QED
        BY <1>1, <2>1, <2>2, <2>3 DEF AlertInv, AlertTypeOK
<1>8. CASE OnReady
    <2> PICK late \in SUBSET {a \in Alert : alerts[a] = "placing"} :
             alerts' = [a \in Alert |-> IF a \in late THEN "lost"
                                       ELSE IF alerts[a] = "waits" THEN "task" ELSE alerts[a]]
        BY <1>8 DEF OnReady
    <2>1. /\ readies.due > 0
          /\ readies' = [readies EXCEPT !.due = @ - 1,
                            !.sending = IF startupLogSent THEN @ ELSE @ + 1]
          /\ UNCHANGED <<ready, told, startupLogSent>>
        BY <1>8 DEF OnReady
    <2>2. alerts' \in [Alert -> Stages]
          /\ \A a \in Alert : alerts'[a] # "over" => alerts[a] # "over"
        BY <1>1
    <2>3. /\ readies'.made = readies.made /\ readies'.due = readies.due - 1
          /\ readies'.sending = readies.sending \/ readies'.sending = readies.sending + 1
          /\ readies' \in [made : 0..MaxReadies, due : 0..MaxReadies, sending : 0..MaxReadies]
        <3>1. readies.due - 1 \in 0..MaxReadies /\ readies.sending + 1 \in 0..MaxReadies
            BY <1>1, <1>2, <2>1
        <3>2. CASE startupLogSent
            BY <1>1, <2>1, <3>1, <3>2
        <3>3. CASE ~startupLogSent
            BY <1>1, <2>1, <3>1, <3>3
        <3> QED
            BY <3>2, <3>3
    <2>4. readies'.due + readies'.sending <= readies'.made
        BY <1>1, <2>3
    <2> QED
        BY <1>1, <2>1, <2>2, <2>3, <2>4 DEF AlertInv, AlertTypeOK
<1>9. CASE StartupSent
    <2>1. /\ readies.sending > 0 /\ readies' = [readies EXCEPT !.sending = @ - 1]
          /\ startupLogSent' \in {startupLogSent, TRUE}
          /\ UNCHANGED <<ready, alerts, told>>
        BY <1>9 DEF StartupSent
    <2>2. /\ readies'.made = readies.made /\ readies'.due = readies.due
          /\ readies'.sending = readies.sending - 1
          /\ readies' \in [made : 0..MaxReadies, due : 0..MaxReadies, sending : 0..MaxReadies]
        BY <1>1, <1>2, <2>1
    <2>3. readies'.due + readies'.sending <= readies'.made
        BY <1>1, <2>2
    <2>4. startupLogSent' \in BOOLEAN
        BY <1>1, <2>1
    <2> QED
        BY <1>1, <2>1, <2>2, <2>3, <2>4 DEF AlertInv, AlertTypeOK
<1>10. ASSUME NEW a \in Alert, Dispatch(a)
       PROVE  AlertInv'
    <2>1. /\ alerts[a] = "task" /\ alerts' = [alerts EXCEPT ![a] = "over"]
          /\ told' = told \/ told' = [told EXCEPT ![a] = @ + 1]
          /\ UNCHANGED <<ready, readies, startupLogSent>>
        BY <1>10 DEF Dispatch
    <2>2. alerts' \in [Alert -> Stages] /\ told[a] = 0
        BY <1>1, <2>1
    <2>3. told' \in [Alert -> 0..1] /\ \A b \in Alert \ {a} : told'[b] = told[b]
        BY <1>1, <2>1, <2>2
    <2>4. \A b \in Alert : alerts'[b] # "over" => told'[b] = 0
        BY <1>1, <2>1, <2>3
    <2> QED
        BY <1>1, <2>1, <2>2, <2>3, <2>4 DEF AlertInv, AlertTypeOK
<1> QED
    BY <1>3, <1>5, <1>6, <1>7, <1>8, <1>9, <1>10 DEF AlertNext, Loop

-----------------------------------------------------------------------------
(***************************************************************************)
(* Roles (RoleAccess).                                                     *)
(***************************************************************************)

\* Whoever has a role has what the roles it covers cover.
LEMMA HierarchyCloses ==
    ASSUME NEW r \in Roles, NEW s \in Hierarchy(r)
    PROVE  s \in Roles /\ Hierarchy(s) \subseteq Hierarchy(r)
<1> DEFINE low == {"NCO", "WO", "VETERAN", "RETIRED"}
           nsc == {"NSC_OPERATOR", "NSC_OBSERVER"}
<1>1. Hierarchy("JE") = {} /\ Hierarchy("NSC_OBSERVER") = {} /\ Hierarchy("NRC") = {}
      /\ Hierarchy("NETC_HIGH_COMMAND") = {} /\ Hierarchy("VOYAGE_PERMISSIONS") = {}
    BY DEF Hierarchy
<1>2. \A x \in low : Hierarchy(x) = {"JE"}
    BY DEF Hierarchy
<1>3. Hierarchy("SNCO") = {"NCO", "JE"} /\ Hierarchy("JO") = {"SNCO", "NCO", "JE"}
      /\ Hierarchy("SO") = Ranks \ {"SO"}
    BY DEF Hierarchy
<1>4. Hierarchy("NSC_OPERATOR") = {"NSC_OBSERVER"} /\ Hierarchy("NSC_ADMINISTRATOR") = nsc
    BY DEF Hierarchy
<1>5. Hierarchy("BOA") = Ranks \cup {"NSC_OPERATOR", "NSC_OBSERVER", "NRC", "NETC_HIGH_COMMAND"}
    BY DEF Hierarchy
<1>6. CASE r \in {"JE", "NSC_OBSERVER", "NRC", "NETC_HIGH_COMMAND", "VOYAGE_PERMISSIONS"}
    BY <1>1, <1>6
<1>7. CASE r \in low
    BY <1>1, <1>2, <1>7 DEF Roles, Ranks
<1>8. CASE r \in {"SNCO", "JO", "SO"}
    BY <1>1, <1>2, <1>3, <1>8 DEF Roles, Ranks
<1>9. CASE r \in {"NSC_OPERATOR", "NSC_ADMINISTRATOR"}
    BY <1>1, <1>4, <1>9 DEF Roles, Ranks
<1>10. CASE r = "BOA"
    BY <1>1, <1>2, <1>3, <1>4, <1>5, <1>10 DEF Roles, Ranks
<1> QED
    BY <1>6, <1>7, <1>8, <1>9, <1>10 DEF Roles, Ranks

\* The one pass of the code is a closure.
LEMMA OnePassIsEnough ==
    ASSUME NEW held \in SUBSET Roles
    PROVE  Expand(held) \in SUBSET Roles /\ Expand(Expand(held)) = Expand(held)
<1>1. Expand(held) \in SUBSET Roles
    BY HierarchyCloses DEF Expand
<1>2. Expand(Expand(held)) \subseteq Expand(held)
    <2> SUFFICES ASSUME NEW x \in Expand(Expand(held))
                 PROVE  x \in Expand(held)
        OBVIOUS
    <2>1. CASE x \in Expand(held)
        BY <2>1
    <2>2. CASE x \notin Expand(held)
        <3>1. PICK y \in Expand(held) : x \in Hierarchy(y)
            BY <2>2 DEF Expand
        <3>2. CASE y \in held
            BY <3>1, <3>2 DEF Expand
        <3>3. CASE y \notin held
            <4>1. PICK z \in held : y \in Hierarchy(z)
                BY <3>1, <3>3 DEF Expand
            <4>2. x \in Hierarchy(z)
                BY <3>1, <4>1, HierarchyCloses
            <4> QED
                BY <4>2 DEF Expand
        <3> QED
            BY <3>2, <3>3
    <2> QED
        BY <2>1, <2>2
<1>3. Expand(held) \subseteq Expand(Expand(held))
    BY DEF Expand
<1> QED
    BY <1>1, <1>2, <1>3

\* Who is entitled at the moment, and who is not.
MomentsTrue ==
    \A u \in User :
        /\ IF Entitled(badges[u], grants[u]) THEN entitledAt[u] = clock ELSE barredAt[u] = clock
        /\ entitledAt[u] <= clock /\ barredAt[u] <= clock

\* What an entry says of a user was so when it was made, RoleTtl before it
\* expires; unless the query failed, and then only what it denies may be wrong.
EntryTrue(u) ==
    LET e == roleCache[u]
    IN  e.known =>
            IF e.roles \cap Needed # {}
            THEN entitledAt[u] >= e.until - RoleTtl
            ELSE e.blind \/ barredAt[u] >= e.until - RoleTtl

RoleInv == RoleTypeOK /\ MomentsTrue /\ \A u \in User : EntryTrue(u)

RoleEntry == [known : BOOLEAN, roles : SUBSET Roles, until : 0..MaxClock + RoleTtl, blind : BOOLEAN]

LEMMA RoleTypes ==
    ASSUME RoleInv
    PROVE  /\ RoleTtl \in Nat \ {0} /\ MaxClock \in Nat /\ MaxChanges \in Nat
           /\ clock \in 0..MaxClock
           /\ badges \in [User -> Badges] /\ grants \in [User -> Grants]
           /\ roleCache \in [User -> RoleEntry]
           /\ changes \in 0..MaxChanges
           /\ entitledAt \in [User -> (-RoleTtl)..MaxClock]
           /\ barredAt \in [User -> (-RoleTtl)..MaxClock]
           /\ \A u \in User : badges[u] \subseteq Roles /\ grants[u] \subseteq Roles
BY RoleAccessAssumption DEF RoleInv, RoleTypeOK, RoleEntry

LEMMA RoleInitially == RoleInit => RoleInv
<1> SUFFICES ASSUME RoleInit
             PROVE  RoleInv
    OBVIOUS
<1>1. RoleTtl \in Nat /\ MaxClock \in Nat /\ MaxChanges \in Nat
    BY RoleAccessAssumption
<1>2. /\ badges \in [User -> Badges] /\ grants \in [User -> Grants]
      /\ roleCache = [u \in User |-> Uncached] /\ clock = 0 /\ changes = 0
    BY DEF RoleInit
<1>3. /\ entitledAt = [u \in User |-> IF Entitled(badges[u], grants[u]) THEN 0 ELSE -RoleTtl]
      /\ barredAt = [u \in User |-> IF Entitled(badges[u], grants[u]) THEN -RoleTtl ELSE 0]
    BY DEF RoleInit
<1>4. Uncached \in RoleEntry /\ ~Uncached.known
    BY <1>1 DEF Uncached, RoleEntry
<1>5. entitledAt \in [User -> (-RoleTtl)..MaxClock] /\ barredAt \in [User -> (-RoleTtl)..MaxClock]
    BY <1>1, <1>3
<1>6. roleCache \in [User -> RoleEntry]
    BY <1>2, <1>4
<1>7. RoleTypeOK
    BY <1>1, <1>2, <1>5, <1>6 DEF RoleTypeOK, RoleEntry
<1>8. MomentsTrue
    BY <1>1, <1>2, <1>3 DEF MomentsTrue
<1>9. \A u \in User : EntryTrue(u)
    BY <1>2, <1>4 DEF EntryTrue
<1> QED
    BY <1>7, <1>8, <1>9 DEF RoleInv

\* What an entry is when it is made.
LEMMA NewEntry ==
    ASSUME RoleInv, NEW u \in User, NEW answered \in BOOLEAN, ~Cached(u)
    PROVE  LET e == Resolved(u, answered)
           IN  /\ e \in RoleEntry /\ e.until - RoleTtl = clock
               /\ IF e.roles \cap Needed # {}
                  THEN entitledAt[u] = clock
                  ELSE e.blind \/ barredAt[u] = clock
<1> DEFINE got == badges[u] \cup IF answered THEN grants[u] ELSE {}
           blind == ~answered /\ ~(grants[u] \subseteq badges[u])
           e == [known |-> TRUE, until |-> clock + RoleTtl, blind |-> blind, roles |-> Expand(got)]
<1>1. Resolved(u, answered) = e
    BY Zenon DEF Resolved
<1>2. got \subseteq badges[u] \cup grants[u] /\ got \in SUBSET Roles
    BY RoleTypes
<1>3. Expand(got) \in SUBSET Roles /\ Expand(got) \subseteq Expand(badges[u] \cup grants[u])
    BY <1>2, OnePassIsEnough DEF Expand
<1>4. blind \in BOOLEAN /\ clock + RoleTtl \in 0..MaxClock + RoleTtl
    BY RoleTypes
<1>5. e \in RoleEntry /\ e.until - RoleTtl = clock
    <2>1. e \in RoleEntry
        BY <1>3, <1>4 DEF RoleEntry
    <2>2. e.until = clock + RoleTtl
        OBVIOUS
    <2> QED
        BY <2>1, <2>2, RoleTypes
<1>6. CASE Expand(got) \cap Needed # {}
    <2>1. Entitled(badges[u], grants[u])
        BY <1>3, <1>6 DEF Entitled
    <2>2. entitledAt[u] = clock
        BY <2>1 DEF RoleInv, MomentsTrue
    <2> QED
        BY <1>1, <1>5, <1>6, <2>2
<1>7. CASE Expand(got) \cap Needed = {} /\ ~blind
    <2>1. got = badges[u] \cup grants[u]
        BY <1>7
    <2>2. ~Entitled(badges[u], grants[u])
        BY <1>7, <2>1 DEF Entitled
    <2>3. barredAt[u] = clock
        BY <2>2 DEF RoleInv, MomentsTrue
    <2>4. e.roles \cap Needed = {}
        BY <1>7
    <2> HIDE DEF e
    <2> QED
        BY <1>1, <1>5, <2>3, <2>4
<1>8. CASE Expand(got) \cap Needed = {} /\ blind
    <2> HIDE DEF blind, got
    <2>1. e.blind = blind /\ e.roles = Expand(got)
        OBVIOUS
    <2>2. e.blind
        BY <1>8, <2>1
    <2>3. e.roles \cap Needed = {}
        BY <1>8, <2>1
    <2> QED
        BY <1>1, <1>5, <2>2, <2>3
<1> QED
    BY <1>6, <1>7, <1>8

\* One whom the checks let pass was entitled less than RoleTtl ago; one whom
\* they do not was not, or the query failed.
LEMMA ChecksFollowRoles ==
    ASSUME RoleInv, NEW u \in User, NEW answered \in BOOLEAN
    PROVE  /\ Allowed(u, answered) => clock - entitledAt[u] < RoleTtl
           /\ ~Allowed(u, answered) => \/ Resolved(u, answered).blind
                                       \/ clock - barredAt[u] < RoleTtl
<1>1. /\ RoleTtl \in Nat \ {0} /\ clock \in Int /\ entitledAt[u] \in Int /\ barredAt[u] \in Int
      /\ roleCache[u].until \in Int
    BY RoleTypes DEF RoleEntry
<1>2. CASE Cached(u)
    <2>1. Resolved(u, answered) = roleCache[u] /\ roleCache[u].known /\ clock < roleCache[u].until
        BY <1>2 DEF Resolved, Cached
    <2>2. EntryTrue(u)
        BY DEF RoleInv
    <2> QED
        BY <1>1, <2>1, <2>2 DEF EntryTrue, Allowed
<1>3. CASE ~Cached(u)
    <2>1. IF Resolved(u, answered).roles \cap Needed # {}
          THEN entitledAt[u] = clock
          ELSE Resolved(u, answered).blind \/ barredAt[u] = clock
        BY <1>3, NewEntry
    <2> QED
        BY <1>1, <2>1 DEF Allowed
<1> QED
    BY <1>2, <1>3

LEMMA ResolveKeeps ==
    ASSUME RoleInv, NEW u \in User, NEW answered \in BOOLEAN, Resolve(u, answered),
           UNCHANGED <<badges, grants, clock, changes, entitledAt, barredAt>>
    PROVE  RoleInv' /\ roleCache'[u] = Resolved(u, answered)
<1> DEFINE e == Resolved(u, answered)
<1>1. roleCache' = [roleCache EXCEPT ![u] = e]
    BY DEF Resolve
<1>2. e \in RoleEntry
    <2>1. CASE Cached(u)
        BY <2>1, RoleTypes DEF Resolved
    <2>2. CASE ~Cached(u)
        BY <2>2, NewEntry
    <2> QED
        BY <2>1, <2>2
<1>3. CASE Cached(u)
    <2>1. e = roleCache[u]
        BY <1>3 DEF Resolved
    <2>2. roleCache' = roleCache
        BY <1>1, <2>1, RoleTypes
    <2>3. RoleInv'
        BY <2>2 DEF RoleInv, RoleTypeOK, MomentsTrue, EntryTrue
    <2> QED
        BY <2>1, <2>2, <2>3
<1>4. CASE ~Cached(u)
    <2>1. /\ e.until - RoleTtl = clock
          /\ IF e.roles \cap Needed # {}
             THEN entitledAt[u] = clock
             ELSE e.blind \/ barredAt[u] = clock
        BY <1>4, NewEntry
    <2> HIDE DEF e
    <2>2. roleCache' \in [User -> RoleEntry] /\ roleCache'[u] = e
          /\ \A v \in User \ {u} : roleCache'[v] = roleCache[v]
        BY <1>1, <1>2, RoleTypes
    <2>3. clock \in Int /\ entitledAt[u] \in Int /\ barredAt[u] \in Int
        BY RoleTypes
    <2>4. EntryTrue(u)'
        BY <2>1, <2>2, <2>3 DEF EntryTrue
    <2>5. \A v \in User \ {u} : EntryTrue(v)'
        BY <2>2 DEF RoleInv, EntryTrue
    <2>6. RoleTypeOK' /\ MomentsTrue'
        BY <2>2 DEF RoleInv, RoleTypeOK, MomentsTrue, RoleEntry
    <2> QED
        BY <2>2, <2>4, <2>5, <2>6 DEF RoleInv, e
<1> QED
    BY <1>3, <1>4

\* Moments only come later.
LEMMA EntriesLast ==
    ASSUME RoleInv, roleCache' = roleCache,
           entitledAt' \in [User -> (-RoleTtl)..MaxClock], barredAt' \in [User -> (-RoleTtl)..MaxClock],
           \A u \in User : entitledAt'[u] >= entitledAt[u] /\ barredAt'[u] >= barredAt[u]
    PROVE  \A u \in User : EntryTrue(u)'
<1> SUFFICES ASSUME NEW u \in User
             PROVE  EntryTrue(u)'
    OBVIOUS
<1>1. /\ RoleTtl \in Nat /\ entitledAt[u] \in Int /\ barredAt[u] \in Int
      /\ entitledAt'[u] \in Int /\ barredAt'[u] \in Int
      /\ roleCache[u].until \in Int
    BY RoleTypes DEF RoleEntry
<1>2. EntryTrue(u)
    BY DEF RoleInv
<1> QED
    BY <1>1, <1>2 DEF EntryTrue

LEMMA ChangeKeeps ==
    ASSUME RoleInv, NEW u \in User, ChangeRoles(u)
    PROVE  RoleInv'
<1>1. /\ changes < MaxChanges /\ changes' = changes + 1 /\ roleCache' = roleCache /\ clock' = clock
      /\ \/ \E B \in Badges : badges' = [badges EXCEPT ![u] = B] /\ grants' = grants
         \/ \E G \in Grants : grants' = [grants EXCEPT ![u] = G] /\ badges' = badges
      /\ IF Entitled(badges'[u], grants'[u])
         THEN entitledAt' = [entitledAt EXCEPT ![u] = clock] /\ barredAt' = barredAt
         ELSE barredAt' = [barredAt EXCEPT ![u] = clock] /\ entitledAt' = entitledAt
    BY DEF ChangeRoles
<1>2. /\ RoleTtl \in Nat /\ MaxClock \in Nat /\ clock \in 0..MaxClock /\ MaxChanges \in Nat
      /\ changes \in 0..MaxChanges
      /\ entitledAt \in [User -> (-RoleTtl)..MaxClock] /\ barredAt \in [User -> (-RoleTtl)..MaxClock]
    BY RoleTypes
<1>3. /\ badges' \in [User -> Badges] /\ grants' \in [User -> Grants]
      /\ \A v \in User \ {u} : badges'[v] = badges[v] /\ grants'[v] = grants[v]
    BY <1>1, RoleTypes
<1>4. clock \in (-RoleTtl)..MaxClock
    BY <1>2
<1>5. entitledAt' \in [User -> (-RoleTtl)..MaxClock] /\ barredAt' \in [User -> (-RoleTtl)..MaxClock]
    BY <1>1, <1>2, <1>4
<1>6. /\ \A v \in User \ {u} : entitledAt'[v] = entitledAt[v] /\ barredAt'[v] = barredAt[v]
      /\ IF Entitled(badges'[u], grants'[u])
         THEN entitledAt'[u] = clock /\ barredAt'[u] = barredAt[u]
         ELSE barredAt'[u] = clock /\ entitledAt'[u] = entitledAt[u]
    BY <1>1, <1>2
<1>7. \A v \in User : entitledAt[v] <= clock /\ barredAt[v] <= clock
    BY DEF RoleInv, MomentsTrue
<1>8. \A v \in User : entitledAt[v] \in Int /\ barredAt[v] \in Int /\ clock \in Int
    BY <1>2
<1>9. \A v \in User : entitledAt'[v] >= entitledAt[v] /\ barredAt'[v] >= barredAt[v]
    BY <1>6, <1>7, <1>8
<1>10. \A v \in User : EntryTrue(v)'
    BY <1>1, <1>5, <1>9, EntriesLast
<1>11. MomentsTrue'
    <2> SUFFICES ASSUME NEW v \in User
                 PROVE  /\ IF Entitled(badges'[v], grants'[v])
                           THEN entitledAt'[v] = clock ELSE barredAt'[v] = clock
                        /\ entitledAt'[v] <= clock /\ barredAt'[v] <= clock
        BY <1>1 DEF MomentsTrue
    <2>1. CASE v = u
        BY <1>6, <1>7, <1>8, <2>1
    <2>2. CASE v # u
        <3>1. IF Entitled(badges[v], grants[v]) THEN entitledAt[v] = clock ELSE barredAt[v] = clock
            BY DEF RoleInv, MomentsTrue
        <3> QED
            BY <1>3, <1>6, <1>7, <2>2, <3>1
    <2> QED
        BY <2>1, <2>2
<1>12. RoleTypeOK'
    <2>1. changes' \in 0..MaxChanges
        BY <1>1, <1>2
    <2> QED
        BY <1>1, <1>3, <1>5, <2>1 DEF RoleInv, RoleTypeOK
<1> QED
    BY <1>10, <1>11, <1>12 DEF RoleInv

LEMMA TickKeeps ==
    ASSUME RoleInv, RoleTick
    PROVE  RoleInv'
<1>1. /\ clock < MaxClock /\ clock' = clock + 1
      /\ entitledAt' = [u \in User |->
            IF Entitled(badges[u], grants[u]) THEN clock' ELSE entitledAt[u]]
      /\ barredAt' = [u \in User |->
            IF Entitled(badges[u], grants[u]) THEN barredAt[u] ELSE clock']
      /\ UNCHANGED <<badges, grants, roleCache, changes>>
    BY DEF RoleTick
<1>2. /\ RoleTtl \in Nat /\ MaxClock \in Nat /\ clock \in 0..MaxClock
      /\ entitledAt \in [User -> (-RoleTtl)..MaxClock] /\ barredAt \in [User -> (-RoleTtl)..MaxClock]
    BY RoleTypes
<1>3. clock' \in 0..MaxClock /\ clock' \in (-RoleTtl)..MaxClock
    BY <1>1, <1>2
<1>4. entitledAt' \in [User -> (-RoleTtl)..MaxClock] /\ barredAt' \in [User -> (-RoleTtl)..MaxClock]
    BY <1>1, <1>2, <1>3
<1>5. \A v \in User : /\ entitledAt[v] <= clock /\ barredAt[v] <= clock
                      /\ entitledAt[v] \in Int /\ barredAt[v] \in Int /\ clock \in Int
    BY <1>2 DEF RoleInv, MomentsTrue
<1>6. \A v \in User : IF Entitled(badges[v], grants[v])
                      THEN entitledAt'[v] = clock + 1 /\ barredAt'[v] = barredAt[v]
                      ELSE barredAt'[v] = clock + 1 /\ entitledAt'[v] = entitledAt[v]
    BY <1>1
<1>7. \A v \in User : entitledAt'[v] >= entitledAt[v] /\ barredAt'[v] >= barredAt[v]
    BY <1>5, <1>6
<1>8. \A v \in User : EntryTrue(v)'
    BY <1>1, <1>4, <1>7, EntriesLast
<1>9. MomentsTrue'
    <2> SUFFICES ASSUME NEW v \in User
                 PROVE  /\ IF Entitled(badges[v], grants[v])
                           THEN entitledAt'[v] = clock + 1 ELSE barredAt'[v] = clock + 1
                        /\ entitledAt'[v] <= clock + 1 /\ barredAt'[v] <= clock + 1
        BY <1>1 DEF MomentsTrue
    <2> QED
        BY <1>5, <1>6
<1>10. RoleTypeOK'
    BY <1>1, <1>3, <1>4 DEF RoleInv, RoleTypeOK
<1> QED
    BY <1>8, <1>9, <1>10 DEF RoleInv

LEMMA ForgetKeeps ==
    ASSUME RoleInv, ForgetRoles,
           UNCHANGED <<badges, grants, clock, changes, entitledAt, barredAt>>
    PROVE  RoleInv'
<1>1. Uncached \in RoleEntry /\ ~Uncached.known
    BY RoleTypes DEF Uncached, RoleEntry
<1>2. roleCache' \in [User -> RoleEntry] /\ \A u \in User : ~roleCache'[u].known
    BY <1>1 DEF ForgetRoles
<1>3. RoleTypeOK' /\ MomentsTrue'
    BY <1>2 DEF RoleInv, RoleTypeOK, MomentsTrue, RoleEntry
<1>4. \A u \in User : EntryTrue(u)'
    BY <1>2 DEF EntryTrue
<1> QED
    BY <1>3, <1>4 DEF RoleInv

-----------------------------------------------------------------------------
(***************************************************************************)
(* Cooldowns and the report on them (Cooldowns).                           *)
(***************************************************************************)
Row == [seconds : {0, Seconds}, hits : 1..MaxHits, retry : 1..Max({Seconds, OwnSeconds, 1})]

\* The last call that counted: one that got through, or one that was denied by
\* a command that looks at its cooldown first.
LastCounted(p) ==
    IF CooldownFirst(p[2]) /\ lastDenied[p] > lastRun[p] THEN lastDenied[p] ELSE lastRun[p]

\* A token was taken by the last call that counted, and not in the future.
TokensTrue ==
    \A p \in Caller \X Command :
        /\ windows[p] <= clock /\ lastRun[p] <= clock /\ lastDenied[p] <= clock
        /\ SecondsOf(p[2]) > 0 => windows[p] = LastCounted(p)

TokenInv ==
    /\ clock \in 0..MaxClock
    /\ windows \in [Caller \X Command -> Never..MaxClock]
    /\ lastRun \in [Caller \X Command -> Never..MaxClock]
    /\ lastDenied \in [Caller \X Command -> Never..MaxClock]
    /\ TokensTrue

StatsTyped ==
    /\ DOMAIN stats \subseteq Command
    /\ \A cmd \in DOMAIN stats : stats[cmd] \in Row

ReportTyped ==
    /\ DOMAIN report = {"scope", "shown", "dialog"}
    /\ report.scope \in Command \cup {All, Closed}
    /\ report.dialog \in {"none", "asked", "cleared"}
    /\ report.shown.hits \in Nat
    /\ report.dialog = "cleared" => report.scope \in {All} \cup Configured

CooldownInv == TokenInv /\ StatsTyped /\ ReportTyped /\ ClearedIsShown

LEMMA CooldownNumbers ==
    /\ Seconds \in Nat /\ OwnSeconds \in Nat /\ MaxTime \in Nat /\ MaxHits \in Nat
    /\ MaxTime = MaxClock
    /\ IsFiniteSet(Command) /\ Configured \subseteq Command
    /\ All \notin Command /\ Closed \notin Command /\ All # Closed
    /\ \A cmd : SecondsOf(cmd) \in {Seconds, OwnSeconds} /\ ConfigOf(cmd) \in {0, Seconds}
BY CooldownsAssumption, PipelineAssumption DEF SecondsOf, ConfigOf, All, Closed

LEMMA LargestOfThree ==
    ASSUME NEW a \in Int, NEW b \in Int, NEW c \in Int
    PROVE  Max({a, b, c}) \in Int /\ Max({a, b, c}) >= a /\ Max({a, b, c}) >= b /\ Max({a, b, c}) >= c
<1>1. \E x \in {a, b, c} : \A y \in {a, b, c} : x >= y
    <2>1. CASE a >= b /\ a >= c
        BY <2>1
    <2>2. CASE b >= a /\ b >= c
        BY <2>2
    <2>3. CASE c >= a /\ c >= b
        BY <2>3
    <2> QED
        BY <2>1, <2>2, <2>3
<1>2. Max({a, b, c}) \in {a, b, c} /\ \A y \in {a, b, c} : Max({a, b, c}) >= y
    BY <1>1 DEF Max
<1> QED
    BY <1>2

LEMMA LargerOfTwo ==
    ASSUME NEW a \in Int, NEW b \in Int
    PROVE  Max({a, b}) = IF a >= b THEN a ELSE b
<1>1. \E x \in {a, b} : \A y \in {a, b} : x >= y
    OBVIOUS
<1>2. Max({a, b}) \in {a, b} /\ \A y \in {a, b} : Max({a, b}) >= y
    BY <1>1 DEF Max
<1> QED
    BY <1>2

-----------------------------------------------------------------------------
\* A summand that grows, or is new, makes the sum no smaller.
LEMMA SumGrows ==
    ASSUME NEW S, IsFiniteSet(S), NEW f, NEW g, NEW x,
           \A y \in S : f[y] \in Nat, \A y \in S \cup {x} : g[y] \in Nat,
           \A y \in S \ {x} : g[y] = f[y], x \in S => f[x] <= g[x]
    PROVE  SumFunctionOnSet(f, S) <= SumFunctionOnSet(g, S \cup {x})
<1> DEFINE rest == S \ {x}
<1>1. IsFiniteSet(rest) /\ x \notin rest
    BY FS_Subset
<1>2. SumFunctionOnSet(g, rest \cup {x}) = g[x] + SumFunctionOnSet(g, rest)
    <2>1. \A y \in rest \cup {x} : g[y] \in Int
        OBVIOUS
    <2> QED
        BY <1>1, <2>1, SumAdds
<1>3. SumFunctionOnSet(g, rest) = SumFunctionOnSet(f, rest)
    BY <1>1, SumOfSame
<1>4. rest \cup {x} = S \cup {x}
    OBVIOUS
<1>5. SumFunctionOnSet(f, rest) \in Nat
    BY <1>1, SumOfInts
<1>6. CASE x \in S
    <2>1. SumFunctionOnSet(f, S) = f[x] + SumFunctionOnSet(f, rest)
        BY <1>6, SumTakes
    <2>2. f[x] \in Nat /\ g[x] \in Nat /\ f[x] <= g[x]
        BY <1>6
    <2>3. SumFunctionOnSet(g, S \cup {x}) = g[x] + SumFunctionOnSet(f, rest)
        BY <1>2, <1>3, <1>4, Zenon
    <2>4. \A n \in Nat : f[x] + n <= g[x] + n
        BY <2>2
    <2> HIDE DEF rest
    <2> QED
        BY <1>5, <2>1, <2>3, <2>4
<1>7. CASE x \notin S
    <2>1. rest = S
        BY <1>7
    <2> HIDE DEF rest
    <2> QED
        BY <1>2, <1>3, <1>4, <1>5, <2>1
<1> QED
    BY <1>6, <1>7

LEMMA LinesTyped ==
    ASSUME StatsTyped
    PROVE  /\ DOMAIN Snapshots = Configured \cup DOMAIN stats
           /\ IsFiniteSet(DOMAIN Snapshots)
           /\ \A cmd \in DOMAIN Snapshots : Snapshots[cmd].hits \in Nat
           /\ \A cmd \in DOMAIN stats : Snapshots[cmd].hits = stats[cmd].hits
           /\ \A cmd \in DOMAIN Snapshots \ DOMAIN stats : Snapshots[cmd].hits = 0
<1>1. DOMAIN Snapshots = Configured \cup DOMAIN stats
    BY DEF Snapshots
<1>2. IsFiniteSet(DOMAIN Snapshots)
    <2>1. DOMAIN Snapshots \in SUBSET Command
        BY <1>1, CooldownNumbers DEF StatsTyped
    <2> QED
        BY <2>1, CooldownNumbers, FS_Subset
<1>3. \A cmd \in DOMAIN stats : Snapshots[cmd].hits = stats[cmd].hits
    BY DEF Snapshots, StatsTyped, Row
<1>4. \A cmd \in DOMAIN Snapshots \ DOMAIN stats : Snapshots[cmd].hits = 0
    BY DEF Snapshots, EmptyRow
<1>5. \A cmd \in DOMAIN stats : stats[cmd].hits \in Nat
    BY CooldownNumbers DEF StatsTyped, Row
<1> QED
    BY <1>1, <1>2, <1>3, <1>4, <1>5

LEMMA HitsTyped ==
    ASSUME NEW lines, IsFiniteSet(DOMAIN lines), \A cmd \in DOMAIN lines : lines[cmd].hits \in Nat
    PROVE  HitsOf(lines) \in Nat
<1> DEFINE f == [cmd \in DOMAIN lines |-> lines[cmd].hits]
<1>1. DOMAIN f = DOMAIN lines /\ \A cmd \in DOMAIN lines : f[cmd] \in Nat
    OBVIOUS
<1> HIDE DEF f
<1>2. SumFunctionOnSet(f, DOMAIN lines) \in Nat
    BY <1>1, SumOfInts
<1>3. SumFunctionOnSet(f, DOMAIN f) \in Nat
    BY <1>1, <1>2
<1> QED
    BY <1>3 DEF HitsOf, SumFunction, f

\* What a report shows are the hits of its lines.
LEMMA ReportsHits ==
    ASSUME NEW lines, NEW scope, IsFiniteSet(DOMAIN lines),
           \A cmd \in DOMAIN lines : lines[cmd].hits \in Nat,
           scope = All \/ scope \in DOMAIN lines
    PROVE  /\ Report(lines, scope).hits \in Nat
           /\ Report(lines, scope).hits = IF scope = All THEN HitsOf(lines) ELSE lines[scope].hits
<1>1. CASE scope = All
    BY <1>1, HitsTyped DEF Report, Overview
<1>2. CASE scope # All
    BY <1>2 DEF Report, Single
<1> QED
    BY <1>1, <1>2

LEMMA NoHitsOfNone == HitsOf([cmd \in Configured |-> EmptyRow(cmd)]) = 0
<1> DEFINE lines == [cmd \in Configured |-> EmptyRow(cmd)]
           f == [cmd \in DOMAIN lines |-> lines[cmd].hits]
<1>1. DOMAIN lines = Configured /\ DOMAIN f = Configured /\ \A cmd \in Configured : f[cmd] \in {0}
    BY DEF EmptyRow
<1>2. IsFiniteSet(Configured)
    BY CooldownNumbers, FS_Subset
<1> HIDE DEF f
<1>3. SumFunctionOnSet(f, Configured) \in {0}
    <2>1. 0 \in {0} /\ \A a, b \in {0} : a + b \in {0}
        OBVIOUS
    <2> QED
        BY <1>1, <1>2, <2>1, SumStaysIn
<1>4. SumFunctionOnSet(f, DOMAIN f) = 0
    BY <1>1, <1>3
<1> QED
    BY <1>4 DEF HitsOf, SumFunction, f

-----------------------------------------------------------------------------
LEMMA CooldownInitially ==
    ASSUME RoleInit, CooldownInit, lastRun = [p \in Caller \X Command |-> Never],
           lastDenied = lastRun
    PROVE  CooldownInv
<1>1. /\ clock = 0 /\ windows = [p \in Caller \X Command |-> Never]
      /\ stats = <<>> /\ report = NoReport
    BY DEF RoleInit, CooldownInit
<1>2. MaxClock \in Nat
    BY CooldownNumbers
<1>3. TokenInv
    BY <1>1, <1>2 DEF TokenInv, TokensTrue, LastCounted, Never
<1>4. StatsTyped
    <2>1. DOMAIN stats = {}
        BY <1>1
    <2> QED
        BY <2>1 DEF StatsTyped
<1>5. ReportTyped /\ ClearedIsShown
    BY <1>1 DEF ReportTyped, ClearedIsShown, NoReport
<1> QED
    BY <1>3, <1>4, <1>5 DEF CooldownInv

\* Time that passes, or does not.
LEMMA CooldownWaits ==
    ASSUME CooldownInv, UNCHANGED cooldownVars, UNCHANGED <<lastRun, lastDenied>>,
           clock' \in 0..MaxClock, clock' >= clock
    PROVE  CooldownInv'
<1>1. /\ windows' = windows /\ stats' = stats /\ report' = report
      /\ TokenInv /\ StatsTyped /\ ReportTyped /\ ClearedIsShown
    BY DEF cooldownVars, CooldownInv
<1>2. MaxClock \in Nat
    BY CooldownNumbers
<1>3. /\ windows \in [Caller \X Command -> Never..MaxClock]
      /\ lastRun \in [Caller \X Command -> Never..MaxClock]
      /\ lastDenied \in [Caller \X Command -> Never..MaxClock]
      /\ clock \in Int /\ clock' \in Int
      /\ \A p \in Caller \X Command : /\ windows[p] <= clock /\ lastRun[p] <= clock
                                      /\ lastDenied[p] <= clock
    BY <1>1, <1>2 DEF TokenInv, TokensTrue
<1>4. \A p \in Caller \X Command : /\ windows[p] \in Int /\ lastRun[p] \in Int
                                   /\ lastDenied[p] \in Int
    BY <1>2, <1>3 DEF Never
<1>5. \A p \in Caller \X Command : /\ windows[p] <= clock' /\ lastRun[p] <= clock'
                                   /\ lastDenied[p] <= clock'
    BY <1>3, <1>4
<1>6. TokenInv'
    BY <1>1, <1>5 DEF TokenInv, TokensTrue, LastCounted
<1>7. StatsTyped' /\ ReportTyped' /\ ClearedIsShown'
    BY <1>1 DEF StatsTyped, ReportTyped, ClearedIsShown, Snapshots
<1> QED
    BY <1>6, <1>7 DEF CooldownInv

\* A call turned away is counted, or its counting failed.
LEMMA HitsGrow ==
    ASSUME CooldownInv, NEW u \in Caller, NEW cmd \in Command,
           ~HasToken(u, cmd, clock), RecordHit(u, cmd, clock)
    PROVE  /\ StatsTyped'
           /\ HitsOf(Snapshots) <= HitsOf(Snapshots)'
           /\ \A c \in DOMAIN Snapshots : Snapshots[c].hits <= Snapshots[c].hits'
           /\ \A c \in DOMAIN Snapshots : Snapshots[c].hits \in Nat /\ Snapshots[c].hits' \in Nat
           /\ HitsOf(Snapshots) \in Nat /\ HitsOf(Snapshots)' \in Nat
<1> DEFINE row == IF cmd \in DOMAIN stats THEN stats[cmd] ELSE EmptyRow(cmd)
           new == [seconds |-> ConfigOf(cmd), hits |-> row.hits + 1,
                   retry |-> RetryAfter(u, cmd, clock)]
           old == DOMAIN Snapshots
           f == [c \in DOMAIN Snapshots |-> Snapshots[c].hits]
           g == [c \in DOMAIN Snapshots' |-> Snapshots'[c].hits]
<1>1. StatsTyped /\ TokenInv
    BY DEF CooldownInv
<1>2. /\ old = Configured \cup DOMAIN stats /\ IsFiniteSet(old)
      /\ \A c \in old : Snapshots[c].hits \in Nat
      /\ \A c \in DOMAIN stats : Snapshots[c].hits = stats[c].hits
      /\ \A c \in old \ DOMAIN stats : Snapshots[c].hits = 0
    BY <1>1, LinesTyped
<1>3. HitsOf(Snapshots) \in Nat
    BY <1>2, HitsTyped
<1>4. CASE stats' = stats
    <2>1. Snapshots' = Snapshots /\ StatsTyped'
        BY <1>1, <1>4 DEF Snapshots, StatsTyped
    <2> QED
        BY <1>2, <1>3, <2>1 DEF HitsOf
<1>5. CASE stats' = [c \in DOMAIN stats \cup {cmd} |-> IF c = cmd THEN new ELSE stats[c]]
    <2>1. row.hits < MaxHits
        BY DEF RecordHit
    <2>2. row.hits \in Nat /\ (cmd \in old => Snapshots[cmd].hits = row.hits)
        <3>1. CASE cmd \in DOMAIN stats
            BY <1>1, <1>2, <3>1
        <3>2. CASE cmd \notin DOMAIN stats
            BY <1>2, <3>2 DEF EmptyRow
        <3> QED
            BY <3>1, <3>2
    <2>3. new.hits = row.hits + 1 /\ new \in Row
        <3> HIDE DEF row
        <3>1. row.hits + 1 \in 1..MaxHits
            BY <2>1, <2>2, CooldownNumbers
        <3>2. ConfigOf(cmd) \in {0, Seconds}
            BY CooldownNumbers
        <3>3. RetryAfter(u, cmd, clock) \in 1..Max({Seconds, OwnSeconds, 1})
            <4> DEFINE left == SecondsOf(cmd) - (clock - windows[<<u, cmd>>])
            <4>1. /\ SecondsOf(cmd) \in {Seconds, OwnSeconds} /\ Seconds \in Nat /\ OwnSeconds \in Nat
                  /\ MaxClock \in Nat
                BY CooldownNumbers
            <4>2. <<u, cmd>> \in Caller \X Command
                OBVIOUS
            <4>3. windows[<<u, cmd>>] \in Int /\ clock \in Int /\ windows[<<u, cmd>>] <= clock
                BY <1>1, <4>1, <4>2 DEF TokenInv, TokensTrue, Never
            <4>4. left \in Int /\ left <= SecondsOf(cmd) /\ SecondsOf(cmd) \in Int
                BY <4>1, <4>3
            <4>5. RetryAfter(u, cmd, clock) = Max({1, left})
                BY DEF RetryAfter
            <4> HIDE DEF left
            <4>6. Max({1, left}) = IF 1 >= left THEN 1 ELSE left
                BY <4>4, LargerOfTwo
            <4>7. /\ Max({Seconds, OwnSeconds, 1}) \in Int /\ Max({Seconds, OwnSeconds, 1}) >= Seconds
                  /\ Max({Seconds, OwnSeconds, 1}) >= OwnSeconds /\ Max({Seconds, OwnSeconds, 1}) >= 1
                <5>1. Seconds \in Int /\ OwnSeconds \in Int /\ 1 \in Int
                    BY <4>1
                <5> QED
                    BY <5>1, LargestOfThree, Zenon
            <4> QED
                BY <4>1, <4>4, <4>5, <4>6, <4>7
        <3> QED
            BY <3>1, <3>2, <3>3 DEF Row
    <2> HIDE DEF row, new
    <2>4. DOMAIN stats' = DOMAIN stats \cup {cmd} /\ stats'[cmd] = new
          /\ \A c \in DOMAIN stats \ {cmd} : stats'[c] = stats[c]
        BY <1>5
    <2>5. StatsTyped'
        BY <1>1, <2>3, <2>4 DEF StatsTyped
    <2>6. DOMAIN Snapshots' = old \cup {cmd}
        BY <1>2, <2>4 DEF Snapshots
    <2>7. /\ \A c \in DOMAIN stats' : Snapshots'[c].hits = stats'[c].hits
          /\ \A c \in Configured \ DOMAIN stats' : Snapshots'[c].hits = 0
        BY <2>5 DEF Snapshots, StatsTyped, Row, EmptyRow
    <2>8. Snapshots'[cmd].hits = row.hits + 1
        BY <2>3, <2>4, <2>7
    <2>9. \A c \in old \ {cmd} : Snapshots'[c].hits = Snapshots[c].hits
        BY <1>2, <2>4, <2>7
    <2>10. /\ \A c \in old : f[c] \in Nat /\ f[c] = Snapshots[c].hits
           /\ \A c \in old \cup {cmd} : g[c] \in Nat /\ g[c] = Snapshots'[c].hits
        BY <1>2, <2>2, <2>6, <2>8, <2>9
    <2>11. DOMAIN f = old /\ DOMAIN g = old \cup {cmd}
        BY <2>6
    <2>12. cmd \in old => f[cmd] <= g[cmd]
        BY <2>2, <2>8, <2>10
    <2>13. \A c \in old \ {cmd} : g[c] = f[c]
        BY <2>9, <2>10
    <2> HIDE DEF f, g
    <2>14. SumFunctionOnSet(f, old) <= SumFunctionOnSet(g, old \cup {cmd})
        BY <1>2, <2>10, <2>12, <2>13, SumGrows
    <2>15. HitsOf(Snapshots) = SumFunctionOnSet(f, old)
        BY <2>11 DEF HitsOf, SumFunction, f
    <2>16. HitsOf(Snapshots)' = SumFunctionOnSet(g, old \cup {cmd})
        BY <2>11 DEF HitsOf, SumFunction, g
    <2>17. SumFunctionOnSet(g, old \cup {cmd}) \in Nat
        <3>1. IsFiniteSet(old \cup {cmd})
            BY <1>2, FS_AddElement
        <3> QED
            BY <2>10, <3>1, SumOfInts
    <2>18. \A c \in old : Snapshots[c].hits <= Snapshots'[c].hits /\ Snapshots'[c].hits \in Nat
        BY <1>2, <2>2, <2>8, <2>9
    <2> QED
        BY <1>2, <1>3, <2>5, <2>14, <2>15, <2>16, <2>17, <2>18
<1> QED
    BY <1>4, <1>5 DEF RecordHit

LEMMA TurnAwayCounts ==
    ASSUME CooldownInv, NEW u \in Caller, NEW cmd \in Command,
           ~HasToken(u, cmd, clock), RecordHit(u, cmd, clock),
           UNCHANGED <<windows, report, lastRun, lastDenied, clock>>
    PROVE  CooldownInv'
<1>1. /\ StatsTyped'
      /\ HitsOf(Snapshots) <= HitsOf(Snapshots)'
      /\ \A c \in DOMAIN Snapshots : Snapshots[c].hits <= Snapshots[c].hits'
      /\ \A c \in DOMAIN Snapshots : Snapshots[c].hits \in Nat /\ Snapshots[c].hits' \in Nat
      /\ HitsOf(Snapshots) \in Nat /\ HitsOf(Snapshots)' \in Nat
    BY HitsGrow
<1>2. TokenInv' /\ ReportTyped'
    BY DEF CooldownInv, TokenInv, TokensTrue, LastCounted, ReportTyped
<1>3. ClearedIsShown'
    <2> SUFFICES ASSUME report.dialog = "cleared"
                 PROVE  report.shown.hits <= IF report.scope = All THEN HitsOf(Snapshots)'
                                             ELSE Snapshots[report.scope].hits'
        BY DEF ClearedIsShown
    <2>1. report.shown.hits <= IF report.scope = All THEN HitsOf(Snapshots)
                               ELSE Snapshots[report.scope].hits
        BY DEF CooldownInv, ClearedIsShown
    <2>2. report.shown.hits \in Nat
        BY DEF CooldownInv, ReportTyped
    <2>3. CASE report.scope = All
        BY <1>1, <2>1, <2>2, <2>3
    <2>4. CASE report.scope # All
        <3>1. report.scope \in DOMAIN Snapshots
            BY <2>4, LinesTyped DEF CooldownInv, ReportTyped
        <3> QED
            BY <1>1, <2>1, <2>2, <2>4, <3>1
    <2> QED
        BY <2>3, <2>4
<1> QED
    BY <1>1, <1>2, <1>3 DEF CooldownInv

\* A call that counts takes the token.
LEMMA CallCounts ==
    ASSUME CooldownInv, NEW u \in Caller, NEW cmd \in Command, TakeToken(u, cmd, clock),
           \/ /\ lastRun' = [lastRun EXCEPT ![<<u, cmd>>] = clock]
              /\ lastDenied' = lastDenied
           \/ /\ CooldownFirst(cmd) /\ lastRun' = lastRun
              /\ lastDenied' = [lastDenied EXCEPT ![<<u, cmd>>] = clock],
           UNCHANGED <<stats, report, clock>>
    PROVE  CooldownInv'
<1>1. TokenInv /\ StatsTyped /\ ReportTyped /\ ClearedIsShown
    BY DEF CooldownInv
<1> DEFINE p == <<u, cmd>>
<1>2. p \in Caller \X Command /\ p[2] = cmd
    OBVIOUS
<1>3. /\ MaxClock \in Nat /\ clock \in 0..MaxClock
      /\ windows \in [Caller \X Command -> Never..MaxClock]
      /\ lastRun \in [Caller \X Command -> Never..MaxClock]
      /\ lastDenied \in [Caller \X Command -> Never..MaxClock]
      /\ clock \in Never..MaxClock
    BY <1>1, CooldownNumbers DEF TokenInv, Never
<1>4. SecondsOf(cmd) \in Nat
    BY CooldownNumbers
<1> HIDE DEF p
<1>5. /\ lastRun' \in [Caller \X Command -> Never..MaxClock]
      /\ lastDenied' \in [Caller \X Command -> Never..MaxClock]
      /\ \/ lastRun'[p] = clock /\ lastDenied'[p] = lastDenied[p]
         \/ CooldownFirst(cmd) /\ lastRun'[p] = lastRun[p] /\ lastDenied'[p] = clock
      /\ \A q \in (Caller \X Command) \ {p} :
            lastRun'[q] = lastRun[q] /\ lastDenied'[q] = lastDenied[q]
    BY <1>2, <1>3 DEF p
<1>6. /\ windows' \in [Caller \X Command -> Never..MaxClock]
      /\ SecondsOf(cmd) > 0 => windows'[p] = clock
      /\ SecondsOf(cmd) = 0 => windows'[p] = windows[p]
      /\ \A q \in (Caller \X Command) \ {p} : windows'[q] = windows[q]
    <2>1. CASE SecondsOf(cmd) = 0
        BY <1>3, <2>1 DEF TakeToken
    <2>2. CASE SecondsOf(cmd) # 0
        BY <1>2, <1>3, <2>2 DEF TakeToken, p
    <2> QED
        BY <2>1, <2>2
<1>7. TokensTrue'
    <2> SUFFICES ASSUME NEW q \in Caller \X Command
                 PROVE  /\ windows'[q] <= clock /\ lastRun'[q] <= clock /\ lastDenied'[q] <= clock
                        /\ SecondsOf(q[2]) > 0 => windows'[q] = LastCounted(q)'
        BY DEF TokensTrue
    <2>1. /\ windows[q] <= clock /\ lastRun[q] <= clock /\ lastDenied[q] <= clock
          /\ SecondsOf(q[2]) > 0 => windows[q] = LastCounted(q)
        BY <1>1 DEF TokenInv, TokensTrue
    <2>2. CASE q = p
        <3>1. lastRun[p] \in Int /\ lastDenied[p] \in Int /\ clock \in Int
            BY <1>2, <1>3 DEF Never
        <3>2. LastCounted(p)' = clock
            BY <1>2, <1>5, <2>1, <2>2, <3>1 DEF LastCounted
        <3> QED
            BY <1>2, <1>4, <1>5, <1>6, <2>1, <2>2, <3>1, <3>2
    <2>3. CASE q # p
        BY <1>5, <1>6, <2>1, <2>3 DEF LastCounted
    <2> QED
        BY <2>2, <2>3
<1>8. TokenInv'
    BY <1>3, <1>5, <1>6, <1>7 DEF TokenInv
<1>9. StatsTyped' /\ ReportTyped' /\ ClearedIsShown'
    BY <1>1 DEF StatsTyped, ReportTyped, ClearedIsShown, Snapshots
<1> QED
    BY <1>8, <1>9 DEF CooldownInv

\* A call denied before its cooldown is looked at does not count.
LEMMA DenialsAreFree ==
    ASSUME CooldownInv, NEW u \in Caller, NEW cmd \in Command, ~CooldownFirst(cmd),
           lastDenied' = [lastDenied EXCEPT ![<<u, cmd>>] = clock],
           UNCHANGED <<windows, stats, report, lastRun, clock>>
    PROVE  CooldownInv'
<1>1. TokenInv /\ StatsTyped /\ ReportTyped /\ ClearedIsShown
    BY DEF CooldownInv
<1> DEFINE p == <<u, cmd>>
<1>2. p \in Caller \X Command /\ p[2] = cmd
    OBVIOUS
<1>3. /\ clock \in 0..MaxClock /\ clock \in Never..MaxClock
      /\ lastDenied \in [Caller \X Command -> Never..MaxClock]
    BY <1>1, CooldownNumbers DEF TokenInv, Never
<1> HIDE DEF p
<1>4. /\ lastDenied' \in [Caller \X Command -> Never..MaxClock] /\ lastDenied'[p] = clock
      /\ \A q \in (Caller \X Command) \ {p} : lastDenied'[q] = lastDenied[q]
    BY <1>2, <1>3 DEF p
<1>5. TokensTrue'
    <2> SUFFICES ASSUME NEW q \in Caller \X Command
                 PROVE  /\ windows[q] <= clock /\ lastRun[q] <= clock /\ lastDenied'[q] <= clock
                        /\ SecondsOf(q[2]) > 0 => windows[q] = LastCounted(q)'
        BY DEF TokensTrue
    <2>1. /\ windows[q] <= clock /\ lastRun[q] <= clock /\ lastDenied[q] <= clock
          /\ SecondsOf(q[2]) > 0 => windows[q] = LastCounted(q)
        BY <1>1 DEF TokenInv, TokensTrue
    <2>2. CASE q = p
        BY <1>2, <1>3, <1>4, <2>1, <2>2 DEF LastCounted
    <2>3. CASE q # p
        BY <1>4, <2>1, <2>3 DEF LastCounted
    <2> QED
        BY <2>2, <2>3
<1>6. TokenInv'
    BY <1>1, <1>4, <1>5 DEF TokenInv
<1>7. StatsTyped' /\ ReportTyped' /\ ClearedIsShown'
    BY <1>1 DEF StatsTyped, ReportTyped, ClearedIsShown, Snapshots
<1> QED
    BY <1>6, <1>7 DEF CooldownInv

\* What a token says is what the calls before it say.
LEMMA TokensTell ==
    ASSUME CooldownInv, NEW u \in Caller, NEW cmd \in Command
    PROVE  HasToken(u, cmd, clock) <=>
             ~(\/ Recent(lastRun[<<u, cmd>>], cmd)
               \/ CooldownFirst(cmd) /\ Recent(lastDenied[<<u, cmd>>], cmd))
<1> DEFINE p == <<u, cmd>>
<1>1. p \in Caller \X Command /\ p[2] = cmd
    OBVIOUS
<1>2. SecondsOf(cmd) \in Nat /\ MaxClock \in Nat
    BY CooldownNumbers
<1> HIDE DEF p
<1>3. /\ lastRun[p] \in Never..MaxClock /\ lastDenied[p] \in Never..MaxClock
      /\ windows[p] \in Never..MaxClock /\ clock \in 0..MaxClock
      /\ lastRun[p] <= clock /\ lastDenied[p] <= clock
      /\ SecondsOf(cmd) > 0 => windows[p] = LastCounted(p)
    BY <1>1, <1>2 DEF CooldownInv, TokenInv, TokensTrue
<1>4. HasToken(u, cmd, clock) <=> \/ SecondsOf(cmd) = 0 \/ windows[p] = Never
                                  \/ clock > windows[p] + SecondsOf(cmd)
    BY DEF HasToken, p
<1>5. CASE SecondsOf(cmd) = 0
    BY <1>4, <1>5 DEF Recent
<1>6. CASE SecondsOf(cmd) > 0
    <2>1. \A last \in Never..MaxClock :
             Recent(last, cmd) <=> last # Never /\ ~(clock > last + SecondsOf(cmd))
        BY <1>2, <1>3, <1>6 DEF Recent, Never
    <2>2. HasToken(u, cmd, clock) <=> ~Recent(windows[p], cmd)
        BY <1>2, <1>3, <1>4, <1>6, <2>1
    <2>3. windows[p] = LastCounted(p)
        BY <1>3, <1>6
    <2>4. CASE CooldownFirst(cmd)
        <3>1. windows[p] = IF lastDenied[p] > lastRun[p] THEN lastDenied[p] ELSE lastRun[p]
            BY <1>1, <2>3, <2>4 DEF LastCounted
        <3>2. Recent(windows[p], cmd) <=> Recent(lastRun[p], cmd) \/ Recent(lastDenied[p], cmd)
            BY <1>2, <1>3, <1>6, <2>1, <3>1 DEF Never
        <3> QED
            BY <2>2, <2>4, <3>2 DEF p
    <2>5. CASE ~CooldownFirst(cmd)
        <3>1. windows[p] = lastRun[p]
            BY <1>1, <2>3, <2>5 DEF LastCounted
        <3> QED
            BY <2>2, <2>5, <3>1 DEF p
    <2> QED
        BY <2>4, <2>5
<1> QED
    BY <1>2, <1>5, <1>6

\* The report and its controls.
LEMMA ReportingKeeps ==
    ASSUME CooldownInv, Reporting, UNCHANGED <<lastRun, lastDenied, clock>>
    PROVE  CooldownInv'
<1>1. TokenInv /\ StatsTyped /\ ReportTyped /\ ClearedIsShown
    BY DEF CooldownInv
<1>2. windows' = windows
    BY DEF Reporting, OpenReport, RefreshReport, AskClear, ConfirmClear, CancelClear, CloseReport
<1>3. TokenInv'
    BY <1>1, <1>2 DEF TokenInv, TokensTrue, LastCounted
<1>4. /\ DOMAIN Snapshots = Configured \cup DOMAIN stats /\ IsFiniteSet(DOMAIN Snapshots)
      /\ \A cmd \in DOMAIN Snapshots : Snapshots[cmd].hits \in Nat
    BY <1>1, LinesTyped
<1>5. \A scope : Reportable(scope) =>
        /\ Report(Snapshots, scope).hits \in Nat
        /\ Report(Snapshots, scope).hits =
             IF scope = All THEN HitsOf(Snapshots) ELSE Snapshots[scope].hits
    BY <1>4, ReportsHits DEF Reportable
<1>6. ASSUME stats' = stats, ReportTyped', ClearedIsShown'
      PROVE  CooldownInv'
    BY <1>1, <1>3, <1>6 DEF CooldownInv, StatsTyped
<1>7. stats' = stats => Snapshots' = Snapshots
    BY DEF Snapshots
<1>8. ASSUME NEW scope \in Command \cup {All}, OpenReport(scope)
      PROVE  CooldownInv'
    <2>1. /\ Reportable(scope) /\ stats' = stats
          /\ report' = [scope |-> scope, shown |-> Report(Snapshots, scope), dialog |-> "none"]
        BY <1>8 DEF OpenReport
    <2>2. report'.shown = Report(Snapshots, scope) /\ report'.scope = scope
          /\ report'.dialog = "none" /\ DOMAIN report' = {"scope", "shown", "dialog"}
        BY <2>1
    <2>3. ReportTyped'
        BY <1>5, <2>1, <2>2 DEF ReportTyped
    <2>4. ClearedIsShown'
        BY <2>2 DEF ClearedIsShown
    <2> QED
        BY <1>6, <2>1, <2>3, <2>4
<1>9. CASE RefreshReport
    <2>1. /\ Reportable(report.scope) /\ stats' = stats
          /\ report' = [report EXCEPT !.shown = Report(Snapshots, report.scope)]
        BY <1>9 DEF RefreshReport
    <2>2. report'.shown = Report(Snapshots, report.scope) /\ report'.scope = report.scope
          /\ report'.dialog = report.dialog /\ DOMAIN report' = DOMAIN report
        BY <1>1, <2>1 DEF ReportTyped
    <2>3. ReportTyped'
        BY <1>1, <1>5, <2>1, <2>2 DEF ReportTyped
    <2>4. HitsOf(Snapshots) \in Nat
        BY <1>4, HitsTyped
    <2>5. report.scope = All \/ report.scope \in DOMAIN Snapshots
        BY <2>1 DEF Reportable
    <2>6. report'.shown.hits <= IF report'.scope = All THEN HitsOf(Snapshots)
                                ELSE Snapshots[report'.scope].hits
        BY <1>4, <1>5, <2>1, <2>2, <2>4, <2>5
    <2>7. ClearedIsShown'
        BY <1>7, <2>1, <2>6 DEF ClearedIsShown
    <2> QED
        BY <1>6, <2>1, <2>3, <2>7
<1>10. ASSUME NEW stage \in {"asked", "none"}, stats' = stats,
              report' = [report EXCEPT !.dialog = stage]
       PROVE  CooldownInv'
    <2>1. report'.shown = report.shown /\ report'.scope = report.scope
          /\ report'.dialog = stage /\ DOMAIN report' = DOMAIN report
        BY <1>1, <1>10 DEF ReportTyped
    <2>2. ReportTyped' /\ ClearedIsShown'
        BY <1>1, <2>1 DEF ReportTyped, ClearedIsShown
    <2> QED
        BY <1>6, <1>10, <2>2
<1>11. CASE AskClear \/ CancelClear
    BY <1>10, <1>11 DEF AskClear, CancelClear
<1>12. CASE CloseReport
    <2>1. report' = NoReport /\ stats' = stats
        BY <1>12 DEF CloseReport
    <2>2. ReportTyped' /\ ClearedIsShown'
        BY <2>1 DEF ReportTyped, ClearedIsShown, NoReport
    <2> QED
        BY <1>6, <2>1, <2>2
<1>13. CASE ConfirmClear
    <2> DEFINE lines == [cmd \in Configured |-> EmptyRow(cmd)]
    <2>1. /\ report.dialog = "asked" /\ stats' = <<>>
          /\ report' = IF report.scope \in {All} \cup Configured
                       THEN [report EXCEPT !.dialog = "cleared", !.shown = Report(lines, report.scope)]
                       ELSE report
        BY <1>13 DEF ConfirmClear
    <2>2. DOMAIN stats' = {}
        BY <2>1
    <2>3. StatsTyped'
        BY <2>2 DEF StatsTyped
    <2>4. Snapshots' = lines
        <3>1. Configured \cup DOMAIN stats' = Configured
            BY <2>2
        <3> QED
            BY <2>2, <3>1 DEF Snapshots
    <2>5. /\ DOMAIN lines = Configured /\ IsFiniteSet(DOMAIN lines)
          /\ \A cmd \in Configured : lines[cmd].hits = 0
        BY CooldownNumbers, FS_Subset DEF EmptyRow
    <2>6. HitsOf(lines) = 0
        BY NoHitsOfNone
    <2> HIDE DEF lines
    <2>7. CASE report.scope \in {All} \cup Configured
        <3>1. report'.shown = Report(lines, report.scope) /\ report'.scope = report.scope
              /\ report'.dialog = "cleared" /\ DOMAIN report' = DOMAIN report
            BY <1>1, <2>1, <2>7 DEF ReportTyped
        <3>2. Report(lines, report.scope).hits = 0
            BY <2>5, <2>6, <2>7, ReportsHits
        <3>3. ReportTyped'
            BY <1>1, <2>7, <3>1, <3>2 DEF ReportTyped
        <3>4. ClearedIsShown'
            BY <2>4, <2>5, <2>6, <2>7, <3>1, <3>2 DEF ClearedIsShown
        <3> QED
            BY <1>3, <2>3, <3>3, <3>4 DEF CooldownInv
    <2>8. CASE report.scope \notin {All} \cup Configured
        <3>1. report' = report
            BY <2>1, <2>8
        <3>2. ReportTyped' /\ ClearedIsShown'
            BY <1>1, <2>1, <3>1 DEF ReportTyped, ClearedIsShown
        <3> QED
            BY <1>3, <2>3, <3>2 DEF CooldownInv
    <2> QED
        BY <2>7, <2>8
<1> QED
    BY <1>8, <1>9, <1>11, <1>12, <1>13 DEF Reporting

\* A crash forgets tokens and who held them.
LEMMA RestartForgets ==
    ASSUME CooldownInv, ForgetTokens, report' = NoReport,
           lastRun' = [p \in Caller \X Command |-> Never], lastDenied' = lastRun',
           UNCHANGED <<stats, clock>>
    PROVE  CooldownInv'
<1>1. windows' = [p \in Caller \X Command |-> Never] /\ stats' = stats /\ StatsTyped
      /\ clock \in 0..MaxClock
    BY DEF ForgetTokens, CooldownInv, TokenInv
<1>2. MaxClock \in Nat
    BY CooldownNumbers
<1>3. TokenInv'
    BY <1>1, <1>2 DEF TokenInv, TokensTrue, LastCounted, Never
<1>4. StatsTyped' /\ ReportTyped' /\ ClearedIsShown'
    BY <1>1 DEF StatsTyped, ReportTyped, ClearedIsShown, NoReport
<1> QED
    BY <1>3, <1>4 DEF CooldownInv

LEMMA CooldownTypes == CooldownInv => CooldownTypeOK
<1> SUFFICES ASSUME CooldownInv
             PROVE  CooldownTypeOK
    OBVIOUS
<1>1. windows \in [Caller \X Command -> Never..MaxTime]
    BY CooldownNumbers DEF CooldownInv, TokenInv
<1>2. StatsTyped /\ ReportTyped
    BY DEF CooldownInv
<1> QED
    BY <1>1, <1>2 DEF CooldownTypeOK, StatsTyped, ReportTyped, Row

-----------------------------------------------------------------------------
(***************************************************************************)
(* The trail of commands (CommandPipeline).                                *)
(***************************************************************************)
Steps == Ends \cup {"none", "due", "runs", "lost"}

CallRecord ==
    [who : User, what : Command, slash : BOOLEAN, step : Steps,
     event : {"none", "due", "seen", "gone"}, insert : {"none", "due", "over"},
     time : {"none", "told", "due"}, early : BOOLEAN, failed : BOOLEAN, noted : BOOLEAN,
     ended : 0..MaxClock]

TrailRow == [failed : BOOLEAN, time : Never..MaxClock]

Verdicts == {<<>>, <<"SUCCESS">>, <<"FAILURE">>}

StartsTyped == DOMAIN starts \subseteq Call /\ \A c \in DOMAIN starts : starts[c] \in 0..MaxClock

RowsTyped == DOMAIN trail \subseteq Call /\ \A c \in DOMAIN trail : trail[c] \in TrailRow

TrailTyped ==
    /\ calls \in [Call -> CallRecord]
    /\ StartsTyped /\ RowsTyped
    /\ security \in [Call -> Verdicts]
    /\ crashes \in 0..MaxCrashes

\* What is kept about one call is true of it, and it is told and timed only
\* when it has come so far.
Late(c) == calls[c].early /\ calls[c].step \in Failures

RowTrue(c) ==
    c \in DOMAIN trail =>
        /\ trail[c].failed => Late(c) \/ (calls[c].step = "raised" /\ calls[c].noted)
        /\ Late(c) => trail[c].failed
        /\ trail[c].time # Never => Over(c) /\ trail[c].time = calls[c].ended

VerdictTrue(c) ==
    /\ security[c] = <<"SUCCESS">> => calls[c].step = "done"
    /\ security[c] = <<"FAILURE">> => calls[c].step \in {"denied", "raised"}

StartTrue(c) ==
    c \in DOMAIN starts =>
        /\ calls[c].step # "none" /\ calls[c].slash
        /\ Over(c) => calls[c].early \/ calls[c].time = "told"

ToldInOrder(c) ==
    /\ calls[c].event = "due" => calls[c].step # "none"
    /\ calls[c].time # "none" => Over(c)

\* What the bot was told of a call is what its row will say, and has no row
\* before.
MarkTrue(c) ==
    /\ calls[c].failed <=> Late(c)
    /\ calls[c].early => Over(c)
    /\ calls[c].event \in {"none", "due"} =>
          c \notin DOMAIN trail /\ ~calls[c].early /\ calls[c].insert = "none"
    /\ calls[c].step = "none" => calls[c].event = "none"

CallTrue(c) == RowTrue(c) /\ MarkTrue(c) /\ VerdictTrue(c) /\ StartTrue(c) /\ ToldInOrder(c)

TrailInv == TrailTyped /\ \A c \in Call : CallTrue(c)

LEMMA PipelineNumbers ==
    /\ MaxClock \in Nat /\ MaxCrashes \in Nat /\ Caller = User
    /\ (CHOOSE u \in User : TRUE) \in User /\ (CHOOSE cmd \in Command : TRUE) \in Command
BY PipelineAssumption, RoleAccessAssumption

LEMMA NoCallTyped ==
    /\ NoCall \in CallRecord /\ NoCall.step = "none" /\ NoCall.event = "none"
    /\ NoCall.time = "none" /\ NoCall.early = FALSE /\ NoCall.noted = FALSE
    /\ NoCall.insert = "none" /\ NoCall.failed = FALSE
BY PipelineNumbers DEF NoCall, CallRecord, Steps

LEMMA FirstVerdict ==
    ASSUME NEW entry
    PROVE  Append(<<>>, entry) = <<entry>>
OBVIOUS

LEMMA VerdictsDiffer ==
    /\ <<"SUCCESS">> # <<"FAILURE">> /\ <<>> # <<"SUCCESS">> /\ <<>> # <<"FAILURE">>
OBVIOUS

\* Everything about the other calls stays.
OthersStay(c) ==
    \A d \in Call \ {c} :
        /\ calls'[d] = calls[d] /\ security'[d] = security[d]
        /\ d \in DOMAIN starts' => d \in DOMAIN starts
        /\ d \in DOMAIN trail' => /\ d \in DOMAIN trail
                                  /\ trail'[d].failed <=> trail[d].failed
                                  /\ trail'[d].time = trail[d].time

LEMMA OneCallKeeps ==
    ASSUME TrailInv, NEW c \in Call, TrailTyped', OthersStay(c), CallTrue(c)'
    PROVE  TrailInv'
<1> SUFFICES ASSUME NEW d \in Call \ {c}
             PROVE  CallTrue(d)'
    BY DEF TrailInv
<1>1. CallTrue(d)
    BY DEF TrailInv
<1>2. /\ calls'[d] = calls[d] /\ security'[d] = security[d]
      /\ d \in DOMAIN starts' => d \in DOMAIN starts
      /\ d \in DOMAIN trail' => /\ d \in DOMAIN trail
                                /\ trail'[d].failed <=> trail[d].failed
                                /\ trail'[d].time = trail[d].time
    BY DEF OthersStay
<1>3. RowTrue(d)'
    BY <1>1, <1>2 DEF CallTrue, RowTrue, Late, Over
<1>5. MarkTrue(d)'
    BY <1>1, <1>2 DEF CallTrue, MarkTrue, Late, Over
<1>4. VerdictTrue(d)' /\ StartTrue(d)' /\ ToldInOrder(d)'
    BY <1>1, <1>2 DEF CallTrue, VerdictTrue, StartTrue, ToldInOrder, Over
<1> QED
    BY <1>3, <1>4, <1>5 DEF CallTrue

LEMMA TrailInitially ==
    ASSUME calls = [c \in Call |-> NoCall], starts = <<>>, trail = <<>>,
           security = [c \in Call |-> <<>>], crashes = 0
    PROVE  TrailInv
<1>1. DOMAIN starts = {} /\ DOMAIN trail = {}
    OBVIOUS
<1>2. calls \in [Call -> CallRecord] /\ security \in [Call -> Verdicts] /\ crashes \in 0..MaxCrashes
    BY NoCallTyped, PipelineNumbers DEF Verdicts
<1>3. TrailTyped
    BY <1>1, <1>2 DEF TrailTyped, StartsTyped, RowsTyped
<1>4. ASSUME NEW c \in Call
      PROVE  CallTrue(c)
    <2>1. calls[c].step = "none" /\ calls[c].event = "none" /\ calls[c].time = "none"
          /\ security[c] = <<>> /\ calls[c].insert = "none"
          /\ ~calls[c].failed /\ ~calls[c].early
        BY NoCallTyped
    <2>2. RowTrue(c) /\ MarkTrue(c) /\ StartTrue(c) /\ ToldInOrder(c)
        BY <1>1, <2>1 DEF RowTrue, MarkTrue, Late, StartTrue, ToldInOrder
    <2>3. VerdictTrue(c)
        BY <2>1, VerdictsDiffer DEF VerdictTrue
    <2> QED
        BY <2>2, <2>3 DEF CallTrue
<1> QED
    BY <1>3, <1>4 DEF TrailInv

-----------------------------------------------------------------------------
LEMMA ArriveKeeps ==
    ASSUME TrailInv, NEW c \in Call, NEW u \in User, NEW cmd \in Command, NEW slash \in BOOLEAN,
           Arrive(c, u, cmd, slash)
    PROVE  TrailInv'
<1> DEFINE new == [NoCall EXCEPT !.who = u, !.what = cmd, !.slash = slash, !.step = "due",
                                 !.event = "due"]
<1>1. /\ calls[c].step = "none" /\ calls' = [calls EXCEPT ![c] = new]
      /\ UNCHANGED <<starts, trail, security, crashes>>
    BY DEF Arrive
<1>2. TrailTyped /\ CallTrue(c)
    BY DEF TrailInv
<1>3. /\ new \in CallRecord /\ new.step = "due" /\ new.time = "none" /\ new.event = "due"
      /\ new.insert = "none" /\ ~new.failed /\ ~new.early
    BY NoCallTyped DEF CallRecord, Steps
<1> HIDE DEF new
<1>4. calls' \in [Call -> CallRecord] /\ calls'[c] = new
      /\ \A d \in Call \ {c} : calls'[d] = calls[d]
    BY <1>1, <1>2, <1>3 DEF TrailTyped
<1>5. TrailTyped'
    BY <1>1, <1>2, <1>4 DEF TrailTyped, StartsTyped, RowsTyped
<1>6. OthersStay(c)
    BY <1>1, <1>4 DEF OthersStay
<1>7. CallTrue(c)'
    <2>1. c \notin DOMAIN starts /\ c \notin DOMAIN trail
        BY <1>1, <1>2 DEF CallTrue, StartTrue, MarkTrue
    <2>2. security[c] # <<"SUCCESS">> /\ security[c] # <<"FAILURE">>
        BY <1>1, <1>2 DEF CallTrue, VerdictTrue
    <2>3. RowTrue(c)' /\ MarkTrue(c)' /\ StartTrue(c)' /\ ToldInOrder(c)'
        BY <1>1, <1>3, <1>4, <2>1 DEF RowTrue, MarkTrue, Late, StartTrue, ToldInOrder
    <2>4. VerdictTrue(c)'
        BY <1>1, <2>2 DEF VerdictTrue
    <2> QED
        BY <2>3, <2>4 DEF CallTrue
<1> QED
    BY <1>5, <1>6, <1>7, OneCallKeeps

\* A call the bot is told of: what it was before stays, and its start may be
\* noted.
LEMMA ToldKeeps ==
    ASSUME TrailInv, NEW c \in Call, calls[c].event = "due", calls' \in [Call -> CallRecord],
           UNCHANGED <<trail, security, crashes>>,
           \A d \in Call \ {c} : calls'[d] = calls[d],
           /\ calls'[c].step = calls[c].step /\ calls'[c].slash = calls[c].slash
           /\ calls'[c].time = calls[c].time /\ calls'[c].ended = calls[c].ended
           /\ calls'[c].noted = calls[c].noted /\ calls'[c].event = "seen",
           StartsTyped', \A d \in DOMAIN starts' : d # c => d \in DOMAIN starts,
           StartTrue(c)', MarkTrue(c)'
    PROVE  TrailInv'
<1>1. TrailTyped /\ CallTrue(c)
    BY DEF TrailInv
<1>2. TrailTyped'
    BY <1>1 DEF TrailTyped, RowsTyped
<1>3. OthersStay(c)
    BY DEF OthersStay
<1>4. RowTrue(c)' /\ ToldInOrder(c)'
    BY <1>1 DEF CallTrue, MarkTrue, RowTrue, ToldInOrder, Over
<1>5. VerdictTrue(c)'
    BY <1>1 DEF CallTrue, VerdictTrue
<1>6. CallTrue(c)'
    BY <1>4, <1>5 DEF CallTrue
<1> QED
    BY <1>2, <1>3, <1>6, OneCallKeeps

LEMMA InteractionKeeps ==
    ASSUME TrailInv, NEW c \in Call, clock \in 0..MaxClock, OnInteraction(c)
    PROVE  TrailInv'
<1> DEFINE over == Over(c)
           fails == calls[c].step \in Failures
<1>1. /\ calls \in [Call -> CallRecord] /\ calls[c] \in CallRecord /\ over \in BOOLEAN
      /\ fails \in BOOLEAN /\ StartsTyped /\ CallTrue(c)
    BY DEF TrailInv, TrailTyped, Over
<1>2. /\ calls[c].event = "due"
      /\ calls' = [calls EXCEPT ![c].event = "seen", ![c].insert = "due", ![c].early = over,
                                ![c].failed = fails]
      /\ starts' = IF calls[c].slash
                   THEN [d \in DOMAIN starts \cup {c} |-> IF d = c THEN clock ELSE starts[d]]
                   ELSE starts
      /\ UNCHANGED <<trail, security, crashes>>
    BY DEF OnInteraction
<1> HIDE DEF over, fails
<1>3. /\ calls' \in [Call -> CallRecord] /\ \A d \in Call \ {c} : calls'[d] = calls[d]
      /\ calls'[c].step = calls[c].step /\ calls'[c].slash = calls[c].slash
      /\ calls'[c].time = calls[c].time /\ calls'[c].ended = calls[c].ended
      /\ calls'[c].noted = calls[c].noted /\ calls'[c].event = "seen"
      /\ calls'[c].early = over /\ calls'[c].failed = fails
    BY <1>1, <1>2 DEF CallRecord
<1>4. StartsTyped' /\ \A d \in DOMAIN starts' : d # c => d \in DOMAIN starts
    <2>1. CASE calls[c].slash
        BY <1>1, <1>2, <2>1 DEF StartsTyped
    <2>2. CASE ~calls[c].slash
        BY <1>1, <1>2, <2>2 DEF StartsTyped
    <2> QED
        BY <2>1, <2>2
<1>5. StartTrue(c)'
    <2>1. calls'[c].step # "none"
        BY <1>1, <1>2, <1>3 DEF CallTrue, ToldInOrder
    <2>2. c \in DOMAIN starts' => calls'[c].slash
        BY <1>1, <1>2, <1>3 DEF CallTrue, StartTrue
    <2>3. Over(c)' => calls'[c].early
        BY <1>3 DEF Over, over
    <2> QED
        BY <2>1, <2>2, <2>3 DEF StartTrue
<1>6. MarkTrue(c)'
    <2>1. (calls'[c].early <=> Over(c)') /\ (calls'[c].failed <=> calls'[c].step \in Failures)
        BY <1>3 DEF Over, over, fails
    <2>2. calls'[c].step \in Failures => Over(c)'
        BY DEF Over, Ends
    <2>3. calls'[c].step # "none"
        BY <1>1, <1>2, <1>3 DEF CallTrue, ToldInOrder
    <2> QED
        BY <1>3, <2>1, <2>2, <2>3 DEF MarkTrue, Late
<1> QED
    BY <1>2, <1>3, <1>4, <1>5, <1>6, ToldKeeps

LEMMA CommandFailsKeeps ==
    ASSUME TrailInv, NEW c \in Call, OnCommandFails(c)
    PROVE  TrailInv'
<1>1. /\ calls \in [Call -> CallRecord] /\ calls[c] \in CallRecord /\ StartsTyped /\ CallTrue(c)
    BY DEF TrailInv, TrailTyped
<1>2. /\ calls[c].event = "due" /\ calls' = [calls EXCEPT ![c].event = "seen"]
      /\ UNCHANGED <<starts, trail, security, crashes>>
    BY DEF OnCommandFails
<1>3. /\ calls' \in [Call -> CallRecord] /\ \A d \in Call \ {c} : calls'[d] = calls[d]
      /\ calls'[c].step = calls[c].step /\ calls'[c].slash = calls[c].slash
      /\ calls'[c].time = calls[c].time /\ calls'[c].ended = calls[c].ended
      /\ calls'[c].noted = calls[c].noted /\ calls'[c].event = "seen"
      /\ calls'[c].early = calls[c].early /\ calls'[c].failed = calls[c].failed
    BY <1>1, <1>2 DEF CallRecord
<1>4. StartsTyped' /\ StartTrue(c)'
    BY <1>1, <1>2, <1>3 DEF StartsTyped, CallTrue, StartTrue, Over
<1>5. MarkTrue(c)'
    BY <1>1, <1>2, <1>3 DEF CallTrue, MarkTrue, Late, Over
<1> QED
    BY <1>2, <1>3, <1>4, <1>5, ToldKeeps

\* The row of a call is new, or stays, or gets a time it has come to.
LEMMA RowsKeep ==
    ASSUME TrailInv, NEW c \in Call, RowsTyped', RowTrue(c)', MarkTrue(c)', calls' \in [Call -> CallRecord],
           UNCHANGED <<starts, security, crashes>>,
           \A d \in Call \ {c} :
              /\ calls'[d] = calls[d]
              /\ d \in DOMAIN trail' => /\ d \in DOMAIN trail
                                        /\ trail'[d].failed <=> trail[d].failed
                                        /\ trail'[d].time = trail[d].time,
           /\ calls'[c].step = calls[c].step /\ calls'[c].slash = calls[c].slash
           /\ calls'[c].time \in {calls[c].time, "none"} /\ calls'[c].event = calls[c].event
           /\ calls'[c].early = calls[c].early,
           calls'[c].time = "told" <=> calls[c].time = "told"
    PROVE  TrailInv'
<1>1. TrailTyped /\ CallTrue(c)
    BY DEF TrailInv
<1>2. TrailTyped'
    BY <1>1 DEF TrailTyped, StartsTyped
<1>3. OthersStay(c)
    BY DEF OthersStay
<1>4. StartTrue(c)' /\ ToldInOrder(c)'
    BY <1>1 DEF CallTrue, StartTrue, ToldInOrder, Over
<1>5. VerdictTrue(c)'
    BY <1>1 DEF CallTrue, VerdictTrue
<1>6. CallTrue(c)'
    BY <1>4, <1>5 DEF CallTrue
<1> QED
    BY <1>2, <1>3, <1>6, OneCallKeeps

LEMMA InsertKeeps ==
    ASSUME TrailInv, NEW c \in Call, Insert(c)
    PROVE  TrailInv'
<1>1. /\ calls \in [Call -> CallRecord] /\ calls[c] \in CallRecord /\ RowsTyped /\ CallTrue(c)
    BY DEF TrailInv, TrailTyped
<1>2. /\ calls[c].insert = "due" /\ calls' = [calls EXCEPT ![c].insert = "over"]
      /\ trail' \in {trail, [d \in DOMAIN trail \cup {c} |-> IF d = c THEN NewRow(c) ELSE trail[d]]}
      /\ UNCHANGED <<starts, security, crashes>>
    BY DEF Insert
<1>3. /\ calls' \in [Call -> CallRecord] /\ \A d \in Call \ {c} : calls'[d] = calls[d]
      /\ calls'[c].step = calls[c].step /\ calls'[c].slash = calls[c].slash
      /\ calls'[c].time = calls[c].time /\ calls'[c].event = calls[c].event
      /\ calls'[c].early = calls[c].early /\ calls'[c].ended = calls[c].ended
      /\ calls'[c].noted = calls[c].noted /\ calls'[c].failed = calls[c].failed
    BY <1>1, <1>2 DEF CallRecord
<1>4. /\ NewRow(c) \in TrailRow /\ NewRow(c).time = Never
      /\ NewRow(c).failed <=> Late(c)'
    <2>1. calls[c].failed \in BOOLEAN
        BY <1>1 DEF CallRecord
    <2>2. NewRow(c) \in TrailRow /\ NewRow(c).time = Never /\ NewRow(c).failed = calls[c].failed
        BY <2>1, PipelineNumbers DEF NewRow, TrailRow, Never
    <2>3. calls[c].failed <=> Late(c)
        BY <1>1 DEF CallTrue, MarkTrue
    <2>4. Late(c)' <=> Late(c)
        BY <1>3 DEF Late
    <2> QED
        BY <2>2, <2>3, <2>4
<1>7. MarkTrue(c)'
    <2>1. calls[c].event \notin {"none", "due"}
        BY <1>1, <1>2 DEF CallTrue, MarkTrue
    <2> QED
        BY <1>1, <1>3, <2>1 DEF CallTrue, MarkTrue, Late, Over
<1>5. CASE trail' = trail
    <2>1. RowsTyped' /\ RowTrue(c)'
        BY <1>1, <1>3, <1>5 DEF RowsTyped, CallTrue, RowTrue, Late, Over
    <2> QED
        BY <1>2, <1>3, <1>5, <1>7, <2>1, RowsKeep
<1>6. CASE trail' = [d \in DOMAIN trail \cup {c} |-> IF d = c THEN NewRow(c) ELSE trail[d]]
    <2>1. RowsTyped' /\ RowTrue(c)'
        BY <1>1, <1>4, <1>6 DEF RowsTyped, RowTrue
    <2>2. \A d \in Call \ {c} : d \in DOMAIN trail' => d \in DOMAIN trail /\ trail'[d] = trail[d]
        BY <1>6
    <2> QED
        BY <1>2, <1>3, <1>7, <2>1, <2>2, RowsKeep
<1> QED
    BY <1>2, <1>5, <1>6

LEMMA TimeKeeps ==
    ASSUME TrailInv, NEW c \in Call, WriteTime(c)
    PROVE  TrailInv'
<1>1. /\ calls \in [Call -> CallRecord] /\ calls[c] \in CallRecord /\ RowsTyped /\ CallTrue(c)
    BY DEF TrailInv, TrailTyped
<1>2. /\ calls[c].time = "due" /\ calls' = [calls EXCEPT ![c].time = "none"]
      /\ trail' \in {trail, [d \in DOMAIN trail |->
                        [trail[d] EXCEPT !.time = IF d = c THEN calls[c].ended ELSE @]]}
      /\ UNCHANGED <<starts, security, crashes>>
    BY DEF WriteTime
<1>3. /\ calls' \in [Call -> CallRecord] /\ \A d \in Call \ {c} : calls'[d] = calls[d]
      /\ calls'[c].step = calls[c].step /\ calls'[c].slash = calls[c].slash
      /\ calls'[c].time = "none" /\ calls'[c].event = calls[c].event
      /\ calls'[c].early = calls[c].early /\ calls'[c].ended = calls[c].ended
      /\ calls'[c].noted = calls[c].noted /\ calls'[c].failed = calls[c].failed
      /\ calls'[c].insert = calls[c].insert
    BY <1>1, <1>2 DEF CallRecord
<1>6. DOMAIN trail' = DOMAIN trail => MarkTrue(c)'
    BY <1>1, <1>3 DEF CallTrue, MarkTrue, Late, Over
<1>4. CASE trail' = trail
    <2>1. RowsTyped' /\ RowTrue(c)'
        BY <1>1, <1>3, <1>4 DEF RowsTyped, CallTrue, RowTrue, Late, Over
    <2> QED
        BY <1>2, <1>3, <1>4, <1>6, <2>1, RowsKeep
<1>5. CASE trail' = [d \in DOMAIN trail |->
                        [trail[d] EXCEPT !.time = IF d = c THEN calls[c].ended ELSE @]]
    <2>1. calls[c].ended \in Never..MaxClock
        BY <1>1, PipelineNumbers DEF CallRecord, Never
    <2>2. /\ DOMAIN trail' = DOMAIN trail
          /\ \A d \in DOMAIN trail : /\ trail'[d] \in TrailRow
                                     /\ trail'[d].failed <=> trail[d].failed
                                     /\ trail'[d].time = IF d = c THEN calls[c].ended ELSE trail[d].time
        BY <1>1, <1>5, <2>1 DEF RowsTyped, TrailRow
    <2>3. RowsTyped'
        BY <1>1, <2>2 DEF RowsTyped
    <2>4. RowTrue(c)'
        BY <1>1, <1>2, <1>3, <2>2 DEF CallTrue, RowTrue, Late, ToldInOrder, Over
    <2> QED
        BY <1>2, <1>3, <1>6, <2>2, <2>3, <2>4, RowsKeep
<1> QED
    BY <1>2, <1>4, <1>5

\* A call under way has no verdict, no mark and no time.
LEMMA NothingSaidYet ==
    ASSUME TrailInv, NEW c \in Call, calls[c].step \in {"due", "runs"}
    PROVE  /\ security[c] = <<>> /\ calls[c].time = "none" /\ ~Over(c)
           /\ ~calls[c].early /\ ~calls[c].failed
           /\ c \in DOMAIN trail => ~trail[c].failed /\ trail[c].time = Never
<1>1. /\ ~Over(c) /\ calls[c].step # "done" /\ calls[c].step \notin {"denied", "raised"}
      /\ calls[c].step \notin Failures
    BY DEF Over, Ends, Failures
<1>2. CallTrue(c) /\ security[c] \in Verdicts
    BY DEF TrailInv, TrailTyped
<1>3. security[c] = <<>>
    BY <1>1, <1>2 DEF CallTrue, VerdictTrue, Verdicts
<1>4. calls[c].time = "none"
    BY <1>1, <1>2 DEF CallTrue, ToldInOrder
<1>5. c \in DOMAIN trail => ~trail[c].failed /\ trail[c].time = Never
    BY <1>1, <1>2 DEF CallTrue, RowTrue, Late
<1>6. ~calls[c].early /\ ~calls[c].failed
    BY <1>1, <1>2 DEF CallTrue, MarkTrue, Late
<1> QED
    BY <1>1, <1>3, <1>4, <1>5, <1>6

LEMMA AuditOnce ==
    ASSUME TrailInv, NEW c \in Call, calls[c].step \in {"due", "runs"},
           NEW entry \in {"SUCCESS", "FAILURE"}, Audit(c, entry)
    PROVE  /\ security' \in [Call -> Verdicts] /\ security'[c] \in {<<>>, <<entry>>}
           /\ \A d \in Call \ {c} : security'[d] = security[d]
<1>1. security \in [Call -> Verdicts] /\ security[c] = <<>>
    BY NothingSaidYet DEF TrailInv, TrailTyped
<1>2. CASE security' = security
    BY <1>1, <1>2
<1>3. CASE security' = [security EXCEPT ![c] = Append(@, entry)]
    <2> DEFINE said == <<entry>>
    <2>1. security' = [security EXCEPT ![c] = said]
        BY <1>1, <1>3, FirstVerdict
    <2>2. said \in Verdicts
        BY DEF Verdicts
    <2> HIDE DEF said
    <2>3. security' \in [Call -> Verdicts] /\ security'[c] = said
          /\ \A d \in Call \ {c} : security'[d] = security[d]
        BY <1>1, <2>1, <2>2
    <2> QED
        BY <2>3 DEF said
<1> QED
    BY <1>2, <1>3 DEF Audit

\* A call ends without success: its start is forgotten, and it is marked only
\* if it raised and had its row.
LEMMA EndKeeps ==
    ASSUME TrailInv, NEW c \in Call, calls[c].step \in {"due", "runs"}, clock \in 0..MaxClock,
           NEW end \in {"denied", "cooled", "raised"}, EndedAs(c, end), ForgetStart(c),
           crashes' = crashes,
           end = "cooled" => security' = security, end # "cooled" => Audit(c, "FAILURE"),
           trail' \in {trail, [d \in DOMAIN trail |-> [trail[d] EXCEPT !.failed = @ \/ d = c]]},
           trail' = trail \/ end = "raised"
    PROVE  TrailInv'
<1> DEFINE noted == c \in DOMAIN trail
           time == IF Started(c) THEN "due" ELSE "none"
<1>1. /\ calls \in [Call -> CallRecord] /\ calls[c] \in CallRecord /\ RowsTyped /\ CallTrue(c)
      /\ TrailTyped
    BY DEF TrailInv, TrailTyped
<1>2. /\ security[c] = <<>>
      /\ c \in DOMAIN trail => ~trail[c].failed /\ trail[c].time = Never
      /\ ~calls[c].early /\ ~calls[c].failed
    BY NothingSaidYet
<1>3. calls' = [calls EXCEPT ![c].step = end, ![c].ended = clock, ![c].time = time,
                             ![c].noted = noted]
    BY DEF EndedAs
<1>4. end \in Steps /\ end \in Ends /\ time \in {"none", "told", "due"} /\ noted \in BOOLEAN
    BY DEF Steps, Ends, Failures
<1> HIDE DEF noted, time
<1>5. /\ calls' \in [Call -> CallRecord] /\ \A d \in Call \ {c} : calls'[d] = calls[d]
      /\ calls'[c].step = end /\ calls'[c].event = calls[c].event
      /\ calls'[c].noted = noted /\ calls'[c].insert = calls[c].insert
      /\ calls'[c].early = calls[c].early /\ calls'[c].failed = calls[c].failed
    BY <1>1, <1>3, <1>4 DEF CallRecord
<1>6. DOMAIN starts' = DOMAIN starts \ {c} /\ StartsTyped'
    BY <1>1 DEF ForgetStart, TrailTyped, StartsTyped
<1>7. /\ security' \in [Call -> Verdicts] /\ security'[c] \in {<<>>, <<"FAILURE">>}
      /\ \A d \in Call \ {c} : security'[d] = security[d]
      /\ end = "cooled" => security'[c] = <<>>
    <2>1. CASE end = "cooled"
        BY <1>1, <1>2, <2>1 DEF TrailTyped
    <2>2. CASE end # "cooled"
        <3>1. "FAILURE" \in {"SUCCESS", "FAILURE"}
            OBVIOUS
        <3> QED
            BY <2>2, <3>1, AuditOnce
    <2> QED
        BY <2>1, <2>2
<1>8. /\ RowsTyped'
      /\ \A d \in DOMAIN trail' : /\ d \in DOMAIN trail /\ trail'[d].time = trail[d].time
                                  /\ d # c => (trail'[d].failed <=> trail[d].failed)
    <2>1. CASE trail' = trail
        BY <1>1, <2>1 DEF RowsTyped
    <2>2. CASE trail' = [d \in DOMAIN trail |-> [trail[d] EXCEPT !.failed = @ \/ d = c]]
        <3>1. DOMAIN trail' = DOMAIN trail
            BY <2>2
        <3>2. ASSUME NEW d \in DOMAIN trail
              PROVE  /\ trail'[d] \in TrailRow /\ trail'[d].time = trail[d].time
                     /\ d # c => (trail'[d].failed <=> trail[d].failed)
            <4> DEFINE mark == trail[d].failed \/ d = c
            <4>1. mark \in BOOLEAN /\ (d # c => (mark <=> trail[d].failed))
                OBVIOUS
            <4>2. trail'[d] = [trail[d] EXCEPT !.failed = mark] /\ trail[d] \in TrailRow
                BY <1>1, <2>2 DEF RowsTyped
            <4> HIDE DEF mark
            <4>3. trail'[d] \in TrailRow /\ trail'[d].time = trail[d].time /\ trail'[d].failed = mark
                BY <4>1, <4>2 DEF TrailRow
            <4> QED
                BY <4>1, <4>3
        <3> QED
            BY <1>1, <3>1, <3>2 DEF RowsTyped
    <2> QED
        BY <2>1, <2>2
<1>9. TrailTyped'
    BY <1>1, <1>5, <1>6, <1>7, <1>8 DEF TrailTyped
<1>10. OthersStay(c)
    BY <1>5, <1>6, <1>7, <1>8 DEF OthersStay
<1>11. RowTrue(c)'
    <2>1. c \in DOMAIN trail' => calls'[c].noted
        BY <1>5, <1>8 DEF noted
    <2>2. CASE trail' = trail
        BY <1>2, <1>5, <2>2 DEF RowTrue, Late
    <2>3. CASE end = "raised"
        BY <1>2, <1>5, <1>8, <2>1, <2>3 DEF RowTrue, Late
    <2> QED
        BY <2>2, <2>3
<1>12. StartTrue(c)' /\ ToldInOrder(c)'
    <2>1. c \notin DOMAIN starts' /\ Over(c)' /\ calls'[c].step # "none"
        BY <1>4, <1>5, <1>6 DEF Over, Ends, Failures
    <2> QED
        BY <2>1 DEF StartTrue, ToldInOrder
<1>13. VerdictTrue(c)'
    <2>1. security'[c] # <<"SUCCESS">>
        BY <1>7, VerdictsDiffer
    <2>2. security'[c] = <<"FAILURE">> => end # "cooled"
        BY <1>7, VerdictsDiffer
    <2> QED
        BY <1>5, <2>1, <2>2 DEF VerdictTrue
<1>15. MarkTrue(c)'
    <2>1. calls'[c].step # "none" /\ (c \in DOMAIN trail' => c \in DOMAIN trail)
        BY <1>4, <1>5, <1>8 DEF Ends, Failures
    <2> QED
        BY <1>1, <1>2, <1>5, <2>1 DEF CallTrue, MarkTrue, Late
<1>14. CallTrue(c)'
    BY <1>11, <1>12, <1>13, <1>15 DEF CallTrue
<1> QED
    BY <1>9, <1>10, <1>14, OneCallKeeps

LEMMA DenyKeeps ==
    ASSUME TrailInv, NEW c \in Call, clock \in 0..MaxClock, Deny(c)
    PROVE  TrailInv'
<1>1. /\ calls[c].step = "due" /\ EndedAs(c, "denied") /\ ForgetStart(c) /\ Audit(c, "FAILURE")
      /\ UNCHANGED <<trail, crashes>>
    BY DEF Deny
<1> QED
    BY <1>1, EndKeeps

LEMMA TurnAwayKeeps ==
    ASSUME TrailInv, NEW c \in Call, clock \in 0..MaxClock, TurnAway(c)
    PROVE  TrailInv'
<1>1. /\ calls[c].step = "due" /\ EndedAs(c, "cooled") /\ ForgetStart(c)
      /\ UNCHANGED <<trail, security, crashes>>
    BY DEF TurnAway
<1> QED
    BY <1>1, EndKeeps

LEMMA RaiseKeeps ==
    ASSUME TrailInv, NEW c \in Call, clock \in 0..MaxClock, Raise(c)
    PROVE  TrailInv'
<1>1. /\ calls[c].step = "runs" /\ EndedAs(c, "raised") /\ ForgetStart(c) /\ Audit(c, "FAILURE")
      /\ trail' \in {trail, [d \in DOMAIN trail |-> [trail[d] EXCEPT !.failed = @ \/ d = c]]}
      /\ crashes' = crashes
    BY DEF Raise
<1> QED
    BY <1>1, EndKeeps

\* A call gets through, succeeds, or its success is told: its row stays.
LEMMA GoesOn ==
    ASSUME TrailInv, NEW c \in Call, calls' \in [Call -> CallRecord],
           \A d \in Call \ {c} : calls'[d] = calls[d],
           calls[c].step \in {"due", "runs"} \/ (calls'[c].step = calls[c].step
                                                /\ calls'[c].ended = calls[c].ended),
           calls'[c].noted = calls[c].noted, calls'[c].step # "none",
           /\ calls'[c].early = calls[c].early /\ calls'[c].failed = calls[c].failed
           /\ calls'[c].event = calls[c].event /\ calls'[c].insert = calls[c].insert,
           trail' = trail, crashes' = crashes,
           StartsTyped', \A d \in DOMAIN starts' : d \in DOMAIN starts,
           security' \in [Call -> Verdicts], \A d \in Call \ {c} : security'[d] = security[d],
           StartTrue(c)', VerdictTrue(c)', calls'[c].time # "none" => Over(c)'
    PROVE  TrailInv'
<1>1. TrailTyped /\ CallTrue(c)
    BY DEF TrailInv
<1>2. TrailTyped'
    BY <1>1 DEF TrailTyped, RowsTyped
<1>3. OthersStay(c)
    BY DEF OthersStay
<1>4. RowTrue(c)'
    <2>1. CASE calls[c].step \in {"due", "runs"}
        BY <2>1, NothingSaidYet DEF RowTrue, Late
    <2>2. CASE calls'[c].step = calls[c].step /\ calls'[c].ended = calls[c].ended
        BY <1>1, <2>2 DEF CallTrue, RowTrue, Late, Over
    <2> QED
        BY <2>1, <2>2
<1>5. ToldInOrder(c)'
    BY DEF ToldInOrder
<1>7. MarkTrue(c)'
    <2>1. CASE calls[c].step \in {"due", "runs"}
        BY <1>1, <2>1, NothingSaidYet DEF CallTrue, MarkTrue, Late
    <2>2. CASE calls'[c].step = calls[c].step /\ calls'[c].ended = calls[c].ended
        BY <1>1, <2>2 DEF CallTrue, MarkTrue, Late, Over
    <2> QED
        BY <2>1, <2>2
<1>6. CallTrue(c)'
    BY <1>4, <1>5, <1>7 DEF CallTrue
<1> QED
    BY <1>2, <1>3, <1>6, OneCallKeeps

LEMMA EnterKeeps ==
    ASSUME TrailInv, NEW c \in Call, Enter(c)
    PROVE  TrailInv'
<1>1. /\ calls[c].step = "due" /\ calls' = [calls EXCEPT ![c].step = "runs"]
      /\ UNCHANGED <<starts, trail, security, crashes>>
    BY DEF Enter
<1>2. /\ calls \in [Call -> CallRecord] /\ calls[c] \in CallRecord /\ TrailTyped /\ CallTrue(c)
      /\ security[c] = <<>> /\ calls[c].time = "none"
    BY <1>1, NothingSaidYet DEF TrailInv, TrailTyped
<1>3. /\ calls' \in [Call -> CallRecord] /\ \A d \in Call \ {c} : calls'[d] = calls[d]
      /\ calls'[c].step = "runs" /\ calls'[c].slash = calls[c].slash
      /\ calls'[c].time = "none" /\ calls'[c].noted = calls[c].noted
      /\ calls'[c].early = calls[c].early /\ calls'[c].failed = calls[c].failed
      /\ calls'[c].event = calls[c].event /\ calls'[c].insert = calls[c].insert
    BY <1>1, <1>2 DEF CallRecord, Steps
<1>4. StartTrue(c)'
    BY <1>1, <1>2, <1>3 DEF CallTrue, StartTrue, Over, Ends, Failures
<1>5. VerdictTrue(c)'
    BY <1>1, <1>2, VerdictsDiffer DEF VerdictTrue
<1>6. StartsTyped' /\ security' \in [Call -> Verdicts]
    BY <1>1, <1>2 DEF TrailTyped, StartsTyped
<1> QED
    BY <1>1, <1>3, <1>4, <1>5, <1>6, GoesOn

LEMMA CompleteKeeps ==
    ASSUME TrailInv, NEW c \in Call, clock \in 0..MaxClock, Complete(c)
    PROVE  TrailInv'
<1>1. /\ calls[c].step = "runs" /\ Audit(c, "SUCCESS")
      /\ calls' = [calls EXCEPT ![c].step = "done", ![c].ended = clock,
                                ![c].time = IF calls[c].slash THEN "told" ELSE "none"]
      /\ UNCHANGED <<starts, trail, crashes>>
    BY DEF Complete
<1>2. /\ calls \in [Call -> CallRecord] /\ calls[c] \in CallRecord /\ TrailTyped /\ CallTrue(c)
    BY DEF TrailInv, TrailTyped
<1>3. /\ calls' \in [Call -> CallRecord] /\ \A d \in Call \ {c} : calls'[d] = calls[d]
      /\ calls'[c].step = "done" /\ calls'[c].slash = calls[c].slash
      /\ calls'[c].noted = calls[c].noted
      /\ calls'[c].early = calls[c].early /\ calls'[c].failed = calls[c].failed
      /\ calls'[c].event = calls[c].event /\ calls'[c].insert = calls[c].insert
      /\ calls'[c].time = IF calls[c].slash THEN "told" ELSE "none"
    <2> DEFINE time == IF calls[c].slash THEN "told" ELSE "none"
    <2>1. calls' = [calls EXCEPT ![c].step = "done", ![c].ended = clock, ![c].time = time]
          /\ time \in {"none", "told", "due"}
        BY <1>1
    <2> HIDE DEF time
    <2>2. /\ calls' \in [Call -> CallRecord] /\ \A d \in Call \ {c} : calls'[d] = calls[d]
          /\ calls'[c].step = "done" /\ calls'[c].slash = calls[c].slash
          /\ calls'[c].noted = calls[c].noted /\ calls'[c].time = time
          /\ calls'[c].early = calls[c].early /\ calls'[c].failed = calls[c].failed
          /\ calls'[c].event = calls[c].event /\ calls'[c].insert = calls[c].insert
        BY <1>2, <2>1 DEF CallRecord, Steps, Ends
    <2> QED
        BY <2>2 DEF time
<1>4. StartTrue(c)' /\ Over(c)'
    BY <1>1, <1>2, <1>3 DEF CallTrue, StartTrue, Over, Ends
<1>5. /\ security' \in [Call -> Verdicts] /\ security'[c] \in {<<>>, <<"SUCCESS">>}
      /\ \A d \in Call \ {c} : security'[d] = security[d]
    <2>1. "SUCCESS" \in {"SUCCESS", "FAILURE"}
        OBVIOUS
    <2> QED
        BY <1>1, <2>1, AuditOnce
<1>6. VerdictTrue(c)'
    BY <1>3, <1>5, VerdictsDiffer DEF VerdictTrue
<1>7. StartsTyped'
    BY <1>1, <1>2 DEF TrailTyped, StartsTyped
<1> QED
    BY <1>1, <1>3, <1>4, <1>5, <1>6, <1>7, GoesOn

LEMMA CompletionKeeps ==
    ASSUME TrailInv, NEW c \in Call, OnCompletion(c)
    PROVE  TrailInv'
<1> DEFINE time == IF Started(c) THEN "due" ELSE "none"
<1>1. /\ calls[c].time = "told" /\ calls' = [calls EXCEPT ![c].time = time]
      /\ ForgetStart(c) /\ UNCHANGED <<trail, security, crashes>>
      /\ time \in {"none", "told", "due"}
    BY DEF OnCompletion
<1> HIDE DEF time
<1>2. /\ calls \in [Call -> CallRecord] /\ calls[c] \in CallRecord /\ TrailTyped /\ CallTrue(c)
    BY DEF TrailInv, TrailTyped
<1>3. /\ calls' \in [Call -> CallRecord] /\ \A d \in Call \ {c} : calls'[d] = calls[d]
      /\ calls'[c].step = calls[c].step /\ calls'[c].noted = calls[c].noted
      /\ calls'[c].ended = calls[c].ended
      /\ calls'[c].early = calls[c].early /\ calls'[c].failed = calls[c].failed
      /\ calls'[c].event = calls[c].event /\ calls'[c].insert = calls[c].insert
    BY <1>1, <1>2 DEF CallRecord
<1>4. Over(c) /\ calls[c].step # "none"
    BY <1>1, <1>2 DEF CallTrue, ToldInOrder, Over, Ends, Failures
<1>5. DOMAIN starts' = DOMAIN starts \ {c} /\ StartsTyped'
    BY <1>1, <1>2 DEF ForgetStart, TrailTyped, StartsTyped
<1>6. StartTrue(c)' /\ Over(c)'
    BY <1>3, <1>4, <1>5 DEF StartTrue, Over
<1>7. VerdictTrue(c)'
    BY <1>1, <1>2, <1>3 DEF CallTrue, VerdictTrue
<1>8. security' \in [Call -> Verdicts]
    BY <1>1, <1>2 DEF TrailTyped
<1> QED
    BY <1>1, <1>3, <1>4, <1>5, <1>6, <1>7, <1>8, GoesOn

LEMMA CrashKeeps ==
    ASSUME TrailInv, Crash
    PROVE  TrailInv'
<1>1. /\ calls' = [c \in Call |->
           IF calls[c].step = "none" THEN NoCall
           ELSE [calls[c] EXCEPT !.event = "gone", !.insert = "over", !.time = "none",
                    !.step = IF Over(c) THEN @ ELSE "lost"]]
      /\ UNCHANGED <<trail, security>>
    BY DEF Crash
<1>2. TrailTyped /\ calls \in [Call -> CallRecord]
    BY DEF TrailInv, TrailTyped
<1>3. DOMAIN starts' = {}
    <2>1. starts' = <<>>
        BY DEF Crash
    <2> QED
        BY <2>1
<1>4. ASSUME NEW c \in Call
      PROVE  calls'[c] \in CallRecord /\ CallTrue(c)'
    <2>1. CallTrue(c) /\ calls[c] \in CallRecord
        BY <1>2 DEF TrailInv
    <2>2. CASE calls[c].step = "none"
        <3>1. calls'[c] = NoCall
            BY <1>1, <2>2
        <3>2. c \notin DOMAIN trail'
            BY <1>1, <2>1, <2>2 DEF CallTrue, MarkTrue
        <3>4. RowTrue(c)' /\ StartTrue(c)' /\ ToldInOrder(c)'
            BY <1>3, <3>1, <3>2, NoCallTyped DEF RowTrue, StartTrue, ToldInOrder
        <3>5. MarkTrue(c)'
            BY <3>1, <3>2, NoCallTyped DEF MarkTrue, Late
        <3>3. VerdictTrue(c)'
            BY <1>1, <2>1, <2>2 DEF CallTrue, VerdictTrue
        <3> QED
            BY <3>1, <3>3, <3>4, <3>5, NoCallTyped DEF CallTrue
    <2>3. CASE calls[c].step # "none"
        <3> DEFINE end == IF Over(c) THEN calls[c].step ELSE "lost"
        <3>1. calls'[c] = [calls[c] EXCEPT !.event = "gone", !.insert = "over", !.time = "none",
                                           !.step = end]
            BY <1>1, <2>3
        <3>2. end \in Steps /\ (Over(c) => end = calls[c].step) /\ (~Over(c) => end = "lost")
            BY <2>1 DEF CallRecord, Steps
        <3> HIDE DEF end
        <3>3. /\ calls'[c] \in CallRecord /\ calls'[c].step = end /\ calls'[c].time = "none"
              /\ calls'[c].event = "gone" /\ calls'[c].noted = calls[c].noted
              /\ calls'[c].ended = calls[c].ended
              /\ calls'[c].early = calls[c].early /\ calls'[c].failed = calls[c].failed
            BY <2>1, <3>1, <3>2 DEF CallRecord
        <3>4. StartTrue(c)' /\ ToldInOrder(c)'
            BY <1>3, <3>3 DEF StartTrue, ToldInOrder
        <3>5. CASE Over(c)
            <4>1. calls'[c].step = calls[c].step
                BY <3>2, <3>3, <3>5
            <4>2. RowTrue(c)' /\ MarkTrue(c)'
                BY <1>1, <2>1, <2>3, <3>3, <4>1 DEF CallTrue, RowTrue, MarkTrue, Late, Over
            <4>3. VerdictTrue(c)'
                BY <1>1, <2>1, <4>1 DEF CallTrue, VerdictTrue
            <4> QED
                BY <3>3, <3>4, <4>2, <4>3 DEF CallTrue
        <3>6. CASE ~Over(c)
            <4>1. /\ calls[c].step # "done" /\ calls[c].step \notin {"denied", "raised"}
                  /\ calls[c].step \notin Failures
                BY <3>6 DEF Over, Ends, Failures
            <4>4. ~calls[c].early /\ ~calls[c].failed /\ calls'[c].step = "lost"
                BY <2>1, <3>2, <3>3, <3>6 DEF CallTrue, MarkTrue, Late
            <4>2. RowTrue(c)' /\ MarkTrue(c)'
                BY <1>1, <2>1, <3>3, <3>6, <4>1, <4>4 DEF CallTrue, RowTrue, MarkTrue, Late
            <4>3. VerdictTrue(c)'
                BY <1>1, <2>1, <4>1 DEF CallTrue, VerdictTrue
            <4> QED
                BY <3>3, <3>4, <4>2, <4>3 DEF CallTrue
        <3> QED
            BY <3>5, <3>6
    <2> QED
        BY <2>2, <2>3
<1>5. calls' \in [Call -> CallRecord]
    BY <1>1, <1>4
<1>6. crashes' \in 0..MaxCrashes
    <2>1. crashes < MaxCrashes /\ crashes' = crashes + 1
        BY DEF Crash
    <2>2. crashes \in 0..MaxCrashes /\ MaxCrashes \in Nat
        BY <1>2, PipelineNumbers DEF TrailTyped
    <2> QED
        BY <2>1, <2>2
<1>7. TrailTyped'
    BY <1>1, <1>2, <1>3, <1>5, <1>6 DEF TrailTyped, StartsTyped, RowsTyped
<1> QED
    BY <1>4, <1>7 DEF TrailInv

-----------------------------------------------------------------------------
(***************************************************************************)
(* The pipeline as a whole, and the alerts beside it.                      *)
(***************************************************************************)
PipelineInv == RoleInv /\ CooldownInv /\ TrailInv

LEMMA RoleWaits ==
    ASSUME RoleInv, UNCHANGED roleVars
    PROVE  RoleInv'
BY DEF RoleInv, RoleTypeOK, MomentsTrue, EntryTrue, roleVars

LEMMA TrailWaits ==
    ASSUME TrailInv, UNCHANGED <<calls, starts, trail, security, crashes>>
    PROVE  TrailInv'
<1>1. TrailTyped'
    BY DEF TrailInv, TrailTyped, StartsTyped, RowsTyped
<1>2. ASSUME NEW c \in Call
      PROVE  CallTrue(c)'
    <2>1. CallTrue(c)
        BY DEF TrailInv
    <2>2. RowTrue(c)' /\ MarkTrue(c)' /\ StartTrue(c)' /\ ToldInOrder(c)'
        BY <2>1 DEF CallTrue, RowTrue, MarkTrue, Late, StartTrue, ToldInOrder, Over
    <2>3. VerdictTrue(c)'
        BY <2>1 DEF CallTrue, VerdictTrue
    <2> QED
        BY <2>2, <2>3 DEF CallTrue
<1> QED
    BY <1>1, <1>2 DEF TrailInv

LEMMA PipelineInitially == PipelineInit => PipelineInv
<1> SUFFICES ASSUME PipelineInit
             PROVE  PipelineInv
    OBVIOUS
<1>1. RoleInv
    BY RoleInitially DEF PipelineInit
<1>2. CooldownInv
    BY CooldownInitially DEF PipelineInit
<1>3. TrailInv
    BY TrailInitially DEF PipelineInit
<1> QED
    BY <1>1, <1>2, <1>3 DEF PipelineInv

\* The clock and what it is the measure of.
LEMMA ClockTyped == RoleInv => clock \in 0..MaxClock /\ clock >= clock
<1> SUFFICES ASSUME RoleInv
             PROVE  clock \in 0..MaxClock /\ clock >= clock
    OBVIOUS
<1>1. clock \in 0..MaxClock /\ MaxClock \in Nat
    BY RoleTypes
<1> QED
    BY <1>1

LEMMA CallTypes ==
    ASSUME TrailInv, NEW c \in Call
    PROVE  /\ calls[c].who \in User /\ calls[c].who \in Caller /\ calls[c].what \in Command
           /\ DOMAIN calls = Call
BY PipelineNumbers DEF TrailInv, TrailTyped, CallRecord

\* Roles and cooldowns wait while a row or a call goes on.
LEMMA OnlyTheTrail ==
    ASSUME PipelineInv, UNCHANGED <<roleVars, cooldownVars, lastRun, lastDenied>>, TrailInv'
    PROVE  PipelineInv'
<1>1. RoleInv'
    BY RoleWaits DEF PipelineInv
<1>2. clock' = clock /\ UNCHANGED cooldownVars
    BY DEF roleVars
<1>3. CooldownInv'
    BY <1>2, ClockTyped, CooldownWaits DEF PipelineInv
<1> QED
    BY <1>1, <1>3 DEF PipelineInv

LEMMA ChecksKeep ==
    ASSUME PipelineInv, NEW c \in Call, Checks(c)
    PROVE  PipelineInv'
<1>1. RoleInv /\ CooldownInv /\ TrailInv /\ clock \in 0..MaxClock /\ clock >= clock
    BY ClockTyped DEF PipelineInv
<1> DEFINE u == calls[c].who
           cmd == calls[c].what
<1>2. u \in User /\ u \in Caller /\ cmd \in Command
    BY <1>1, CallTypes
<1>3. UNCHANGED <<badges, grants, clock, changes, entitledAt, barredAt>>
      /\ \/ \E answered \in BOOLEAN : Resolve(u, answered)
         \/ roleCache' = roleCache
    BY DEF Checks, Deny, TurnAway, Enter
<1>4. RoleInv'
    BY <1>1, <1>2, <1>3, ResolveKeeps, RoleWaits DEF roleVars
<1>5. CASE Deny(c)
    <2>1. /\ lastDenied' = [lastDenied EXCEPT ![<<u, cmd>>] = clock]
          /\ UNCHANGED <<stats, report, lastRun, clock>>
          /\ IF CooldownFirst(cmd) THEN TakeToken(u, cmd, clock) ELSE UNCHANGED windows
        BY <1>5 DEF Deny
    <2>2. CooldownInv'
        BY <1>1, <1>2, <2>1, CallCounts, DenialsAreFree
    <2>3. TrailInv'
        BY <1>1, <1>5, DenyKeeps
    <2> QED
        BY <1>4, <2>2, <2>3 DEF PipelineInv
<1>6. CASE TurnAway(c)
    <2>1. /\ ~HasToken(u, cmd, clock) /\ RecordHit(u, cmd, clock)
          /\ UNCHANGED <<windows, report, lastRun, lastDenied, clock>>
        BY <1>6 DEF TurnAway
    <2>2. CooldownInv'
        BY <1>1, <1>2, <2>1, TurnAwayCounts
    <2>3. TrailInv'
        BY <1>1, <1>6, TurnAwayKeeps
    <2> QED
        BY <1>4, <2>2, <2>3 DEF PipelineInv
<1>7. CASE Enter(c)
    <2>1. /\ TakeToken(u, cmd, clock) /\ lastRun' = [lastRun EXCEPT ![<<u, cmd>>] = clock]
          /\ UNCHANGED <<stats, report, clock, lastDenied>>
        BY <1>7 DEF Enter
    <2>2. CooldownInv'
        BY <1>1, <1>2, <2>1, CallCounts
    <2>3. TrailInv'
        BY <1>1, <1>7, EnterKeeps
    <2> QED
        BY <1>4, <2>2, <2>3 DEF PipelineInv
<1> QED
    BY <1>5, <1>6, <1>7 DEF Checks

LEMMA TrailingKeeps ==
    ASSUME PipelineInv, NEW c \in Call, Trailing(c) \/ Ending(c)
    PROVE  PipelineInv'
<1>1. TrailInv /\ clock \in 0..MaxClock
    BY ClockTyped DEF PipelineInv
<1>2. UNCHANGED <<roleVars, cooldownVars, lastRun, lastDenied>>
    BY DEF Trailing, Ending, OnInteraction, OnCommandFails, Insert, OnCompletion, WriteTime,
           Complete, Raise
<1>3. TrailInv'
    BY <1>1, InteractionKeeps, CommandFailsKeeps, InsertKeeps, CompletionKeeps, TimeKeeps,
       CompleteKeeps, RaiseKeeps DEF Trailing, Ending
<1> QED
    BY <1>2, <1>3, OnlyTheTrail

LEMMA PipelineKept ==
    ASSUME PipelineInv, [PipelineNext]_pipelineVars
    PROVE  PipelineInv'
<1>1. RoleInv /\ CooldownInv /\ TrailInv /\ clock \in 0..MaxClock /\ clock >= clock
    BY ClockTyped DEF PipelineInv
<1>2. CASE UNCHANGED pipelineVars
    <2>1. UNCHANGED <<roleVars, cooldownVars, lastRun, lastDenied>>
          /\ UNCHANGED <<calls, starts, trail, security, crashes>>
        BY <1>2 DEF pipelineVars, callVars
    <2> QED
        BY <1>1, <2>1, TrailWaits, OnlyTheTrail
<1>3. CASE Arriving
    <2>1. PICK c \in Call, u \in User, cmd \in Command, slash \in BOOLEAN : Arrive(c, u, cmd, slash)
        BY <1>3 DEF Arriving
    <2>2. UNCHANGED <<roleVars, cooldownVars, lastRun, lastDenied>>
        BY <2>1 DEF Arrive
    <2>3. TrailInv'
        BY <1>1, <2>1, ArriveKeeps
    <2> QED
        BY <2>2, <2>3, OnlyTheTrail
<1>4. CASE Outside
    <2>1. UNCHANGED <<cooldownVars, callVars>>
        BY <1>4 DEF Outside
    <2>2. UNCHANGED <<calls, starts, trail, security, crashes>> /\ UNCHANGED <<lastRun, lastDenied>>
        BY <2>1 DEF callVars
    <2>3. TrailInv'
        BY <1>1, <2>2, TrailWaits
    <2>4. RoleInv'
        BY <1>1, <1>4, ChangeKeeps, TickKeeps DEF Outside
    <2>5. clock' = clock \/ clock' = clock + 1
        BY <1>4 DEF Outside, ChangeRoles, RoleTick
    <2>6. clock' >= clock
        BY <1>1, <2>5
    <2>7. clock' \in 0..MaxClock
        BY <2>4 DEF RoleInv, RoleTypeOK
    <2>8. CooldownInv'
        BY <1>1, <2>1, <2>2, <2>6, <2>7, CooldownWaits
    <2> QED
        BY <2>3, <2>4, <2>8 DEF PipelineInv
<1>5. CASE Crash
    <2>1. /\ ForgetRoles /\ ForgetTokens /\ report' = NoReport
          /\ lastRun' = [p \in Caller \X Command |-> Never] /\ lastDenied' = lastRun'
          /\ UNCHANGED <<badges, grants, clock, changes, entitledAt, barredAt, stats>>
        BY <1>5 DEF Crash
    <2>2. RoleInv'
        BY <1>1, <2>1, ForgetKeeps
    <2>3. CooldownInv'
        BY <1>1, <2>1, RestartForgets
    <2>4. TrailInv'
        BY <1>1, <1>5, CrashKeeps
    <2> QED
        BY <2>2, <2>3, <2>4 DEF PipelineInv
<1>6. ASSUME NEW c \in Call, Checks(c) \/ Trailing(c) \/ Ending(c)
      PROVE  PipelineInv'
    BY <1>6, ChecksKeep, TrailingKeeps
<1>7. CASE Reporting /\ UNCHANGED <<roleVars, callVars>>
    <2>1. UNCHANGED <<calls, starts, trail, security, crashes>> /\ UNCHANGED <<lastRun, lastDenied>>
          /\ clock' = clock /\ UNCHANGED roleVars
        BY <1>7 DEF callVars, roleVars
    <2>2. CooldownInv'
        BY <1>1, <1>7, <2>1, ReportingKeeps
    <2> QED
        BY <1>1, <2>1, <2>2, RoleWaits, TrailWaits DEF PipelineInv
<1> QED
    BY <1>2, <1>3, <1>4, <1>5, <1>6, <1>7 DEF PipelineNext

-----------------------------------------------------------------------------
\* A call leaves "due" for a run, a refusal or a cooldown by its own check.
LEMMA StepsOfCalls ==
    ASSUME TrailInv, [PipelineNext]_pipelineVars, NEW c \in Call, calls[c].step = "due"
    PROVE  /\ calls'[c].step = "runs" => Enter(c)
           /\ calls'[c].step = "denied" => Deny(c)
           /\ calls'[c].step = "cooled" => TurnAway(c)
<1> DEFINE stays == calls'[c].step \in {"due", "lost"}
<1>1. calls \in [Call -> CallRecord] /\ calls[c] \in CallRecord
    BY DEF TrailInv, TrailTyped
<1>2. UNCHANGED calls => stays
    OBVIOUS
<1>3. ASSUME NEW d \in Call, NEW u \in User, NEW cmd \in Command, NEW slash \in BOOLEAN,
             Arrive(d, u, cmd, slash)
      PROVE  stays
    <2>1. d # c
        BY <1>3 DEF Arrive
    <2>2. calls'[c] = calls[c]
        BY <1>1, <1>3, <2>1 DEF Arrive
    <2> QED
        BY <2>2
<1>4. ASSUME Crash
      PROVE  stays
    <2>1. ~Over(c)
        BY DEF Over, Ends, Failures
    <2>2. calls' = [d \in Call |->
             IF calls[d].step = "none" THEN NoCall
             ELSE [calls[d] EXCEPT !.event = "gone", !.insert = "over", !.time = "none",
                      !.step = IF Over(d) THEN @ ELSE "lost"]]
        BY <1>4 DEF Crash
    <2>3. calls'[c] = [calls[c] EXCEPT !.event = "gone", !.insert = "over", !.time = "none",
                                       !.step = "lost"]
        BY <2>1, <2>2
    <2>4. calls'[c].step = "lost"
        BY <1>1, <2>3 DEF CallRecord
    <2> QED
        BY <2>4
<1>5. ASSUME NEW d \in Call, Trailing(d) \/ Ending(d)
      PROVE  stays
    <2>1. CASE d = c
        <3>1. ~Ending(c)
            BY DEF Ending, Complete, Raise
        <3>2. calls'[c].step = calls[c].step
            BY <1>1, <1>5, <2>1, <3>1
            DEF Trailing, OnInteraction, OnCommandFails, Insert, OnCompletion, WriteTime, CallRecord
        <3> QED
            BY <3>2
    <2>2. CASE d # c
        <3>1. calls'[c] = calls[c]
            BY <1>1, <1>5, <2>2
            DEF Trailing, OnInteraction, OnCommandFails, Insert, OnCompletion, WriteTime,
                Ending, Complete, Raise, EndedAs
        <3> QED
            BY <3>1
    <2> QED
        BY <2>1, <2>2
<1>6. ASSUME NEW d \in Call, Checks(d), d # c
      PROVE  stays
    <2>1. calls'[c] = calls[c]
        BY <1>1, <1>6 DEF Checks, Deny, TurnAway, Enter, EndedAs
    <2> QED
        BY <2>1
<1>7. /\ Deny(c) => calls'[c].step = "denied"
      /\ TurnAway(c) => calls'[c].step = "cooled"
      /\ Enter(c) => calls'[c].step = "runs"
    BY <1>1 DEF Deny, TurnAway, Enter, EndedAs, CallRecord
<1>8. stays \/ Checks(c)
    <2>1. CASE UNCHANGED pipelineVars
        BY <1>2, <2>1 DEF pipelineVars, callVars
    <2>2. CASE Arriving
        BY <1>3, <2>2 DEF Arriving
    <2>3. CASE Outside
        BY <1>2, <2>3 DEF Outside, callVars
    <2>4. CASE \E d \in Call : Checks(d) \/ Trailing(d) \/ Ending(d)
        BY <1>5, <1>6, <2>4
    <2>5. CASE Reporting /\ UNCHANGED <<roleVars, callVars>>
        BY <1>2, <2>5 DEF callVars
    <2>6. CASE Crash
        BY <1>4, <2>6
    <2> HIDE DEF stays
    <2> QED
        BY <2>1, <2>2, <2>3, <2>4, <2>5, <2>6, Zenon DEF PipelineNext
<1> QED
    BY <1>7, <1>8 DEF Checks

\* What a step may do to the calls that wait for their checks.
LEMMA GrantsStep ==
    ASSUME PipelineInv, [PipelineNext]_pipelineVars, NEW c \in Call
    PROVE  LET u == calls[c].who
           IN  /\ Enters(c) => clock - entitledAt[u] < RoleTtl
               /\ EndsAs(c, "denied") => roleCache'[u].blind \/ clock - barredAt[u] < RoleTtl
<1> DEFINE u == calls[c].who
<1>1. RoleInv /\ TrailInv /\ u \in User
    BY CallTypes DEF PipelineInv
<1>2. ASSUME Enters(c)
      PROVE  clock - entitledAt[u] < RoleTtl
    <2>1. Enter(c)
        BY <1>1, <1>2, StepsOfCalls DEF Enters
    <2>2. PICK answered \in BOOLEAN : Allowed(u, answered)
        BY <2>1 DEF Enter
    <2> QED
        BY <1>1, <2>2, ChecksFollowRoles
<1>3. ASSUME EndsAs(c, "denied")
      PROVE  roleCache'[u].blind \/ clock - barredAt[u] < RoleTtl
    <2>1. Deny(c)
        BY <1>1, <1>3, StepsOfCalls DEF EndsAs
    <2>2. PICK answered \in BOOLEAN : ~Allowed(u, answered) /\ Resolve(u, answered)
        BY <2>1 DEF Deny
    <2>3. UNCHANGED <<badges, grants, clock, changes, entitledAt, barredAt>>
        BY <2>1 DEF Deny
    <2>4. roleCache'[u] = Resolved(u, answered)
        BY <1>1, <2>2, <2>3, ResolveKeeps
    <2> QED
        BY <1>1, <2>2, <2>4, ChecksFollowRoles
<1> QED
    BY <1>2, <1>3

LEMMA CooldownStep ==
    ASSUME PipelineInv, [PipelineNext]_pipelineVars, NEW c \in Call
    PROVE  (Enters(c) => ~Counted(c)) /\ (EndsAs(c, "cooled") => Counted(c))
<1> DEFINE u == calls[c].who
           cmd == calls[c].what
<1>1. CooldownInv /\ TrailInv /\ u \in Caller /\ cmd \in Command
    BY CallTypes DEF PipelineInv
<1>2. Enters(c) => HasToken(u, cmd, clock)
    BY <1>1, StepsOfCalls DEF Enters, Enter
<1>3. EndsAs(c, "cooled") => ~HasToken(u, cmd, clock)
    BY <1>1, StepsOfCalls DEF EndsAs, TurnAway
<1>4. HasToken(u, cmd, clock) <=> ~Counted(c)
    BY <1>1, TokensTell DEF Counted
<1> QED
    BY <1>2, <1>3, <1>4

LEMMA PipelineTypes == PipelineInv => PipelineTypeOK
<1> SUFFICES ASSUME PipelineInv
             PROVE  PipelineTypeOK
    OBVIOUS
<1>1. RoleTypeOK /\ CooldownTypeOK
    BY CooldownTypes DEF PipelineInv, RoleInv
<1>2. {lastRun, lastDenied} \subseteq [Caller \X Command -> Never..MaxClock]
    BY DEF PipelineInv, CooldownInv, TokenInv
<1>3. TrailTyped
    BY DEF PipelineInv, TrailInv
<1> QED
    BY <1>1, <1>2, <1>3
    DEF PipelineTypeOK, TrailTyped, StartsTyped, RowsTyped, CallRecord, Steps, TrailRow, Verdicts

LEMMA TrailsTold == PipelineInv => TrailsAreTrue
<1> SUFFICES ASSUME PipelineInv
             PROVE  TrailTells /\ ClearedIsShown
    BY DEF TrailsAreTrue
<1>1. DOMAIN trail \subseteq Call /\ DOMAIN starts \subseteq Call
    BY DEF PipelineInv, TrailInv, TrailTyped, RowsTyped, StartsTyped
<1>2. \A c \in Call : RowTrue(c) /\ VerdictTrue(c) /\ StartTrue(c)
    BY DEF PipelineInv, TrailInv, CallTrue
<1>3. TrailTells
    BY <1>1, <1>2 DEF TrailTells, RowTrue, Late, VerdictTrue, StartTrue
<1> QED
    BY <1>3 DEF PipelineInv, CooldownInv

-----------------------------------------------------------------------------
(***************************************************************************)
(* What holds of the pipeline and the alerts.                              *)
(***************************************************************************)

\* The pipeline with all of it at once, whoever calls what in what order.
Pipeline == PipelineInit /\ [][PipelineNext]_pipelineVars

\* The invariants hold of calls, roles, cooldowns and reports all at once, of
\* which a run looks at a part.
THEOREM PipelineHolds == Pipeline => []PipelineInv
<1>1. PipelineInv /\ [PipelineNext]_pipelineVars => PipelineInv'
    BY PipelineKept
<1> QED
    BY <1>1, PipelineInitially, PTL DEF Pipeline

\* What the two action properties say of a step.
LEMMA StepsAreFair ==
    ASSUME PipelineInv, [PipelineNext]_pipelineVars
    PROVE  /\ [\A c \in Call :
                  LET u == calls[c].who
                  IN  /\ Enters(c) => clock - entitledAt[u] < RoleTtl
                      /\ EndsAs(c, "denied") =>
                            roleCache'[u].blind \/ clock - barredAt[u] < RoleTtl]_pipelineVars
           /\ [\A c \in Call : /\ Enters(c) => ~Counted(c)
                               /\ EndsAs(c, "cooled") => Counted(c)]_pipelineVars
BY GrantsStep, CooldownStep

\* No role of the hierarchy needs a second pass.
LEMMA OnePassForEach == \A r \in Roles : Expand(Expand({r})) = Expand({r})
<1> SUFFICES ASSUME NEW r \in Roles
             PROVE  Expand(Expand({r})) = Expand({r})
    OBVIOUS
<1>1. {r} \in SUBSET Roles
    OBVIOUS
<1> QED
    BY <1>1, OnePassIsEnough

\* With all of it at once, as well, access follows roles and tokens are fair.
THEOREM PipelineGuards == Pipeline => GrantsFollowRoles /\ CooldownsFair
BY PipelineHolds, StepsAreFair, OnePassForEach, PTL DEF Pipeline, GrantsFollowRoles, CooldownsFair

LEMMA StepsOfDesks ==
    ASSUME [MCNext]_mcVars
    PROVE  [PipelineNext]_pipelineVars /\ [AlertNext]_alertVars
<1>1. CASE UNCHANGED mcVars
    BY <1>1 DEF mcVars
<1>2. CASE MCNext
    BY <1>2 DEF MCNext, PipelineNext
<1> QED
    BY <1>1, <1>2

LEMMA DesksHold == MCSpec => [](PipelineInv /\ AlertInv)
<1>1. MCInit => PipelineInv /\ AlertInv
    BY PipelineInitially, AlertInitially DEF MCInit
<1>2. PipelineInv /\ AlertInv /\ [MCNext]_mcVars => PipelineInv' /\ AlertInv'
    BY StepsOfDesks, PipelineKept, AlertKept
<1> QED
    BY <1>1, <1>2, PTL DEF MCSpec

\* Types of all that a call and the alerts touch; a call has one verdict and
\* an alert is told once, through crashes, threads and sessions opened anew.
THEOREM PipelineTyped == MCSpec => []PipelineTypesOK
<1>1. PipelineInv /\ AlertInv => PipelineTypesOK
    BY PipelineTypes DEF PipelineTypesOK, AlertInv
<1> QED
    BY <1>1, DesksHold, PTL

\* The trail marks a call that raised, or that the bot was told of when it had
\* already failed or been turned away, and of the latter every row; times are
\* when calls ended, the security log agrees with their end, starts are
\* forgotten but of a call the bot was told of too late; and a report cleared
\* shows nothing from before.
THEOREM TrailsHold == MCSpec => []TrailsAreTrue
<1>1. PipelineInv /\ AlertInv => TrailsAreTrue
    BY TrailsTold
<1> QED
    BY <1>1, DesksHold, PTL

\* A command runs only for one entitled within the time to live of a cached
\* role, and one entitled all that time is denied only while what a failed
\* query left in the cache is used; whatever crashes and changes of roles
\* came in between, and with the hierarchy expanded only once.
THEOREM AccessFollowsRoles == MCSpec => GrantsFollowRoles
BY DesksHold, StepsOfDesks, StepsAreFair, OnePassForEach, PTL DEF MCSpec, GrantsFollowRoles

\* Two runs by one caller are more than a cooldown apart, and only one who
\* got through that recently is turned away; or was denied that recently by a
\* command that looks at its own cooldown before the roles.
THEOREM CooldownsAreFair == MCSpec => CooldownsFair
BY DesksHold, StepsOfDesks, StepsAreFair, PTL DEF MCSpec, CooldownsFair

=============================================================================
