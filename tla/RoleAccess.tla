---------------------------- MODULE RoleAccess ------------------------------
(***************************************************************************)
(* Who may run a command (src/security): the roles Discord shows, the rows *)
(* of user_roles, the hierarchy both are expanded by, and the cache that   *)
(* keeps the result for five minutes.  Nothing in the code writes          *)
(* user_roles or clears the cache while the bot runs: both kinds of role   *)
(* change from outside, and the bot notices when an entry has expired.     *)
(***************************************************************************)
EXTENDS Integers, FiniteSets, Sequences

CONSTANTS
    User,
    Needed,             \* the roles one of which the command asks for
    Badges, Grants      \* the role sets a user has on Discord, in user_roles
CONSTANTS
    RoleTtl,            \* CACHE_TTL
    MaxClock, MaxChanges

VARIABLES
    badges, grants,     \* the roles of each user in either place
    roleCache,          \* _role_cache
    clock,
    changes,            \* how often roles were changed
    entitledAt, barredAt    \* the last moment a user was, was not, entitled

roleVars == <<badges, grants, roleCache, clock, changes, entitledAt, barredAt>>

Ranks == {"JE", "NCO", "SNCO", "JO", "SO"}

\* ROLE_HIERARCHY
Hierarchy(r) ==
    CASE r = "BOA" -> Ranks \cup {"NSC_OPERATOR", "NSC_OBSERVER", "NRC", "NETC_HIGH_COMMAND"}
      [] r = "SO" -> Ranks \ {"SO"}
      [] r = "JO" -> {"SNCO", "NCO", "JE"}
      [] r = "SNCO" -> {"NCO", "JE"}
      [] r \in {"NCO", "WO", "VETERAN", "RETIRED"} -> {"JE"}
      [] r = "NSC_ADMINISTRATOR" -> {"NSC_OPERATOR", "NSC_OBSERVER"}
      [] r = "NSC_OPERATOR" -> {"NSC_OBSERVER"}
      [] OTHER -> {}

Roles == Ranks \cup {"BOA", "WO", "NSC_OBSERVER", "NSC_OPERATOR", "NSC_ADMINISTRATOR", "NRC",
                     "VETERAN", "RETIRED", "VOYAGE_PERMISSIONS", "NETC_HIGH_COMMAND"}

ASSUME RoleAccessAssumption ==
    /\ {RoleTtl, MaxClock, MaxChanges} \subseteq Nat /\ RoleTtl > 0
    /\ Badges \cup Grants \subseteq SUBSET Roles

\* One pass over the roles held, not a closure.
Expand(held) == held \cup UNION {Hierarchy(r) : r \in held}

Uncached == [known |-> FALSE, roles |-> {}, until |-> 0, blind |-> FALSE]

Entitled(B, G) == Expand(B \cup G) \cap Needed # {}

RoleInit ==
    /\ badges \in [User -> Badges] /\ grants \in [User -> Grants]
    /\ roleCache = [u \in User |-> Uncached]
    /\ clock = 0 /\ changes = 0
    /\ entitledAt = [u \in User |-> IF Entitled(badges[u], grants[u]) THEN 0 ELSE -RoleTtl]
    /\ barredAt = [u \in User |-> IF Entitled(badges[u], grants[u]) THEN -RoleTtl ELSE 0]

----------------------------------------------------------------------------
(* resolve_effective_roles                                                 *)

\* Faulty: an entry is used up to and including the moment it expires.
CachedTooLong(u) == roleCache[u].known /\ clock <= roleCache[u].until

Cached(u) == roleCache[u].known /\ clock < roleCache[u].until

\* The query may fail: get_user_roles logs that and answers that there are no
\* rows, and what Discord shows is cached as if it were all.
Resolved(u, answered) ==
    IF Cached(u) THEN roleCache[u]
    ELSE [known |-> TRUE, until |-> clock + RoleTtl,
          blind |-> ~answered /\ ~grants[u] \subseteq badges[u],
          roles |-> Expand(badges[u] \cup IF answered THEN grants[u] ELSE {})]

Resolve(u, answered) == roleCache' = [roleCache EXCEPT ![u] = Resolved(u, answered)]

\* require_any_role.predicate
Allowed(u, answered) == Resolved(u, answered).roles \cap Needed # {}

----------------------------------------------------------------------------
\* Roles are given and taken on Discord and in the database.
ChangeRoles(u) ==
    /\ changes < MaxChanges /\ changes' = changes + 1
    /\ \/ \E B \in Badges \ {badges[u]} : badges' = [badges EXCEPT ![u] = B] /\ UNCHANGED grants
       \/ \E G \in Grants \ {grants[u]} : grants' = [grants EXCEPT ![u] = G] /\ UNCHANGED badges
    /\ IF Entitled(badges'[u], grants'[u])
       THEN entitledAt' = [entitledAt EXCEPT ![u] = clock] /\ UNCHANGED barredAt
       ELSE barredAt' = [barredAt EXCEPT ![u] = clock] /\ UNCHANGED entitledAt
    /\ UNCHANGED <<roleCache, clock>>

RoleTick ==
    /\ clock < MaxClock /\ clock' = clock + 1
    /\ entitledAt' = [u \in User |->
         IF Entitled(badges[u], grants[u]) THEN clock' ELSE entitledAt[u]]
    /\ barredAt' = [u \in User |->
         IF Entitled(badges[u], grants[u]) THEN barredAt[u] ELSE clock']
    /\ UNCHANGED <<badges, grants, roleCache, changes>>

\* The cache is a global of the process.
ForgetRoles == roleCache' = [u \in User |-> Uncached]

RoleTypeOK ==
    /\ badges \in [User -> Badges] /\ grants \in [User -> Grants]
    /\ roleCache \in [User -> [known : BOOLEAN, roles : SUBSET Roles,
                               until : 0..MaxClock + RoleTtl, blind : BOOLEAN]]
    /\ clock \in 0..MaxClock /\ changes \in 0..MaxChanges
    /\ {entitledAt, barredAt} \subseteq [User -> (-RoleTtl)..MaxClock]
=============================================================================
