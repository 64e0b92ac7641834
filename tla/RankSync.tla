------------------------------ MODULE RankSync ------------------------------
(***************************************************************************)
(* The rank table brought to the configuration before the bot starts       *)
(* (src/services/rank_sync_service.py): row by row, each in a commit, so   *)
(* that an error or a crash leaves a part of it done and the bot down.     *)
(***************************************************************************)
EXTENDS Integers, Sequences, FiniteSets, Functions

CONSTANTS
    Versions,           \* the RANKS of the versions deployed: ranks in order
    MaxStarts

\* Each role is the first of one rank only.
ASSUME RankAssumption ==
    /\ MaxStarts \in Nat
    /\ \A v \in Versions :
         /\ v \in Seq({v[i] : i \in DOMAIN v})
         /\ \A i, j \in DOMAIN v : v[i].role = v[j].role /\ i # j => v[i].role = "none"

VARIABLES
    ranks,              \* role -> [name, active]
    sync                \* the sync under way: of which version, at what, and what it read

rankVars == <<ranks, sync>>

Named(config) == {config[i].role : i \in DOMAIN config} \ {"none"}
Down == [config |-> <<>>, step |-> "down", at |-> 1, known |-> <<>>, blind |-> FALSE, starts |-> 0]

RankInit == ranks = <<>> /\ sync = Down

\* get_all_ranks answers a query that fails with no ranks at all.
StartSync(config) ==
    /\ sync.step = "down" /\ sync.starts < MaxStarts
    /\ \E blind \in BOOLEAN :
         sync' = [config |-> config, step |-> "upsert", at |-> 1, blind |-> blind,
                  known |-> IF blind THEN <<>> ELSE ranks, starts |-> sync.starts + 1]
    /\ UNCHANGED ranks

Raise == sync' = [sync EXCEPT !.step = "down"] /\ UNCHANGED ranks

Put(role, name, active) ==
    ranks' = [r \in DOMAIN ranks \cup {role} |-> IF r = role THEN [name |-> name, active |-> active] ELSE ranks[r]]

\* The next rank of the configuration, unless it has no role: updated when it
\* was read, else created, which fails for a role that is there already.
Upsert ==
    LET i == sync.at
        rank == sync.config[i]
    IN  /\ sync.step = "upsert" /\ i \in DOMAIN sync.config
        /\ \/ Raise
           \/ /\ sync' = [sync EXCEPT !.at = @ + 1]
              /\ IF rank.role = "none" THEN UNCHANGED ranks
                 ELSE /\ rank.role \in DOMAIN sync.known \/ rank.role \notin DOMAIN ranks
                      /\ Put(rank.role, rank.name, TRUE)

Retired == {r \in DOMAIN sync.known : r \notin Named(sync.config) /\ ranks[r].active}

\* What was read as active and is configured no more.
Deactivate ==
    /\ sync.step = "upsert" /\ sync.at > Len(sync.config) /\ Retired # {}
    /\ \/ Raise
       \/ \E r \in Retired : Put(r, ranks[r].name, FALSE) /\ UNCHANGED sync

\* The bot runs, until it stops for the next version.
Started ==
    /\ sync.step = "upsert" /\ sync.at > Len(sync.config) /\ Retired = {}
    /\ sync' = [sync EXCEPT !.step = "up"] /\ UNCHANGED ranks

Shutdown == sync.step = "up" /\ Raise

RankNext == (\E config \in Versions : StartSync(config)) \/ Upsert \/ Deactivate \/ Started \/ Shutdown

RankTypeOK ==
    /\ \A r \in DOMAIN ranks : ranks[r].active \in BOOLEAN
    /\ sync.step \in {"down", "upsert", "up"} /\ sync.starts \in 0..MaxStarts
    /\ sync.at \in 1..(Len(sync.config) + 1)

\* While the bot runs the active ranks are those configured, under their
\* names, whatever earlier starts left half done and whichever ranks had been
\* retired before; only a start that could not read the table may leave others.
RanksSettled ==
    sync.step = "up" =>
        /\ \A r \in Named(sync.config) : ranks[r].active
        /\ \A i \in DOMAIN sync.config : sync.config[i].role # "none" =>
             ranks[sync.config[i].role].name = sync.config[i].name
        /\ sync.blind \/ {r \in DOMAIN ranks : ranks[r].active} = Named(sync.config)
=============================================================================
