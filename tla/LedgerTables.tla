---------------------------- MODULE LedgerTables ----------------------------
(***************************************************************************)
(* The tables of the voyage ledger and the three operations every handler  *)
(* is built from:                                                          *)
(*   - process_voyage_log           (src/utils/process_voyage_log.py),     *)
(*   - remove_voyage_log_data       (src/utils/remove_voyage_log.py),      *)
(*   - the methods of SubclassRepository.                                  *)
(* Each of them runs without reaching an await, so on the bot's single     *)
(* event loop each is one step.  What may happen between the commits INSIDE *)
(* such a step (a crash, a failing statement) is the subject of module     *)
(* LedgerCommits.                                                          *)
(*                                                                         *)
(* A row of subclasses is <<target, subclass>> under its log; its          *)
(* subclass_count, always the same number when it is added to and taken    *)
(* from the sailor's points, counts as one.                                *)
(***************************************************************************)
EXTENDS Naturals, FiniteSets

CONSTANTS
    MaxLog,     \* number of messages the voyage-log channel may receive
    Sailor,     \* Discord users
    Subclass,   \* values of SubclassType
    Author      \* Author[l]: the author, hence the host, of log l

\* Message ids grow with time: log l+1 is posted after log l.
Log == 1 .. MaxLog
Row == Sailor \X Subclass

ASSUME LedgerAssumption ==
    /\ MaxLog \in Nat
    /\ IsFiniteSet(Sailor)
    /\ Author \in [Log -> Sailor]

VARIABLES
    hosted,        \* log_ids of table hosted (target_id is Author[log_id])
    voyages,       \* voyages[l]: target_ids of the rows of log l
    subclasses,    \* subclasses[l]: rows of log l
    hostedCount,   \* sailor.hosted_count
    voyageCount,   \* sailor.voyage_count
    points         \* points[<<s, c>>]: column <c>_points of sailor s

tables == <<hosted, voyages, subclasses, hostedCount, voyageCount, points>>
voyageTables == <<hosted, voyages, hostedCount, voyageCount>>
subclassTables == <<subclasses, points>>

TablesTypeOK ==
    /\ hosted \in SUBSET Log
    /\ voyages \in [Log -> SUBSET Sailor]
    /\ subclasses \in [Log -> SUBSET Row]
    /\ hostedCount \in [Sailor -> Nat]
    /\ voyageCount \in [Sailor -> Nat]
    /\ points \in [Row -> Nat]

TablesInit ==
    /\ hosted = {}
    /\ voyages = [l \in Log |-> {}]
    /\ subclasses = [l \in Log |-> {}]
    /\ hostedCount = [s \in Sailor |-> 0]
    /\ voyageCount = [s \in Sailor |-> 0]
    /\ points = [r \in Row |-> 0]

\* Faulty variants of definitions stand before the definitions they vary, for
\* testing the properties.  Here: no floor under a counter, a decrement that
\* is never committed.
Unfloored(n) == n - 1
Uncommitted(counter, keys) == counter

\* The counters are updated in SQL: coalesce(column, 0) + 1, and
\* greatest(coalesce(column, 0) - 1, 0), "Cannot go below 0".
Decremented(n) == IF n > 0 THEN n - 1 ELSE 0

Increment(counter, keys) ==
    [k \in DOMAIN counter |->
        IF k \in keys THEN counter[k] + 1 ELSE counter[k]]

Decrement(counter, keys) ==
    [k \in DOMAIN counter |->
        IF k \in keys THEN Decremented(counter[k]) ELSE counter[k]]

RowsOf(rows, sailors) == {r \in rows : r[1] \in sailors}

(***************************************************************************)
(* process_voyage_log for log l, whose message mentions the given sailors, *)
(* with a hosted session to which the log_ids in seen are visible.  seen   *)
(* is the table itself for a session that starts a transaction, and an     *)
(* older state of it for one that has a transaction open (REPEATABLE READ).*)
(***************************************************************************)
Skipped(l, mentions, seen) ==
    \/ Cardinality(mentions) <= 1
    \/ l \in seen

\* Faulty: participants are credited without looking for their rows.
ProcessWithoutLooking(l, mentions, seen) ==
    IF Skipped(l, mentions, seen)
    THEN UNCHANGED voyageTables
    ELSE /\ hosted' = hosted \union {l}
         /\ hostedCount' = IF l \in hosted
                           THEN hostedCount
                           ELSE Increment(hostedCount, {Author[l]})
         /\ voyages' = [voyages EXCEPT ![l] = @ \union mentions]
         /\ voyageCount' = Increment(voyageCount, mentions)

\* save_hosted_data meets the primary key of a row it could not see, rolls
\* back and returns False; its caller goes on to the participants.
ProcessVoyageLog(l, mentions, seen) ==
    IF Skipped(l, mentions, seen)
    THEN UNCHANGED voyageTables
    ELSE LET participants == mentions \ voyages[l]
         IN /\ hosted' = hosted \union {l}
            /\ hostedCount' = IF l \in hosted
                              THEN hostedCount
                              ELSE Increment(hostedCount, {Author[l]})
            /\ voyages' = [voyages EXCEPT ![l] = @ \union participants]
            /\ voyageCount' = Increment(voyageCount, participants)

(***************************************************************************)
(* remove_voyage_log_data.  Subclass rows are deleted for the participants *)
(* only; a row of anyone else makes the foreign key refuse the deletion of *)
(* the hosted row, after hosted_count went down, and the exception is      *)
(* caught and reported.                                                    *)
(***************************************************************************)
ParticipantRows(l) == RowsOf(subclasses[l], voyages[l])
OtherRows(l) == subclasses[l] \ ParticipantRows(l)

RemoveVoyageLogData(l) ==
    IF l \notin hosted
    THEN UNCHANGED tables
    ELSE /\ voyageCount' = Decrement(voyageCount, voyages[l])
         /\ voyages' = [voyages EXCEPT ![l] = {}]
         /\ points' = Decrement(points, ParticipantRows(l))
         /\ subclasses' = [subclasses EXCEPT ![l] = OtherRows(l)]
         /\ hostedCount' = Decrement(hostedCount, {Author[l]})
         /\ hosted' = IF OtherRows(l) = {} THEN hosted \ {l} ELSE hosted

\* delete_all_subclass_entries_for_log_id
DeleteAllSubclasses(l) ==
    /\ points' = Decrement(points, subclasses[l])
    /\ subclasses' = [subclasses EXCEPT ![l] = {}]

(***************************************************************************)
(* save_subclass for each row of a list, in some order.  A row that exists *)
(* is left alone.  The point is committed by the sailor's session before   *)
(* the row is: when log l has no hosted row the first insertion fails on   *)
(* its foreign key, the exception ends the list, and the point stays.      *)
(***************************************************************************)
SaveSubclasses(l, rows) ==
    LET new == rows \ subclasses[l]
    IN IF l \in hosted'
       THEN /\ subclasses' = [subclasses EXCEPT ![l] = @ \union new]
            /\ points' = Increment(points, new)
       ELSE /\ UNCHANGED subclasses
            /\ IF new = {}
               THEN UNCHANGED points
               ELSE \E first \in new : points' = Increment(points, {first})

(***************************************************************************)
(* The tables under these operations alone, each of them one step.         *)
(***************************************************************************)
TablesNext ==
    \E l \in Log :
        \/ /\ \E mentions \in SUBSET Sailor :
                ProcessVoyageLog(l, mentions, hosted)
           /\ UNCHANGED subclassTables
        \/ RemoveVoyageLogData(l)
        \/ DeleteAllSubclasses(l) /\ UNCHANGED voyageTables
        \/ UNCHANGED voyageTables /\ \E rows \in SUBSET Row : SaveSubclasses(l, rows)

TablesSpec == TablesInit /\ [][TablesNext]_tables

(***************************************************************************)
(* What the tables should say.                                             *)
(***************************************************************************)
HostedBy(s) == {l \in hosted : Author[l] = s}
VoyagesOf(s) == {l \in Log : s \in voyages[l]}
LogsWith(r) == {l \in Log : r \in subclasses[l]}

\* Rows of voyages and subclasses refer to a row of hosted: the schema's
\* foreign keys, which the operations above are refused by.  Not a property
\* of the code, and checked by no run; the proofs rest on it.
ForeignKeys ==
    \A l \in Log \ hosted : voyages[l] = {} /\ subclasses[l] = {}

\* sailor.voyage_count is the number of voyages the sailor has rows for: no
\* interleaving of handlers credits a log twice or fails to take it back
\* (the check before each increment in process_voyage_log, the decrement of
\* exactly the rows that are removed in remove_voyage_log_data).
VoyageCountMatches ==
    \A s \in Sailor : voyageCount[s] = Cardinality(VoyagesOf(s))

\* sailor.hosted_count never credits a host with more logs than hosted has
\* rows for: save_hosted_data raises the counter only in the transaction
\* that inserts the row.
HostedNeverOverstated ==
    \A s \in Sailor : hostedCount[s] <= Cardinality(HostedBy(s))

\* sailor.hosted_count is the number of hosted rows of the sailor.
HostedCountMatches ==
    \A s \in Sailor : hostedCount[s] = Cardinality(HostedBy(s))

\* A sailor's points of a subclass are what the rows of subclasses add up to.
PointsMatchRows ==
    \A r \in Row : points[r] = Cardinality(LogsWith(r))

=============================================================================
