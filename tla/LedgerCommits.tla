---------------------------- MODULE LedgerCommits ----------------------------
(***************************************************************************)
(* The operations of LedgerTables one commit at a time.  No other handler  *)
(* runs between the commits of a call, but the call may end there: the     *)
(* process may die, and a statement may fail.  Most methods of the         *)
(* repositories raise what fails, and the call ends with all that it has   *)
(* committed; save_hosted_data, increment_voyage_count_by_discord_id and   *)
(* decrement_subclass_count_by_discord_id return False, which nobody looks *)
(* at, and the call goes on.                                               *)
(***************************************************************************)
EXTENDS LedgerTables

CONSTANTS
    Mentions,   \* the sets of users a log message may mention
    MaxCalls,   \* bounds: calls,
    MaxFaults   \*   deaths of the process and failing statements

ASSUME CommitsAssumption ==
    /\ Mentions \subseteq SUBSET Sailor
    /\ MaxCalls \in Nat
    /\ MaxFaults \in Nat

VARIABLES
    call,     \* the call under way
    calls,    \* number of calls so far
    faults,   \* number of faults so far
    refused,  \* how often a foreign key has refused a statement so far: the
              \* deletion of a hosted row, the insertion of a subclass row
    before    \* the tables when the last call began before any fault, for the
              \* refinement only

vars == <<tables, call, calls, faults, refused, before>>

\* Where a call is: before the commit of save_hosted_data, among the
\* participants to credit, among those to take a credit from, among the
\* subclass rows to take points back for, at the deletion of the voyages,
\* at the host's counter, at the hosted row, among all subclass rows of the
\* log, among the rows to save.
Points == {"none", "host", "crew", "strip", "rows", "purge", "unhost", "drop",
           "erase", "save"}

Refusals == {"delete", "insert"}

None == [at |-> "none", log |-> 0, todo |-> {}, done |-> {}, rows |-> {},
         who |-> {}]

CallRecord ==
    [at : Points, log : Log \union {0},
     todo : SUBSET Sailor,    \* participants to go through
     done : SUBSET Sailor,    \* voyage_data, the rows to insert
     rows : SUBSET Row,       \* subclass rows to go through
     who : SUBSET Sailor]     \* whose subclass rows are being deleted

Tables == [hosted |-> hosted, voyages |-> voyages, subclasses |-> subclasses,
           hostedCount |-> hostedCount, voyageCount |-> voyageCount,
           points |-> points]

CallsTypeOK ==
    /\ TablesTypeOK
    /\ call \in CallRecord
    /\ calls \in 0 .. MaxCalls
    /\ faults \in 0 .. MaxFaults

CommitsTypeOK == CallsTypeOK /\ refused \in [Refusals -> Nat]

Init ==
    /\ TablesInit
    /\ call = None
    /\ calls = 0
    /\ faults = 0
    /\ refused = [kind \in Refusals |-> 0]
    /\ before = Tables

-----------------------------------------------------------------------------
Begin(c) ==
    /\ call = None
    /\ calls < MaxCalls
    /\ calls' = calls + 1
    /\ call' = c
    /\ before' = IF faults = 0 THEN Tables ELSE before
    /\ UNCHANGED <<tables, faults, refused>>

Goto(c) == call' = c /\ UNCHANGED <<calls, refused, before>>

\* The exception of a foreign key leaves the call.
Refused(kind) ==
    /\ call' = None
    /\ refused' = [refused EXCEPT ![kind] = @ + 1]
    /\ UNCHANGED <<calls, before>>

Fault == faults < MaxFaults /\ faults' = faults + 1

\* Whatever has not been committed is rolled back: the process dies, or a
\* statement fails and the exception leaves the call.
Abort ==
    /\ call # None
    /\ Fault
    /\ Goto(None)
    /\ UNCHANGED tables

-----------------------------------------------------------------------------
(***************************************************************************)
(* process_voyage_log                                                      *)
(***************************************************************************)
Process(l, mentions) ==
    /\ ~Skipped(l, mentions, hosted)
    /\ Begin([None EXCEPT !.at = "host", !.log = l, !.todo = mentions])

\* Faulty: the counter of the host is committed before the row.
SaveHostedApart ==
    /\ call.at = "host"
    /\ hostedCount' = Increment(hostedCount, {Author[call.log]})
    /\ \/ hosted' = hosted \union {call.log} /\ UNCHANGED faults
       \/ Fault /\ UNCHANGED hosted
    /\ Goto([call EXCEPT !.at = "crew"])
    /\ UNCHANGED <<voyages, voyageCount, subclassTables>>

\* One transaction: the hosted row and the counter of the host.
SaveHosted ==
    /\ call.at = "host"
    /\ \/ /\ hosted' = hosted \union {call.log}
          /\ hostedCount' = Increment(hostedCount, {Author[call.log]})
          /\ UNCHANGED faults
       \/ Fault /\ UNCHANGED <<hosted, hostedCount>>
    /\ Goto([call EXCEPT !.at = "crew"])
    /\ UNCHANGED <<voyages, voyageCount, subclassTables>>

Credit(s) ==
    /\ call.at = "crew"
    /\ s \in call.todo
    /\ IF s \in voyages[call.log]
       THEN /\ Goto([call EXCEPT !.todo = @ \ {s}])
            /\ UNCHANGED <<voyageCount, faults>>
       ELSE /\ Goto([call EXCEPT !.todo = @ \ {s}, !.done = @ \union {s}])
            /\ \/ /\ voyageCount' = Increment(voyageCount, {s})
                  /\ UNCHANGED faults
               \/ Fault /\ UNCHANGED voyageCount
    /\ UNCHANGED <<hosted, hostedCount, voyages, subclassTables>>

\* The rows refer to the hosted row: without it none is inserted.
BatchSave ==
    /\ call.at = "crew"
    /\ call.todo = {}
    /\ voyages' = IF call.log \in hosted
                  THEN [voyages EXCEPT ![call.log] = @ \union call.done]
                  ELSE voyages
    /\ Goto(None)
    /\ UNCHANGED <<hosted, hostedCount, voyageCount, subclassTables, faults>>

-----------------------------------------------------------------------------
(***************************************************************************)
(* remove_voyage_log_data                                                  *)
(***************************************************************************)
Participants(todo) == IF todo = {} THEN "purge" ELSE "strip"

\* Faulty: credits are taken from those a message mentions.
RemoveMentioned(l) ==
    /\ l \in hosted
    /\ \E mentions \in Mentions :
        Begin([None EXCEPT !.at = "strip", !.log = l, !.todo = mentions])

Remove(l) ==
    /\ l \in hosted
    /\ Begin([None EXCEPT !.at = Participants(voyages[l]), !.log = l,
                          !.todo = voyages[l]])

Strip(s) ==
    /\ call.at = "strip"
    /\ s \in call.todo
    /\ voyageCount' = Decrement(voyageCount, {s})
    /\ Goto([call EXCEPT !.at = "rows", !.todo = @ \ {s}, !.who = {s},
                         !.rows = RowsOf(subclasses[call.log], {s})])
    /\ UNCHANGED <<hosted, hostedCount, voyages, subclassTables, faults>>

\* delete_subclasses_for_target_in_log and delete_all_...: the points of each
\* row, then the rows.
TakePoints(r) ==
    /\ call.at \in {"rows", "erase"}
    /\ r \in call.rows
    /\ \/ points' = Decrement(points, {r}) /\ UNCHANGED faults
       \/ Fault /\ UNCHANGED points
    /\ Goto([call EXCEPT !.rows = @ \ {r}])
    /\ UNCHANGED <<voyageTables, subclasses>>

\* Faulty: the rows are not deleted.
RowsStay ==
    /\ call.at \in {"rows", "erase"}
    /\ call.rows = {}
    /\ Goto(IF call.at = "erase"
            THEN None
            ELSE [call EXCEPT !.at = Participants(call.todo), !.who = {}])
    /\ UNCHANGED <<tables, faults>>

DeleteRows ==
    /\ call.at \in {"rows", "erase"}
    /\ call.rows = {}
    /\ subclasses' = [subclasses EXCEPT ![call.log] = @ \ RowsOf(@, call.who)]
    /\ Goto(IF call.at = "erase"
            THEN None
            ELSE [call EXCEPT !.at = Participants(call.todo), !.who = {}])
    /\ UNCHANGED <<voyageTables, points, faults>>

Purge ==
    /\ call.at = "purge"
    /\ voyages' = [voyages EXCEPT ![call.log] = {}]
    /\ Goto([call EXCEPT !.at = "unhost"])
    /\ UNCHANGED <<hosted, hostedCount, voyageCount, subclassTables, faults>>

Unhost ==
    /\ call.at = "unhost"
    /\ hostedCount' = Decrement(hostedCount, {Author[call.log]})
    /\ Goto([call EXCEPT !.at = "drop"])
    /\ UNCHANGED <<hosted, voyages, voyageCount, subclassTables, faults>>

\* A subclass row that is left makes the deletion fail.
Drop ==
    /\ call.at = "drop"
    /\ IF subclasses[call.log] = {}
       THEN hosted' = hosted \ {call.log} /\ Goto(None)
       ELSE UNCHANGED hosted /\ Refused("delete")
    /\ UNCHANGED <<hostedCount, voyages, voyageCount, subclassTables, faults>>

-----------------------------------------------------------------------------
(***************************************************************************)
(* delete_all_subclass_entries_for_log_id, and save_subclass for a list    *)
(***************************************************************************)
Erase(l) ==
    Begin([None EXCEPT !.at = "erase", !.log = l, !.who = Sailor,
                       !.rows = subclasses[l]])

Save(l, rows) ==
    /\ rows # {}
    /\ Begin([None EXCEPT !.at = "save", !.log = l, !.rows = rows])

\* The sailor's points are committed in a session of their own; the insertion
\* of the row may still fail, and does without a hosted row.
SavePoint(r) ==
    LET rest == call.rows \ {r}
        next == IF rest = {} THEN None ELSE [call EXCEPT !.rows = rest]
    IN /\ call.at = "save"
       /\ r \in call.rows
       /\ IF r \in subclasses[call.log]
          THEN /\ Goto(next)
               /\ UNCHANGED <<points, subclasses, faults>>
          ELSE /\ points' = Increment(points, {r})
               /\ \/ /\ call.log \in hosted
                     /\ subclasses' = [subclasses EXCEPT
                                        ![call.log] = @ \union {r}]
                     /\ Goto(next)
                     /\ UNCHANGED faults
                  \/ /\ call.log \notin hosted
                     /\ Refused("insert")
                     /\ UNCHANGED <<subclasses, faults>>
                  \/ Fault /\ Goto(None) /\ UNCHANGED subclasses
       /\ UNCHANGED voyageTables

-----------------------------------------------------------------------------
Calls ==
    \E l \in Log :
        \/ \E mentions \in Mentions : Process(l, mentions)
        \/ Remove(l)
        \/ Erase(l)
        \/ \E rows \in SUBSET Row : Save(l, rows)

Commits ==
    \/ SaveHosted
    \/ BatchSave
    \/ DeleteRows
    \/ Purge
    \/ Unhost
    \/ Drop
    \/ \E s \in Sailor : Credit(s) \/ Strip(s)
    \/ \E r \in Row : TakePoints(r) \/ SavePoint(r)

Next == Calls \/ Commits \/ Abort

Spec == Init /\ [][Next]_vars

-----------------------------------------------------------------------------
(***************************************************************************)
(* Properties.                                                             *)
(***************************************************************************)
Between == call = None

\* Each fault costs each sailor at most one credit too many or too few: the
\* calls that follow, on what the fault has left, spread it no further.
VoyageDriftBounded ==
    Between => \A s \in Sailor :
        /\ voyageCount[s] <= Cardinality(VoyagesOf(s)) + faults
        /\ Cardinality(VoyagesOf(s)) <= voyageCount[s] + faults

\* save_subclass commits the point in a session of its own before the row:
\* besides the faults each row that was refused for want of its hosted row
\* leaves one point too many, and nothing else does.
PointsDriftBounded ==
    Between => \A r \in Row :
        /\ points[r] <= Cardinality(LogsWith(r)) + faults + refused["insert"]
        /\ Cardinality(LogsWith(r)) <= points[r] + faults

\* save_hosted_data is one transaction, and remove_voyage_log_data lowers the
\* counter before it deletes the row: a host is never credited with a log
\* that is not there, and is short of at most one log for each call that died
\* in between or whose deletion was refused because of a subclass row of
\* someone who is no longer a participant.
HostedDriftBounded ==
    Between => \A s \in Sailor :
        /\ hostedCount[s] <= Cardinality(HostedBy(s))
        /\ Cardinality(HostedBy(s)) <= hostedCount[s] + faults + refused["delete"]

\* A log that counts as processed has its crew: what the check for an
\* existing hosted row takes for granted.
ProcessedHasCrew == Between => \A l \in hosted : voyages[l] # {}

\* Until the first fault each call, seen from outside, is the one step it is
\* in LedgerTables: the handlers of VoyageLedger are built from these steps.
Outside == IF call = None /\ faults = 0 THEN Tables ELSE before

Atomic == INSTANCE LedgerTables WITH
    hosted <- Outside.hosted, voyages <- Outside.voyages,
    subclasses <- Outside.subclasses, hostedCount <- Outside.hostedCount,
    voyageCount <- Outside.voyageCount, points <- Outside.points

ImplementsTables == Atomic!TablesSpec

=============================================================================
