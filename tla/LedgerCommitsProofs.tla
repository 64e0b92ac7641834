------------------------- MODULE LedgerCommitsProofs -------------------------
(***************************************************************************)
(* What the calls of LedgerCommits keep true when the process may die and  *)
(* statements may fail between any two commits, for any number of logs,    *)
(* sailors, subclasses, calls and faults.                                  *)
(***************************************************************************)
EXTENDS LedgerCommits, LedgerTablesProofs

-----------------------------------------------------------------------------
(***************************************************************************)
(* The inductive invariant.                                                *)
(***************************************************************************)

\* Fields of call, as far as they depend on each other and on the tables.
CallOK ==
    LET l == call.log
    IN /\ call.at = "none" <=> call = None
       /\ call.at # "none" => l \in Log
       /\ call.at = "host" => l \notin hosted /\ call.done = {}
       /\ call.at = "crew" =>
            /\ call.todo \intersect call.done = {}
            /\ call.done \intersect voyages[l] = {}
            /\ l \notin hosted => faults > 0
       /\ call.at \in {"strip", "rows", "purge", "unhost", "drop"} =>
            /\ l \in hosted
            /\ call.todo \subseteq voyages[l]
       /\ call.at = "purge" => call.todo = {}
       /\ call.at \in {"unhost", "drop"} => voyages[l] = {}
       /\ call.at \in {"rows", "erase"} =>
            call.rows \subseteq RowsOf(subclasses[l], call.who)

\* Before the hosted row is dropped the host's counter is already lower.
Dropped(s) == IF call.at = "drop" /\ s = Author[call.log] THEN 1 ELSE 0

HostedInv ==
    \A s \in Sailor : hostedCount[s] + Dropped(s) <= Cardinality(HostedBy(s))

\* What a host is short of, in faults and refused deletions.
ShortInv ==
    \A s \in Sailor : Cardinality(HostedBy(s))
        <= hostedCount[s] + Dropped(s) + faults + refused["delete"]

\* Credits that are ahead of their rows, and rows that are behind their
\* credits, in the middle of a call.  A call that goes on without a hosted row
\* has had a fault whose drift is still to come.
Ahead(s) == IF call.at = "crew" /\ s \in call.done THEN 1 ELSE 0

Behind(s) ==
    IF /\ call.at \in {"strip", "rows", "purge"}
       /\ s \in voyages[call.log] \ call.todo
    THEN 1 ELSE 0

Slack == IF call.at = "crew" /\ call.log \notin hosted
         THEN faults - 1 ELSE faults

VoyageInv ==
    \A s \in Sailor :
        /\ voyageCount[s] + Behind(s)
            <= Cardinality(VoyagesOf(s)) + Ahead(s) + Slack
        /\ Cardinality(VoyagesOf(s)) + Ahead(s)
            <= voyageCount[s] + Behind(s) + Slack

\* Rows whose points are taken back and that are still there.
Taken(r) ==
    IF /\ call.at \in {"rows", "erase"}
       /\ r \in RowsOf(subclasses[call.log], call.who) \ call.rows
    THEN 1 ELSE 0

PointsInv ==
    \A r \in Row :
        Cardinality(LogsWith(r)) <= points[r] + Taken(r) + faults

\* Points without a row, in faults and refused insertions.
SpareInv ==
    \A r \in Row :
        points[r] + Taken(r) <= Cardinality(LogsWith(r)) + faults + refused["insert"]

CommitsInv ==
    /\ CallsTypeOK
    /\ refused \in [Refusals -> Nat]
    /\ CallOK
    /\ ForeignKeys
    /\ HostedInv
    /\ ShortInv
    /\ VoyageInv
    /\ PointsInv
    /\ SpareInv

-----------------------------------------------------------------------------
(***************************************************************************)
(* Steps.                                                                  *)
(***************************************************************************)

\* The actions one by one, with what each is applied to.
LEMMA NextCases ==
    ASSUME [Next]_vars
    PROVE  \/ \E l \in Log, mentions \in Mentions : Process(l, mentions)
           \/ \E l \in Log : Remove(l)
           \/ \E l \in Log : Erase(l)
           \/ \E l \in Log, rows \in SUBSET Row : Save(l, rows)
           \/ SaveHosted
           \/ BatchSave
           \/ DeleteRows
           \/ Purge
           \/ Unhost
           \/ Drop
           \/ \E s \in Sailor : Credit(s)
           \/ \E s \in Sailor : Strip(s)
           \/ \E r \in Row : TakePoints(r)
           \/ \E r \in Row : SavePoint(r)
           \/ Abort
           \/ UNCHANGED vars
BY DEF Next, Calls, Commits

\* Fields and points of a call.
LEMMA CallFields ==
    ASSUME CallsTypeOK
    PROVE  /\ call.at \in Points
           /\ call.log \in Log \union {0}
           /\ call.todo \subseteq Sailor
           /\ call.done \subseteq Sailor
           /\ call.rows \subseteq Row
           /\ call.who \subseteq Sailor
BY DEF CallsTypeOK, CallRecord

LEMMA FaultTypes ==
    ASSUME CallsTypeOK, Fault \/ UNCHANGED faults
    PROVE  /\ faults \in Nat /\ faults' \in 0 .. MaxFaults
           /\ Fault => faults' = faults + 1
           /\ faults' >= faults
BY CommitsAssumption DEF CallsTypeOK, Fault

\* Faults and refusals are only ever added to.
LEMMA FaultsGrow ==
    ASSUME CallsTypeOK, refused \in [Refusals -> Nat], [Next]_vars
    PROVE  /\ faults \in Nat /\ faults' \in Nat /\ faults' >= faults
           /\ refused' \in [Refusals -> Nat]
           /\ \A kind \in Refusals :
                refused[kind] \in Nat /\ refused'[kind] \in Nat
                /\ refused'[kind] >= refused[kind]
<1>1. \/ UNCHANGED refused
      \/ \E kind \in Refusals : refused' = [refused EXCEPT ![kind] = @ + 1]
    BY NextCases
       DEF Process, Remove, Erase, Save, Begin, SaveHosted, BatchSave, DeleteRows,
           Purge, Unhost, Drop, Credit, Strip, TakePoints, SavePoint, Abort, Goto,
           Refused, Refusals, vars
<1>2. UNCHANGED faults \/ Fault
    BY NextCases
       DEF Process, Remove, Erase, Save, Begin, SaveHosted, BatchSave, DeleteRows,
           Purge, Unhost, Drop, Credit, Strip, TakePoints, SavePoint, Abort, vars
<1> QED
    BY <1>1, <1>2, FaultTypes

LEMMA RefusedTypes ==
    ASSUME CallsTypeOK, refused \in [Refusals -> Nat], [Next]_vars
    PROVE  refused' \in [Refusals -> Nat]
BY FaultsGrow

LEMMA NoneTypes ==
    /\ None \in CallRecord
    /\ None.at = "none"
BY DEF None, CallRecord, Points

\* A call begins and leaves the tables alone.
LEMMA ProcessOK ==
    ASSUME CallsTypeOK, CallOK,
           NEW l \in Log, NEW mentions \in Mentions, Process(l, mentions)
    PROVE  CallsTypeOK' /\ CallOK'
<1>1. call' = [None EXCEPT !.at = "host", !.log = l, !.todo = mentions]
    BY DEF Process, Begin
<1>2. mentions \subseteq Sailor
    BY CommitsAssumption
<1>3. call' \in CallRecord
    BY <1>1, <1>2 DEF None, CallRecord, Points
<1>4. /\ call'.at = "host" /\ call'.log = l /\ call'.done = {}
      /\ call' # None
    BY <1>1 DEF None
<1>5. calls' \in 0 .. MaxCalls /\ UNCHANGED <<tables, faults>>
    BY CommitsAssumption DEF Process, Begin, CallsTypeOK
<1>6. l \notin hosted
    BY DEF Process, Skipped
<1>7. CallsTypeOK'
    BY <1>3, <1>5 DEF CallsTypeOK, TablesTypeOK, tables
<1>8. CallOK'
    BY <1>4, <1>5, <1>6 DEF CallOK, tables
<1> QED
    BY <1>7, <1>8

LEMMA RemoveOK ==
    ASSUME CallsTypeOK, CallOK, NEW l \in Log, Remove(l)
    PROVE  CallsTypeOK' /\ CallOK'
<1>1. call' = [None EXCEPT !.at = Participants(voyages[l]), !.log = l,
                           !.todo = voyages[l]]
    BY DEF Remove, Begin
<1>2. voyages[l] \subseteq Sailor
    BY DEF CallsTypeOK, TablesTypeOK
<1>3. call' \in CallRecord
    BY <1>1, <1>2 DEF None, CallRecord, Points, Participants
<1>4. /\ call'.at \in {"strip", "purge"} /\ call'.log = l
      /\ call'.todo = voyages[l]
      /\ call'.at = "purge" => call'.todo = {}
      /\ call' # None
    BY <1>1 DEF None, Participants
<1>5. calls' \in 0 .. MaxCalls /\ UNCHANGED <<tables, faults>>
    BY CommitsAssumption DEF Remove, Begin, CallsTypeOK
<1>6. l \in hosted
    BY DEF Remove
<1>7. CallsTypeOK'
    BY <1>3, <1>5 DEF CallsTypeOK, TablesTypeOK, tables
<1>8. CallOK'
    BY <1>4, <1>5, <1>6 DEF CallOK, tables
<1> QED
    BY <1>7, <1>8

LEMMA EraseOK ==
    ASSUME CallsTypeOK, CallOK, NEW l \in Log, Erase(l)
    PROVE  CallsTypeOK' /\ CallOK'
<1>1. call' = [None EXCEPT !.at = "erase", !.log = l, !.who = Sailor,
                           !.rows = subclasses[l]]
    BY DEF Erase, Begin
<1>2. subclasses[l] \subseteq Row
    BY DEF CallsTypeOK, TablesTypeOK
<1>3. call' \in CallRecord
    BY <1>1, <1>2 DEF None, CallRecord, Points
<1>4. /\ call'.at = "erase" /\ call'.log = l
      /\ call'.rows = subclasses[l] /\ call'.who = Sailor
      /\ call' # None
    BY <1>1 DEF None
<1>5. calls' \in 0 .. MaxCalls /\ UNCHANGED <<tables, faults>>
    BY CommitsAssumption DEF Erase, Begin, CallsTypeOK
<1>6. RowsOf(subclasses[l], Sailor) = subclasses[l]
    BY <1>2 DEF RowsOf, Row
<1>7. CallsTypeOK'
    BY <1>3, <1>5 DEF CallsTypeOK, TablesTypeOK, tables
<1>8. CallOK'
    BY <1>4, <1>5, <1>6 DEF CallOK, tables
<1> QED
    BY <1>7, <1>8

LEMMA SaveOK ==
    ASSUME CallsTypeOK, CallOK, NEW l \in Log, NEW rows \in SUBSET Row,
           Save(l, rows)
    PROVE  CallsTypeOK' /\ CallOK'
<1>1. call' = [None EXCEPT !.at = "save", !.log = l, !.rows = rows]
    BY DEF Save, Begin
<1>2. call' \in CallRecord
    BY <1>1 DEF None, CallRecord, Points
<1>3. call'.at = "save" /\ call'.log = l /\ call' # None
    BY <1>1 DEF None
<1>4. calls' \in 0 .. MaxCalls /\ UNCHANGED <<tables, faults>>
    BY CommitsAssumption DEF Save, Begin, CallsTypeOK
<1>5. CallsTypeOK'
    BY <1>2, <1>4 DEF CallsTypeOK, TablesTypeOK, tables
<1>6. CallOK'
    BY <1>3, <1>4 DEF CallOK, tables
<1> QED
    BY <1>5, <1>6

\* A call goes on, or ends.
LEMMA SaveHostedOK ==
    ASSUME CallsTypeOK, CallOK, SaveHosted
    PROVE  CallsTypeOK' /\ CallOK'
<1> DEFINE l == call.log
<1>1. /\ call.at = "host" /\ l \in Log /\ l \notin hosted /\ call.done = {}
      /\ call' = [call EXCEPT !.at = "crew"]
      /\ UNCHANGED <<calls, voyages, voyageCount, subclassTables>>
    BY DEF SaveHosted, Goto, CallOK
<1>2. /\ call' \in CallRecord
      /\ call'.at = "crew" /\ call'.log = l /\ call'.done = {}
      /\ call' # None
    BY <1>1 DEF CallsTypeOK, CallRecord, Points, None
<1>3. /\ hosted' \subseteq Log
      /\ hostedCount' \in [Sailor -> Nat]
      /\ faults' \in 0 .. MaxFaults
      /\ l \notin hosted' => faults' > 0
    <2>1. \/ /\ hosted' = hosted \union {l}
             /\ hostedCount' = Increment(hostedCount, {Author[l]})
             /\ UNCHANGED faults
          \/ Fault /\ UNCHANGED <<hosted, hostedCount>>
        BY DEF SaveHosted
    <2>2. Increment(hostedCount, {Author[l]}) \in [Sailor -> Nat]
        BY CounterTypes DEF CallsTypeOK, TablesTypeOK
    <2>3. CASE UNCHANGED faults /\ hosted' = hosted \union {l}
        BY <1>1, <2>1, <2>2, <2>3, FaultTypes DEF CallsTypeOK, TablesTypeOK
    <2>4. CASE Fault /\ UNCHANGED <<hosted, hostedCount>>
        BY <2>4, FaultTypes DEF CallsTypeOK, TablesTypeOK
    <2> QED
        BY <2>1, <2>3, <2>4
<1>4. CallsTypeOK'
    BY <1>1, <1>2, <1>3 DEF CallsTypeOK, TablesTypeOK, subclassTables
<1>5. CallOK'
    BY <1>1, <1>2, <1>3 DEF CallOK
<1> QED
    BY <1>4, <1>5

LEMMA CreditOK ==
    ASSUME CallsTypeOK, CallOK, NEW s \in Sailor, Credit(s)
    PROVE  CallsTypeOK' /\ CallOK'
<1> DEFINE l == call.log
<1>1. /\ call.at = "crew" /\ l \in Log /\ s \in call.todo
      /\ UNCHANGED <<calls, hosted, hostedCount, voyages, subclassTables>>
    BY DEF Credit, Goto, CallOK
<1>2. /\ voyageCount' \in [Sailor -> Nat]
      /\ faults' \in 0 .. MaxFaults
      /\ faults' >= faults
    <2>1. \/ voyageCount' = voyageCount /\ faults' = faults
          \/ voyageCount' = Increment(voyageCount, {s}) /\ faults' = faults
          \/ Fault /\ voyageCount' = voyageCount
        BY DEF Credit
    <2>2. Increment(voyageCount, {s}) \in [Sailor -> Nat]
        BY CounterTypes DEF CallsTypeOK, TablesTypeOK
    <2> QED
        BY <2>1, <2>2, FaultTypes DEF CallsTypeOK, TablesTypeOK
<1>3. /\ call' \in CallRecord
      /\ call'.at = "crew" /\ call'.log = l
      /\ call'.todo = call.todo \ {s}
      /\ call'.done \subseteq call.done \union ({s} \ voyages[l])
      /\ call' # None
    <2>1. \/ call' = [call EXCEPT !.todo = @ \ {s}]
          \/ /\ call' = [call EXCEPT !.todo = @ \ {s}, !.done = @ \union {s}]
             /\ s \notin voyages[l]
        BY DEF Credit, Goto
    <2>2. CASE call' = [call EXCEPT !.todo = @ \ {s}]
        BY <1>1, <2>2 DEF CallsTypeOK, CallRecord, None
    <2>3. CASE /\ call' = [call EXCEPT !.todo = @ \ {s},
                                       !.done = @ \union {s}]
               /\ s \notin voyages[l]
        BY <1>1, <2>3 DEF CallsTypeOK, CallRecord, None
    <2> QED
        BY <2>1, <2>2, <2>3
<1>4. CallsTypeOK'
    BY <1>1, <1>2, <1>3 DEF CallsTypeOK, TablesTypeOK, subclassTables
<1>5. CallOK'
    <2>1. l \notin hosted => faults' > 0
        BY <1>1, <1>2 DEF CallOK, CallsTypeOK
    <2> QED
        BY <1>1, <1>3, <2>1 DEF CallOK
<1> QED
    BY <1>4, <1>5

\* The last commit of a call.
LEMMA EndOK ==
    ASSUME CallsTypeOK, call' = None, UNCHANGED calls,
           TablesTypeOK', faults' \in 0 .. MaxFaults
    PROVE  CallsTypeOK' /\ CallOK'
BY NoneTypes DEF CallsTypeOK, CallOK

LEMMA BatchSaveOK ==
    ASSUME CallsTypeOK, CallOK, BatchSave
    PROVE  CallsTypeOK' /\ CallOK'
<1>1. voyages' \in [Log -> SUBSET Sailor]
    BY CallFields DEF BatchSave, CallsTypeOK, TablesTypeOK
<1>2. TablesTypeOK'
    BY <1>1 DEF BatchSave, CallsTypeOK, TablesTypeOK, subclassTables
<1> QED
    BY <1>2, EndOK DEF BatchSave, Goto, CallsTypeOK

LEMMA StripOK ==
    ASSUME CallsTypeOK, CallOK, NEW s \in Sailor, Strip(s)
    PROVE  CallsTypeOK' /\ CallOK'
<1> DEFINE l == call.log
<1>1. /\ call.at = "strip" /\ l \in Log /\ l \in hosted
      /\ call.todo \subseteq voyages[l]
      /\ call' = [call EXCEPT !.at = "rows", !.todo = @ \ {s}, !.who = {s},
                              !.rows = RowsOf(subclasses[l], {s})]
      /\ UNCHANGED <<calls, hosted, hostedCount, voyages, subclassTables, faults>>
    BY DEF Strip, Goto, CallOK
<1>2. RowsOf(subclasses[l], {s}) \subseteq Row
    BY <1>1 DEF RowsOf, CallsTypeOK, TablesTypeOK
<1>3. /\ call' \in CallRecord
      /\ call'.at = "rows" /\ call'.log = l
      /\ call'.todo = call.todo \ {s}
      /\ call'.rows = RowsOf(subclasses[l], {s}) /\ call'.who = {s}
      /\ call' # None
    BY <1>1, <1>2 DEF CallsTypeOK, CallRecord, Points, None
<1>4. voyageCount' \in [Sailor -> Nat]
    BY CounterTypes DEF Strip, CallsTypeOK, TablesTypeOK
<1>5. CallsTypeOK'
    BY <1>1, <1>3, <1>4 DEF CallsTypeOK, TablesTypeOK, subclassTables
<1>6. CallOK'
    BY <1>1, <1>3 DEF CallOK, subclassTables
<1> QED
    BY <1>5, <1>6

LEMMA TakePointsOK ==
    ASSUME CallsTypeOK, CallOK, NEW r \in Row, TakePoints(r)
    PROVE  CallsTypeOK' /\ CallOK'
<1> DEFINE l == call.log
<1>1. /\ call.at \in {"rows", "erase"} /\ l \in Log
      /\ call.rows \subseteq RowsOf(subclasses[l], call.who)
      /\ call' = [call EXCEPT !.rows = @ \ {r}]
      /\ UNCHANGED <<calls, voyageTables, subclasses>>
    BY DEF TakePoints, Goto, CallOK
<1>2. /\ call' \in CallRecord
      /\ call'.at = call.at /\ call'.log = l
      /\ call'.todo = call.todo /\ call'.done = call.done
      /\ call'.rows = call.rows \ {r} /\ call'.who = call.who
      /\ call' # None
    BY <1>1 DEF CallsTypeOK, CallRecord, None
<1>3. points' \in [Row -> Nat] /\ faults' \in 0 .. MaxFaults
    <2>1. \/ points' = Decrement(points, {r}) /\ UNCHANGED faults
          \/ Fault /\ UNCHANGED points
        BY DEF TakePoints
    <2>2. Decrement(points, {r}) \in [Row -> Nat]
        BY CounterTypes DEF CallsTypeOK, TablesTypeOK
    <2> QED
        BY <2>1, <2>2, FaultTypes DEF CallsTypeOK, TablesTypeOK
<1>4. CallsTypeOK'
    BY <1>1, <1>2, <1>3 DEF CallsTypeOK, TablesTypeOK, voyageTables
<1>5. CallOK'
    BY <1>1, <1>2 DEF CallOK, voyageTables
<1> QED
    BY <1>4, <1>5

\* After the rows of one participant, or all rows of a log.
LEMMA DeleteRowsOK ==
    ASSUME CallsTypeOK, CallOK, DeleteRows
    PROVE  CallsTypeOK' /\ CallOK'
<1> DEFINE l == call.log
<1>1. /\ call.at \in {"rows", "erase"} /\ l \in Log
      /\ UNCHANGED <<calls, voyageTables, points, faults>>
    BY DEF DeleteRows, Goto, CallOK
<1>2. subclasses' \in [Log -> SUBSET Row]
    BY DEF DeleteRows, CallsTypeOK, TablesTypeOK
<1>3. TablesTypeOK'
    BY <1>1, <1>2 DEF CallsTypeOK, TablesTypeOK, voyageTables
<1>4. CASE call.at = "erase"
    BY <1>1, <1>3, <1>4, EndOK DEF DeleteRows, Goto, CallsTypeOK
<1>5. CASE call.at = "rows"
    <2>1. call' = [call EXCEPT !.at = Participants(call.todo), !.who = {}]
        BY <1>5 DEF DeleteRows, Goto
    <2>2. /\ call' \in CallRecord
          /\ call'.at \in {"strip", "purge"} /\ call'.log = l
          /\ call'.todo = call.todo
          /\ call'.at = "purge" => call'.todo = {}
          /\ call' # None
        BY <2>1 DEF CallsTypeOK, CallRecord, Points, Participants, None
    <2>3. CallsTypeOK'
        BY <1>1, <1>3, <2>2 DEF CallsTypeOK
    <2>4. CallOK'
        BY <1>1, <1>5, <2>2 DEF CallOK, voyageTables
    <2> QED
        BY <2>3, <2>4
<1> QED
    BY <1>1, <1>4, <1>5

LEMMA PurgeOK ==
    ASSUME CallsTypeOK, CallOK, Purge
    PROVE  CallsTypeOK' /\ CallOK'
<1> DEFINE l == call.log
<1>1. /\ call.at = "purge" /\ l \in Log /\ l \in hosted /\ call.todo = {}
      /\ call' = [call EXCEPT !.at = "unhost"]
      /\ voyages' = [voyages EXCEPT ![l] = {}]
      /\ UNCHANGED <<calls, hosted, hostedCount, voyageCount, subclassTables, faults>>
    BY DEF Purge, Goto, CallOK
<1>2. /\ call' \in CallRecord
      /\ call'.at = "unhost" /\ call'.log = l /\ call'.todo = {}
      /\ call' # None
    BY <1>1 DEF CallsTypeOK, CallRecord, Points, None
<1>3. voyages' \in [Log -> SUBSET Sailor] /\ voyages'[l] = {}
    BY <1>1 DEF CallsTypeOK, TablesTypeOK
<1>4. CallsTypeOK'
    BY <1>1, <1>2, <1>3 DEF CallsTypeOK, TablesTypeOK, subclassTables
<1>5. CallOK'
    BY <1>1, <1>2, <1>3 DEF CallOK
<1> QED
    BY <1>4, <1>5

LEMMA UnhostOK ==
    ASSUME CallsTypeOK, CallOK, Unhost
    PROVE  CallsTypeOK' /\ CallOK'
<1> DEFINE l == call.log
<1>1. /\ call.at = "unhost" /\ l \in Log /\ l \in hosted /\ voyages[l] = {}
      /\ call.todo \subseteq voyages[l]
      /\ call' = [call EXCEPT !.at = "drop"]
      /\ UNCHANGED <<calls, hosted, voyages, voyageCount, subclassTables, faults>>
    BY DEF Unhost, Goto, CallOK
<1>2. /\ call' \in CallRecord
      /\ call'.at = "drop" /\ call'.log = l /\ call'.todo = call.todo
      /\ call' # None
    BY <1>1 DEF CallsTypeOK, CallRecord, Points, None
<1>3. hostedCount' \in [Sailor -> Nat]
    BY CounterTypes DEF Unhost, CallsTypeOK, TablesTypeOK
<1>4. CallsTypeOK'
    BY <1>1, <1>2, <1>3 DEF CallsTypeOK, TablesTypeOK, subclassTables
<1>5. CallOK'
    BY <1>1, <1>2 DEF CallOK
<1> QED
    BY <1>4, <1>5

LEMMA DropOK ==
    ASSUME CallsTypeOK, CallOK, Drop
    PROVE  CallsTypeOK' /\ CallOK'
<1>1. TablesTypeOK'
    BY DEF Drop, CallsTypeOK, TablesTypeOK, subclassTables
<1> QED
    BY <1>1, EndOK DEF Drop, Goto, Refused, CallsTypeOK

LEMMA SavePointOK ==
    ASSUME CallsTypeOK, CallOK, NEW r \in Row, SavePoint(r)
    PROVE  CallsTypeOK' /\ CallOK'
<1> DEFINE l == call.log
           next == IF call.rows \ {r} = {} THEN None
                   ELSE [call EXCEPT !.rows = call.rows \ {r}]
<1>1. /\ call.at = "save" /\ l \in Log /\ r \in call.rows
      /\ UNCHANGED <<calls, voyageTables>>
      /\ call' = next \/ call' = None
    BY DEF SavePoint, Goto, Refused, CallOK
<1>2. TablesTypeOK' /\ faults' \in 0 .. MaxFaults
    <2>1. Increment(points, {r}) \in [Row -> Nat]
        BY CounterTypes DEF CallsTypeOK, TablesTypeOK
    <2>2. points' \in [Row -> Nat]
        BY <2>1 DEF SavePoint, CallsTypeOK, TablesTypeOK
    <2>3. \/ UNCHANGED subclasses
          \/ subclasses' = [subclasses EXCEPT ![l] = @ \union {r}]
        BY DEF SavePoint
    <2>4. subclasses' \in [Log -> SUBSET Row]
        BY <2>3 DEF CallsTypeOK, TablesTypeOK
    <2>5. Fault \/ UNCHANGED faults
        BY DEF SavePoint
    <2> QED
        BY <1>1, <2>2, <2>4, <2>5, FaultTypes
           DEF CallsTypeOK, TablesTypeOK, voyageTables
<1>3. CASE call' = None
    BY <1>1, <1>2, <1>3, EndOK
<1>4. CASE call' = [call EXCEPT !.rows = call.rows \ {r}]
    <2>1. /\ call' \in CallRecord
          /\ call'.at = "save" /\ call'.log = l
          /\ call' # None
        BY <1>1, <1>4 DEF CallsTypeOK, CallRecord, None
    <2> QED
        BY <1>1, <1>2, <2>1 DEF CallsTypeOK, CallOK
<1> QED
    BY <1>1, <1>3, <1>4

LEMMA AbortOK ==
    ASSUME CallsTypeOK, CallOK, Abort
    PROVE  CallsTypeOK' /\ CallOK'
<1>1. TablesTypeOK'
    BY DEF Abort, CallsTypeOK, TablesTypeOK, tables
<1> QED
    BY <1>1, EndOK, FaultTypes DEF Abort, Goto, CallsTypeOK

LEMMA TypesKept ==
    ASSUME CallsTypeOK, CallOK, [Next]_vars
    PROVE  CallsTypeOK' /\ CallOK'
<1>1. CASE UNCHANGED vars
    BY <1>1 DEF CallsTypeOK, CallOK, TablesTypeOK, vars, tables
<1> QED
    BY <1>1, NextCases, ProcessOK, RemoveOK, EraseOK, SaveOK, SaveHostedOK,
       BatchSaveOK, DeleteRowsOK, PurgeOK, UnhostOK, DropOK, CreditOK,
       StripOK, TakePointsOK, SavePointOK, AbortOK

-----------------------------------------------------------------------------
(***************************************************************************)
(* Foreign keys.                                                           *)
(***************************************************************************)
LEMMA KeysKept ==
    ASSUME CallsTypeOK, CallOK, ForeignKeys, [Next]_vars
    PROVE  ForeignKeys'
<1>1. CASE UNCHANGED <<hosted, voyages, subclasses>>
    BY <1>1 DEF ForeignKeys
<1>2. CASE SaveHosted
    <2>1. hosted \subseteq hosted' /\ UNCHANGED <<voyages, subclasses>>
        BY <1>2 DEF SaveHosted, subclassTables
    <2> QED
        BY <2>1 DEF ForeignKeys
<1>3. CASE BatchSave
    <2>1. UNCHANGED <<hosted, subclasses>>
        BY <1>3 DEF BatchSave, subclassTables
    <2>2. \A l \in Log \ hosted : voyages'[l] = voyages[l]
        BY <1>3 DEF BatchSave, CallsTypeOK, TablesTypeOK
    <2> QED
        BY <2>1, <2>2 DEF ForeignKeys
<1>4. CASE DeleteRows
    <2>1. UNCHANGED <<hosted, voyages>>
        BY <1>4 DEF DeleteRows, voyageTables
    <2>2. \A l \in Log : subclasses'[l] \subseteq subclasses[l]
        BY <1>4 DEF DeleteRows, CallsTypeOK, TablesTypeOK
    <2> QED
        BY <2>1, <2>2 DEF ForeignKeys
<1>5. CASE Purge
    <2>1. UNCHANGED <<hosted, subclasses>>
        BY <1>5 DEF Purge, subclassTables
    <2>2. \A l \in Log : voyages'[l] \subseteq voyages[l]
        BY <1>5 DEF Purge, CallsTypeOK, TablesTypeOK
    <2> QED
        BY <2>1, <2>2 DEF ForeignKeys
<1>6. CASE Drop
    <2>1. UNCHANGED <<voyages, subclasses>>
        BY <1>6 DEF Drop, subclassTables
    <2>2. voyages[call.log] = {}
        BY <1>6 DEF Drop, CallOK
    <2>3. \/ hosted' = hosted
          \/ hosted' = hosted \ {call.log} /\ subclasses[call.log] = {}
        BY <1>6 DEF Drop
    <2> QED
        BY <2>1, <2>2, <2>3 DEF ForeignKeys
<1>7. CASE \E r \in Row : SavePoint(r)
    <2>1. PICK r \in Row : SavePoint(r)
        BY <1>7
    <2>2. UNCHANGED <<hosted, voyages>>
        BY <2>1 DEF SavePoint, voyageTables
    <2>3. \/ UNCHANGED subclasses
          \/ /\ call.log \in hosted
             /\ subclasses' = [subclasses EXCEPT ![call.log] = @ \union {r}]
        BY <2>1 DEF SavePoint
    <2>4. \A l \in Log \ hosted : subclasses'[l] = subclasses[l]
        BY <2>3 DEF CallsTypeOK, TablesTypeOK
    <2> QED
        BY <2>2, <2>4 DEF ForeignKeys
<1> QED
    BY NextCases, <1>1, <1>2, <1>3, <1>4, <1>5, <1>6, <1>7
       DEF Process, Remove, Erase, Save, Begin, Credit, Strip, TakePoints,
           Unhost, Abort, vars, tables, voyageTables, subclassTables

-----------------------------------------------------------------------------
(***************************************************************************)
(* The counters of hosts.                                                  *)
(***************************************************************************)
LEMMA HostedCards ==
    ASSUME CallsTypeOK, NEW s \in Sailor
    PROVE  /\ HostedBy(s) \in SUBSET Log
           /\ Cardinality(HostedBy(s)) \in Nat
           /\ hostedCount[s] \in Nat
BY LogsFinite DEF HostedBy, CallsTypeOK, TablesTypeOK

LEMMA HostedFrame ==
    ASSUME CallsTypeOK, HostedInv,
           UNCHANGED <<hosted, hostedCount>>, call'.at # "drop"
    PROVE  HostedInv'
BY HostedCards DEF HostedInv, HostedBy, Dropped

\* The row and the counter, or neither.
LEMMA SaveHostedHosts ==
    ASSUME CallsTypeOK, CallOK, HostedInv, SaveHosted
    PROVE  HostedInv'
<1> DEFINE l == call.log
<1>1. l \in Log /\ l \notin hosted /\ call'.at = "crew"
    BY DEF SaveHosted, Goto, CallOK, CallsTypeOK, CallRecord, Points
<1>2. CASE UNCHANGED <<hosted, hostedCount>>
    BY <1>1, <1>2, HostedFrame
<1>3. CASE /\ hosted' = hosted \union {l}
           /\ hostedCount' = Increment(hostedCount, {Author[l]})
    <2> SUFFICES ASSUME NEW s \in Sailor
                 PROVE  hostedCount'[s] + Dropped(s)' <= Cardinality(HostedBy(s)')
        BY DEF HostedInv
    <2>0. Dropped(s)' = 0 /\ Dropped(s) = 0
        BY <1>1 DEF Dropped, SaveHosted
    <2>1. /\ hostedCount[s] <= Cardinality(HostedBy(s))
          /\ hostedCount[s] \in Nat /\ Cardinality(HostedBy(s)) \in Nat
        BY HostedCards DEF HostedInv, Dropped
    <2>2. hostedCount \in [Sailor -> Nat]
        BY DEF CallsTypeOK, TablesTypeOK
    <2>3. CASE s = Author[l]
        <3>1. HostedBy(s)' = HostedBy(s) \union {l} /\ l \notin HostedBy(s)
            BY <1>1, <1>3, <2>3 DEF HostedBy
        <3>2. hostedCount'[s] = hostedCount[s] + 1
            BY <1>3, <2>2, <2>3 DEF Increment
        <3>3. Cardinality(HostedBy(s)') = Cardinality(HostedBy(s)) + 1
            BY <1>1, <3>1, HostedCards, AddLog
        <3> QED
            BY <2>0, <2>1, <3>2, <3>3
    <2>4. CASE s # Author[l]
        <3>1. HostedBy(s)' = HostedBy(s)
            BY <1>3, <2>4 DEF HostedBy
        <3>2. hostedCount'[s] = hostedCount[s]
            BY <1>3, <2>2, <2>4 DEF Increment
        <3> QED
            BY <2>0, <2>1, <3>1, <3>2
    <2> QED
        BY <2>3, <2>4
<1> QED
    BY <1>2, <1>3 DEF SaveHosted

\* The counter first: the row is there, so that there is one to take.
LEMMA UnhostHosts ==
    ASSUME CallsTypeOK, CallOK, HostedInv, Unhost
    PROVE  HostedInv'
<1> DEFINE l == call.log
<1>1. /\ l \in Log /\ l \in hosted
      /\ call.at = "unhost" /\ call'.at = "drop" /\ call'.log = l
      /\ hostedCount' = Decrement(hostedCount, {Author[l]})
      /\ UNCHANGED hosted
    BY DEF Unhost, Goto, CallOK, CallsTypeOK, CallRecord, Points
<1> SUFFICES ASSUME NEW s \in Sailor
             PROVE  hostedCount'[s] + Dropped(s)' <= Cardinality(HostedBy(s)')
    BY DEF HostedInv
<1>2. /\ hostedCount[s] <= Cardinality(HostedBy(s))
      /\ hostedCount[s] \in Nat /\ Cardinality(HostedBy(s)) \in Nat
    BY <1>1, HostedCards DEF HostedInv, Dropped
<1>3. HostedBy(s)' = HostedBy(s)
    BY <1>1 DEF HostedBy
<1>4. hostedCount \in [Sailor -> Nat]
    BY DEF CallsTypeOK, TablesTypeOK
<1>5. CASE s = Author[l]
    <2>1. Cardinality(HostedBy(s)) > 0
        BY <1>1, <1>5, HostedCards, RemoveLog DEF HostedBy
    <2>2. hostedCount'[s] = Decremented(hostedCount[s]) /\ Dropped(s)' = 1
        BY <1>1, <1>4, <1>5 DEF Decrement, Dropped
    <2> QED
        BY <1>2, <1>3, <2>1, <2>2 DEF Decremented
<1>6. CASE s # Author[l]
    <2>1. hostedCount'[s] = hostedCount[s] /\ Dropped(s)' = 0
        BY <1>1, <1>4, <1>6 DEF Decrement, Dropped
    <2> QED
        BY <1>2, <1>3, <2>1
<1> QED
    BY <1>5, <1>6

LEMMA DropHosts ==
    ASSUME CallsTypeOK, CallOK, HostedInv, Drop
    PROVE  HostedInv'
<1> DEFINE l == call.log
<1>1. /\ l \in Log /\ l \in hosted /\ call.at = "drop" /\ call'.at = "none"
      /\ UNCHANGED hostedCount
    BY NoneTypes DEF Drop, Goto, Refused, CallOK
<1>2. CASE hosted' = hosted
    BY <1>1, <1>2, HostedFrame
<1>3. CASE hosted' = hosted \ {l}
    <2> SUFFICES ASSUME NEW s \in Sailor
                 PROVE  hostedCount'[s] + Dropped(s)' <= Cardinality(HostedBy(s)')
        BY DEF HostedInv
    <2>1. /\ hostedCount[s] + Dropped(s) <= Cardinality(HostedBy(s))
          /\ hostedCount[s] \in Nat /\ Cardinality(HostedBy(s)) \in Nat
        BY HostedCards DEF HostedInv
    <2>2. Dropped(s)' = 0 /\ hostedCount'[s] = hostedCount[s]
        BY <1>1 DEF Dropped
    <2>3. CASE s = Author[l]
        <3>1. HostedBy(s)' = HostedBy(s) \ {l} /\ l \in HostedBy(s)
            BY <1>1, <1>3, <2>3 DEF HostedBy
        <3>2. Cardinality(HostedBy(s)') = Cardinality(HostedBy(s)) - 1
            BY <3>1, HostedCards, RemoveLog
        <3>3. Dropped(s) = 1
            BY <1>1, <2>3 DEF Dropped
        <3> QED
            BY <2>1, <2>2, <3>2, <3>3
    <2>4. CASE s # Author[l]
        <3>1. HostedBy(s)' = HostedBy(s) /\ Dropped(s) = 0
            BY <1>3, <2>4 DEF HostedBy, Dropped
        <3> QED
            BY <2>1, <2>2, <3>1
    <2> QED
        BY <2>3, <2>4
<1> QED
    BY <1>2, <1>3 DEF Drop

\* Calls that go on elsewhere.
LEMMA HostsAlone ==
    ASSUME CallsTypeOK, CallOK, [Next]_vars, ~UNCHANGED vars,
           ~(SaveHosted \/ Unhost \/ Drop)
    PROVE  UNCHANGED <<hosted, hostedCount>> /\ call'.at # "drop"
<1>1. UNCHANGED <<hosted, hostedCount>>
    BY NextCases
       DEF Process, Remove, Erase, Save, Begin, Credit, Strip, TakePoints,
           BatchSave, DeleteRows, Purge, SavePoint, Abort, tables,
           voyageTables
<1>2. call'.at # "drop"
    <2>1. CASE \E l \in Log :
                 \/ \E mentions \in Mentions : Process(l, mentions)
                 \/ Remove(l)
                 \/ Erase(l)
                 \/ \E rows \in SUBSET Row : Save(l, rows)
        BY <2>1 DEF Process, Remove, Erase, Save, Begin, None, Participants
    <2>2. CASE BatchSave \/ Abort
        BY <2>2, NoneTypes DEF BatchSave, Abort, Goto
    <2>3. CASE DeleteRows
        BY <2>3, NoneTypes DEF DeleteRows, Goto, Participants,
           CallsTypeOK, CallRecord
    <2>4. CASE Purge
        BY <2>4 DEF Purge, Goto, CallsTypeOK, CallRecord
    <2>5. CASE \E x \in Sailor : Credit(x) \/ Strip(x)
        <3>1. PICK x \in Sailor : Credit(x) \/ Strip(x)
            BY <2>5
        <3>2. CASE Credit(x)
            BY <3>2 DEF Credit, Goto, CallsTypeOK, CallRecord
        <3>3. CASE Strip(x)
            BY <3>3 DEF Strip, Goto, CallsTypeOK, CallRecord
        <3> QED
            BY <3>1, <3>2, <3>3
    <2>6. CASE \E r \in Row : TakePoints(r) \/ SavePoint(r)
        <3>1. PICK r \in Row : TakePoints(r) \/ SavePoint(r)
            BY <2>6
        <3>2. CASE TakePoints(r)
            BY <3>2 DEF TakePoints, Goto, CallsTypeOK, CallRecord
        <3>3. CASE SavePoint(r)
            BY <3>3, NoneTypes DEF SavePoint, Goto, Refused, CallsTypeOK, CallRecord
        <3> QED
            BY <3>1, <3>2, <3>3
    <2> QED
        BY NextCases, <2>1, <2>2, <2>3, <2>4, <2>5, <2>6
<1> QED
    BY <1>1, <1>2

LEMMA HostedKept ==
    ASSUME CallsTypeOK, CallOK, HostedInv, [Next]_vars
    PROVE  HostedInv'
<1>1. CASE SaveHosted \/ Unhost \/ Drop
    BY <1>1, SaveHostedHosts, UnhostHosts, DropHosts
<1>2. CASE UNCHANGED vars
    BY <1>2 DEF HostedInv, HostedBy, Dropped, vars, tables
<1>3. CASE ~(SaveHosted \/ Unhost \/ Drop) /\ ~UNCHANGED vars
    BY <1>3, HostsAlone, HostedFrame
<1> QED
    BY <1>1, <1>2, <1>3

\* A host falls short by a call that ends, or is refused, between the counter
\* and the row, and by nothing else.
LEMMA ShortKept ==
    ASSUME CallsTypeOK, CallOK, refused \in [Refusals -> Nat], ShortInv, [Next]_vars
    PROVE  ShortInv'
<1> DEFINE l == call.log
<1>1. CASE UNCHANGED vars
    BY <1>1 DEF ShortInv, HostedBy, Dropped, vars, tables
<1> SUFFICES ASSUME ~UNCHANGED vars, NEW s \in Sailor
             PROVE  Cardinality(HostedBy(s)')
                        <= hostedCount'[s] + Dropped(s)' + faults' + refused'["delete"]
    BY <1>1 DEF ShortInv
<1>2. /\ faults \in Nat /\ faults' \in Nat /\ faults' >= faults
      /\ refused["delete"] \in Nat /\ refused'["delete"] \in Nat
      /\ refused'["delete"] >= refused["delete"]
    BY FaultsGrow DEF Refusals
<1>3. /\ Cardinality(HostedBy(s)) <= hostedCount[s] + Dropped(s) + faults + refused["delete"]
      /\ hostedCount[s] \in Nat /\ Cardinality(HostedBy(s)) \in Nat
      /\ hostedCount \in [Sailor -> Nat]
      /\ HostedBy(s) \in SUBSET Log /\ Dropped(s) \in {0, 1}
    BY HostedCards DEF ShortInv, CallsTypeOK, TablesTypeOK, Dropped
<1>4. CASE SaveHosted
    <2>1. l \in Log /\ l \notin hosted /\ call'.at = "crew" /\ call.at = "host"
        BY <1>4 DEF SaveHosted, Goto, CallOK, CallsTypeOK, CallRecord, Points
    <2>2. Dropped(s) = 0 /\ Dropped(s)' = 0
        BY <2>1 DEF Dropped
    <2>3. CASE UNCHANGED <<hosted, hostedCount>>
        <3>1. HostedBy(s)' = HostedBy(s)
            BY <2>3 DEF HostedBy
        <3> QED
            BY <1>2, <1>3, <2>2, <2>3, <3>1
    <2>4. CASE /\ hosted' = hosted \union {l}
               /\ hostedCount' = Increment(hostedCount, {Author[l]})
        <3>1. CASE s = Author[l]
            <4>1. HostedBy(s)' = HostedBy(s) \union {l} /\ l \notin HostedBy(s)
                BY <2>1, <2>4, <3>1 DEF HostedBy
            <4>2. hostedCount'[s] = hostedCount[s] + 1
                BY <1>3, <2>4, <3>1 DEF Increment
            <4>3. Cardinality(HostedBy(s)') = Cardinality(HostedBy(s)) + 1
                BY <1>3, <2>1, <4>1, AddLog
            <4> QED
                BY <1>2, <1>3, <2>2, <4>2, <4>3
        <3>2. CASE s # Author[l]
            <4>1. HostedBy(s)' = HostedBy(s) /\ hostedCount'[s] = hostedCount[s]
                BY <1>3, <2>4, <3>2 DEF HostedBy, Increment
            <4> QED
                BY <1>2, <1>3, <2>2, <4>1
        <3> QED
            BY <3>1, <3>2
    <2> QED
        BY <1>4, <2>3, <2>4 DEF SaveHosted
<1>5. CASE Unhost
    <2>1. /\ l \in Log /\ call.at = "unhost" /\ call'.at = "drop" /\ call'.log = l
          /\ hostedCount' = Decrement(hostedCount, {Author[l]}) /\ UNCHANGED hosted
        BY <1>5 DEF Unhost, Goto, CallOK, CallsTypeOK, CallRecord, Points
    <2>2. HostedBy(s)' = HostedBy(s) /\ Dropped(s) = 0
        BY <2>1 DEF HostedBy, Dropped
    <2>3. CASE s = Author[l]
        <3>1. hostedCount'[s] = Decremented(hostedCount[s]) /\ Dropped(s)' = 1
            BY <1>3, <2>1, <2>3 DEF Decrement, Dropped
        <3> QED
            BY <1>2, <1>3, <2>2, <3>1 DEF Decremented
    <2>4. CASE s # Author[l]
        <3>1. hostedCount'[s] = hostedCount[s] /\ Dropped(s)' = 0
            BY <1>3, <2>1, <2>4 DEF Decrement, Dropped
        <3> QED
            BY <1>2, <1>3, <2>2, <3>1
    <2> QED
        BY <2>3, <2>4
<1>6. CASE Drop
    <2>1. /\ l \in Log /\ l \in hosted /\ call.at = "drop" /\ call'.at = "none"
          /\ UNCHANGED hostedCount
        BY <1>6, NoneTypes DEF Drop, Goto, Refused, CallOK
    <2>2. Dropped(s)' = 0 /\ hostedCount'[s] = hostedCount[s]
        BY <2>1 DEF Dropped
    <2>3. CASE UNCHANGED hosted /\ Refused("delete")
        <3>1. HostedBy(s)' = HostedBy(s) /\ refused'["delete"] = refused["delete"] + 1
            BY <2>3 DEF HostedBy, Refused, Refusals
        <3> QED
            BY <1>2, <1>3, <2>2, <3>1
    <2>4. CASE hosted' = hosted \ {l}
        <3>1. CASE s = Author[l]
            <4>1. HostedBy(s)' = HostedBy(s) \ {l} /\ l \in HostedBy(s)
                BY <2>1, <2>4, <3>1 DEF HostedBy
            <4>2. Cardinality(HostedBy(s)') = Cardinality(HostedBy(s)) - 1
                BY <1>3, <4>1, RemoveLog
            <4> QED
                BY <1>2, <1>3, <2>2, <4>2
        <3>2. CASE s # Author[l]
            <4>1. HostedBy(s)' = HostedBy(s) /\ Dropped(s) = 0
                BY <2>4, <3>2 DEF HostedBy, Dropped
            <4> QED
                BY <1>2, <1>3, <2>2, <4>1
        <3> QED
            BY <3>1, <3>2
    <2> QED
        BY <1>6, <2>3, <2>4 DEF Drop
<1>7. CASE ~(SaveHosted \/ Unhost \/ Drop)
    <2>1. UNCHANGED <<hosted, hostedCount>> /\ call'.at # "drop"
        BY <1>7, HostsAlone
    <2>2. HostedBy(s)' = HostedBy(s) /\ Dropped(s)' = 0
        BY <2>1 DEF HostedBy, Dropped
    <2>3. call.at = "drop" => Abort
        BY <1>7, NextCases, NoneTypes
           DEF Process, Remove, Erase, Save, Begin, BatchSave, DeleteRows, Purge,
               Credit, Strip, TakePoints, SavePoint
    <2>4. Dropped(s) = 0 \/ faults' = faults + 1
        BY <2>3 DEF Dropped, Abort, Fault
    <2> QED
        BY <1>2, <1>3, <2>1, <2>2, <2>4
<1> QED
    BY <1>4, <1>5, <1>6, <1>7

-----------------------------------------------------------------------------
(***************************************************************************)
(* The credits of participants.                                            *)
(***************************************************************************)
LEMMA VoyageCards ==
    ASSUME CallsTypeOK, NEW s \in Sailor
    PROVE  /\ VoyagesOf(s) \in SUBSET Log
           /\ Cardinality(VoyagesOf(s)) \in Nat
           /\ voyageCount[s] \in Nat
           /\ faults \in Nat
           /\ Ahead(s) \in {0, 1} /\ Behind(s) \in {0, 1}
BY LogsFinite, CommitsAssumption
   DEF VoyagesOf, CallsTypeOK, TablesTypeOK, Ahead, Behind

LEMMA SlackType ==
    ASSUME CallsTypeOK, CallOK
    PROVE  Slack \in Nat /\ Slack <= faults
BY CommitsAssumption DEF Slack, CallOK, CallsTypeOK

LEMMA VoyageFrame ==
    ASSUME CallsTypeOK, CallOK, VoyageInv, UNCHANGED <<voyages, voyageCount>>,
           Slack' \in Nat, Slack' >= Slack,
           \A s \in Sailor : Ahead(s)' = Ahead(s) /\ Behind(s)' = Behind(s)
    PROVE  VoyageInv'
<1> SUFFICES ASSUME NEW s \in Sailor
             PROVE  /\ voyageCount'[s] + Behind(s)'
                        <= Cardinality(VoyagesOf(s)') + Ahead(s)' + Slack'
                    /\ Cardinality(VoyagesOf(s)') + Ahead(s)'
                        <= voyageCount'[s] + Behind(s)' + Slack'
    BY DEF VoyageInv
<1>1. VoyagesOf(s)' = VoyagesOf(s)
    BY DEF VoyagesOf
<1> QED
    BY <1>1, VoyageCards, SlackType DEF VoyageInv

\* Steps that neither credit anyone nor change a crew.
LEMMA BeginVoyages ==
    ASSUME CallsTypeOK, CallOK, VoyageInv, NEW l \in Log,
           \/ \E mentions \in Mentions : Process(l, mentions)
           \/ Remove(l)
           \/ Erase(l)
           \/ \E rows \in SUBSET Row : Save(l, rows)
    PROVE  VoyageInv'
<1>1. call.at = "none" /\ UNCHANGED <<tables, faults>>
    BY NoneTypes DEF Process, Remove, Erase, Save, Begin
<1>2. /\ call'.at # "crew"
      /\ call'.at \in {"strip", "rows", "purge"} =>
            call'.log = l /\ call'.todo = voyages[l]
    BY DEF Process, Remove, Erase, Save, Begin, None, Participants
<1>3. \A s \in Sailor : Ahead(s)' = Ahead(s) /\ Behind(s)' = Behind(s)
    BY <1>1, <1>2 DEF Ahead, Behind, tables
<1>4. Slack = faults /\ Slack' = faults
    BY <1>1, <1>2 DEF Slack
<1> QED
    BY <1>1, <1>3, <1>4, SlackType, VoyageFrame DEF tables

LEMMA SaveHostedVoyages ==
    ASSUME CallsTypeOK, CallOK, VoyageInv, SaveHosted
    PROVE  VoyageInv'
<1>1. /\ call.at = "host" /\ call.log \notin hosted /\ call.done = {}
      /\ call'.at = "crew" /\ call'.log = call.log /\ call'.done = {}
      /\ UNCHANGED <<voyages, voyageCount>>
    BY DEF SaveHosted, Goto, CallOK, CallsTypeOK, CallRecord
<1>2. \A s \in Sailor : Ahead(s)' = Ahead(s) /\ Behind(s)' = Behind(s)
    BY <1>1 DEF Ahead, Behind
<1>3. faults \in Nat /\ Slack = faults
    BY <1>1, CommitsAssumption DEF Slack, CallsTypeOK
<1>4. CASE call.log \in hosted' /\ UNCHANGED faults
    BY <1>1, <1>2, <1>3, <1>4, VoyageFrame DEF Slack
<1>5. CASE Fault /\ UNCHANGED hosted
    <2>1. Slack' = faults
        BY <1>1, <1>3, <1>5, FaultTypes DEF Slack
    <2> QED
        BY <1>1, <1>2, <1>3, <2>1, VoyageFrame
<1> QED
    BY <1>4, <1>5 DEF SaveHosted

LEMMA OtherVoyages ==
    ASSUME CallsTypeOK, CallOK, VoyageInv,
           \/ DeleteRows
           \/ Unhost
           \/ Drop
           \/ \E r \in Row : TakePoints(r) \/ SavePoint(r)
    PROVE  VoyageInv'
<1>1. /\ UNCHANGED <<voyages, voyageCount>>
      /\ Fault \/ UNCHANGED faults
      /\ call.at \notin {"crew", "purge", "strip"}
    BY DEF DeleteRows, Unhost, Drop, TakePoints, SavePoint, voyageTables
<1>2. \/ /\ call'.at # "crew"
         /\ call.at # "rows"
         /\ call'.at \notin {"strip", "rows", "purge"}
      \/ /\ call.at = "rows" /\ call'.at \in {"strip", "rows", "purge"}
         /\ call'.log = call.log /\ call'.todo = call.todo
    <2>1. CASE DeleteRows
        BY <2>1, NoneTypes
           DEF DeleteRows, Goto, Participants, CallsTypeOK, CallRecord
    <2>2. CASE Unhost
        BY <2>2 DEF Unhost, Goto, CallsTypeOK, CallRecord
    <2>3. CASE Drop
        BY <2>3, NoneTypes DEF Drop, Goto, Refused
    <2>4. CASE \E r \in Row : TakePoints(r)
        BY <2>4 DEF TakePoints, Goto, CallsTypeOK, CallRecord
    <2>5. CASE \E r \in Row : SavePoint(r)
        BY <2>5, NoneTypes DEF SavePoint, Goto, Refused, CallsTypeOK, CallRecord
    <2> QED
        BY <2>1, <2>2, <2>3, <2>4, <2>5
<1>3. \A s \in Sailor : Ahead(s)' = Ahead(s) /\ Behind(s)' = Behind(s)
    BY <1>1, <1>2 DEF Ahead, Behind
<1>4. Slack = faults /\ Slack' = faults'
    BY <1>1, <1>2 DEF Slack
<1>5. faults' \in Nat /\ faults' >= faults
    BY <1>1, FaultTypes, CommitsAssumption
<1> QED
    BY <1>1, <1>3, <1>4, <1>5, VoyageFrame

\* One participant: the credit comes before the row.
LEMMA CreditVoyages ==
    ASSUME CallsTypeOK, CallOK, VoyageInv, NEW x \in Sailor, Credit(x)
    PROVE  VoyageInv'
<1>1. /\ call.at = "crew" /\ call'.at = "crew" /\ call'.log = call.log
      /\ x \in call.todo /\ x \notin call.done
      /\ UNCHANGED <<hosted, voyages>>
    BY DEF Credit, Goto, CallOK, CallsTypeOK, CallRecord
<1>2. \A s \in Sailor : VoyagesOf(s)' = VoyagesOf(s)
    BY <1>1 DEF VoyagesOf
<1>3. \A s \in Sailor : Behind(s)' = 0 /\ Behind(s) = 0
    BY <1>1 DEF Behind
<1>4. voyageCount \in [Sailor -> Nat]
    BY DEF CallsTypeOK, TablesTypeOK
<1>5. CASE x \in voyages[call.log]
    <2>1. /\ call' = [call EXCEPT !.todo = @ \ {x}]
          /\ UNCHANGED <<voyageCount, faults>>
        BY <1>5 DEF Credit, Goto
    <2>2. \A s \in Sailor : Ahead(s)' = Ahead(s)
        BY <1>1, <2>1 DEF Ahead, CallsTypeOK, CallRecord
    <2>3. Slack' = Slack
        BY <1>1, <2>1 DEF Slack
    <2> QED
        BY <1>1, <1>3, <2>1, <2>2, <2>3, SlackType, VoyageFrame
<1>6. CASE x \notin voyages[call.log]
    <2>1. /\ call' = [call EXCEPT !.todo = @ \ {x}, !.done = @ \union {x}]
          /\ \/ voyageCount' = Increment(voyageCount, {x}) /\ UNCHANGED faults
             \/ Fault /\ UNCHANGED voyageCount
        BY <1>6 DEF Credit, Goto
    <2>2. call'.done = call.done \union {x}
        BY <2>1 DEF CallsTypeOK, CallRecord
    <2>3. Slack' = Slack + (faults' - faults)
        BY <1>1, <2>1, FaultTypes DEF Slack, CallOK
    <2>4. faults' = faults \/ faults' = faults + 1
        BY <2>1, FaultTypes
    <2> SUFFICES ASSUME NEW s \in Sailor
                 PROVE  /\ voyageCount'[s] + Behind(s)'
                            <= Cardinality(VoyagesOf(s)') + Ahead(s)' + Slack'
                        /\ Cardinality(VoyagesOf(s)') + Ahead(s)'
                            <= voyageCount'[s] + Behind(s)' + Slack'
        BY DEF VoyageInv
    <2>5. /\ voyageCount[s] + Behind(s)
                <= Cardinality(VoyagesOf(s)) + Ahead(s) + Slack
          /\ Cardinality(VoyagesOf(s)) + Ahead(s)
                <= voyageCount[s] + Behind(s) + Slack
        BY DEF VoyageInv
    <2>6. CASE s # x
        <3>1. voyageCount'[s] = voyageCount[s] /\ Ahead(s)' = Ahead(s)
            BY <1>1, <1>4, <2>1, <2>2, <2>6 DEF Increment, Ahead
        <3> QED
            BY <1>2, <1>3, <2>3, <2>4, <2>5, <3>1, VoyageCards, SlackType
    <2>7. CASE s = x
        <3>1. Ahead(s)' = 1 /\ Ahead(s) = 0
            BY <1>1, <2>2, <2>7 DEF Ahead
        <3>2. \/ voyageCount'[s] = voyageCount[s] + 1 /\ faults' = faults
              \/ voyageCount'[s] = voyageCount[s] /\ faults' = faults + 1
            BY <1>4, <2>1, <2>7, FaultTypes DEF Increment
        <3> QED
            BY <1>2, <1>3, <2>3, <2>5, <3>1, <3>2, VoyageCards, SlackType
    <2> QED
        BY <2>6, <2>7
<1> QED
    BY <1>5, <1>6

\* The rows catch up, or, without a hosted row, never will: the fault that
\* lost the hosted row pays for that.
LEMMA BatchSaveVoyages ==
    ASSUME CallsTypeOK, CallOK, VoyageInv, BatchSave
    PROVE  VoyageInv'
<1> DEFINE l == call.log
<1>1. /\ call.at = "crew" /\ call'.at = "none" /\ l \in Log
      /\ call.done \intersect voyages[l] = {}
      /\ l \notin hosted => faults > 0
      /\ UNCHANGED <<hosted, voyageCount, faults>>
    BY NoneTypes DEF BatchSave, Goto, CallOK
<1>2. faults \in Nat
    BY CommitsAssumption DEF CallsTypeOK
<1>3. Slack' = faults
    BY <1>1 DEF Slack
<1> SUFFICES ASSUME NEW s \in Sailor
             PROVE  /\ voyageCount'[s] + Behind(s)'
                        <= Cardinality(VoyagesOf(s)') + Ahead(s)' + Slack'
                    /\ Cardinality(VoyagesOf(s)') + Ahead(s)'
                        <= voyageCount'[s] + Behind(s)' + Slack'
    BY DEF VoyageInv
<1>4. /\ voyageCount[s] + Behind(s)
            <= Cardinality(VoyagesOf(s)) + Ahead(s) + Slack
      /\ Cardinality(VoyagesOf(s)) + Ahead(s)
            <= voyageCount[s] + Behind(s) + Slack
    BY DEF VoyageInv
<1>5. Ahead(s)' = 0 /\ Behind(s)' = 0 /\ Behind(s) = 0
    BY <1>1 DEF Ahead, Behind
<1>6. CASE l \in hosted
    <2>1. voyages' = [voyages EXCEPT ![l] = @ \union call.done]
        BY <1>6 DEF BatchSave
    <2>2. Slack = faults
        BY <1>1, <1>6 DEF Slack
    <2>3. voyages \in [Log -> SUBSET Sailor]
        BY DEF CallsTypeOK, TablesTypeOK
    <2>4. CASE s \in call.done
        <3>1. VoyagesOf(s)' = VoyagesOf(s) \union {l} /\ l \notin VoyagesOf(s)
            BY <1>1, <2>1, <2>3, <2>4 DEF VoyagesOf
        <3>2. Cardinality(VoyagesOf(s)') = Cardinality(VoyagesOf(s)) + 1
            BY <1>1, <3>1, VoyageCards, AddLog
        <3>3. Ahead(s) = 1
            BY <1>1, <2>4 DEF Ahead
        <3> QED
            BY <1>1, <1>2, <1>3, <1>4, <1>5, <2>2, <3>2, <3>3, VoyageCards
    <2>5. CASE s \notin call.done
        <3>1. VoyagesOf(s)' = VoyagesOf(s)
            BY <1>1, <2>1, <2>3, <2>5 DEF VoyagesOf
        <3>2. Ahead(s) = 0
            BY <2>5 DEF Ahead
        <3> QED
            BY <1>1, <1>2, <1>3, <1>4, <1>5, <2>2, <3>1, <3>2, VoyageCards
    <2> QED
        BY <2>4, <2>5
<1>7. CASE l \notin hosted
    <2>1. VoyagesOf(s)' = VoyagesOf(s)
        BY <1>7 DEF BatchSave, VoyagesOf
    <2>2. Slack = faults - 1
        BY <1>1, <1>7 DEF Slack
    <2> QED
        BY <1>1, <1>2, <1>3, <1>4, <1>5, <1>7, <2>1, <2>2, VoyageCards
<1> QED
    BY <1>6, <1>7

\* The credit goes before the row.  The floor under the counter only makes a
\* drift smaller.
LEMMA StripVoyages ==
    ASSUME CallsTypeOK, CallOK, VoyageInv, NEW x \in Sailor, Strip(x)
    PROVE  VoyageInv'
<1> DEFINE l == call.log
<1>1. /\ call.at = "strip" /\ call'.at = "rows" /\ call'.log = l /\ l \in Log
      /\ x \in call.todo /\ x \in voyages[l] /\ call'.todo = call.todo \ {x}
      /\ voyageCount' = Decrement(voyageCount, {x})
      /\ UNCHANGED <<voyages, faults>>
    BY DEF Strip, Goto, CallOK, CallsTypeOK, CallRecord
<1>2. Slack' = faults /\ Slack = faults /\ faults \in Nat
    BY <1>1, CommitsAssumption DEF Slack, CallsTypeOK
<1>3. voyageCount \in [Sailor -> Nat]
    BY DEF CallsTypeOK, TablesTypeOK
<1> SUFFICES ASSUME NEW s \in Sailor
             PROVE  /\ voyageCount'[s] + Behind(s)'
                        <= Cardinality(VoyagesOf(s)') + Ahead(s)' + Slack'
                    /\ Cardinality(VoyagesOf(s)') + Ahead(s)'
                        <= voyageCount'[s] + Behind(s)' + Slack'
    BY DEF VoyageInv
<1>4. /\ voyageCount[s] + Behind(s)
            <= Cardinality(VoyagesOf(s)) + Ahead(s) + Slack
      /\ Cardinality(VoyagesOf(s)) + Ahead(s)
            <= voyageCount[s] + Behind(s) + Slack
    BY DEF VoyageInv
<1>5. VoyagesOf(s)' = VoyagesOf(s) /\ Ahead(s)' = 0 /\ Ahead(s) = 0
    BY <1>1 DEF VoyagesOf, Ahead
<1>6. CASE s # x
    <2>1. voyageCount'[s] = voyageCount[s] /\ Behind(s)' = Behind(s)
        BY <1>1, <1>3, <1>6 DEF Decrement, Behind
    <2> QED
        BY <1>2, <1>4, <1>5, <2>1, VoyageCards
<1>7. CASE s = x
    <2>1. voyageCount'[s] = Decremented(voyageCount[s])
        BY <1>1, <1>3, <1>7 DEF Decrement
    <2>2. Behind(s)' = 1 /\ Behind(s) = 0
        BY <1>1, <1>7 DEF Behind
    <2>3. Cardinality(VoyagesOf(s)) > 0
        BY <1>1, <1>7, VoyageCards, RemoveLog DEF VoyagesOf
    <2> QED
        BY <1>2, <1>4, <1>5, <2>1, <2>2, <2>3, VoyageCards DEF Decremented
<1> QED
    BY <1>6, <1>7

LEMMA PurgeVoyages ==
    ASSUME CallsTypeOK, CallOK, VoyageInv, Purge
    PROVE  VoyageInv'
<1> DEFINE l == call.log
<1>1. /\ call.at = "purge" /\ call'.at = "unhost" /\ l \in Log
      /\ call.todo = {}
      /\ voyages' = [voyages EXCEPT ![l] = {}]
      /\ UNCHANGED <<voyageCount, faults>>
    BY DEF Purge, Goto, CallOK, CallsTypeOK, CallRecord
<1>2. Slack' = faults /\ Slack = faults /\ faults \in Nat
    BY <1>1, CommitsAssumption DEF Slack, CallsTypeOK
<1>3. voyages \in [Log -> SUBSET Sailor]
    BY DEF CallsTypeOK, TablesTypeOK
<1> SUFFICES ASSUME NEW s \in Sailor
             PROVE  /\ voyageCount'[s] + Behind(s)'
                        <= Cardinality(VoyagesOf(s)') + Ahead(s)' + Slack'
                    /\ Cardinality(VoyagesOf(s)') + Ahead(s)'
                        <= voyageCount'[s] + Behind(s)' + Slack'
    BY DEF VoyageInv
<1>4. /\ voyageCount[s] + Behind(s)
            <= Cardinality(VoyagesOf(s)) + Ahead(s) + Slack
      /\ Cardinality(VoyagesOf(s)) + Ahead(s)
            <= voyageCount[s] + Behind(s) + Slack
    BY DEF VoyageInv
<1>5. Ahead(s)' = 0 /\ Ahead(s) = 0 /\ Behind(s)' = 0
    BY <1>1 DEF Ahead, Behind
<1>6. CASE s \in voyages[l]
    <2>1. VoyagesOf(s)' = VoyagesOf(s) \ {l} /\ l \in VoyagesOf(s)
        BY <1>1, <1>3, <1>6 DEF VoyagesOf
    <2>2. /\ Cardinality(VoyagesOf(s)) > 0
          /\ Cardinality(VoyagesOf(s)') = Cardinality(VoyagesOf(s)) - 1
        BY <2>1, VoyageCards, RemoveLog
    <2>3. Behind(s) = 1
        BY <1>1, <1>6 DEF Behind
    <2> QED
        BY <1>1, <1>2, <1>4, <1>5, <2>2, <2>3, VoyageCards
<1>7. CASE s \notin voyages[l]
    <2>1. VoyagesOf(s)' = VoyagesOf(s)
        BY <1>1, <1>3, <1>7 DEF VoyagesOf
    <2>2. Behind(s) = 0
        BY <1>7 DEF Behind
    <2> QED
        BY <1>1, <1>2, <1>4, <1>5, <2>1, <2>2, VoyageCards
<1> QED
    BY <1>6, <1>7

\* What was ahead or behind stays so, and the fault pays for it.
LEMMA AbortVoyages ==
    ASSUME CallsTypeOK, CallOK, VoyageInv, Abort
    PROVE  VoyageInv'
<1>1. call'.at = "none" /\ UNCHANGED <<voyages, voyageCount>>
    BY NoneTypes DEF Abort, Goto, tables
<1>2. Slack' = faults + 1 /\ faults \in Nat
    BY <1>1, FaultTypes DEF Abort, Slack
<1> SUFFICES ASSUME NEW s \in Sailor
             PROVE  /\ voyageCount'[s] + Behind(s)'
                        <= Cardinality(VoyagesOf(s)') + Ahead(s)' + Slack'
                    /\ Cardinality(VoyagesOf(s)') + Ahead(s)'
                        <= voyageCount'[s] + Behind(s)' + Slack'
    BY DEF VoyageInv
<1>3. /\ voyageCount[s] + Behind(s)
            <= Cardinality(VoyagesOf(s)) + Ahead(s) + Slack
      /\ Cardinality(VoyagesOf(s)) + Ahead(s)
            <= voyageCount[s] + Behind(s) + Slack
    BY DEF VoyageInv
<1>4. VoyagesOf(s)' = VoyagesOf(s) /\ Ahead(s)' = 0 /\ Behind(s)' = 0
    BY <1>1 DEF VoyagesOf, Ahead, Behind
<1>5. ~(Ahead(s) = 1 /\ Behind(s) = 1)
    BY DEF Ahead, Behind
<1> QED
    BY <1>1, <1>2, <1>3, <1>4, <1>5, VoyageCards, SlackType

LEMMA VoyagesKept ==
    ASSUME CallsTypeOK, CallOK, VoyageInv, [Next]_vars
    PROVE  VoyageInv'
<1>1. CASE UNCHANGED vars
    BY <1>1 DEF VoyageInv, VoyagesOf, Ahead, Behind, Slack, vars, tables
<1> QED
    BY <1>1, NextCases, BeginVoyages, SaveHostedVoyages, OtherVoyages,
       CreditVoyages, BatchSaveVoyages, StripVoyages, PurgeVoyages,
       AbortVoyages

-----------------------------------------------------------------------------
(***************************************************************************)
(* The points of subclasses.                                               *)
(***************************************************************************)
LEMMA PointCards ==
    ASSUME CallsTypeOK, NEW r \in Row
    PROVE  /\ LogsWith(r) \in SUBSET Log
           /\ Cardinality(LogsWith(r)) \in Nat
           /\ points[r] \in Nat
           /\ faults \in Nat
           /\ Taken(r) \in {0, 1}
BY LogsFinite, CommitsAssumption
   DEF LogsWith, CallsTypeOK, TablesTypeOK, Taken

LEMMA PointsFrame ==
    ASSUME CallsTypeOK, PointsInv, UNCHANGED <<points, subclasses>>,
           faults' \in Nat, faults' >= faults,
           (\A r \in Row : Taken(r)' = Taken(r)) \/ faults' = faults + 1
    PROVE  PointsInv'
<1> SUFFICES ASSUME NEW r \in Row
             PROVE  Cardinality(LogsWith(r)') <= points'[r] + Taken(r)' + faults'
    BY DEF PointsInv
<1>1. LogsWith(r)' = LogsWith(r)
    BY DEF LogsWith
<1>2. Taken(r)' \in {0, 1}
    BY DEF Taken
<1> QED
    BY <1>1, <1>2, PointCards DEF PointsInv

\* Steps that leave the subclass rows and points alone.
LEMMA PointsAlone ==
    ASSUME CallsTypeOK, CallOK, Next,
           ~DeleteRows, ~\E r \in Row : TakePoints(r) \/ SavePoint(r)
    PROVE  /\ UNCHANGED <<points, subclasses>>
           /\ \/ \A r \in Row : Taken(r)' = Taken(r)
              \/ faults' = faults + 1 /\ \A r \in Row : Taken(r)' = 0
<1>1. CASE UNCHANGED vars
    BY <1>1 DEF Taken, vars, tables
<1>2. CASE \E l \in Log :
             \/ \E mentions \in Mentions : Process(l, mentions)
             \/ Remove(l)
             \/ \E rows \in SUBSET Row : Save(l, rows)
    <2>1. /\ call.at = "none" /\ UNCHANGED <<points, subclasses>>
          /\ call'.at \notin {"rows", "erase"}
        BY <1>2, NoneTypes
           DEF Process, Remove, Save, Begin, None, Participants, tables
    <2> QED
        BY <2>1 DEF Taken
<1>3. CASE \E l \in Log : Erase(l)
    <2>1. /\ call.at = "none" /\ UNCHANGED <<points, subclasses>>
          /\ call'.rows = subclasses[call'.log]
        BY <1>3, NoneTypes DEF Erase, Begin, None, tables
    <2> QED
        BY <2>1 DEF Taken, RowsOf
<1>4. CASE \E s \in Sailor : Strip(s)
    <2>1. PICK s \in Sailor : Strip(s)
        BY <1>4
    <2>2. /\ call.at = "strip" /\ UNCHANGED <<points, subclasses>>
          /\ call'.rows = RowsOf(subclasses[call'.log], call'.who)
        BY <2>1 DEF Strip, Goto, CallsTypeOK, CallRecord, subclassTables
    <2> QED
        BY <2>2 DEF Taken
<1>5. CASE \/ SaveHosted \/ BatchSave \/ Purge \/ Unhost \/ Drop
           \/ \E s \in Sailor : Credit(s)
    <2>1. call.at \notin {"rows", "erase"} /\ UNCHANGED <<points, subclasses>>
        BY <1>5 DEF SaveHosted, BatchSave, Purge, Unhost, Drop, Credit,
                    subclassTables
    <2>2. call'.at \notin {"rows", "erase"}
        BY <1>5, NoneTypes
           DEF SaveHosted, BatchSave, Purge, Unhost, Drop, Credit, Goto, Refused,
               CallsTypeOK, CallRecord
    <2> QED
        BY <2>1, <2>2 DEF Taken
<1>6. CASE Abort
    <2>1. call'.at = "none" /\ UNCHANGED <<points, subclasses>> /\ faults' = faults + 1
        BY <1>6, NoneTypes DEF Abort, Goto, Fault, tables
    <2> QED
        BY <2>1 DEF Taken
<1> QED
    BY NextCases, <1>1, <1>2, <1>3, <1>4, <1>5, <1>6

LEMMA TakePointsPoints ==
    ASSUME CallsTypeOK, CallOK, PointsInv, NEW x \in Row, TakePoints(x)
    PROVE  PointsInv'
<1> DEFINE l == call.log
<1>1. /\ call.at \in {"rows", "erase"} /\ call'.at = call.at
      /\ call'.log = l /\ call'.who = call.who /\ call'.rows = call.rows \ {x}
      /\ x \in call.rows /\ x \in RowsOf(subclasses[l], call.who)
      /\ UNCHANGED subclasses
    BY DEF TakePoints, Goto, CallOK, CallsTypeOK, CallRecord
<1>2. \/ points' = Decrement(points, {x}) /\ faults' = faults
      \/ points' = points /\ faults' = faults + 1
    BY FaultTypes DEF TakePoints
<1>3. points \in [Row -> Nat]
    BY DEF CallsTypeOK, TablesTypeOK
<1> SUFFICES ASSUME NEW r \in Row
             PROVE  Cardinality(LogsWith(r)') <= points'[r] + Taken(r)' + faults'
    BY DEF PointsInv
<1>4. Cardinality(LogsWith(r)) <= points[r] + Taken(r) + faults
    BY DEF PointsInv
<1>5. LogsWith(r)' = LogsWith(r)
    BY <1>1 DEF LogsWith
<1>6. CASE r = x
    <2>1. Taken(r) = 0 /\ Taken(r)' = 1
        BY <1>1, <1>6 DEF Taken
    <2>2. \/ points'[r] = Decremented(points[r]) /\ faults' = faults
          \/ points'[r] = points[r] /\ faults' = faults + 1
        BY <1>2, <1>3, <1>6 DEF Decrement
    <2> QED
        BY <1>4, <1>5, <2>1, <2>2, PointCards DEF Decremented
<1>7. CASE r # x
    <2>1. Taken(r)' = Taken(r)
        BY <1>1, <1>7 DEF Taken
    <2>2. points'[r] = points[r]
        BY <1>2, <1>3, <1>7 DEF Decrement
    <2> QED
        BY <1>2, <1>4, <1>5, <2>1, <2>2, PointCards
<1> QED
    BY <1>6, <1>7

\* The rows that go are the ones whose points have been taken back.
LEMMA DeleteRowsPoints ==
    ASSUME CallsTypeOK, CallOK, PointsInv, DeleteRows
    PROVE  PointsInv'
<1> DEFINE l == call.log
<1>1. /\ call.at \in {"rows", "erase"} /\ call.rows = {} /\ l \in Log
      /\ subclasses' = [subclasses EXCEPT ![l] = @ \ RowsOf(@, call.who)]
      /\ UNCHANGED <<points, faults>>
    BY DEF DeleteRows, CallOK
<1>2. call'.at \notin {"rows", "erase"}
    BY NoneTypes
       DEF DeleteRows, Goto, Participants, CallsTypeOK, CallRecord
<1>3. subclasses \in [Log -> SUBSET Row]
    BY DEF CallsTypeOK, TablesTypeOK
<1> SUFFICES ASSUME NEW r \in Row
             PROVE  Cardinality(LogsWith(r)') <= points'[r] + Taken(r)' + faults'
    BY DEF PointsInv
<1>4. Cardinality(LogsWith(r)) <= points[r] + Taken(r) + faults
    BY DEF PointsInv
<1>5. Taken(r)' = 0
    BY <1>2 DEF Taken
<1>6. CASE r \in RowsOf(subclasses[l], call.who)
    <2>1. LogsWith(r)' = LogsWith(r) \ {l} /\ l \in LogsWith(r)
        BY <1>1, <1>3, <1>6 DEF LogsWith, RowsOf
    <2>2. /\ Cardinality(LogsWith(r)) > 0
          /\ Cardinality(LogsWith(r)') = Cardinality(LogsWith(r)) - 1
        BY <2>1, PointCards, RemoveLog
    <2>3. Taken(r) = 1
        BY <1>1, <1>6 DEF Taken
    <2> QED
        BY <1>1, <1>4, <1>5, <2>2, <2>3, PointCards
<1>7. CASE r \notin RowsOf(subclasses[l], call.who)
    <2>1. LogsWith(r)' = LogsWith(r)
        BY <1>1, <1>3, <1>7 DEF LogsWith
    <2>2. Taken(r) = 0
        BY <1>7 DEF Taken
    <2> QED
        BY <1>1, <1>4, <1>5, <2>1, <2>2, PointCards
<1> QED
    BY <1>6, <1>7

\* The point comes before the row, and stays if the row fails.
LEMMA SavePointPoints ==
    ASSUME CallsTypeOK, CallOK, PointsInv, NEW x \in Row, SavePoint(x)
    PROVE  PointsInv'
<1> DEFINE l == call.log
<1>1. /\ call.at = "save" /\ l \in Log
      /\ call'.at \notin {"rows", "erase"}
    BY NoneTypes DEF SavePoint, Goto, Refused, CallOK, CallsTypeOK, CallRecord
<1>2. Fault \/ UNCHANGED faults
    BY DEF SavePoint
<1>3. points \in [Row -> Nat] /\ subclasses \in [Log -> SUBSET Row]
    BY DEF CallsTypeOK, TablesTypeOK
<1>4. \A r \in Row : Taken(r) = 0 /\ Taken(r)' = 0
    BY <1>1 DEF Taken
<1>5. CASE UNCHANGED <<points, subclasses>>
    BY <1>2, <1>4, <1>5, FaultTypes, CommitsAssumption, PointsFrame
<1>6. CASE /\ x \notin subclasses[l]
           /\ points' = Increment(points, {x})
           /\ \/ subclasses' = [subclasses EXCEPT ![l] = @ \union {x}]
              \/ UNCHANGED subclasses
    <2> SUFFICES ASSUME NEW r \in Row
                 PROVE  Cardinality(LogsWith(r)')
                            <= points'[r] + Taken(r)' + faults'
        BY DEF PointsInv
    <2>1. Cardinality(LogsWith(r)) <= points[r] + Taken(r) + faults
        BY DEF PointsInv
    <2>2. CASE r = x
        <3>1. points'[r] = points[r] + 1
            BY <1>3, <1>6, <2>2 DEF Increment
        <3>2. LogsWith(r)' = LogsWith(r) \/ LogsWith(r)' = LogsWith(r) \union {l}
            BY <1>1, <1>3, <1>6, <2>2 DEF LogsWith
        <3>3. l \notin LogsWith(r)
            BY <1>6, <2>2 DEF LogsWith
        <3>4. Cardinality(LogsWith(r)') <= Cardinality(LogsWith(r)) + 1
            BY <1>1, <3>2, <3>3, PointCards, AddLog
        <3>5. Cardinality(LogsWith(r)') \in Nat
            BY <1>1, <3>2, PointCards, LogsFinite
        <3> QED
            BY <1>2, <1>4, <2>1, <3>1, <3>4, <3>5, PointCards, FaultTypes
    <2>3. CASE r # x
        <3>1. points'[r] = points[r]
            BY <1>3, <1>6, <2>3 DEF Increment
        <3>2. LogsWith(r)' = LogsWith(r)
            BY <1>1, <1>3, <1>6, <2>3 DEF LogsWith
        <3> QED
            BY <1>2, <1>4, <2>1, <3>1, <3>2, PointCards, FaultTypes
    <2> QED
        BY <2>2, <2>3
<1> QED
    BY <1>5, <1>6 DEF SavePoint

LEMMA PointsKept ==
    ASSUME CallsTypeOK, CallOK, refused \in [Refusals -> Nat], PointsInv, [Next]_vars
    PROVE  PointsInv'
<1>1. CASE UNCHANGED vars
    BY <1>1 DEF PointsInv, LogsWith, Taken, vars, tables
<1>2. CASE Next /\ ~DeleteRows /\ ~\E r \in Row : TakePoints(r) \/ SavePoint(r)
    BY <1>2, PointsAlone, FaultsGrow, PointsFrame
<1> QED
    BY <1>1, <1>2, TakePointsPoints, DeleteRowsPoints, SavePointPoints

\* A point too many is left by a fault, or by a row that was refused, and by
\* nothing else.
LEMMA SpareKept ==
    ASSUME CallsTypeOK, CallOK, refused \in [Refusals -> Nat], SpareInv, [Next]_vars
    PROVE  SpareInv'
<1> DEFINE l == call.log
<1>1. CASE UNCHANGED vars
    BY <1>1 DEF SpareInv, LogsWith, Taken, vars, tables
<1> SUFFICES ASSUME Next, NEW r \in Row
             PROVE  points'[r] + Taken(r)'
                        <= Cardinality(LogsWith(r)') + faults' + refused'["insert"]
    BY <1>1 DEF SpareInv
<1>2. /\ faults \in Nat /\ faults' \in Nat /\ faults' >= faults
      /\ refused["insert"] \in Nat /\ refused'["insert"] \in Nat
      /\ refused'["insert"] >= refused["insert"]
    BY FaultsGrow DEF Refusals
<1>3. /\ points[r] + Taken(r) <= Cardinality(LogsWith(r)) + faults + refused["insert"]
      /\ points[r] \in Nat /\ Cardinality(LogsWith(r)) \in Nat
      /\ LogsWith(r) \in SUBSET Log /\ Taken(r) \in {0, 1}
      /\ points \in [Row -> Nat] /\ subclasses \in [Log -> SUBSET Row]
    BY PointCards DEF SpareInv, CallsTypeOK, TablesTypeOK
<1>4. CASE ~DeleteRows /\ ~\E x \in Row : TakePoints(x) \/ SavePoint(x)
    <2>1. UNCHANGED <<points, subclasses>> /\ (Taken(r)' = Taken(r) \/ Taken(r)' = 0)
        BY <1>4, PointsAlone
    <2>2. LogsWith(r)' = LogsWith(r)
        BY <2>1 DEF LogsWith
    <2> QED
        BY <1>2, <1>3, <2>1, <2>2
<1>5. ASSUME NEW x \in Row, TakePoints(x)
      PROVE  points'[r] + Taken(r)'
                <= Cardinality(LogsWith(r)') + faults' + refused'["insert"]
    <2>1. /\ call.at \in {"rows", "erase"} /\ call'.at = call.at
          /\ call'.log = l /\ call'.who = call.who /\ call'.rows = call.rows \ {x}
          /\ x \in call.rows /\ x \in RowsOf(subclasses[l], call.who)
          /\ l \in Log /\ UNCHANGED subclasses
        BY <1>5 DEF TakePoints, Goto, CallOK, CallsTypeOK, CallRecord
    <2>2. \/ points' = Decrement(points, {x}) /\ faults' = faults
          \/ points' = points /\ faults' = faults + 1
        BY <1>5, FaultTypes DEF TakePoints
    <2>3. LogsWith(r)' = LogsWith(r)
        BY <2>1 DEF LogsWith
    <2>4. CASE r = x
        <3>1. Taken(r) = 0 /\ Taken(r)' = 1
            BY <2>1, <2>4 DEF Taken
        <3>2. l \in LogsWith(r)
            BY <2>1, <2>4 DEF LogsWith, RowsOf
        <3>3. Cardinality(LogsWith(r)) > 0
            BY <1>3, <3>2, RemoveLog
        <3>4. \/ points'[r] = Decremented(points[r]) /\ faults' = faults
              \/ points'[r] = points[r] /\ faults' = faults + 1
            BY <1>3, <2>2, <2>4 DEF Decrement
        <3> QED
            BY <1>2, <1>3, <2>3, <3>1, <3>3, <3>4 DEF Decremented
    <2>5. CASE r # x
        <3>1. Taken(r)' = Taken(r) /\ points'[r] = points[r]
            BY <1>3, <2>1, <2>2, <2>5 DEF Taken, Decrement
        <3> QED
            BY <1>2, <1>3, <2>3, <3>1
    <2> QED
        BY <2>4, <2>5
<1>6. CASE DeleteRows
    <2>1. /\ call.at \in {"rows", "erase"} /\ call.rows = {} /\ l \in Log
          /\ subclasses' = [subclasses EXCEPT ![l] = @ \ RowsOf(@, call.who)]
          /\ UNCHANGED points
        BY <1>6 DEF DeleteRows, CallOK
    <2>2. Taken(r)' = 0
        BY <1>6, NoneTypes
           DEF DeleteRows, Goto, Participants, CallsTypeOK, CallRecord, Taken
    <2>3. CASE r \in RowsOf(subclasses[l], call.who)
        <3>1. LogsWith(r)' = LogsWith(r) \ {l} /\ l \in LogsWith(r) /\ Taken(r) = 1
            BY <1>3, <2>1, <2>3 DEF LogsWith, RowsOf, Taken
        <3>2. Cardinality(LogsWith(r)') = Cardinality(LogsWith(r)) - 1
            BY <1>3, <3>1, RemoveLog
        <3> QED
            BY <1>2, <1>3, <2>1, <2>2, <3>1, <3>2
    <2>4. CASE r \notin RowsOf(subclasses[l], call.who)
        <3>1. LogsWith(r)' = LogsWith(r)
            BY <1>3, <2>1, <2>4 DEF LogsWith
        <3> QED
            BY <1>2, <1>3, <2>1, <2>2, <3>1
    <2> QED
        BY <2>3, <2>4
<1>7. ASSUME NEW x \in Row, SavePoint(x)
      PROVE  points'[r] + Taken(r)'
                <= Cardinality(LogsWith(r)') + faults' + refused'["insert"]
    <2>1. call.at = "save" /\ l \in Log /\ call'.at \notin {"rows", "erase"}
        BY <1>7, NoneTypes
           DEF SavePoint, Goto, Refused, CallOK, CallsTypeOK, CallRecord
    <2>2. Taken(r) = 0 /\ Taken(r)' = 0
        BY <2>1 DEF Taken
    <2>3. CASE UNCHANGED <<points, subclasses>>
        <3>1. LogsWith(r)' = LogsWith(r)
            BY <2>3 DEF LogsWith
        <3> QED
            BY <1>2, <1>3, <2>2, <2>3, <3>1
    <2>4. CASE /\ points' = Increment(points, {x})
               /\ UNCHANGED subclasses
               /\ faults' = faults + 1 \/ refused'["insert"] = refused["insert"] + 1
        <3>1. LogsWith(r)' = LogsWith(r) /\ points'[r] <= points[r] + 1
              /\ points'[r] \in Nat
            BY <1>3, <2>4 DEF LogsWith, Increment
        <3> QED
            BY <1>2, <1>3, <2>2, <2>4, <3>1
    <2>5. CASE /\ x \notin subclasses[l]
               /\ points' = Increment(points, {x})
               /\ subclasses' = [subclasses EXCEPT ![l] = @ \union {x}]
        <3>1. CASE r = x
            <4>1. LogsWith(r)' = LogsWith(r) \union {l} /\ l \notin LogsWith(r)
                BY <1>3, <2>1, <2>5, <3>1 DEF LogsWith
            <4>2. Cardinality(LogsWith(r)') = Cardinality(LogsWith(r)) + 1
                BY <1>3, <2>1, <4>1, AddLog
            <4>3. points'[r] = points[r] + 1
                BY <1>3, <2>5, <3>1 DEF Increment
            <4> QED
                BY <1>2, <1>3, <2>2, <4>2, <4>3
        <3>2. CASE r # x
            <4>1. LogsWith(r)' = LogsWith(r) /\ points'[r] = points[r]
                BY <1>3, <2>1, <2>5, <3>2 DEF LogsWith, Increment
            <4> QED
                BY <1>2, <1>3, <2>2, <4>1
        <3> QED
            BY <3>1, <3>2
    <2> QED
        BY <1>7, <2>3, <2>4, <2>5 DEF SavePoint, Refused, Refusals, Fault
<1> QED
    BY <1>4, <1>5, <1>6, <1>7

-----------------------------------------------------------------------------
(***************************************************************************)
(* The theorems.                                                           *)
(***************************************************************************)
LEMMA CommitsInitially == Init => CommitsInv
<1> SUFFICES ASSUME Init
             PROVE  CommitsInv
    OBVIOUS
<1>1. CallsTypeOK
    <2>1. TablesTypeOK
        BY DEF Init, TablesInit, TablesTypeOK
    <2> QED
        BY <2>1, NoneTypes, CommitsAssumption DEF Init, CallsTypeOK
<1>2. CallOK
    BY NoneTypes DEF Init, CallOK
<1>3. ForeignKeys
    BY DEF Init, TablesInit, ForeignKeys
<1>4. Cardinality({}) = 0
    BY FS_EmptySet
<1>5. faults = 0 /\ call.at = "none"
    BY NoneTypes DEF Init
<1>9. /\ refused \in [Refusals -> Nat]
      /\ refused["delete"] = 0 /\ refused["insert"] = 0
    BY DEF Init, Refusals
<1>6. HostedInv /\ ShortInv
    <2>1. \A s \in Sailor : HostedBy(s) = {} /\ hostedCount[s] = 0
        BY DEF Init, TablesInit, HostedBy
    <2>2. \A s \in Sailor : Cardinality(HostedBy(s)) = 0 /\ Dropped(s) = 0
        BY <1>4, <1>5, <2>1 DEF Dropped
    <2> QED
        BY <1>5, <1>9, <2>1, <2>2 DEF HostedInv, ShortInv
<1>7. VoyageInv
    <2>1. \A s \in Sailor : VoyagesOf(s) = {} /\ voyageCount[s] = 0
        BY DEF Init, TablesInit, VoyagesOf
    <2> QED
        BY <1>4, <1>5, <2>1 DEF VoyageInv, Ahead, Behind, Slack
<1>8. PointsInv /\ SpareInv
    <2>1. \A r \in Row : LogsWith(r) = {} /\ points[r] = 0
        BY DEF Init, TablesInit, LogsWith
    <2>2. \A r \in Row : Cardinality(LogsWith(r)) = 0 /\ Taken(r) = 0
        BY <1>4, <1>5, <2>1 DEF Taken
    <2> QED
        BY <1>5, <1>9, <2>1, <2>2 DEF PointsInv, SpareInv
<1> QED
    BY <1>1, <1>2, <1>3, <1>6, <1>7, <1>8, <1>9 DEF CommitsInv

\* Between any two commits, whatever has failed before, the tables satisfy the
\* inductive invariant.
THEOREM CommitsInvariant == Spec => []CommitsInv
<1>1. Init => CommitsInv
    BY CommitsInitially
<1>2. CommitsInv /\ [Next]_vars => CommitsInv'
    BY TypesKept, KeysKept, HostedKept, VoyagesKept, PointsKept, ShortKept,
       SpareKept, RefusedTypes DEF CommitsInv
<1> QED
    BY <1>1, <1>2, PTL DEF Spec

\* Tables keep to their columns, counters do not fall below zero, and a call
\* that has begun names sailors, logs and rows, wherever it is cut short.
THEOREM CommitsTyped == Spec => []CommitsTypeOK
<1>1. CommitsInv => CommitsTypeOK
    BY DEF CommitsInv, CommitsTypeOK
<1> QED
    BY <1>1, CommitsInvariant, PTL

\* A host is never credited with more logs than hosted has rows for, however
\* many calls were cut short, and is short of at most one log for each of
\* them and for each deletion that a subclass row stood in the way of.
THEOREM HostedNeverAhead == Spec => []HostedDriftBounded
<1>1. CommitsInv => HostedDriftBounded
    <2> SUFFICES ASSUME CommitsInv, call = None, NEW s \in Sailor
                 PROVE  /\ hostedCount[s] <= Cardinality(HostedBy(s))
                        /\ Cardinality(HostedBy(s))
                            <= hostedCount[s] + faults + refused["delete"]
        BY DEF HostedDriftBounded, Between
    <2>1. Dropped(s) = 0
        BY NoneTypes DEF Dropped
    <2>2. hostedCount[s] + Dropped(s) <= Cardinality(HostedBy(s))
        BY DEF CommitsInv, HostedInv
    <2>3. Cardinality(HostedBy(s))
            <= hostedCount[s] + Dropped(s) + faults + refused["delete"]
        BY DEF CommitsInv, ShortInv
    <2> QED
        BY <2>1, <2>2, <2>3, HostedCards DEF CommitsInv
<1> QED
    BY <1>1, CommitsInvariant, PTL

\* Each fault moves a sailor's voyage_count away from the sailor's rows by
\* at most one, in either direction, and the calls that follow add nothing.
THEOREM VoyageDrift == Spec => []VoyageDriftBounded
<1>1. CommitsInv => VoyageDriftBounded
    <2> SUFFICES ASSUME CommitsInv, call = None, NEW s \in Sailor
                 PROVE  /\ voyageCount[s] <= Cardinality(VoyagesOf(s)) + faults
                        /\ Cardinality(VoyagesOf(s)) <= voyageCount[s] + faults
        BY DEF VoyageDriftBounded, Between
    <2>1. Ahead(s) = 0 /\ Behind(s) = 0 /\ Slack = faults
        BY NoneTypes DEF Ahead, Behind, Slack
    <2> QED
        BY <2>1, VoyageCards DEF CommitsInv, VoyageInv
<1> QED
    BY <1>1, CommitsInvariant, PTL

\* A sailor is short of at most one point of a subclass for each fault, and has
\* at most one too many for each fault and each row that was refused.
THEOREM PointsDrift == Spec => []PointsDriftBounded
<1>1. CommitsInv => PointsDriftBounded
    <2> SUFFICES ASSUME CommitsInv, call = None, NEW r \in Row
                 PROVE  /\ points[r]
                            <= Cardinality(LogsWith(r)) + faults + refused["insert"]
                        /\ Cardinality(LogsWith(r)) <= points[r] + faults
        BY DEF PointsDriftBounded, Between
    <2>1. Taken(r) = 0
        BY NoneTypes DEF Taken
    <2>2. Cardinality(LogsWith(r)) <= points[r] + Taken(r) + faults
        BY DEF CommitsInv, PointsInv
    <2>3. points[r] + Taken(r)
            <= Cardinality(LogsWith(r)) + faults + refused["insert"]
        BY DEF CommitsInv, SpareInv
    <2> QED
        BY <2>1, <2>2, <2>3, PointCards DEF CommitsInv
<1> QED
    BY <1>1, CommitsInvariant, PTL

-----------------------------------------------------------------------------
(***************************************************************************)
(* Calls are atomic until the first fault: what a call has committed so    *)
(* far, told from the tables it began with.  Rows and credits already      *)
(* dealt with are those no longer in call.todo and call.rows, so that one  *)
(* formula holds at every point of a removal.                              *)
(***************************************************************************)
TablesRecord ==
    [hosted : SUBSET Log, voyages : [Log -> SUBSET Sailor],
     subclasses : [Log -> SUBSET Row], hostedCount : [Sailor -> Nat],
     voyageCount : [Sailor -> Nat], points : [Row -> Nat]]

Begun == before \in TablesRecord

VoyagesAsBefore ==
    /\ hosted = before.hosted /\ voyages = before.voyages
    /\ hostedCount = before.hostedCount /\ voyageCount = before.voyageCount

SubclassesAsBefore ==
    subclasses = before.subclasses /\ points = before.points

\* process_voyage_log before its first commit, and among the participants: no
\* row of theirs is there yet, since the log had no hosted row.
HostOwes ==
    /\ VoyagesAsBefore /\ SubclassesAsBefore
    /\ Cardinality(call.todo) > 1

CrewOwes ==
    /\ call.log \notin before.hosted
    /\ hosted = before.hosted \union {call.log}
    /\ hostedCount = Increment(before.hostedCount, {Author[call.log]})
    /\ voyages = before.voyages /\ voyages[call.log] = {}
    /\ voyageCount = Increment(before.voyageCount, call.done)
    /\ Cardinality(call.todo \union call.done) > 1
    /\ SubclassesAsBefore

\* remove_voyage_log_data: who is gone has lost the credit; of those but the
\* one at hand the rows are deleted, of all of them points are taken back.
Removing == {"strip", "rows", "purge", "unhost", "drop"}
Gone == before.voyages[call.log] \ call.todo
OldRows(sailors) == RowsOf(before.subclasses[call.log], sailors)

RemoveOwes ==
    /\ hosted = before.hosted
    /\ call.todo \subseteq before.voyages[call.log]
    /\ call.who \subseteq Gone
    /\ call.rows \subseteq OldRows(call.who)
    /\ call.at # "rows" => call.who = {}
    /\ call.at \in {"purge", "unhost", "drop"} => call.todo = {}
    /\ voyages = IF call.at \in {"unhost", "drop"}
                 THEN [before.voyages EXCEPT ![call.log] = {}] ELSE before.voyages
    /\ hostedCount = IF call.at = "drop"
                     THEN Decrement(before.hostedCount, {Author[call.log]})
                     ELSE before.hostedCount
    /\ voyageCount = Decrement(before.voyageCount, Gone)
    /\ subclasses = [before.subclasses EXCEPT
                        ![call.log] = @ \ OldRows(Gone \ call.who)]
    /\ points = Decrement(before.points, OldRows(Gone) \ call.rows)

\* delete_all_subclass_entries_for_log_id takes every point before it deletes
\* the rows.
EraseOwes ==
    /\ VoyagesAsBefore
    /\ call.who = Sailor
    /\ call.rows \subseteq before.subclasses[call.log]
    /\ subclasses = before.subclasses
    /\ points = Decrement(before.points, before.subclasses[call.log] \ call.rows)

\* save_subclass for a list: so far, points and rows go together.
New == subclasses[call.log] \ before.subclasses[call.log]

SaveOwes ==
    /\ VoyagesAsBefore
    /\ subclasses = [before.subclasses EXCEPT ![call.log] = @ \union New]
    /\ points = Increment(before.points, New)

AtomicInv ==
    faults = 0 /\ call.at # "none" =>
        /\ Begun
        /\ call.at = "host" => HostOwes
        /\ call.at = "crew" => CrewOwes
        /\ call.at \in Removing => RemoveOwes
        /\ call.at = "erase" => EraseOwes
        /\ call.at = "save" => SaveOwes

\* What a call finds out about itself and the tables.
LEMMA AtomicTypes ==
    ASSUME CommitsInv
    PROVE  /\ TablesTypeOK
           /\ call.at = "none" <=> call = None
           /\ call.at # "none" => call.log \in Log
           /\ call.at \in Points
           /\ call.todo \subseteq Sailor /\ call.done \subseteq Sailor
           /\ call.rows \subseteq Row /\ call.who \subseteq Sailor
           /\ call \in CallRecord
           /\ faults \in Nat
BY CallFields, CommitsAssumption DEF CommitsInv, CallOK, CallsTypeOK

LEMMA TablesBegun ==
    ASSUME CommitsInv
    PROVE  Tables \in TablesRecord
BY DEF TablesRecord, CommitsInv, CallsTypeOK, TablesTypeOK, Tables

\* A call that begins has committed nothing.
LEMMA ProcessBegins ==
    ASSUME CommitsInv, faults = 0, NEW l \in Log, NEW mentions \in Mentions,
           Process(l, mentions)
    PROVE  AtomicInv'
<1>1. /\ call' = [None EXCEPT !.at = "host", !.log = l, !.todo = mentions]
      /\ before' = Tables /\ UNCHANGED tables
      /\ ~(Cardinality(mentions) <= 1)
    BY DEF Process, Begin, Skipped
<1>2. call'.at = "host" /\ call'.todo = mentions
    BY <1>1 DEF None
<1>3. IsFiniteSet(mentions)
    BY FS_Subset, LedgerAssumption, CommitsAssumption
<1>4. Cardinality(mentions) > 1
    BY <1>1, <1>3, FS_CardinalityType
<1>5. Begun'
    BY <1>1, TablesBegun DEF Begun
<1>6. HostOwes'
    BY <1>1, <1>2, <1>4 DEF HostOwes, VoyagesAsBefore, SubclassesAsBefore, Tables, tables
<1> QED
    BY <1>2, <1>5, <1>6 DEF AtomicInv, Removing

LEMMA RemoveBegins ==
    ASSUME CommitsInv, faults = 0, NEW l \in Log, Remove(l)
    PROVE  AtomicInv'
<1>1. /\ call' = [None EXCEPT !.at = Participants(voyages[l]), !.log = l,
                              !.todo = voyages[l]]
      /\ before' = Tables /\ UNCHANGED tables
    BY DEF Remove, Begin
<1>2. /\ call'.at = Participants(voyages[l]) /\ call'.log = l
      /\ call'.todo = voyages[l] /\ call'.who = {} /\ call'.rows = {}
    BY <1>1 DEF None
<1>3. call'.at \in {"purge", "strip"} /\ (call'.at = "purge" => voyages[l] = {})
    BY <1>2 DEF Participants
<1>4. Begun'
    BY <1>1, TablesBegun DEF Begun
<1>5. RemoveOwes'
    <2>1. TablesTypeOK
        BY AtomicTypes
    <2>2. Gone' = {}
        BY <1>1, <1>2 DEF Gone, Tables, tables
    <2>3. OldRows({})' = {}
        BY DEF OldRows, RowsOf
    <2>4. /\ before'.hosted = hosted' /\ before'.voyages = voyages'
          /\ before'.hostedCount = hostedCount' /\ before'.voyageCount = voyageCount'
          /\ before'.subclasses = subclasses' /\ before'.points = points'
        BY <1>1 DEF Tables, tables
    <2>5. /\ voyageCount' = Decrement(before'.voyageCount, {})
          /\ points' = Decrement(before'.points, {})
        BY <1>1, <2>1, <2>4, CountNothing DEF TablesTypeOK, tables
    <2>6. subclasses' = [before'.subclasses EXCEPT ![call'.log] = @ \ {}]
        BY <1>1, <1>2, <2>1, <2>4 DEF TablesTypeOK, tables
    <2>7. Gone' \ call'.who = {} /\ OldRows(Gone \ call.who)' = {} /\ OldRows(Gone)' = {}
          /\ OldRows(call.who)' = {}
        BY <1>2, <2>2 DEF OldRows, RowsOf
    <2>8. call'.todo \subseteq before'.voyages[call'.log]
        BY <1>1, <1>2, <2>4 DEF tables
    <2> QED
        BY <1>2, <1>3, <2>2, <2>4, <2>5, <2>6, <2>7, <2>8 DEF RemoveOwes
<1> QED
    BY <1>3, <1>4, <1>5 DEF AtomicInv, Removing

LEMMA EraseBegins ==
    ASSUME CommitsInv, faults = 0, NEW l \in Log, Erase(l)
    PROVE  AtomicInv'
<1>1. /\ call' = [None EXCEPT !.at = "erase", !.log = l, !.who = Sailor,
                              !.rows = subclasses[l]]
      /\ before' = Tables /\ UNCHANGED tables
    BY DEF Erase, Begin
<1>2. /\ call'.at = "erase" /\ call'.log = l /\ call'.who = Sailor
      /\ call'.rows = subclasses[l]
    BY <1>1 DEF None
<1>3. Begun'
    BY <1>1, TablesBegun DEF Begun
<1>4. EraseOwes'
    <2>1. TablesTypeOK
        BY AtomicTypes
    <2>2. before'.subclasses = subclasses' /\ before'.points = points'
        BY <1>1 DEF Tables, tables
    <2>3. points' = Decrement(before'.points, {})
        BY <1>1, <2>1, <2>2, CountNothing DEF TablesTypeOK, tables
    <2>4. before'.subclasses[call'.log] \ call'.rows = {}
        BY <1>1, <1>2, <2>2 DEF tables
    <2>5. VoyagesAsBefore'
        BY <1>1 DEF VoyagesAsBefore, Tables, tables
    <2> QED
        BY <1>1, <1>2, <2>2, <2>3, <2>4, <2>5 DEF EraseOwes, tables
<1> QED
    BY <1>2, <1>3, <1>4 DEF AtomicInv, Removing

LEMMA SaveBegins ==
    ASSUME CommitsInv, faults = 0, NEW l \in Log, NEW rows, Save(l, rows)
    PROVE  AtomicInv'
<1>1. /\ call' = [None EXCEPT !.at = "save", !.log = l, !.rows = rows]
      /\ before' = Tables /\ UNCHANGED tables
    BY DEF Save, Begin
<1>2. call'.at = "save" /\ call'.log = l
    BY <1>1 DEF None
<1>3. Begun'
    BY <1>1, TablesBegun DEF Begun
<1>4. SaveOwes'
    <2>1. TablesTypeOK
        BY AtomicTypes
    <2>2. before'.subclasses = subclasses' /\ before'.points = points'
        BY <1>1 DEF Tables, tables
    <2>3. New' = {}
        BY <2>2 DEF New
    <2>4. points' = Increment(before'.points, {})
        BY <1>1, <2>1, <2>2, CountNothing DEF TablesTypeOK, tables
    <2>5. subclasses' = [before'.subclasses EXCEPT ![call'.log] = @ \union {}]
        BY <1>1, <2>1, <2>2 DEF TablesTypeOK, tables
    <2>6. VoyagesAsBefore'
        BY <1>1 DEF VoyagesAsBefore, Tables, tables
    <2> QED
        BY <2>3, <2>4, <2>5, <2>6 DEF SaveOwes
<1> QED
    BY <1>2, <1>3, <1>4 DEF AtomicInv, Removing

\* Every step is a fault or none.
LEMMA FaultOrNot ==
    ASSUME [Next]_vars
    PROVE  Fault \/ UNCHANGED faults
<1>1. ASSUME NEW c, Begin(c) PROVE UNCHANGED faults
    BY <1>1 DEF Begin
<1>2. CASE \E l \in Log, mentions \in Mentions : Process(l, mentions)
    BY <1>1, <1>2 DEF Process
<1>3. CASE \E l \in Log : Remove(l)
    BY <1>1, <1>3 DEF Remove
<1>4. CASE \E l \in Log : Erase(l)
    BY <1>1, <1>4 DEF Erase
<1>5. CASE \E l \in Log, rows \in SUBSET Row : Save(l, rows)
    BY <1>1, <1>5 DEF Save
<1>6. CASE SaveHosted \/ BatchSave \/ DeleteRows \/ Purge \/ Unhost \/ Drop \/ Abort
    BY <1>6 DEF SaveHosted, BatchSave, DeleteRows, Purge, Unhost, Drop, Abort
<1>7. CASE \E s \in Sailor : Credit(s)
    BY <1>7 DEF Credit
<1>8. CASE \E s \in Sailor : Strip(s)
    BY <1>8 DEF Strip
<1>9. CASE \E r \in Row : TakePoints(r)
    BY <1>9 DEF TakePoints
<1>10. CASE \E r \in Row : SavePoint(r)
    BY <1>10 DEF SavePoint
<1>11. CASE UNCHANGED vars
    BY <1>11 DEF vars
<1> QED
    BY <1>2, <1>3, <1>4, <1>5, <1>6, <1>7, <1>8, <1>9, <1>10, <1>11, NextCases

LEMMA NoFaultYet ==
    ASSUME CommitsInv, [Next]_vars, faults' = 0
    PROVE  faults = 0 /\ ~Fault /\ UNCHANGED faults
BY FaultOrNot, FaultTypes DEF CommitsInv

\* A call that goes on keeps what it began with.
LEMMA StillBegun ==
    ASSUME AtomicInv, faults = 0, call.at # "none", NEW c, Goto(c)
    PROVE  Begun /\ Begun' /\ UNCHANGED before /\ call' = c
BY DEF AtomicInv, Begun, Goto

\* Commits: each adds one thing to what the call has done, and takes it off
\* what the call has left to do.
LEMMA SaveHostedOwes ==
    ASSUME CommitsInv, AtomicInv, faults = 0, ~Fault, SaveHosted
    PROVE  AtomicInv'
<1>1. /\ call.at = "host"
      /\ hosted' = hosted \union {call.log}
      /\ hostedCount' = Increment(hostedCount, {Author[call.log]})
      /\ Goto([call EXCEPT !.at = "crew"])
      /\ UNCHANGED <<voyages, voyageCount, subclassTables>>
    BY DEF SaveHosted
<1>2. Begun /\ Begun' /\ UNCHANGED before /\ call' = [call EXCEPT !.at = "crew"]
    BY <1>1, StillBegun
<1>3. /\ call'.at = "crew" /\ call'.log = call.log /\ call'.todo = call.todo
      /\ call'.done = {}
    BY <1>1, <1>2, AtomicTypes DEF CommitsInv, CallOK, CallRecord
<1>4. HostOwes /\ call.log \in Log /\ call.log \notin hosted /\ voyages[call.log] = {}
    BY <1>1, AtomicTypes DEF AtomicInv, CommitsInv, CallOK, ForeignKeys
<1>5. before.voyageCount \in [Sailor -> Nat]
    BY <1>2 DEF Begun, TablesRecord
<1>6. voyageCount' = Increment(before'.voyageCount, {})
    BY <1>1, <1>2, <1>4, <1>5, CountNothing DEF HostOwes, VoyagesAsBefore
<1>7. Cardinality(call'.todo \union call'.done) > 1
    <2>1. call'.todo \union call'.done = call.todo
        BY <1>3
    <2> QED
        BY <2>1, <1>4 DEF HostOwes
<1>8. CrewOwes'
    BY <1>1, <1>2, <1>3, <1>4, <1>6, <1>7
       DEF HostOwes, CrewOwes, VoyagesAsBefore, SubclassesAsBefore, subclassTables
<1> QED
    BY <1>2, <1>3, <1>8 DEF AtomicInv, Removing

LEMMA CreditOwes ==
    ASSUME CommitsInv, AtomicInv, faults = 0, ~Fault, NEW s \in Sailor, Credit(s)
    PROVE  AtomicInv'
<1>1. call.at = "crew" /\ s \in call.todo
    BY DEF Credit
<1>2. CrewOwes /\ call.log \in Log /\ Begun
    BY <1>1, AtomicTypes DEF AtomicInv
<1>3. /\ Goto([call EXCEPT !.todo = @ \ {s}, !.done = @ \union {s}])
      /\ voyageCount' = Increment(voyageCount, {s})
      /\ UNCHANGED <<hosted, hostedCount, voyages, subclassTables>>
    BY <1>2 DEF Credit, CrewOwes
<1>4. /\ Begun' /\ UNCHANGED before
      /\ call' = [call EXCEPT !.todo = @ \ {s}, !.done = @ \union {s}]
    BY <1>1, <1>3, StillBegun
<1>5. /\ call'.at = "crew" /\ call'.log = call.log /\ call'.todo = call.todo \ {s}
      /\ call'.done = call.done \union {s}
    BY <1>1, <1>4, AtomicTypes DEF CallRecord
<1>6. s \notin call.done
    BY <1>1 DEF CommitsInv, CallOK
<1>7. voyageCount' = Increment(before.voyageCount, call.done \union {s})
    <2>1. before.voyageCount \in [Sailor -> Nat] /\ call.done \intersect {s} = {}
        BY <1>2, <1>6 DEF Begun, TablesRecord
    <2> QED
        BY <1>2, <1>3, <2>1, IncrementTwice DEF CrewOwes
<1>8. call'.todo \union call'.done = call.todo \union call.done
    BY <1>1, <1>5
<1>9. CrewOwes'
    BY <1>2, <1>3, <1>4, <1>5, <1>7, <1>8
       DEF CrewOwes, SubclassesAsBefore, subclassTables
<1> QED
    BY <1>4, <1>5, <1>9 DEF AtomicInv, Removing

LEMMA StripOwes ==
    ASSUME CommitsInv, AtomicInv, faults = 0, NEW s \in Sailor, Strip(s)
    PROVE  AtomicInv'
<1>1. /\ call.at = "strip" /\ s \in call.todo
      /\ voyageCount' = Decrement(voyageCount, {s})
      /\ Goto([call EXCEPT !.at = "rows", !.todo = @ \ {s}, !.who = {s},
                           !.rows = RowsOf(subclasses[call.log], {s})])
      /\ UNCHANGED <<hosted, hostedCount, voyages, subclassTables>>
    BY DEF Strip
<1>2. RemoveOwes /\ call.log \in Log /\ Begun
    BY <1>1, AtomicTypes DEF AtomicInv, Removing
<1>3. /\ Begun' /\ UNCHANGED before
      /\ call' = [call EXCEPT !.at = "rows", !.todo = @ \ {s}, !.who = {s},
                              !.rows = RowsOf(subclasses[call.log], {s})]
    BY <1>1, StillBegun
<1>4. /\ call'.at = "rows" /\ call'.log = call.log /\ call'.todo = call.todo \ {s}
      /\ call'.who = {s} /\ call'.rows = RowsOf(subclasses[call.log], {s})
    BY <1>3, AtomicTypes DEF CallRecord
<1>5. s \notin Gone /\ Gone' = Gone \union {s} /\ Gone' \ {s} = Gone
    BY <1>1, <1>2, <1>3, <1>4 DEF Gone, RemoveOwes
<1>6. call.who = {} /\ call.rows = {}
    BY <1>1, <1>2 DEF RemoveOwes, OldRows, RowsOf
<1>7. subclasses[call.log] = before.subclasses[call.log] \ OldRows(Gone)
    <2>1. before.subclasses \in [Log -> SUBSET Row] /\ Gone \ call.who = Gone
        BY <1>2, <1>6 DEF Begun, TablesRecord
    <2> QED
        BY <1>2, <2>1 DEF RemoveOwes
<1>8. call'.rows = OldRows({s})
    BY <1>4, <1>5, <1>7 DEF OldRows, RowsOf
<1>9. /\ OldRows(call.who)' = OldRows({s})
      /\ OldRows(Gone \ call.who)' = OldRows(Gone)
      /\ OldRows(Gone)' \ call'.rows = OldRows(Gone)
    BY <1>3, <1>4, <1>5, <1>8 DEF OldRows, RowsOf
<1>10. voyageCount' = Decrement(before.voyageCount, Gone \union {s})
    <2>1. before.voyageCount \in [Sailor -> Nat] /\ Gone \intersect {s} = {}
        BY <1>2, <1>5 DEF Begun, TablesRecord
    <2> QED
        BY <1>1, <1>2, <2>1, DecrementTwice DEF RemoveOwes
<1>11. RemoveOwes'
    <2>1. points' = Decrement(before'.points, OldRows(Gone)' \ call'.rows)
        BY <1>1, <1>2, <1>3, <1>6, <1>9 DEF RemoveOwes, subclassTables
    <2>2. subclasses' = [before'.subclasses EXCEPT
                            ![call'.log] = @ \ OldRows(Gone \ call.who)']
        <3>1. Gone \ call.who = Gone /\ subclasses' = subclasses
            BY <1>1, <1>6 DEF subclassTables
        <3>2. subclasses = [before.subclasses EXCEPT ![call.log] = @ \ OldRows(Gone)]
            BY <1>2, <3>1 DEF RemoveOwes
        <3> QED
            BY <1>3, <1>4, <1>9, <3>1, <3>2
    <2>3. /\ hosted' = before'.hosted /\ voyages' = before'.voyages
          /\ hostedCount' = before'.hostedCount
          /\ call'.todo \subseteq before'.voyages[call'.log]
        BY <1>1, <1>2, <1>3, <1>4 DEF RemoveOwes
    <2>4. call'.who \subseteq Gone' /\ call'.rows \subseteq OldRows(call.who)'
        BY <1>4, <1>5, <1>8, <1>9
    <2> QED
        BY <1>3, <1>4, <1>5, <1>10, <2>1, <2>2, <2>3, <2>4 DEF RemoveOwes
<1> QED
    BY <1>3, <1>4, <1>11 DEF AtomicInv, Removing

LEMMA TakePointsOwes ==
    ASSUME CommitsInv, AtomicInv, faults = 0, ~Fault, NEW r \in Row, TakePoints(r)
    PROVE  AtomicInv'
<1>1. /\ call.at \in {"rows", "erase"} /\ r \in call.rows
      /\ points' = Decrement(points, {r})
      /\ Goto([call EXCEPT !.rows = @ \ {r}])
      /\ UNCHANGED <<voyageTables, subclasses>>
    BY DEF TakePoints
<1>2. Begun /\ call.log \in Log
    BY <1>1, AtomicTypes DEF AtomicInv
<1>3. Begun' /\ UNCHANGED before /\ call' = [call EXCEPT !.rows = @ \ {r}]
    BY <1>1, StillBegun
<1>4. /\ call'.at = call.at /\ call'.log = call.log /\ call'.todo = call.todo
      /\ call'.who = call.who /\ call'.rows = call.rows \ {r}
    BY <1>3, AtomicTypes DEF CallRecord
<1>5. before.points \in [Row -> Nat]
    BY <1>2 DEF Begun, TablesRecord
<1>6. CASE call.at = "rows"
    <2>1. RemoveOwes
        BY <1>6 DEF AtomicInv, Removing
    <2>2. Gone' = Gone /\ \A w : OldRows(w)' = OldRows(w)
        BY <1>3, <1>4 DEF Gone, OldRows
    <2> DEFINE taken == OldRows(Gone) \ call.rows
    <2>3. r \in OldRows(Gone) /\ taken \intersect {r} = {}
          /\ OldRows(Gone) \ call'.rows = taken \union {r}
        BY <1>1, <1>4, <2>1 DEF RemoveOwes, OldRows, RowsOf
    <2>4. points = Decrement(before.points, taken)
        BY <2>1 DEF RemoveOwes
    <2> HIDE DEF taken
    <2>5. points' = Decrement(before.points, taken \union {r})
        BY <1>1, <1>5, <2>3, <2>4, DecrementTwice
    <2>6. RemoveOwes'
        <3>1. points' = Decrement(before'.points, OldRows(Gone)' \ call'.rows)
            BY <1>3, <2>2, <2>3, <2>5
        <3>2. OldRows(call.who)' = OldRows(call.who)
              /\ OldRows(Gone \ call.who)' = OldRows(Gone \ call.who)
            BY <1>4, <2>2 DEF OldRows
        <3> QED
            BY <1>1, <1>3, <1>4, <1>6, <2>1, <2>2, <3>1, <3>2 DEF RemoveOwes, voyageTables
    <2> QED
        BY <1>3, <1>4, <1>6, <2>6 DEF AtomicInv, Removing
<1>7. CASE call.at = "erase"
    <2>1. EraseOwes
        BY <1>7 DEF AtomicInv
    <2> DEFINE taken == before.subclasses[call.log] \ call.rows
    <2>2. taken \intersect {r} = {}
          /\ before'.subclasses[call'.log] \ call'.rows = taken \union {r}
        BY <1>1, <1>3, <1>4, <2>1 DEF EraseOwes
    <2>3. points = Decrement(before.points, taken)
        BY <2>1 DEF EraseOwes
    <2> HIDE DEF taken
    <2>4. points' = Decrement(before.points, taken \union {r})
        BY <1>1, <1>5, <2>2, <2>3, DecrementTwice
    <2>5. EraseOwes'
        BY <1>1, <1>3, <1>4, <2>1, <2>2, <2>4 DEF EraseOwes, VoyagesAsBefore, voyageTables
    <2> QED
        BY <1>3, <1>4, <1>7, <2>5 DEF AtomicInv, Removing
<1> QED
    BY <1>1, <1>6, <1>7

LEMMA DeleteRowsOwes ==
    ASSUME CommitsInv, AtomicInv, faults = 0, DeleteRows, call.at # "erase"
    PROVE  AtomicInv'
<1>1. /\ call.at = "rows" /\ call.rows = {}
      /\ subclasses' = [subclasses EXCEPT ![call.log] = @ \ RowsOf(@, call.who)]
      /\ Goto([call EXCEPT !.at = Participants(call.todo), !.who = {}])
      /\ UNCHANGED <<voyageTables, points, faults>>
    BY DEF DeleteRows
<1>2. Begun /\ call.log \in Log /\ RemoveOwes
    BY <1>1, AtomicTypes DEF AtomicInv, Removing
<1>3. /\ Begun' /\ UNCHANGED before
      /\ call' = [call EXCEPT !.at = Participants(call.todo), !.who = {}]
    BY <1>1, StillBegun
<1>4. /\ call'.at = Participants(call.todo) /\ call'.log = call.log
      /\ call'.todo = call.todo /\ call'.who = {} /\ call'.rows = {}
    BY <1>1, <1>3, AtomicTypes DEF CallRecord
<1>5. call'.at \in {"purge", "strip"} /\ (call'.at = "purge" => call'.todo = {})
    BY <1>4 DEF Participants
<1>6. Gone' = Gone /\ \A w : OldRows(w)' = OldRows(w)
    BY <1>3, <1>4 DEF Gone, OldRows
<1>7. before.subclasses \in [Log -> SUBSET Row]
    BY <1>2 DEF Begun, TablesRecord
<1>8. subclasses[call.log] = before.subclasses[call.log] \ OldRows(Gone \ call.who)
    BY <1>2, <1>7 DEF RemoveOwes
<1>9. subclasses[call.log] \ RowsOf(subclasses[call.log], call.who)
        = before.subclasses[call.log] \ OldRows(Gone)
    BY <1>2, <1>8 DEF RemoveOwes, OldRows, RowsOf
<1>10. subclasses' = [before.subclasses EXCEPT ![call.log] = @ \ OldRows(Gone)]
    <2>1. subclasses' = [subclasses EXCEPT
                            ![call.log] = before.subclasses[call.log] \ OldRows(Gone)]
        BY <1>1, <1>9
    <2>2. \A k \in Log \ {call.log} : subclasses[k] = before.subclasses[k]
        BY <1>2, <1>7 DEF RemoveOwes
    <2>3. subclasses \in [Log -> SUBSET Row]
        BY AtomicTypes DEF TablesTypeOK
    <2> QED
        BY <1>2, <1>7, <2>1, <2>2, <2>3
<1>11. RemoveOwes'
    <2>1. /\ OldRows(call.who)' = OldRows({})
          /\ OldRows(Gone \ call.who)' = OldRows(Gone)
          /\ OldRows(Gone)' = OldRows(Gone)
          /\ OldRows({}) = {}
        BY <1>4, <1>6 DEF OldRows, RowsOf
    <2>2. points' = Decrement(before'.points, OldRows(Gone)' \ call'.rows)
        BY <1>1, <1>2, <1>3, <1>4, <2>1 DEF RemoveOwes
    <2>3. subclasses' = [before'.subclasses EXCEPT
                            ![call'.log] = @ \ OldRows(Gone \ call.who)']
        BY <1>3, <1>4, <1>10, <2>1
    <2>4. /\ hosted' = before'.hosted /\ voyages' = before'.voyages
          /\ hostedCount' = before'.hostedCount
          /\ voyageCount' = Decrement(before'.voyageCount, Gone')
          /\ call'.todo \subseteq before'.voyages[call'.log]
        BY <1>1, <1>2, <1>3, <1>4, <1>6 DEF RemoveOwes, voyageTables
    <2>5. call'.who \subseteq Gone' /\ call'.rows \subseteq OldRows(call.who)'
        BY <1>4
    <2> QED
        BY <1>4, <1>5, <2>2, <2>3, <2>4, <2>5 DEF RemoveOwes
<1> QED
    BY <1>3, <1>5, <1>11 DEF AtomicInv, Removing

\* Where nothing is left to do for a participant, a step of the removal moves
\* on and touches one table.
LEMMA RemovalGoesOn ==
    ASSUME AtomicInv, CommitsInv, faults = 0, call.at \in {"purge", "unhost"},
           NEW at \in {"unhost", "drop"}, Goto([call EXCEPT !.at = at])
    PROVE  /\ RemoveOwes /\ Begun /\ Begun' /\ UNCHANGED before /\ call.log \in Log
           /\ call'.at = at /\ call'.log = call.log /\ call'.todo = {}
           /\ call.todo = {} /\ call'.who = call.who /\ call'.rows = call.rows
           /\ Gone' = Gone /\ OldRows(call.who)' = OldRows(call.who)
           /\ OldRows(Gone)' = OldRows(Gone)
           /\ OldRows(Gone \ call.who)' = OldRows(Gone \ call.who)
<1>1. RemoveOwes /\ Begun /\ call.log \in Log /\ call.todo = {}
    BY AtomicTypes DEF AtomicInv, Removing, RemoveOwes
<1>2. Begun' /\ UNCHANGED before /\ call' = [call EXCEPT !.at = at]
    BY StillBegun
<1>3. /\ call'.at = at /\ call'.log = call.log /\ call'.todo = {}
      /\ call'.who = call.who /\ call'.rows = call.rows
    BY <1>1, <1>2, AtomicTypes DEF CallRecord
<1> QED
    BY <1>1, <1>2, <1>3 DEF Gone, OldRows

LEMMA PurgeOwes ==
    ASSUME CommitsInv, AtomicInv, faults = 0, Purge
    PROVE  AtomicInv'
<1>1. /\ call.at = "purge"
      /\ voyages' = [voyages EXCEPT ![call.log] = {}]
      /\ Goto([call EXCEPT !.at = "unhost"])
      /\ UNCHANGED <<hosted, hostedCount, voyageCount, subclassTables>>
    BY DEF Purge
<1>2. call'.at = "unhost" /\ RemoveOwes'
    BY <1>1, RemovalGoesOn DEF RemoveOwes, subclassTables
<1> QED
    BY <1>1, <1>2, RemovalGoesOn DEF AtomicInv, Removing

LEMMA UnhostOwes ==
    ASSUME CommitsInv, AtomicInv, faults = 0, Unhost
    PROVE  AtomicInv'
<1>1. /\ call.at = "unhost"
      /\ hostedCount' = Decrement(hostedCount, {Author[call.log]})
      /\ Goto([call EXCEPT !.at = "drop"])
      /\ UNCHANGED <<hosted, voyages, voyageCount, subclassTables>>
    BY DEF Unhost
<1>2. call'.at = "drop" /\ RemoveOwes'
    BY <1>1, RemovalGoesOn DEF RemoveOwes, subclassTables
<1> QED
    BY <1>1, <1>2, RemovalGoesOn DEF AtomicInv, Removing

\* A row of a list was there already, or is inserted with its point.
LEMMA SavePointMoves ==
    ASSUME CommitsInv, AtomicInv, faults = 0, ~Fault, NEW r \in Row, SavePoint(r),
           call.log \in hosted
    PROVE  /\ call.log \in Log /\ Begun /\ SaveOwes /\ UNCHANGED before
           /\ UNCHANGED voyageTables
           /\ call' = None \/ call' = [call EXCEPT !.rows = @ \ {r}]
           /\ LET new == subclasses'[call.log] \ before.subclasses[call.log]
              IN /\ subclasses' = [before.subclasses EXCEPT ![call.log] = @ \union new]
                 /\ points' = Increment(before.points, new)
<1>1. call.at = "save" /\ UNCHANGED voyageTables
    BY DEF SavePoint
<1>2. call.log \in Log /\ Begun /\ SaveOwes
    BY <1>1, AtomicTypes DEF AtomicInv
<1>3. PICK next : /\ next = None \/ next = [call EXCEPT !.rows = @ \ {r}]
                  /\ Goto(next)
                  /\ IF r \in subclasses[call.log]
                     THEN UNCHANGED <<points, subclasses>>
                     ELSE /\ points' = Increment(points, {r})
                          /\ subclasses' = [subclasses EXCEPT ![call.log] = @ \union {r}]
    <2>1. [call EXCEPT !.rows = call.rows \ {r}] = [call EXCEPT !.rows = @ \ {r}]
        OBVIOUS
    <2> QED
        BY <2>1 DEF SavePoint
<1>4. /\ UNCHANGED before
      /\ call' = None \/ call' = [call EXCEPT !.rows = @ \ {r}]
    BY <1>3 DEF Goto
<1>5. CASE r \in subclasses[call.log]
    BY <1>1, <1>2, <1>3, <1>4, <1>5 DEF SaveOwes, New
<1>6. CASE r \notin subclasses[call.log]
    <2>1. /\ before.subclasses \in [Log -> SUBSET Row] /\ before.points \in [Row -> Nat]
          /\ subclasses \in [Log -> SUBSET Row]
        BY <1>2, AtomicTypes DEF Begun, TablesRecord, TablesTypeOK
    <2>2. before.subclasses[call.log] \union New = subclasses[call.log]
        BY <1>2, <2>1 DEF SaveOwes
    <2>3. subclasses'[call.log] = subclasses[call.log] \union {r}
        BY <1>2, <1>3, <1>6, <2>1
    <2>4. /\ r \notin before.subclasses[call.log] /\ r \notin New
          /\ subclasses'[call.log] \ before.subclasses[call.log] = New \union {r}
        BY <1>6, <2>2, <2>3 DEF New
    <2>5. points' = Increment(before.points, New \union {r})
        <3>1. points = Increment(before.points, New) /\ New \intersect {r} = {}
            BY <1>2, <2>4 DEF SaveOwes
        <3> QED
            BY <1>3, <1>6, <2>1, <3>1, IncrementTwice
    <2>6. subclasses' = [before.subclasses EXCEPT ![call.log] = @ \union (New \union {r})]
        <3>1. \A k \in Log \ {call.log} : subclasses[k] = before.subclasses[k]
            BY <1>2, <2>1 DEF SaveOwes
        <3>2. subclasses' = [subclasses EXCEPT ![call.log] = @ \union {r}]
            BY <1>3, <1>6
        <3> QED
            BY <1>2, <2>1, <2>2, <3>1, <3>2
    <2> QED
        BY <1>1, <1>2, <1>4, <2>4, <2>5, <2>6
<1> QED
    BY <1>5, <1>6

LEMMA SavePointOwes ==
    ASSUME CommitsInv, AtomicInv, faults = 0, ~Fault, NEW r \in Row, SavePoint(r)
    PROVE  AtomicInv'
<1>1. CASE call.log \notin hosted
    <2>1. subclasses[call.log] = {} /\ call.at = "save"
        BY <1>1, AtomicTypes DEF CommitsInv, ForeignKeys, SavePoint
    <2>2. call' = None
        BY <1>1, <2>1 DEF SavePoint, Goto, Refused
    <2> QED
        BY <2>2, NoneTypes DEF AtomicInv
<1>2. CASE call.log \in hosted
    <2>1. CASE call' = None
        BY <2>1, NoneTypes DEF AtomicInv
    <2>2. CASE call' = [call EXCEPT !.rows = @ \ {r}]
        <3>1. call'.at = "save" /\ call'.log = call.log
            BY <2>2, AtomicTypes DEF SavePoint, CallRecord
        <3>2. UNCHANGED before /\ Begun'
            BY <1>2, SavePointMoves DEF Begun
        <3>3. SaveOwes'
            BY <1>2, <3>1, <3>2, SavePointMoves
               DEF SaveOwes, VoyagesAsBefore, voyageTables, New
        <3> QED
            BY <3>1, <3>2, <3>3 DEF AtomicInv, Removing
    <2> QED
        BY <1>2, <2>1, <2>2, SavePointMoves
<1> QED
    BY <1>1, <1>2

\* The end of a call leaves nothing owed.
LEMMA EndOwes ==
    ASSUME call' = None
    PROVE  AtomicInv'
BY NoneTypes DEF AtomicInv

LEMMA AtomicKept ==
    ASSUME CommitsInv, AtomicInv, [Next]_vars
    PROVE  AtomicInv'
<1>1. CASE faults' # 0
    BY <1>1 DEF AtomicInv
<1>2. CASE faults' = 0
    <2>1. faults = 0 /\ ~Fault /\ UNCHANGED faults
        BY <1>2, NoFaultYet
    <2>2. CASE UNCHANGED vars
        BY <2>2 DEF vars, tables, AtomicInv, Begun, HostOwes, CrewOwes, RemoveOwes,
                    EraseOwes, SaveOwes, VoyagesAsBefore, SubclassesAsBefore, Gone,
                    OldRows, New, Removing
    <2>3. CASE BatchSave \/ Drop
        BY <2>3, EndOwes DEF BatchSave, Drop, Goto, Refused
    <2>4. CASE DeleteRows
        <3>1. call.at = "erase" => call' = None
            BY <2>4 DEF DeleteRows, Goto
        <3> QED
            BY <2>1, <2>4, <3>1, EndOwes, DeleteRowsOwes
    <2>5. ~Abort
        BY <2>1 DEF Abort
    <2> QED
        BY <2>1, <2>2, <2>3, <2>4, <2>5, NextCases, ProcessBegins, RemoveBegins,
           EraseBegins, SaveBegins, SaveHostedOwes, CreditOwes, StripOwes,
           TakePointsOwes, PurgeOwes, UnhostOwes, SavePointOwes
<1> QED
    BY <1>1, <1>2

\* The operators of the instance are those of LedgerTables.
LEMMA AtomicDefs ==
    /\ \A f, keys : Atomic!Increment(f, keys) = Increment(f, keys)
    /\ \A f, keys : Atomic!Decrement(f, keys) = Decrement(f, keys)
    /\ \A rows, sailors : Atomic!RowsOf(rows, sailors) = RowsOf(rows, sailors)
    /\ Atomic!Log = Log /\ Atomic!Row = Row
BY DEF Atomic!Increment, Atomic!Decrement, Atomic!RowsOf, Atomic!Log, Atomic!Row,
       Atomic!Decremented, Increment, Decrement, RowsOf, Log, Row, Decremented

LEMMA CallEnds ==
    ASSUME CommitsInv, faults = 0, UNCHANGED faults, call.at # "none", call' = None
    PROVE  Outside = before /\ Outside' = Tables'
BY AtomicTypes DEF Outside

\* A call that ends has made the whole step.
LEMMA BatchSaveEnds ==
    ASSUME CommitsInv, AtomicInv, faults = 0, BatchSave
    PROVE  Atomic!TablesNext
<1>1. /\ call.at = "crew" /\ call.todo = {}
      /\ voyages' = IF call.log \in hosted
                    THEN [voyages EXCEPT ![call.log] = @ \union call.done]
                    ELSE voyages
      /\ call' = None
      /\ UNCHANGED <<hosted, hostedCount, voyageCount, subclassTables, faults>>
    BY DEF BatchSave, Goto
<1>2. Outside = before /\ Outside' = Tables'
    BY <1>1, CallEnds
<1>3. CrewOwes /\ call.log \in Log /\ call.done \subseteq Sailor
    BY <1>1, AtomicTypes DEF AtomicInv
<1> DEFINE l == call.log
           m == call.done
<1>4. l \in Log /\ m \in SUBSET Sailor
    BY <1>3
<1>5. Cardinality(m) > 1 /\ l \notin before.hosted /\ before.voyages[l] = {}
    <2>1. call.todo \union call.done = m
        BY <1>1
    <2> QED
        BY <1>3, <2>1 DEF CrewOwes
<1>6. m \ before.voyages[l] = m
    BY <1>5
<1>7. /\ hosted' = before.hosted \union {l}
      /\ hostedCount' = Increment(before.hostedCount, {Author[l]})
      /\ voyages' = [before.voyages EXCEPT ![l] = @ \union m]
      /\ voyageCount' = Increment(before.voyageCount, m)
      /\ subclasses' = before.subclasses /\ points' = before.points
    BY <1>1, <1>3 DEF CrewOwes, SubclassesAsBefore, subclassTables
<1> HIDE DEF l, m
<1>8. ~Atomic!Skipped(l, m, before.hosted)
    <2>1. Cardinality(m) \in Nat
        BY <1>4, FS_Subset, FS_CardinalityType, LedgerAssumption
    <2>2. Atomic!Cardinality(m) = Cardinality(m)
        BY DEF Atomic!Cardinality, Cardinality
    <2> QED
        BY <1>5, <2>1, <2>2 DEF Atomic!Skipped
<1>9. Atomic!ProcessVoyageLog(l, m, Outside.hosted)
    BY <1>2, <1>5, <1>6, <1>7, <1>8, AtomicDefs DEF Atomic!ProcessVoyageLog, Tables
<1>10. UNCHANGED <<Outside.subclasses, Outside.points>>
    BY <1>2, <1>7 DEF Tables
<1> QED
    BY <1>4, <1>9, <1>10, AtomicDefs DEF Atomic!TablesNext, Atomic!subclassTables

LEMMA DropEnds ==
    ASSUME CommitsInv, AtomicInv, faults = 0, Drop
    PROVE  Atomic!TablesNext
<1>1. /\ call.at = "drop"
      /\ hosted' = IF subclasses[call.log] = {} THEN hosted \ {call.log} ELSE hosted
      /\ call' = None
      /\ UNCHANGED <<hostedCount, voyages, voyageCount, subclassTables, faults>>
    BY DEF Drop, Goto, Refused
<1>2. Outside = before /\ Outside' = Tables'
    BY <1>1, CallEnds
<1>3. RemoveOwes /\ call.log \in Log /\ call.log \in hosted /\ Begun
    BY <1>1, AtomicTypes DEF AtomicInv, Removing, CommitsInv, CallOK
<1> DEFINE l == call.log
           gone == RowsOf(before.subclasses[l], before.voyages[l])
<1>4. /\ call.todo = {} /\ call.who = {} /\ call.rows = {} /\ Gone = before.voyages[l]
      /\ OldRows(Gone \ call.who) = gone /\ OldRows(Gone) \ call.rows = gone
    BY <1>1, <1>3 DEF RemoveOwes, Gone, OldRows, RowsOf
<1>5. /\ l \in before.hosted
      /\ hostedCount' = Decrement(before.hostedCount, {Author[l]})
      /\ voyages' = [before.voyages EXCEPT ![l] = {}]
      /\ voyageCount' = Decrement(before.voyageCount, before.voyages[l])
      /\ subclasses' = [before.subclasses EXCEPT ![l] = @ \ gone]
      /\ points' = Decrement(before.points, gone)
    BY <1>1, <1>3, <1>4 DEF RemoveOwes, subclassTables
<1>6. subclasses' = [before.subclasses EXCEPT ![l] = before.subclasses[l] \ gone]
    BY <1>5
<1>7. hosted' = IF before.subclasses[l] \ gone = {} THEN before.hosted \ {l}
                                                    ELSE before.hosted
    <2>1. subclasses[l] = before.subclasses[l] \ gone
        BY <1>1, <1>3, <1>6 DEF Begun, TablesRecord, subclassTables
    <2> QED
        BY <1>1, <1>3, <2>1 DEF RemoveOwes
<1>8. l \in Log
    BY <1>3
<1> HIDE DEF l
<1>9. Atomic!RemoveVoyageLogData(l)
    BY <1>2, <1>5, <1>6, <1>7, AtomicDefs
       DEF Atomic!RemoveVoyageLogData, Atomic!ParticipantRows, Atomic!OtherRows, Tables
<1> QED
    BY <1>8, <1>9, AtomicDefs DEF Atomic!TablesNext

LEMMA EraseEnds ==
    ASSUME CommitsInv, AtomicInv, faults = 0, DeleteRows, call.at = "erase"
    PROVE  Atomic!TablesNext
<1>1. /\ call.rows = {}
      /\ subclasses' = [subclasses EXCEPT ![call.log] = @ \ RowsOf(@, call.who)]
      /\ call' = None
      /\ UNCHANGED <<voyageTables, points, faults>>
    BY DEF DeleteRows, Goto
<1>2. Outside = before /\ Outside' = Tables'
    BY <1>1, CallEnds
<1>3. EraseOwes /\ call.log \in Log /\ Begun
    BY <1>1, AtomicTypes DEF AtomicInv
<1> DEFINE l == call.log
<1>4. before.subclasses \in [Log -> SUBSET Row]
    BY <1>3 DEF Begun, TablesRecord
<1>5. RowsOf(subclasses[l], call.who) = subclasses[l] /\ subclasses = before.subclasses
    BY <1>3, <1>4 DEF EraseOwes, RowsOf, Row
<1>6. subclasses' = [before.subclasses EXCEPT ![l] = {}]
    BY <1>1, <1>3, <1>4, <1>5
<1>7. points' = Decrement(before.points, before.subclasses[l])
    <2>1. before.subclasses[l] \ call.rows = before.subclasses[l]
        BY <1>1
    <2> QED
        BY <1>1, <1>3, <2>1 DEF EraseOwes
<1>8. /\ hosted' = before.hosted /\ voyages' = before.voyages
      /\ hostedCount' = before.hostedCount /\ voyageCount' = before.voyageCount
    BY <1>1, <1>3 DEF EraseOwes, VoyagesAsBefore, voyageTables
<1>9. l \in Log
    BY <1>3
<1> HIDE DEF l
<1>10. Atomic!DeleteAllSubclasses(l)
    BY <1>2, <1>6, <1>7, AtomicDefs DEF Atomic!DeleteAllSubclasses, Tables
<1>11. UNCHANGED Atomic!voyageTables
    BY <1>2, <1>8 DEF Atomic!voyageTables, Tables
<1> QED
    BY <1>9, <1>10, <1>11, AtomicDefs DEF Atomic!TablesNext

LEMMA SaveEnds ==
    ASSUME CommitsInv, AtomicInv, faults = 0, ~Fault, UNCHANGED faults,
           NEW r \in Row, SavePoint(r), call' = None
    PROVE  Atomic!TablesNext
<1>1. call.at = "save" /\ UNCHANGED voyageTables /\ r \in call.rows
    BY DEF SavePoint
<1>2. Outside = before /\ Outside' = Tables'
    BY <1>1, CallEnds
<1>3. SaveOwes /\ call.log \in Log /\ Begun
    BY <1>1, AtomicTypes DEF AtomicInv
<1> DEFINE l == call.log
<1>4. /\ before.subclasses \in [Log -> SUBSET Row] /\ before.points \in [Row -> Nat]
      /\ subclasses \in [Log -> SUBSET Row] /\ subclasses' \in [Log -> SUBSET Row]
    <2>1. subclasses' \in [Log -> SUBSET Row]
        BY <1>3, AtomicTypes DEF SavePoint, TablesTypeOK
    <2> QED
        BY <1>3, <2>1, AtomicTypes DEF Begun, TablesRecord, TablesTypeOK
<1>5. /\ hosted' = before.hosted /\ voyages' = before.voyages
      /\ hostedCount' = before.hostedCount /\ voyageCount' = before.voyageCount
    BY <1>1, <1>3 DEF SaveOwes, VoyagesAsBefore, voyageTables
<1>6. UNCHANGED Atomic!voyageTables
    BY <1>2, <1>5 DEF Atomic!voyageTables, Tables
<1>7. l \in Log
    BY <1>3
<1>8. CASE l \in hosted
    <2> DEFINE new == subclasses'[l] \ before.subclasses[l]
    <2>1. /\ subclasses' = [before.subclasses EXCEPT ![l] = @ \union new]
          /\ points' = Increment(before.points, new)
        BY <1>8, SavePointMoves
    <2>2. new \in SUBSET Row /\ new \ before.subclasses[l] = new
        BY <1>4, <1>7
    <2>3. l \in hosted'
        BY <1>1, <1>8 DEF voyageTables
    <2> HIDE DEF new, l
    <2>4. Atomic!SaveSubclasses(l, new)
        BY <1>2, <2>1, <2>2, <2>3, AtomicDefs DEF Atomic!SaveSubclasses, Tables
    <2> QED
        BY <1>6, <1>7, <2>2, <2>4, AtomicDefs DEF Atomic!TablesNext
<1>9. CASE l \notin hosted
    <2>1. subclasses[l] = {}
        BY <1>7, <1>9 DEF CommitsInv, ForeignKeys
    <2>2. before.subclasses[l] = {} /\ New = {}
        BY <1>3, <1>4, <1>7, <2>1 DEF SaveOwes, New
    <2>3. subclasses = before.subclasses /\ points = before.points
        <3>1. points = before.points
            BY <1>3, <1>4, <2>2, CountNothing DEF SaveOwes
        <3>2. subclasses = before.subclasses
            BY <1>3, <1>4, <2>2 DEF SaveOwes
        <3> QED
            BY <3>1, <3>2
    <2>4. points' = Increment(points, {r}) /\ subclasses' = subclasses
        BY <1>9, <2>1 DEF SavePoint
    <2>5. l \notin hosted' /\ {r} \in SUBSET Row /\ {r} \ before.subclasses[l] = {r}
        BY <1>1, <1>9, <2>2 DEF voyageTables
    <2> HIDE DEF l
    <2>6. Atomic!SaveSubclasses(l, {r})
        BY <1>2, <2>3, <2>4, <2>5, AtomicDefs DEF Atomic!SaveSubclasses, Tables
    <2> QED
        BY <1>6, <1>7, <2>5, <2>6, AtomicDefs DEF Atomic!TablesNext
<1> QED
    BY <1>8, <1>9

\* From outside a call is seen when it ends, if nothing has failed, and no
\* step is seen once something has.
LEMMA StepIsAtomic ==
    ASSUME CommitsInv, AtomicInv, [Next]_vars
    PROVE  Atomic!TablesNext \/ Outside' = Outside
<1>1. CASE faults' # 0
    <2>1. CASE faults # 0
        <3>1. \A c : Begin(c) => UNCHANGED before
            BY <2>1 DEF Begin
        <3>2. UNCHANGED before
            <4>1. CASE \E l \in Log, mentions \in Mentions : Process(l, mentions)
                BY <3>1, <4>1 DEF Process
            <4>2. CASE \E l \in Log : Remove(l)
                BY <3>1, <4>2 DEF Remove
            <4>3. CASE \E l \in Log : Erase(l)
                BY <3>1, <4>3 DEF Erase
            <4>4. CASE \E l \in Log, rows \in SUBSET Row : Save(l, rows)
                BY <3>1, <4>4 DEF Save
            <4>5. CASE \E c : Goto(c)
                BY <4>5 DEF Goto
            <4>6. CASE UNCHANGED vars
                BY <4>6 DEF vars
            <4>7. CASE \E kind : Refused(kind)
                BY <4>7 DEF Refused
            <4> QED
                BY <4>1, <4>2, <4>3, <4>4, <4>5, <4>6, <4>7, NextCases
                   DEF SaveHosted, BatchSave, DeleteRows, Purge, Unhost, Drop,
                       Abort, Credit, Strip, TakePoints, SavePoint
        <3> QED
            BY <1>1, <2>1, <3>2 DEF Outside
    <2>2. CASE faults = 0
        <3>1. Fault
            BY <1>1, <2>2, FaultOrNot
        <3>2. call.at # "none" /\ UNCHANGED before
            BY <1>1, <2>2, NextCases, AtomicTypes
               DEF Process, Remove, Erase, Save, Begin, SaveHosted, BatchSave, DeleteRows,
                   Purge, Unhost, Drop, Abort, Credit, Strip, TakePoints, SavePoint,
                   Goto, Refused, vars
        <3> QED
            BY <1>1, <3>2, AtomicTypes DEF Outside
    <2> QED
        BY <2>1, <2>2
<1>2. CASE faults' = 0
    <2>1. faults = 0 /\ ~Fault /\ UNCHANGED faults
        BY <1>2, NoFaultYet
    <2>2. ASSUME NEW c, Begin(c) PROVE Outside' = Outside
        BY <2>1, <2>2, AtomicTypes DEF Begin, Outside, Tables, tables
    <2>3. CASE call.at # "none" /\ call'.at # "none" /\ \E c : Goto(c)
        BY <2>1, <2>3, AtomicTypes, NoneTypes DEF Outside, Goto
    <2>4. CASE \E l \in Log, mentions \in Mentions : Process(l, mentions)
        BY <2>2, <2>4 DEF Process
    <2>5. CASE \E l \in Log : Remove(l)
        BY <2>2, <2>5 DEF Remove
    <2>6. CASE \E l \in Log : Erase(l)
        BY <2>2, <2>6 DEF Erase
    <2>7. CASE \E l \in Log, rows \in SUBSET Row : Save(l, rows)
        BY <2>2, <2>7 DEF Save
    <2>8. CASE SaveHosted
        BY <2>3, <2>8, AtomicTypes DEF SaveHosted, Goto, CallRecord
    <2>9. CASE Purge \/ Unhost
        BY <2>3, <2>9, AtomicTypes DEF Purge, Unhost, Goto, CallRecord
    <2>10. CASE \E s \in Sailor : Credit(s)
        BY <2>3, <2>10, AtomicTypes DEF Credit, Goto, CallRecord
    <2>11. CASE \E s \in Sailor : Strip(s)
        BY <2>3, <2>11, AtomicTypes DEF Strip, Goto, CallRecord
    <2>12. CASE \E r \in Row : TakePoints(r)
        BY <2>3, <2>12, AtomicTypes DEF TakePoints, Goto, CallRecord
    <2>13. CASE DeleteRows
        <3>1. CASE call.at = "erase"
            BY <2>1, <2>13, <3>1, EraseEnds
        <3>2. CASE call.at # "erase"
            BY <2>3, <2>13, <3>2, AtomicTypes DEF DeleteRows, Goto, CallRecord, Participants
        <3> QED
            BY <3>1, <3>2
    <2>14. CASE BatchSave
        BY <2>1, <2>14, BatchSaveEnds
    <2>15. CASE Drop
        BY <2>1, <2>15, DropEnds
    <2>16. CASE \E r \in Row : SavePoint(r)
        <3>1. PICK r \in Row : SavePoint(r)
            BY <2>16
        <3>2. CASE call' = None
            BY <2>1, <3>1, <3>2, SaveEnds
        <3>3. CASE call' # None
            <4>1. PICK c : Goto(c) /\ (c = None \/ c = [call EXCEPT !.rows = call.rows \ {r}])
                BY <3>1, <3>3 DEF SavePoint, Refused
            <4> QED
                BY <2>3, <3>1, <3>3, <4>1, AtomicTypes DEF SavePoint, Goto, Refused, CallRecord
        <3> QED
            BY <3>2, <3>3
    <2>17. CASE UNCHANGED vars
        BY <2>17 DEF vars, tables, Outside, Tables
    <2>18. ~Abort
        BY <2>1 DEF Abort
    <2> QED
        BY <2>4, <2>5, <2>6, <2>7, <2>8, <2>9, <2>10, <2>11, <2>12, <2>13, <2>14, <2>15,
           <2>16, <2>17, <2>18, NextCases
<1> QED
    BY <1>1, <1>2

\* Until the first fault each call of the repositories, however many commits
\* it takes, is one step of LedgerTables to whoever looks between calls: the
\* handlers of VoyageLedger may be built from those steps.
THEOREM CallsAreAtomic == Spec => ImplementsTables
<1>1. Init => CommitsInv /\ AtomicInv /\ Atomic!TablesInit
    <2> SUFFICES ASSUME Init
                 PROVE  CommitsInv /\ AtomicInv /\ Atomic!TablesInit
        OBVIOUS
    <2>1. CommitsInv /\ AtomicInv
        BY CommitsInitially, NoneTypes DEF Init, AtomicInv
    <2>2. Outside = Tables
        BY DEF Init, Outside
    <2> QED
        BY <2>1, <2>2, AtomicDefs DEF Init, TablesInit, Atomic!TablesInit, Tables
<1>2. CommitsInv /\ AtomicInv /\ [Next]_vars => CommitsInv' /\ AtomicInv'
    BY AtomicKept, TypesKept, KeysKept, HostedKept, VoyagesKept, PointsKept,
       ShortKept, SpareKept, RefusedTypes
       DEF CommitsInv
<1>3. CommitsInv /\ AtomicInv /\ [Next]_vars => [Atomic!TablesNext]_(Atomic!tables)
    BY StepIsAtomic DEF Atomic!tables
<1> QED
    BY <1>1, <1>2, <1>3, PTL DEF Spec, ImplementsTables, Atomic!TablesSpec
=============================================================================
