------------------------- MODULE LedgerTablesProofs -------------------------
(***************************************************************************)
(* What process_voyage_log, remove_voyage_log_data and the methods of      *)
(* SubclassRepository preserve, for any number of logs, sailors and        *)
(* subclasses.  Module VoyageLedgerProofs applies these lemmas to the      *)
(* handlers.                                                               *)
(***************************************************************************)
EXTENDS LedgerTables, FiniteSetTheorems, TLAPS

-----------------------------------------------------------------------------
(***************************************************************************)
(* Counting.                                                               *)
(***************************************************************************)

\* A set of logs is finite and has a natural number of elements.
LEMMA LogsFinite ==
    ASSUME NEW S \in SUBSET Log
    PROVE  IsFiniteSet(S) /\ Cardinality(S) \in Nat
<1>1. IsFiniteSet(1 .. MaxLog)
    BY FS_Interval, LedgerAssumption
<1>2. IsFiniteSet(S)
    BY <1>1, FS_Subset DEF Log
<1> QED
    BY <1>2, FS_CardinalityType

\* A message mentions a natural number of sailors.
LEMMA SailorsFinite ==
    ASSUME NEW S \in SUBSET Sailor
    PROVE  Cardinality(S) \in Nat
BY LedgerAssumption, FS_Subset, FS_CardinalityType

\* Adding a log to a set of logs, and taking one out.
LEMMA AddLog ==
    ASSUME NEW S \in SUBSET Log, NEW l \in Log, l \notin S
    PROVE  Cardinality(S \union {l}) = Cardinality(S) + 1
BY LogsFinite, FS_AddElement

LEMMA RemoveLog ==
    ASSUME NEW S \in SUBSET Log, NEW l \in S
    PROVE  /\ Cardinality(S) > 0
           /\ Cardinality(S \ {l}) = Cardinality(S) - 1
<1>1. IsFiniteSet(S) /\ Cardinality(S) \in Nat
    BY LogsFinite
<1>2. Cardinality(S) # 0
    BY <1>1, FS_EmptySet
<1>3. Cardinality(S \ {l}) = Cardinality(S) - 1
    BY <1>1, FS_RemoveElement
<1> QED
    BY <1>1, <1>2, <1>3

\* Counters stay natural numbers.
LEMMA CounterTypes ==
    ASSUME NEW K, NEW counter \in [K -> Nat], NEW keys
    PROVE  /\ Increment(counter, keys) \in [K -> Nat]
           /\ Decrement(counter, keys) \in [K -> Nat]
BY DEF Increment, Decrement, Decremented

\* Two updates of a counter, of different keys, are one.
LEMMA IncrementTwice ==
    ASSUME NEW S, NEW f \in [S -> Nat], NEW A, NEW B, A \intersect B = {}
    PROVE  Increment(Increment(f, A), B) = Increment(f, A \union B)
BY DEF Increment

LEMMA DecrementTwice ==
    ASSUME NEW S, NEW f \in [S -> Nat], NEW A, NEW B, A \intersect B = {}
    PROVE  Decrement(Decrement(f, A), B) = Decrement(f, A \union B)
BY DEF Decrement, Decremented

LEMMA CountNothing ==
    ASSUME NEW S, NEW f \in [S -> Nat]
    PROVE  Increment(f, {}) = f /\ Decrement(f, {}) = f
BY DEF Increment, Decrement

-----------------------------------------------------------------------------
(***************************************************************************)
(* Types.                                                                  *)
(***************************************************************************)
VoyageTypes ==
    /\ hosted \in SUBSET Log
    /\ voyages \in [Log -> SUBSET Sailor]
    /\ hostedCount \in [Sailor -> Nat]
    /\ voyageCount \in [Sailor -> Nat]

SubclassTypes ==
    /\ subclasses \in [Log -> SUBSET Row]
    /\ points \in [Row -> Nat]

LEMMA TypesSplit == TablesTypeOK <=> VoyageTypes /\ SubclassTypes
BY DEF TablesTypeOK, VoyageTypes, SubclassTypes

LEMMA ProcessTypes ==
    ASSUME NEW l \in Log, NEW mentions \in SUBSET Sailor, NEW seen,
           VoyageTypes, ProcessVoyageLog(l, mentions, seen)
    PROVE  VoyageTypes'
<1>1. CASE Skipped(l, mentions, seen)
    BY <1>1 DEF ProcessVoyageLog, VoyageTypes, voyageTables
<1>2. CASE ~Skipped(l, mentions, seen)
    <2> DEFINE participants == mentions \ voyages[l]
    <2>1. /\ hosted' = hosted \union {l}
          /\ hostedCount' = IF l \in hosted THEN hostedCount
                            ELSE Increment(hostedCount, {Author[l]})
          /\ voyages' = [voyages EXCEPT ![l] = @ \union participants]
          /\ voyageCount' = Increment(voyageCount, participants)
        BY <1>2 DEF ProcessVoyageLog
    <2>2. hostedCount' \in [Sailor -> Nat] /\ voyageCount' \in [Sailor -> Nat]
        BY <2>1, CounterTypes DEF VoyageTypes
    <2> QED
        BY <2>1, <2>2 DEF VoyageTypes
<1> QED
    BY <1>1, <1>2

LEMMA RemoveTypes ==
    ASSUME NEW l, VoyageTypes, SubclassTypes, RemoveVoyageLogData(l)
    PROVE  VoyageTypes' /\ SubclassTypes'
<1>1. CASE l \notin hosted
    BY <1>1 DEF RemoveVoyageLogData, VoyageTypes, SubclassTypes, tables
<1>2. CASE l \in hosted
    <2>1. /\ voyageCount' = Decrement(voyageCount, voyages[l])
          /\ voyages' = [voyages EXCEPT ![l] = {}]
          /\ points' = Decrement(points, ParticipantRows(l))
          /\ subclasses' = [subclasses EXCEPT ![l] = OtherRows(l)]
          /\ hostedCount' = Decrement(hostedCount, {Author[l]})
          /\ hosted' = IF OtherRows(l) = {} THEN hosted \ {l} ELSE hosted
        BY <1>2 DEF RemoveVoyageLogData
    <2>2. /\ voyageCount' \in [Sailor -> Nat]
          /\ hostedCount' \in [Sailor -> Nat]
          /\ points' \in [Row -> Nat]
        BY <2>1, CounterTypes DEF VoyageTypes, SubclassTypes
    <2>3. OtherRows(l) \subseteq subclasses[l]
        BY DEF OtherRows
    <2> QED
        BY <1>2, <2>1, <2>2, <2>3 DEF VoyageTypes, SubclassTypes
<1> QED
    BY <1>1, <1>2

LEMMA SaveTypes ==
    ASSUME NEW l \in Log, NEW rows \in SUBSET Row,
           SubclassTypes, SaveSubclasses(l, rows)
    PROVE  SubclassTypes'
<1> DEFINE new == rows \ subclasses[l]
<1>1. points' \in [Row -> Nat]
    <2>1. \/ points' = Increment(points, new)
          \/ points' = points
          \/ \E first \in new : points' = Increment(points, {first})
        BY DEF SaveSubclasses
    <2>2. \A keys : Increment(points, keys) \in [Row -> Nat]
        BY CounterTypes DEF SubclassTypes
    <2> QED
        BY <2>1, <2>2 DEF SubclassTypes
<1>2. \/ subclasses' = [subclasses EXCEPT ![l] = @ \union new]
      \/ subclasses' = subclasses
    BY DEF SaveSubclasses
<1> QED
    BY <1>1, <1>2 DEF SubclassTypes

LEMMA DeleteAllTypes ==
    ASSUME NEW l, SubclassTypes, DeleteAllSubclasses(l)
    PROVE  SubclassTypes'
BY CounterTypes DEF DeleteAllSubclasses, SubclassTypes

-----------------------------------------------------------------------------
(***************************************************************************)
(* The counters of sailors.                                                *)
(***************************************************************************)

\* What the counters say relies on the foreign key: a log without a hosted
\* row has no voyages, so that its whole crew is new when it is recorded.
CountersOK ==
    /\ VoyageTypes
    /\ VoyageCountMatches
    /\ HostedNeverOverstated

\* A call of process_voyage_log credits each new participant with exactly the
\* log that is recorded, and the host with the row that is inserted.
LEMMA ProcessCounters ==
    ASSUME NEW l \in Log, NEW mentions \in SUBSET Sailor, NEW seen,
           CountersOK, ProcessVoyageLog(l, mentions, seen)
    PROVE  CountersOK'
<1>1. VoyageTypes /\ VoyageTypes'
    BY ProcessTypes DEF CountersOK
<1>2. CASE Skipped(l, mentions, seen)
    <2>1. UNCHANGED voyageTables
        BY <1>2 DEF ProcessVoyageLog
    <2> QED
        BY <1>1, <2>1 DEF CountersOK, VoyageCountMatches, VoyagesOf,
           HostedNeverOverstated, HostedBy, voyageTables
<1>3. CASE ~Skipped(l, mentions, seen)
    <2> DEFINE participants == mentions \ voyages[l]
    <2>1. /\ hosted' = hosted \union {l}
          /\ hostedCount' = IF l \in hosted THEN hostedCount
                            ELSE Increment(hostedCount, {Author[l]})
          /\ voyages' = [voyages EXCEPT ![l] = @ \union participants]
          /\ voyageCount' = Increment(voyageCount, participants)
        BY <1>3 DEF ProcessVoyageLog
    <2>2. VoyageCountMatches'
        <3> SUFFICES ASSUME NEW s \in Sailor
                     PROVE  voyageCount'[s] = Cardinality(VoyagesOf(s)')
            BY DEF VoyageCountMatches
        <3>1. voyageCount[s] = Cardinality(VoyagesOf(s))
            BY DEF CountersOK, VoyageCountMatches
        <3>2. CASE s \in participants
            <4>1. l \notin VoyagesOf(s) /\ VoyagesOf(s) \in SUBSET Log
                BY <3>2 DEF VoyagesOf
            <4>2. VoyagesOf(s)' = VoyagesOf(s) \union {l}
                BY <1>1, <2>1, <3>2 DEF VoyagesOf, VoyageTypes
            <4>3. voyageCount'[s] = voyageCount[s] + 1
                BY <1>1, <2>1, <3>2 DEF VoyageTypes, Increment
            <4> QED
                BY <3>1, <4>1, <4>2, <4>3, AddLog
        <3>3. CASE s \notin participants
            <4>1. VoyagesOf(s)' = VoyagesOf(s)
                BY <1>1, <2>1, <3>3 DEF VoyagesOf, VoyageTypes
            <4>2. voyageCount'[s] = voyageCount[s]
                BY <1>1, <2>1, <3>3 DEF VoyageTypes, Increment
            <4> QED
                BY <3>1, <4>1, <4>2
        <3> QED
            BY <3>2, <3>3
    <2>3. HostedNeverOverstated'
        <3> SUFFICES ASSUME NEW s \in Sailor
                     PROVE  hostedCount'[s] <= Cardinality(HostedBy(s)')
            BY DEF HostedNeverOverstated
        <3>1. hostedCount[s] <= Cardinality(HostedBy(s))
            BY DEF CountersOK, HostedNeverOverstated
        <3>2. HostedBy(s) \in SUBSET Log
            BY <1>1 DEF HostedBy, VoyageTypes
        <3>3. CASE l \notin hosted /\ Author[l] = s
            <4>1. l \notin HostedBy(s) /\ HostedBy(s)' = HostedBy(s) \union {l}
                BY <2>1, <3>3 DEF HostedBy
            <4>2. hostedCount'[s] = hostedCount[s] + 1
                BY <1>1, <2>1, <3>3 DEF VoyageTypes, Increment
            <4>3. Cardinality(HostedBy(s)) \in Nat /\ hostedCount[s] \in Nat
                BY <1>1, <3>2, LogsFinite DEF VoyageTypes
            <4> QED
                BY <3>1, <3>2, <4>1, <4>2, <4>3, AddLog
        <3>4. CASE ~(l \notin hosted /\ Author[l] = s)
            <4>1. HostedBy(s)' = HostedBy(s)
                BY <2>1, <3>4 DEF HostedBy
            <4>2. hostedCount'[s] = hostedCount[s]
                BY <1>1, <2>1, <3>4 DEF VoyageTypes, Increment
            <4> QED
                BY <3>1, <4>1, <4>2
        <3> QED
            BY <3>3, <3>4
    <2> QED
        BY <1>1, <2>2, <2>3 DEF CountersOK
<1> QED
    BY <1>2, <1>3

\* remove_voyage_log_data takes back one credit from each sailor whose row it
\* deletes, who has one to give; the host's counter goes down even when the
\* hosted row stays.
LEMMA RemoveCounters ==
    ASSUME NEW l \in Log, CountersOK, SubclassTypes, RemoveVoyageLogData(l)
    PROVE  CountersOK'
<1>1. VoyageTypes /\ VoyageTypes'
    BY RemoveTypes DEF CountersOK
<1>2. CASE l \notin hosted
    <2>1. UNCHANGED tables
        BY <1>2 DEF RemoveVoyageLogData
    <2> QED
        BY <1>1, <2>1 DEF CountersOK, VoyageCountMatches, VoyagesOf,
           HostedNeverOverstated, HostedBy, tables
<1>3. CASE l \in hosted
    <2>1. /\ voyageCount' = Decrement(voyageCount, voyages[l])
          /\ voyages' = [voyages EXCEPT ![l] = {}]
          /\ hostedCount' = Decrement(hostedCount, {Author[l]})
          /\ \/ hosted' = hosted \ {l}
             \/ hosted' = hosted
        BY <1>3 DEF RemoveVoyageLogData
    <2>2. VoyageCountMatches'
        <3> SUFFICES ASSUME NEW s \in Sailor
                     PROVE  voyageCount'[s] = Cardinality(VoyagesOf(s)')
            BY DEF VoyageCountMatches
        <3>1. /\ voyageCount[s] = Cardinality(VoyagesOf(s))
              /\ VoyagesOf(s) \in SUBSET Log
            BY DEF CountersOK, VoyageCountMatches, VoyagesOf
        <3>2. CASE s \in voyages[l]
            <4>1. l \in VoyagesOf(s)
                BY <3>2 DEF VoyagesOf
            <4>2. VoyagesOf(s)' = VoyagesOf(s) \ {l}
                BY <1>1, <2>1 DEF VoyagesOf, VoyageTypes
            <4>3. voyageCount'[s] = Decremented(voyageCount[s])
                BY <1>1, <2>1, <3>2 DEF VoyageTypes, Decrement
            <4>4. /\ Cardinality(VoyagesOf(s)) > 0
                  /\ Cardinality(VoyagesOf(s) \ {l})
                        = Cardinality(VoyagesOf(s)) - 1
                BY <3>1, <4>1, RemoveLog
            <4> QED
                BY <3>1, <4>2, <4>3, <4>4 DEF Decremented
        <3>3. CASE s \notin voyages[l]
            <4>1. VoyagesOf(s)' = VoyagesOf(s)
                BY <1>1, <2>1, <3>3 DEF VoyagesOf, VoyageTypes
            <4>2. voyageCount'[s] = voyageCount[s]
                BY <1>1, <2>1, <3>3 DEF VoyageTypes, Decrement
            <4> QED
                BY <3>1, <4>1, <4>2
        <3> QED
            BY <3>2, <3>3
    <2>3. HostedNeverOverstated'
        <3> SUFFICES ASSUME NEW s \in Sailor
                     PROVE  hostedCount'[s] <= Cardinality(HostedBy(s)')
            BY DEF HostedNeverOverstated
        <3>1. /\ hostedCount[s] <= Cardinality(HostedBy(s))
              /\ HostedBy(s) \in SUBSET Log
            BY <1>1 DEF CountersOK, HostedNeverOverstated, HostedBy,
               VoyageTypes
        <3>2. Cardinality(HostedBy(s)) \in Nat /\ hostedCount[s] \in Nat
            BY <1>1, <3>1, LogsFinite DEF VoyageTypes
        <3>3. CASE Author[l] = s
            <4>1. l \in HostedBy(s)
                BY <1>3, <3>3 DEF HostedBy
            <4>2. \/ HostedBy(s)' = HostedBy(s) \ {l}
                  \/ HostedBy(s)' = HostedBy(s)
                BY <2>1 DEF HostedBy
            <4>3. hostedCount'[s] = Decremented(hostedCount[s])
                BY <1>1, <2>1, <3>3 DEF VoyageTypes, Decrement
            <4>4. /\ Cardinality(HostedBy(s)) > 0
                  /\ Cardinality(HostedBy(s) \ {l})
                        = Cardinality(HostedBy(s)) - 1
                BY <3>1, <4>1, RemoveLog
            <4>5. hostedCount'[s] <= Cardinality(HostedBy(s)) - 1
                BY <3>1, <3>2, <4>3, <4>4 DEF Decremented
            <4>6. \/ Cardinality(HostedBy(s)') = Cardinality(HostedBy(s)) - 1
                  \/ Cardinality(HostedBy(s)') = Cardinality(HostedBy(s))
                <5>1. CASE HostedBy(s)' = HostedBy(s) \ {l}
                    BY <4>4, <5>1
                <5>2. CASE HostedBy(s)' = HostedBy(s)
                    BY <5>2
                <5> QED
                    BY <4>2, <5>1, <5>2
            <4>7. hostedCount'[s] \in Nat
                BY <1>1 DEF VoyageTypes
            <4> QED
                BY <3>2, <4>5, <4>6, <4>7
        <3>4. CASE Author[l] # s
            <4>1. HostedBy(s)' = HostedBy(s)
                BY <2>1, <3>4 DEF HostedBy
            <4>2. hostedCount'[s] = hostedCount[s]
                BY <1>1, <2>1, <3>4 DEF VoyageTypes, Decrement
            <4> QED
                BY <3>1, <4>1, <4>2
        <3> QED
            BY <3>3, <3>4
    <2> QED
        BY <1>1, <2>2, <2>3 DEF CountersOK
<1> QED
    BY <1>2, <1>3

-----------------------------------------------------------------------------
(***************************************************************************)
(* The foreign keys of voyages and subclasses.                             *)
(***************************************************************************)

\* Recording a log only adds a hosted row, and adds voyages below it.
LEMMA ProcessKeys ==
    ASSUME NEW l \in Log, NEW mentions \in SUBSET Sailor, NEW seen,
           VoyageTypes, ForeignKeys, ProcessVoyageLog(l, mentions, seen),
           UNCHANGED subclasses
    PROVE  ForeignKeys'
<1>1. CASE Skipped(l, mentions, seen)
    BY <1>1 DEF ProcessVoyageLog, ForeignKeys, voyageTables
<1>2. CASE ~Skipped(l, mentions, seen)
    BY <1>2 DEF ProcessVoyageLog, ForeignKeys, VoyageTypes
<1> QED
    BY <1>1, <1>2

\* Recording a log and then saving rows: nothing is inserted without the
\* hosted row that is there after the log was processed.
LEMMA ProcessSaveKeys ==
    ASSUME NEW l \in Log, NEW mentions \in SUBSET Sailor, NEW seen,
           NEW rows \in SUBSET Row,
           VoyageTypes, SubclassTypes, ForeignKeys,
           ProcessVoyageLog(l, mentions, seen), SaveSubclasses(l, rows)
    PROVE  ForeignKeys'
<1>1. \A k \in Log \ hosted' : k \notin hosted /\ voyages'[k] = {}
    <2>1. CASE Skipped(l, mentions, seen)
        BY <2>1 DEF ProcessVoyageLog, ForeignKeys, voyageTables
    <2>2. CASE ~Skipped(l, mentions, seen)
        BY <2>2 DEF ProcessVoyageLog, ForeignKeys, VoyageTypes
    <2> QED
        BY <2>1, <2>2
<1>2. \A k \in Log \ hosted' : subclasses'[k] = subclasses[k]
    BY DEF SaveSubclasses, SubclassTypes
<1> QED
    BY <1>1, <1>2 DEF ForeignKeys

\* The hosted row goes last, and only if no row refers to it any more.
LEMMA RemoveKeys ==
    ASSUME NEW l \in Log, VoyageTypes, SubclassTypes, ForeignKeys,
           RemoveVoyageLogData(l)
    PROVE  ForeignKeys'
<1>1. CASE l \notin hosted
    BY <1>1 DEF RemoveVoyageLogData, ForeignKeys, tables
<1>2. CASE l \in hosted
    BY <1>2 DEF RemoveVoyageLogData, ForeignKeys, VoyageTypes, SubclassTypes
<1> QED
    BY <1>1, <1>2
=============================================================================
